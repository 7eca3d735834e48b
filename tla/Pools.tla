-------------------------------- MODULE Pools --------------------------------
(***************************************************************************)
(* src/src/pools.rs: how many of a host's n addresses go to each pool, and *)
(* the role and the EHLO name an address gets from its place in the list.  *)
(*                                                                         *)
(* An operator named Faulty_X is X with a plausible mistake; no            *)
(* specification uses it.                                                  *)
(***************************************************************************)
EXTENDS Integers, Sequences

CONSTANT mail_hostname  \* MAIL_HOSTNAME, any name

AtLeastOne(n) == IF n >= 1 THEN n ELSE 1
Minus(a, b) == IF a >= b THEN a - b ELSE 0

\* [tx, mkt, canary] when the rounded shares do not add up to n: the excess
\* is taken from canary, then from tx; a shortfall is given to marketing.
Rebalance(n, tx, mkt, canary) ==
  LET used == tx + mkt + canary
      c    == Minus(canary, used - n)
      t    == AtLeastOne(Minus(tx, Minus(used - n, canary)))
  IN  IF used > n THEN [tx |-> t, mkt |-> n - t - c, canary |-> c]
      ELSE [tx |-> tx, mkt |-> mkt + (n - used), canary |-> canary]

split_counts(n) ==
  CASE n = 0 -> [tx |-> 0, mkt |-> 0, canary |-> 0]
    [] n = 1 -> [tx |-> 1, mkt |-> 0, canary |-> 0]
    [] n = 2 -> [tx |-> 1, mkt |-> 1, canary |-> 0]
    [] n = 3 -> [tx |-> 1, mkt |-> 1, canary |-> 1]
    [] n > 3 -> LET tx     == AtLeastOne((n * 20) \div 100)
                    canary == AtLeastOne((n * 10) \div 100)
                IN  Rebalance(n, tx, AtLeastOne(Minus(n, tx + canary)), canary)

\* assign_roles: the role of the i-th of n addresses, counted from 1.
RoleAt(i, n) ==
  CASE i <= split_counts(n).tx -> "transactional"
    [] i > split_counts(n).tx /\ i <= split_counts(n).tx + split_counts(n).mkt -> "marketing"
    [] i > split_counts(n).tx + split_counts(n).mkt -> "canary"

\* The names tx-{k}, news-out, mkt-{k}, out and out-{k} under the root domain:
\* one for each role and place in its pool, but for the first transactional.
PoolNames ==
  ({"transactional", "marketing", "canary"} \X (Nat \ {0})) \ {<<"transactional", 1>>}

\* The first transactional address has the name that MAIL_HOSTNAME gives the
\* server, which may be one of PoolNames.
ehlo_hostname(role, place) ==
  IF role = "transactional" /\ place = 1 THEN mail_hostname ELSE <<role, place>>

\* assign_roles: the place of the i-th of n addresses in its pool.
PlaceAt(i, n) ==
  LET s == split_counts(n) IN
  CASE i <= s.tx -> i
    [] i > s.tx /\ i <= s.tx + s.mkt -> i - s.tx
    [] i > s.tx + s.mkt -> i - s.tx - s.mkt

AssignedIp(address, role, place) ==
  [address |-> address, hostname |-> ehlo_hostname(role, place), role |-> role]

assign_roles(addresses) ==
  LET n == Len(addresses) IN
  [i \in 1 .. n |-> AssignedIp(addresses[i], RoleAt(i, n), PlaceAt(i, n))]

\* POOL_TX, POOL_MKT and POOL_CANARY.
assign_explicit(tx, mkt, canary) ==
  LET Members(role, s) == [i \in DOMAIN s |-> AssignedIp(s[i], role, i)]
  IN  Members("transactional", tx) \o Members("marketing", mkt) \o Members("canary", canary)

(***************************************************************************)
(* Every address is in exactly one pool, and none of the pools README's    *)
(* table names is left empty.                                              *)
(***************************************************************************)
SplitIsExact(n) ==
  LET s == split_counts(n) IN
  /\ s.tx + s.mkt + s.canary = n
  /\ s.tx >= 0 /\ s.mkt >= 0 /\ s.canary >= 0
  /\ n >= 1 => s.tx >= 1
  /\ n >= 2 => s.mkt >= 1
  /\ n >= 3 => s.canary >= 1
=============================================================================
