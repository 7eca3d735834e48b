----------------------------- MODULE PoolsProofs -----------------------------
(***************************************************************************)
(* split_counts on a host with any number of addresses.                    *)
(***************************************************************************)
EXTENDS Pools, TLAPS

(***************************************************************************)
(* From four addresses on, the two shares and the rest add up: the guards  *)
(* of Rebalance are never needed, and marketing gets at least half.        *)
(***************************************************************************)
LEMMA SharesFit ==
  ASSUME NEW n \in Nat, n > 3,
         NEW tx, tx = AtLeastOne((n * 20) \div 100),
         NEW canary, canary = AtLeastOne((n * 10) \div 100)
  PROVE  /\ tx \in Nat /\ canary \in Nat
         /\ tx >= 1 /\ canary >= 1 /\ 2 * (tx + canary) <= n
<1>1. /\ (n * 20) \div 100 \in Nat /\ 100 * ((n * 20) \div 100) <= n * 20
      /\ (n * 10) \div 100 \in Nat /\ 100 * ((n * 10) \div 100) <= n * 10
  OBVIOUS
<1> QED
  BY <1>1 DEF AtLeastOne

(***************************************************************************)
(* split_counts for four and more addresses, in closed form.               *)
(***************************************************************************)
LEMMA SplitOfMany ==
  ASSUME NEW n \in Nat, n > 3
  PROVE  \E tx, canary \in Nat \ {0} :
           /\ 2 * (tx + canary) <= n
           /\ split_counts(n) = [tx |-> tx, mkt |-> n - tx - canary, canary |-> canary]
<1> DEFINE tx     == AtLeastOne((n * 20) \div 100)
           canary == AtLeastOne((n * 10) \div 100)
<1>1. /\ tx \in Nat /\ canary \in Nat
      /\ tx >= 1 /\ canary >= 1 /\ 2 * (tx + canary) <= n
  BY SharesFit
<1>2. split_counts(n) = Rebalance(n, tx, AtLeastOne(Minus(n, tx + canary)), canary)
  BY DEF split_counts
<1> HIDE DEF tx, canary
<1>3. AtLeastOne(Minus(n, tx + canary)) = n - tx - canary
  BY <1>1 DEF AtLeastOne, Minus
<1>4. split_counts(n) = [tx |-> tx, mkt |-> n - tx - canary, canary |-> canary]
  BY <1>1, <1>2, <1>3 DEF Rebalance
<1> tx \in Nat \ {0} /\ canary \in Nat \ {0}
  BY <1>1
<1> WITNESS tx \in Nat \ {0}, canary \in Nat \ {0}
<1> QED
  BY <1>1, <1>4

LEMMA SplitType ==
  ASSUME NEW n \in Nat
  PROVE  split_counts(n) \in [tx : Nat, mkt : Nat, canary : Nat]
<1>1. CASE n <= 3
  <2>1. n = 0 \/ n = 1 \/ n = 2 \/ n = 3
    BY <1>1
  <2> QED
    BY <2>1 DEF split_counts
<1>2. CASE n > 3
  BY <1>2, SplitOfMany
<1> QED
  BY <1>1, <1>2

(***************************************************************************)
(* split_counts gives each of a host's addresses to exactly one pool and   *)
(* leaves no pool of README's table empty, whatever the number of          *)
(* addresses.                                                              *)
(***************************************************************************)
THEOREM EverySplitIsExact ==
  ASSUME NEW n \in Nat
  PROVE  SplitIsExact(n)
<1>1. CASE n <= 3
  <2>1. n = 0 \/ n = 1 \/ n = 2 \/ n = 3
    BY <1>1
  <2> QED
    BY <2>1 DEF SplitIsExact, split_counts
<1>2. CASE n > 3
  BY <1>2, SplitOfMany DEF SplitIsExact
<1> QED
  BY <1>1, <1>2

(***************************************************************************)
(* assign_roles gives each of n addresses one of the three roles, and the  *)
(* first is transactional: a host always has an IP in the pool that every  *)
(* stream may fall back on.                                                *)
(***************************************************************************)
THEOREM RolesAssigned ==
  ASSUME NEW n \in Nat \ {0}, NEW i \in 1 .. n
  PROVE  /\ RoleAt(i, n) \in {"transactional", "marketing", "canary"}
         /\ RoleAt(1, n) = "transactional"
<1> DEFINE s == split_counts(n)
<1>1. /\ s.tx \in Nat /\ s.mkt \in Nat
      /\ s.tx >= 1
  BY EverySplitIsExact, SplitType DEF SplitIsExact
<1>2. \A k \in 1 .. n : /\ k <= s.tx => RoleAt(k, n) = "transactional"
                        /\ k > s.tx /\ k <= s.tx + s.mkt => RoleAt(k, n) = "marketing"
                        /\ k > s.tx + s.mkt => RoleAt(k, n) = "canary"
  <2> HIDE DEF s
  <2> SUFFICES ASSUME NEW k \in 1 .. n
               PROVE  /\ k <= s.tx => RoleAt(k, n) = "transactional"
                      /\ k > s.tx /\ k <= s.tx + s.mkt => RoleAt(k, n) = "marketing"
                      /\ k > s.tx + s.mkt => RoleAt(k, n) = "canary"
    OBVIOUS
  <2>1. RoleAt(k, n) = CASE k <= s.tx -> "transactional"
                         [] k > s.tx /\ k <= s.tx + s.mkt -> "marketing"
                         [] k > s.tx + s.mkt -> "canary"
    BY DEF RoleAt, s
  <2> QED
    BY <1>1, <2>1
<1> QED
  <2> HIDE DEF s
  <2> QED
    BY <1>1, <1>2

-----------------------------------------------------------------------------
(* EHLO names *)

Roles == {"transactional", "marketing", "canary"}

Names == PoolNames \cup {mail_hostname}

Entries(A) == [address : A, hostname : Names, role : Roles]

LEMMA NameType ==
  ASSUME NEW role \in Roles, NEW place \in Nat \ {0}
  PROVE  ehlo_hostname(role, place) \in Names
  BY DEF ehlo_hostname, Names, PoolNames, Roles

LEMMA PlaceInPool ==
  ASSUME NEW n \in Nat \ {0}, NEW i \in 1 .. n
  PROVE  LET s == split_counts(n) IN
         \/ RoleAt(i, n) = "transactional" /\ PlaceAt(i, n) = i /\ i <= s.tx
         \/ RoleAt(i, n) = "marketing" /\ PlaceAt(i, n) = i - s.tx
              /\ i > s.tx /\ i <= s.tx + s.mkt
         \/ RoleAt(i, n) = "canary" /\ PlaceAt(i, n) = i - s.tx - s.mkt /\ i > s.tx + s.mkt
<1> DEFINE s == split_counts(n)
<1>1. s.tx \in Nat /\ s.mkt \in Nat
  BY SplitType
<1>2. RoleAt(i, n) = CASE i <= s.tx -> "transactional"
                       [] i > s.tx /\ i <= s.tx + s.mkt -> "marketing"
                       [] i > s.tx + s.mkt -> "canary"
  BY DEF RoleAt
<1>3. PlaceAt(i, n) = CASE i <= s.tx -> i
                        [] i > s.tx /\ i <= s.tx + s.mkt -> i - s.tx
                        [] i > s.tx + s.mkt -> i - s.tx - s.mkt
  BY DEF PlaceAt
<1> HIDE DEF s
<1>4. \/ RoleAt(i, n) = "transactional" /\ PlaceAt(i, n) = i /\ i <= s.tx
      \/ RoleAt(i, n) = "marketing" /\ PlaceAt(i, n) = i - s.tx
           /\ i > s.tx /\ i <= s.tx + s.mkt
      \/ RoleAt(i, n) = "canary" /\ PlaceAt(i, n) = i - s.tx - s.mkt /\ i > s.tx + s.mkt
  BY <1>1, <1>2, <1>3
<1> QED
  BY <1>4 DEF s

\* Two of the names that places and MAIL_HOSTNAME give are equal: the places
\* are, or one of them has MAIL_HOSTNAME, which is then a name of the pools.
LEMMA OnlyMailShared ==
  ASSUME NEW i, NEW j, i # j,
         NEW ri, NEW rj, NEW pi, NEW pj, ri # rj \/ pi # pj,
         NEW a, \/ i = 1 /\ a = mail_hostname
                \/ a = <<ri, pi>> /\ <<ri, pi>> \in PoolNames,
         NEW b, \/ j = 1 /\ b = mail_hostname
                \/ b = <<rj, pj>> /\ <<rj, pj>> \in PoolNames,
         a = b
  PROVE  mail_hostname \in PoolNames /\ 1 \in {i, j}
<1>1. <<ri, pi>> # <<rj, pj>>
  OBVIOUS
<1> HIDE DEF PoolNames
<1>2. CASE i = 1 /\ a = mail_hostname
  <2>1. b = <<rj, pj>> /\ <<rj, pj>> \in PoolNames
    BY <1>2
  <2> QED
    BY <1>2, <2>1
<1>3. CASE a = <<ri, pi>> /\ <<ri, pi>> \in PoolNames
  <2>1. ~ (b = <<rj, pj>>)
    BY <1>1, <1>3
  <2>2. j = 1 /\ b = mail_hostname
    BY <2>1
  <2> QED
    BY <1>3, <2>2
<1> QED
  BY <1>2, <1>3

(***************************************************************************)
(* "Each PTR must equal that IP's EHLO hostname exactly": assign_roles     *)
(* gives a name to two addresses only if MAIL_HOSTNAME is set to a name of *)
(* the pools; then the first address is one of the two.  Otherwise each    *)
(* may have the PTR record and the forward record it needs, however many   *)
(* there are.                                                              *)
(***************************************************************************)
THEOREM NamesDistinct ==
  ASSUME NEW A, NEW addresses \in Seq(A),
         NEW i \in DOMAIN addresses, NEW j \in DOMAIN addresses, i # j
  PROVE  \/ assign_roles(addresses)[i].hostname # assign_roles(addresses)[j].hostname
         \/ mail_hostname \in PoolNames /\ 1 \in {i, j}
<1> DEFINE n == Len(addresses)
           s == split_counts(n)
<1>1. n \in Nat \ {0} /\ i \in 1 .. n /\ j \in 1 .. n
  OBVIOUS
<1>2. \A k \in 1 .. n :
        assign_roles(addresses)[k].hostname = ehlo_hostname(RoleAt(k, n), PlaceAt(k, n))
  BY DEF assign_roles, AssignedIp
<1>3. s.tx \in Nat /\ s.mkt \in Nat
  BY <1>1, SplitType
<1>4. \A k \in 1 .. n :
        \/ RoleAt(k, n) = "transactional" /\ PlaceAt(k, n) = k
        \/ RoleAt(k, n) = "marketing" /\ PlaceAt(k, n) = k - s.tx /\ k > s.tx
        \/ RoleAt(k, n) = "canary" /\ PlaceAt(k, n) = k - s.tx - s.mkt /\ k > s.tx + s.mkt
  BY <1>1, PlaceInPool
<1> HIDE DEF n, s
<1>5. RoleAt(i, n) # RoleAt(j, n) \/ PlaceAt(i, n) # PlaceAt(j, n)
  BY <1>1, <1>3, <1>4
<1>6. \A k \in 1 .. n :
        \/ k = 1 /\ ehlo_hostname(RoleAt(k, n), PlaceAt(k, n)) = mail_hostname
        \/ /\ ehlo_hostname(RoleAt(k, n), PlaceAt(k, n)) = <<RoleAt(k, n), PlaceAt(k, n)>>
           /\ <<RoleAt(k, n), PlaceAt(k, n)>> \in PoolNames
  <2> SUFFICES ASSUME NEW k \in 1 .. n
               PROVE  \/ k = 1 /\ ehlo_hostname(RoleAt(k, n), PlaceAt(k, n)) = mail_hostname
                      \/ /\ ehlo_hostname(RoleAt(k, n), PlaceAt(k, n)) = <<RoleAt(k, n), PlaceAt(k, n)>>
                         /\ <<RoleAt(k, n), PlaceAt(k, n)>> \in PoolNames
    OBVIOUS
  <2> DEFINE role == RoleAt(k, n)
             place == PlaceAt(k, n)
  <2>1. role \in {"transactional", "marketing", "canary"} /\ place \in Nat \ {0}
    BY <1>1, <1>3, <1>4
  <2>2. role = "transactional" => place = k
    BY <1>4
  <2> HIDE DEF role, place
  <2>3. \/ k = 1 /\ ehlo_hostname(role, place) = mail_hostname
        \/ ehlo_hostname(role, place) = <<role, place>> /\ <<role, place>> \in PoolNames
    BY <2>1, <2>2 DEF ehlo_hostname, PoolNames
  <2> QED
    BY <2>3 DEF role, place
<1>7. ASSUME ehlo_hostname(RoleAt(i, n), PlaceAt(i, n)) = ehlo_hostname(RoleAt(j, n), PlaceAt(j, n))
      PROVE  mail_hostname \in PoolNames /\ 1 \in {i, j}
  <2> DEFINE a == ehlo_hostname(RoleAt(i, n), PlaceAt(i, n))
             b == ehlo_hostname(RoleAt(j, n), PlaceAt(j, n))
  <2>1. /\ \/ i = 1 /\ a = mail_hostname
           \/ a = <<RoleAt(i, n), PlaceAt(i, n)>> /\ <<RoleAt(i, n), PlaceAt(i, n)>> \in PoolNames
        /\ \/ j = 1 /\ b = mail_hostname
           \/ b = <<RoleAt(j, n), PlaceAt(j, n)>> /\ <<RoleAt(j, n), PlaceAt(j, n)>> \in PoolNames
    BY <1>1, <1>6
  <2>2. a = b
    BY <1>7
  <2> HIDE DEF a, b
  <2> QED
    BY <1>5, <2>1, <2>2, OnlyMailShared
<1> QED
  BY <1>1, <1>2, <1>7

(***************************************************************************)
(* The configurations that Dispatch takes for granted are the ones that    *)
(* assign_roles returns: an entry for each address, a name and a role.     *)
(***************************************************************************)
THEOREM AssignedConfig ==
  ASSUME NEW A, NEW addresses \in Seq(A), addresses # <<>>
  PROVE  /\ assign_roles(addresses) \in Seq(Entries(A))
         /\ assign_roles(addresses) # <<>>
<1> DEFINE n == Len(addresses)
           s == split_counts(n)
           Entry == Entries(A)
           cfg == assign_roles(addresses)
<1>1. n \in Nat \ {0}
  OBVIOUS
<1>2. cfg = [i \in 1 .. n |-> AssignedIp(addresses[i], RoleAt(i, n), PlaceAt(i, n))]
  BY DEF assign_roles
<1>3. s.tx \in Nat /\ s.mkt \in Nat
  BY <1>1, SplitType
<1>4. ASSUME NEW i \in 1 .. n
      PROVE  RoleAt(i, n) \in Roles /\ PlaceAt(i, n) \in Nat \ {0} /\ addresses[i] \in A
  <2>1. \/ RoleAt(i, n) = "transactional" /\ PlaceAt(i, n) = i
        \/ RoleAt(i, n) = "marketing" /\ PlaceAt(i, n) = i - s.tx /\ i > s.tx
        \/ RoleAt(i, n) = "canary" /\ PlaceAt(i, n) = i - s.tx - s.mkt /\ i > s.tx + s.mkt
    BY <1>1, PlaceInPool
  <2>2. addresses[i] \in A
    OBVIOUS
  <2> HIDE DEF n, s
  <2> QED
    BY <1>1, <1>3, <2>1, <2>2 DEF Roles
<1>5. \A i \in 1 .. n : cfg[i] \in Entry
  BY <1>2, <1>4, NameType DEF AssignedIp, Entries
<1>6. cfg \in Seq(Entry) /\ Len(cfg) = n
  <2> HIDE DEF Entry
  <2> QED
    BY <1>1, <1>2, <1>5
<1> QED
  BY <1>1, <1>6

-----------------------------------------------------------------------------
(* Pools given by hand *)

\* Three lists, one after the other.
LEMMA Joined ==
  ASSUME NEW S, NEW t \in Seq(S), NEW m \in Seq(S), NEW c \in Seq(S)
  PROVE  /\ t \o m \o c \in Seq(S)
         /\ Len(t \o m \o c) = Len(t) + Len(m) + Len(c)
         /\ \A i \in 1 .. Len(t) : (t \o m \o c)[i] = t[i]
         /\ \A i \in 1 .. Len(m) : (t \o m \o c)[Len(t) + i] = m[i]
         /\ \A i \in 1 .. Len(c) : (t \o m \o c)[Len(t) + Len(m) + i] = c[i]
<1> DEFINE tm == t \o m
<1>1. Len(t) \in Nat /\ Len(m) \in Nat /\ Len(c) \in Nat
  OBVIOUS
<1>2. /\ tm \in Seq(S) /\ Len(tm) = Len(t) + Len(m)
      /\ \A i \in 1 .. Len(t) : tm[i] = t[i]
      /\ \A i \in 1 .. Len(m) : tm[Len(t) + i] = m[i]
  BY <1>1
<1> HIDE DEF tm
<1>3. /\ tm \o c \in Seq(S) /\ Len(tm \o c) = Len(tm) + Len(c)
      /\ \A i \in 1 .. Len(tm) : (tm \o c)[i] = tm[i]
      /\ \A i \in 1 .. Len(c) : (tm \o c)[Len(tm) + i] = c[i]
  BY <1>1, <1>2
<1>4. /\ \A i \in 1 .. Len(t) : (tm \o c)[i] = t[i]
      /\ \A i \in 1 .. Len(m) : (tm \o c)[Len(t) + i] = m[i]
  <2>1. \A i \in 1 .. Len(t) : i \in 1 .. Len(tm)
    BY <1>1, <1>2
  <2>2. \A i \in 1 .. Len(m) : Len(t) + i \in 1 .. Len(tm)
    BY <1>1, <1>2
  <2> QED
    BY <1>2, <1>3, <2>1, <2>2
<1>5. tm \o c = t \o m \o c
  BY DEF tm
<1> QED
  BY <1>2, <1>3, <1>4, <1>5

\* The k-th address of lists whose first two have a and b entries.
NameInPool(k, a, b, name) ==
  \/ k = 1 /\ name = mail_hostname
  \/ /\ name \in {<<"transactional", k>>, <<"marketing", k - a>>, <<"canary", k - a - b>>}
     /\ name \in PoolNames

\* assign_explicit lists the pools one after the other, and an address has the
\* name of its place in its pool.
LEMMA ExplicitEntries ==
  ASSUME NEW A, NEW tx \in Seq(A), NEW mkt \in Seq(A), NEW canary \in Seq(A),
         NEW out, out = assign_explicit(tx, mkt, canary)
  PROVE  /\ out \in Seq(Entries(A))
         /\ Len(out) = Len(tx) + Len(mkt) + Len(canary)
         /\ \A k \in DOMAIN out : NameInPool(k, Len(tx), Len(mkt), out[k].hostname)
<1> DEFINE Entry == Entries(A)
           Members(role, s) == [i \in DOMAIN s |-> AssignedIp(s[i], role, i)]
           t == Members("transactional", tx)
           m == Members("marketing", mkt)
           c == Members("canary", canary)
<1>1. ASSUME NEW s \in Seq(A), NEW role \in Roles
      PROVE  /\ Members(role, s) \in Seq(Entry) /\ Len(Members(role, s)) = Len(s)
             /\ \A i \in 1 .. Len(s) : Members(role, s)[i].hostname = ehlo_hostname(role, i)
  <2>1. DOMAIN s = 1 .. Len(s) /\ Len(s) \in Nat
    OBVIOUS
  <2>2. \A i \in 1 .. Len(s) : /\ AssignedIp(s[i], role, i) \in Entry
                               /\ AssignedIp(s[i], role, i).hostname = ehlo_hostname(role, i)
    BY <2>1, NameType DEF AssignedIp, Entries
  <2>3. Members(role, s) = [i \in 1 .. Len(s) |-> AssignedIp(s[i], role, i)]
    BY <2>1
  <2> HIDE DEF Entry, Members
  <2> QED
    BY <2>1, <2>2, <2>3
<1>2. assign_explicit(tx, mkt, canary) = t \o m \o c
  BY DEF assign_explicit
<1>3. /\ t \in Seq(Entry) /\ m \in Seq(Entry) /\ c \in Seq(Entry)
      /\ Len(t) = Len(tx) /\ Len(m) = Len(mkt) /\ Len(c) = Len(canary)
      /\ \A i \in 1 .. Len(tx) : t[i].hostname = ehlo_hostname("transactional", i)
      /\ \A i \in 1 .. Len(mkt) : m[i].hostname = ehlo_hostname("marketing", i)
      /\ \A i \in 1 .. Len(canary) : c[i].hostname = ehlo_hostname("canary", i)
  <2> HIDE DEF Entry, Members
  <2> QED
    BY <1>1 DEF Roles
<1> HIDE DEF t, m, c, Entry
<1>4. /\ t \o m \o c \in Seq(Entry)
      /\ Len(t \o m \o c) = Len(t) + Len(m) + Len(c)
      /\ \A i \in 1 .. Len(t) : (t \o m \o c)[i] = t[i]
      /\ \A i \in 1 .. Len(m) : (t \o m \o c)[Len(t) + i] = m[i]
      /\ \A i \in 1 .. Len(c) : (t \o m \o c)[Len(t) + Len(m) + i] = c[i]
  <2>1. t \in Seq(Entry) /\ m \in Seq(Entry) /\ c \in Seq(Entry)
    BY <1>3
  <2>2. t \o m \o c \in Seq(Entry)
    BY <2>1, Joined
  <2>3. Len(t \o m \o c) = Len(t) + Len(m) + Len(c)
    BY <2>1, Joined
  <2>4. \A i \in 1 .. Len(t) : (t \o m \o c)[i] = t[i]
    BY <2>1, Joined
  <2>5. \A i \in 1 .. Len(m) : (t \o m \o c)[Len(t) + i] = m[i]
    BY <2>1, Joined
  <2>6. \A i \in 1 .. Len(c) : (t \o m \o c)[Len(t) + Len(m) + i] = c[i]
    BY <2>1, Joined
  <2> QED
    BY <2>2, <2>3, <2>4, <2>5, <2>6
<1>5. out = t \o m \o c /\ Len(tx) \in Nat /\ Len(mkt) \in Nat /\ Len(canary) \in Nat
  BY <1>2
<1>6. out \in Seq(Entry) /\ Len(out) = Len(tx) + Len(mkt) + Len(canary)
  BY <1>3, <1>4, <1>5
<1>7. ASSUME NEW k \in DOMAIN out
      PROVE  NameInPool(k, Len(tx), Len(mkt), out[k].hostname)
  <2>1. CASE k \in 1 .. Len(tx)
    <3>1. out[k].hostname = ehlo_hostname("transactional", k) /\ k \in Nat \ {0}
      BY <1>3, <1>4, <1>5, <2>1
    <3> QED
      BY <3>1 DEF NameInPool, ehlo_hostname, PoolNames
  <2>2. CASE k - Len(tx) \in 1 .. Len(mkt)
    <3> DEFINE i == k - Len(tx)
    <3>1. k = Len(tx) + i /\ i \in 1 .. Len(mkt)
      BY <1>5, <2>2
    <3> HIDE DEF i
    <3>2. out[k].hostname = ehlo_hostname("marketing", i) /\ i \in Nat \ {0}
      BY <1>3, <1>4, <1>5, <3>1
    <3>3. out[k].hostname = <<"marketing", i>> /\ out[k].hostname \in PoolNames
      BY <3>2 DEF ehlo_hostname, PoolNames
    <3> QED
      BY <3>3 DEF i, NameInPool
  <2>3. CASE k - Len(tx) - Len(mkt) \in 1 .. Len(canary)
    <3> DEFINE i == k - Len(tx) - Len(mkt)
    <3>1. k = Len(tx) + Len(mkt) + i /\ i \in 1 .. Len(canary)
      BY <1>5, <2>3
    <3> HIDE DEF i
    <3>2. out[k].hostname = ehlo_hostname("canary", i) /\ i \in Nat \ {0}
      BY <1>3, <1>4, <1>5, <3>1
    <3>3. out[k].hostname = <<"canary", i>> /\ out[k].hostname \in PoolNames
      BY <3>2 DEF ehlo_hostname, PoolNames
    <3> QED
      BY <3>3 DEF i, NameInPool
  <2>4. \/ k \in 1 .. Len(tx) \/ k - Len(tx) \in 1 .. Len(mkt)
        \/ k - Len(tx) - Len(mkt) \in 1 .. Len(canary)
    <3>1. k \in 1 .. Len(tx) + Len(mkt) + Len(canary)
      BY <1>6
    <3> QED
      BY <1>5, <3>1
  <2> QED
    BY <2>1, <2>2, <2>3, <2>4
<1>8. \A k \in DOMAIN out : NameInPool(k, Len(tx), Len(mkt), out[k].hostname)
  BY <1>7
<1> QED
  BY <1>6, <1>8 DEF Entry

(***************************************************************************)
(* POOL_TX, POOL_MKT and POOL_CANARY name every address apart as well,     *)
(* even when an address is in two of the lists: each gets the next name of *)
(* its pool.  Here too only MAIL_HOSTNAME can be given twice, and the      *)
(* first entry of all is then one of the two.                              *)
(***************************************************************************)
THEOREM ExplicitNamesDistinct ==
  ASSUME NEW A, NEW tx \in Seq(A), NEW mkt \in Seq(A), NEW canary \in Seq(A),
         NEW i \in DOMAIN assign_explicit(tx, mkt, canary),
         NEW j \in DOMAIN assign_explicit(tx, mkt, canary), i # j
  PROVE  \/ assign_explicit(tx, mkt, canary)[i].hostname
              # assign_explicit(tx, mkt, canary)[j].hostname
         \/ mail_hostname \in PoolNames /\ 1 \in {i, j}
<1> DEFINE out == assign_explicit(tx, mkt, canary)
<1>1. \A k \in DOMAIN out : NameInPool(k, Len(tx), Len(mkt), out[k].hostname)
  BY ExplicitEntries
<1>2. out \in Seq(Entries(A)) /\ i \in DOMAIN out /\ j \in DOMAIN out
  BY ExplicitEntries
<1> HIDE DEF out
<1>3. i \in Int /\ j \in Int
  BY <1>2
<1>4. i - Len(tx) # j - Len(tx) /\ i - Len(tx) - Len(mkt) # j - Len(tx) - Len(mkt)
  <2>1. Len(tx) \in Int /\ Len(mkt) \in Int
    OBVIOUS
  <2> QED
    BY <1>3, <2>1
<1>5. \/ i = 1 /\ out[i].hostname = mail_hostname
      \/ /\ out[i].hostname \in {<<"transactional", i>>, <<"marketing", i - Len(tx)>>,
                                  <<"canary", i - Len(tx) - Len(mkt)>>}
         /\ out[i].hostname \in PoolNames
  BY <1>1, <1>2 DEF NameInPool
<1>6. \/ j = 1 /\ out[j].hostname = mail_hostname
      \/ /\ out[j].hostname \in {<<"transactional", j>>, <<"marketing", j - Len(tx)>>,
                                  <<"canary", j - Len(tx) - Len(mkt)>>}
         /\ out[j].hostname \in PoolNames
  BY <1>1, <1>2 DEF NameInPool
<1>7. {<<"transactional", i>>, <<"marketing", i - Len(tx)>>, <<"canary", i - Len(tx) - Len(mkt)>>}
        \cap {<<"transactional", j>>, <<"marketing", j - Len(tx)>>,
              <<"canary", j - Len(tx) - Len(mkt)>>} = {}
  BY <1>4
<1>8. ASSUME out[i].hostname = out[j].hostname
      PROVE  mail_hostname \in PoolNames /\ 1 \in {i, j}
  BY <1>5, <1>6, <1>7, <1>8
<1> QED
  BY <1>8 DEF out

(***************************************************************************)
(* What assign_explicit returns is a configuration as Dispatch takes it    *)
(* for granted, unless all three lists are empty, which it refuses.        *)
(***************************************************************************)
THEOREM ExplicitConfig ==
  ASSUME NEW A, NEW tx \in Seq(A), NEW mkt \in Seq(A), NEW canary \in Seq(A),
         tx # <<>> \/ mkt # <<>> \/ canary # <<>>
  PROVE  /\ assign_explicit(tx, mkt, canary)
              \in Seq(Entries(A))
         /\ assign_explicit(tx, mkt, canary) # <<>>
<1>1. Len(tx) \in Nat /\ Len(mkt) \in Nat /\ Len(canary) \in Nat
  OBVIOUS
<1>2. Len(tx) > 0 \/ Len(mkt) > 0 \/ Len(canary) > 0
  OBVIOUS
<1> DEFINE out == assign_explicit(tx, mkt, canary)
<1> HIDE DEF out
<1>3. out \in Seq(Entries(A)) /\ Len(out) = Len(tx) + Len(mkt) + Len(canary)
  BY ExplicitEntries DEF out
<1>4. out # <<>>
  BY <1>1, <1>2, <1>3
<1> QED
  BY <1>3, <1>4 DEF out
=============================================================================
