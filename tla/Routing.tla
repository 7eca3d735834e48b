------------------------------- MODULE Routing -------------------------------
(***************************************************************************)
(* src/src/routing.rs: the IPs a stream may use, and the one enqueue_raw   *)
(* takes of them.  An IP table is a function from its rows to records      *)
(* [role, health].                                                         *)
(*                                                                         *)
(* An operator named Faulty_X is X with a plausible mistake; no            *)
(* specification uses it.                                                  *)
(***************************************************************************)
EXTENDS Warming

Streams == {"transactional", "marketing", "mailbox"}

preferred_role(stream) ==
  IF stream = "marketing" THEN "marketing" ELSE "transactional"

Healthy(table) == {i \in DOMAIN table : table[i].health # "quarantine"}
by_role(table, role) == {i \in Healthy(table) : table[i].role = role}

\* The marketing or canary pool has an IP, healthy or not.
Isolated(table) ==
  \E i \in DOMAIN table : table[i].role \in {"marketing", "canary"}

\* Transactional mail keeps to its own pool.
Faulty_LastResort(table, role) ==
  IF role # "transactional" /\ Isolated(table) THEN {}
  ELSE by_role(table, "transactional")

\* The pools a stream falls back to, when `preferred` and canary are empty.
LastResort(table, role) ==
  CASE role = "transactional" -> Healthy(table)
    [] role # "transactional" /\ ~Isolated(table) -> by_role(table, "transactional")
    [] role # "transactional" /\ Isolated(table) -> {}

\* Isolation looks at healthy IPs only.
Faulty_candidates(stream, table) ==
  LET role == preferred_role(stream) IN
  CASE by_role(table, role) # {} -> by_role(table, role)
    [] by_role(table, role) = {} /\ by_role(table, "canary") # {} -> by_role(table, "canary")
    [] by_role(table, role) = {} /\ by_role(table, "canary") = {} ->
         by_role(table, "transactional")

candidates(stream, table) ==
  LET role == preferred_role(stream) IN
  CASE by_role(table, role) # {} -> by_role(table, role)
    [] by_role(table, role) = {} /\ by_role(table, "canary") # {} -> by_role(table, "canary")
    [] by_role(table, role) = {} /\ by_role(table, "canary") = {} -> LastResort(table, role)

(***************************************************************************)
(* enqueue_raw's choice: least sent today and, of those, active before     *)
(* warmup; between equals the order of the SELECT decides, which is        *)
(* unspecified.                                                            *)
(***************************************************************************)
HealthRank == [active |-> 0, warmup |-> 1, quarantine |-> 2]

Choices(stream, table, usage) ==
  LET all   == candidates(stream, table)
      least == {i \in all : \A k \in all : usage[i] <= usage[k]}
  IN  {i \in least : \A k \in least :
         HealthRank[table[i].health] <= HealthRank[table[k].health]}
=============================================================================
