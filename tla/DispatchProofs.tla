--------------------------- MODULE DispatchProofs ----------------------------
(***************************************************************************)
(* What routing.rs promises for every IP table, of any size, and the       *)
(* invariants of Dispatch for any messages, addresses and configurations.  *)
(***************************************************************************)
EXTENDS Dispatch, WellFoundedInduction, TLAPS

-----------------------------------------------------------------------------
(* Routing *)

\* The IP tables a server may hold.
RowsTyped(ips) == \A i \in DOMAIN ips : ips[i].role \in Roles /\ ips[i].health \in Healths

(***************************************************************************)
(* candidates never offers a quarantined IP, to any stream.                *)
(***************************************************************************)
THEOREM CandidatesHealthy ==
  ASSUME NEW ips, NEW stream \in Streams
  PROVE  candidates(stream, ips) \subseteq Healthy(ips)
  BY DEF candidates, LastResort, by_role, preferred_role, Streams

(***************************************************************************)
(* "Marketing never uses a transactional IP when any marketing/canary IP   *)
(* exists" (routing.rs:72), even one in quarantine.                        *)
(***************************************************************************)
THEOREM MarketingIsolated ==
  ASSUME NEW ips, Isolated(ips), NEW i \in candidates("marketing", ips)
  PROVE  ips[i].role # "transactional"
  BY DEF candidates, LastResort, by_role, preferred_role

(***************************************************************************)
(* Transactional and mailbox mail is never refused while one IP of any     *)
(* pool is out of quarantine.                                              *)
(***************************************************************************)
THEOREM TransactionalServed ==
  ASSUME NEW ips, Healthy(ips) # {}, NEW stream \in {"transactional", "mailbox"}
  PROVE  candidates(stream, ips) # {}
  BY DEF candidates, LastResort, preferred_role

(***************************************************************************)
(* Marketing mail is refused only if every IP of its own pools, or on a    *)
(* shared host every IP, is in quarantine.                                 *)
(***************************************************************************)
THEOREM MarketingServed ==
  ASSUME NEW ips, RowsTyped(ips), NEW i \in Healthy(ips),
         Isolated(ips) => ips[i].role # "transactional"
  PROVE  candidates("marketing", ips) # {}
<1>1. ips[i].role \in Roles
  BY DEF RowsTyped, Healthy
<1>2. CASE ips[i].role \in {"marketing", "canary"}
  BY <1>2 DEF candidates, by_role, preferred_role
<1>3. CASE ips[i].role = "transactional"
  <2>1. ~Isolated(ips) /\ i \in by_role(ips, "transactional")
    BY <1>3 DEF by_role
  <2> QED
    BY <2>1 DEF candidates, LastResort, preferred_role
<1> QED
  BY <1>1, <1>2, <1>3 DEF Roles

(***************************************************************************)
(* A stream keeps to its preferred pool as long as that has a healthy IP,  *)
(* and to the canaries after it.                                           *)
(***************************************************************************)
THEOREM PreferredPoolFirst ==
  ASSUME NEW ips, NEW stream \in Streams, NEW i \in candidates(stream, ips)
  PROVE  /\ by_role(ips, preferred_role(stream)) # {}
              => ips[i].role = preferred_role(stream)
         /\ by_role(ips, preferred_role(stream)) = {} /\ by_role(ips, "canary") # {}
              => ips[i].role = "canary"
  BY DEF candidates, by_role
-----------------------------------------------------------------------------
(* Least elements *)

Less == {p \in Nat \X Nat : p[1] < p[2]}

LEMMA LeastNumber ==
  ASSUME NEW S \in SUBSET Nat, S # {}
  PROVE  \E x \in S : \A y \in S : x <= y
<1>1. IsWellFoundedOn(Less, Nat)
  BY NatLessThanWellFounded DEF OpToRel, Less
<1>2. PICK x \in S : \A y \in S : ~ (<<y, x>> \in Less)
  BY <1>1, WFMin
<1>3. ASSUME NEW y \in S PROVE x <= y
  <2>1. x \in Nat /\ y \in Nat
    OBVIOUS
  <2>2. y < x => <<y, x>> \in Less
    BY <2>1 DEF Less
  <2> QED
    BY <1>2, <2>1, <2>2
<1> QED
  BY <1>3

(***************************************************************************)
(* A sequence that mentions an address has a last entry for it.            *)
(***************************************************************************)
LEMMA LastEntry ==
  ASSUME NEW T, NEW cfg \in Seq(T), NEW a \in Configured(cfg)
  PROVE  EntryOf(cfg, a) \in T /\ EntryOf(cfg, a).address = a
<1> DEFINE D == {i \in DOMAIN cfg : cfg[i].address = a}
           Back == {Len(cfg) - i : i \in D}
<1>1. DOMAIN cfg = 1 .. Len(cfg) /\ Len(cfg) \in Nat
  OBVIOUS
<1>2. Back \in SUBSET Nat /\ Back # {}
  BY <1>1 DEF Configured
<1>3. PICK x \in Back : \A y \in Back : x <= y
  BY <1>2, LeastNumber
<1>4. PICK i \in D : x = Len(cfg) - i
  OBVIOUS
<1>5. \A k \in D : Len(cfg) - k \in Back
  OBVIOUS
<1>6. ASSUME NEW k \in D PROVE k <= i
  <2>1. k \in 1 .. Len(cfg) /\ i \in 1 .. Len(cfg)
    BY <1>1
  <2>2. Len(cfg) - i <= Len(cfg) - k
    BY <1>3, <1>4, <1>5
  <2> QED
    BY <1>1, <2>1, <2>2
<1>7. \E k \in DOMAIN cfg :
        cfg[k].address = a /\ \A j \in DOMAIN cfg : cfg[j].address = a => j <= k
  BY <1>6
<1> DEFINE c == CHOOSE k \in DOMAIN cfg :
                  cfg[k].address = a /\ \A j \in DOMAIN cfg : cfg[j].address = a => j <= k
<1>8. c \in DOMAIN cfg /\ cfg[c].address = a
  BY <1>7
<1> QED
  BY <1>8 DEF EntryOf

(***************************************************************************)
(* A row can be chosen whenever there is a candidate.                      *)
(***************************************************************************)
LEMMA ChoiceExists ==
  ASSUME NEW ips, RowsTyped(ips), NEW stream \in Streams,
         NEW sends, \A i \in DOMAIN ips : sends[i] \in Nat,
         candidates(stream, ips) # {}
  PROVE  Choices(stream, ips, sends) # {}
<1> DEFINE all   == candidates(stream, ips)
           least == {i \in all : \A k \in all : sends[i] <= sends[k]}
           Rank(i) == HealthRank[ips[i].health]
<1>1. all \subseteq DOMAIN ips
  BY CandidatesHealthy DEF Healthy
<1>2. PICK n \in {sends[i] : i \in all} : \A k \in {sends[i] : i \in all} : n <= k
  <2>1. {sends[i] : i \in all} \in SUBSET Nat /\ {sends[i] : i \in all} # {}
    BY <1>1
  <2> QED
    BY <2>1, LeastNumber
<1>3. least # {}
  BY <1>2
<1>4. \A i \in all : Rank(i) \in Nat
  BY <1>1 DEF RowsTyped, HealthRank, Healths
<1>5. PICK r \in {Rank(i) : i \in least} : \A k \in {Rank(i) : i \in least} : r <= k
  <2>1. {Rank(i) : i \in least} \in SUBSET Nat /\ {Rank(i) : i \in least} # {}
    BY <1>3, <1>4
  <2> QED
    BY <2>1, LeastNumber
<1>6. \E i \in least : \A k \in least : Rank(i) <= Rank(k)
  BY <1>5
<1> QED
  BY <1>6 DEF Choices

LEMMA ChoicesAreCandidates ==
  ASSUME NEW ips, NEW stream, NEW sends
  PROVE  Choices(stream, ips, sends) \subseteq candidates(stream, ips)
  BY DEF Choices

-----------------------------------------------------------------------------
(* The inductive invariant of Dispatch *)

\* The table a call has loaded has rows that are still there, with the roles
\* they have until the next restart.
LoadedInStep ==
  \A m \in Msgs :
    /\ DOMAIN loaded[m] \subseteq DOMAIN table
    /\ phase[m] = "choosing" /\ seeds = 0 =>
         /\ DOMAIN loaded[m] = DOMAIN table
         /\ \A i \in DOMAIN table : loaded[m][i].role = table[i].role

\* There is one DKIM key, which what is published and signed goes back to;
\* either may be without.
KeysInStep ==
  /\ key >= 1
  /\ zone.dkim \in {0, key}
  /\ \A m \in Msgs : signed[m] \in {0, key}

DispatchInv ==
  /\ TypeOK /\ LoadedInStep /\ KeysInStep
  /\ PoolsApartUntilReseeded

LEMMA TableRows ==
  ASSUME NEW t, IsTable(t), NEW i \in DOMAIN t
  PROVE  t[i].role \in Roles /\ t[i].hostname \in Names /\ t[i].health \in Healths
<1>1. t[i] \in Row
  BY DEF IsTable
<1> QED
  BY <1>1 DEF Row

(***************************************************************************)
(* Seeding keeps every row and its health.                                 *)
(***************************************************************************)
LEMMA SeedKeeps ==
  ASSUME NEW old, IsTable(old), NEW cfg \in Configs
  PROVE  /\ IsTable(Seed(old, cfg))
         /\ DOMAIN Seed(old, cfg) = DOMAIN old \cup Configured(cfg)
<1> DEFINE T == [address : Addresses, hostname : Names, role : Roles]
<1>1. cfg \in Seq(T)
  BY DispatchAssumption
<1>2. \A a \in Configured(cfg) : EntryOf(cfg, a) \in T /\ EntryOf(cfg, a).address = a
  BY <1>1, LastEntry
<1>3. Configured(cfg) \subseteq Addresses
  BY <1>2
<1>4. DOMAIN Seed(old, cfg) = DOMAIN old \cup Configured(cfg)
  BY DEF Seed
<1>5. ASSUME NEW a \in DOMAIN old \cup Configured(cfg)
      PROVE  Seed(old, cfg)[a] \in Row
  <2>1. a \in Configured(cfg) =>
          EntryOf(cfg, a).role \in Roles /\ EntryOf(cfg, a).hostname \in Names
    BY <1>2
  <2>2. a \in DOMAIN old =>
          old[a].role \in Roles /\ old[a].hostname \in Names /\ old[a].health \in Healths
    BY TableRows
  <2>3. "warmup" \in Healths
    BY DEF Healths
  <2> QED
    BY <2>1, <2>2, <2>3 DEF Seed, Row
<1>6. Seed(old, cfg) \in [DOMAIN Seed(old, cfg) -> Row]
  BY <1>4, <1>5 DEF Seed
<1> QED
  BY <1>3, <1>4, <1>6 DEF IsTable

LEMMA EmptyTable == IsTable(NoTable) /\ DOMAIN NoTable = {}
  BY DEF IsTable, NoTable

LEMMA IsolatedByRoles ==
  ASSUME NEW s, NEW t, DOMAIN s = DOMAIN t, \A i \in DOMAIN t : s[i].role = t[i].role
  PROVE  Isolated(s) <=> Isolated(t)
  BY DEF Isolated

LEMMA InitInv == Init => DispatchInv
<1> SUFFICES ASSUME Init PROVE DispatchInv
  OBVIOUS
<1> USE DEF Init
<1>1. IsTable(table)
  BY SeedKeeps, EmptyTable
<1>2. key = 1
  BY DEF seed_domain
<1>3. zone.a = {} /\ zone.dkim = 0
  BY DEF NoZone
<1>4. TypeOK
  <2>1. usage \in [Addresses -> 0 .. MaxSends] /\ seeds \in 0 .. MaxSeeds
    BY DispatchAssumption
  <2>2. phase \in [Msgs -> Phases]
    BY DEF Phases
  <2>3. DOMAIN loaded = Msgs /\ \A m \in Msgs : IsTable(loaded[m])
    BY EmptyTable
  <2>4. via \in [Msgs -> DOMAIN table \cup {0}] /\ signed \in [Msgs -> 0 .. key]
    BY <1>2
  <2>5. zone.a \subseteq Names \X (DOMAIN table) /\ zone.dkim \in 0 .. key /\ key \in Nat
    BY <1>2, <1>3
  <2> HIDE DEF Init
  <2> QED
    BY <1>1, <2>1, <2>2, <2>3, <2>4, <2>5 DEF TypeOK
<1>5. LoadedInStep
  BY EmptyTable DEF LoadedInStep
<1>6. KeysInStep
  BY <1>2, <1>3 DEF KeysInStep
<1> QED
  BY <1>4, <1>5, <1>6 DEF DispatchInv, PoolsApartUntilReseeded

\* The actions that leave the names, the keys and the zone alone.
LEMMA KeysStay ==
  ASSUME DispatchInv, UNCHANGED nameVars
  PROVE  KeysInStep'
  BY DEF DispatchInv, KeysInStep, nameVars

LEMMA LoadInv ==
  ASSUME DispatchInv, NEW m \in Msgs, Load(m)
  PROVE  DispatchInv'
<1> USE DEF Load
<1>1. KeysInStep'
  BY KeysStay
<1>2. TypeOK'
  <2>1. TypeOK
    BY DEF DispatchInv
  <2>2. phase' \in [Msgs -> Phases]
    BY <2>1 DEF TypeOK, Phases
  <2>3. DOMAIN loaded' = Msgs /\ \A n \in Msgs : IsTable(loaded'[n])
    BY <2>1 DEF TypeOK
  <2> QED
    BY <2>1, <2>2, <2>3 DEF TypeOK, nameVars, IsTable
<1>3. LoadedInStep'
  <2>1. \A n \in Msgs : loaded'[n] = IF n = m THEN table ELSE loaded[n]
    BY DEF DispatchInv, TypeOK
  <2>2. \A n \in Msgs : n # m => phase'[n] = phase[n]
    BY DEF DispatchInv, TypeOK
  <2> QED
    BY <2>1, <2>2 DEF DispatchInv, LoadedInStep
<1>4. PoolsApartUntilReseeded'
  BY DEF DispatchInv, PoolsApartUntilReseeded
<1> QED
  BY <1>1, <1>2, <1>3, <1>4 DEF DispatchInv

LEMMA EnqueueInv ==
  ASSUME DispatchInv, NEW m \in Msgs, Enqueue(m)
  PROVE  DispatchInv'
<1> USE DEF Enqueue
<1>1. PICK i \in Choices(StreamOf[m], loaded[m], usage) : via' = [via EXCEPT ![m] = i]
  OBVIOUS
<1>2. TypeOK /\ LoadedInStep /\ KeysInStep /\ PoolsApartUntilReseeded
  BY DEF DispatchInv
<1>3. StreamOf[m] \in Streams
  BY DispatchAssumption
<1>4. i \in candidates(StreamOf[m], loaded[m])
  BY ChoicesAreCandidates
<1>5. i \in DOMAIN loaded[m] /\ i \in DOMAIN table
  <2>1. i \in DOMAIN loaded[m]
    BY <1>3, <1>4, CandidatesHealthy DEF Healthy
  <2> QED
    BY <1>2, <2>1 DEF LoadedInStep
<1>6. \A n \in Msgs : via'[n] = IF n = m THEN i ELSE via[n]
  BY <1>1, <1>2 DEF TypeOK
<1>7. TypeOK'
  <2>1. via' \in [Msgs -> DOMAIN table' \cup {0}]
    BY <1>1, <1>2, <1>5 DEF TypeOK
  <2>2. phase' \in [Msgs -> Phases]
    BY <1>2 DEF TypeOK, Phases
  <2>3. DOMAIN loaded' = Msgs /\ \A n \in Msgs : IsTable(loaded'[n])
    BY <1>2, EmptyTable DEF TypeOK, NoTable
  <2>4. signed' \in [Msgs -> 0 .. key']
    <3>1. PICK k \in {0, key} : signed' = [signed EXCEPT ![m] = k]
      OBVIOUS
    <3>2. key \in Nat /\ k \in 0 .. key /\ signed \in [Msgs -> 0 .. key]
      BY <1>2 DEF TypeOK
    <3> QED
      BY <3>1, <3>2
  <2> QED
    BY <1>2, <2>1, <2>2, <2>3, <2>4 DEF TypeOK, IsTable
<1>8. LoadedInStep'
  <2>1. \A n \in Msgs : loaded'[n] = IF n = m THEN <<>> ELSE loaded[n]
    BY <1>2 DEF TypeOK
  <2>2. \A n \in Msgs : phase'[n] = IF n = m THEN "queued" ELSE phase[n]
    BY <1>2 DEF TypeOK
  <2>3. DOMAIN <<>> = {}
    OBVIOUS
  <2> QED
    BY <1>2, <2>1, <2>2, <2>3 DEF LoadedInStep
<1>9. KeysInStep'
  <2>1. \A n \in Msgs : signed'[n] \in {0, key}
    BY <1>2 DEF TypeOK, KeysInStep
  <2> QED
    BY <1>2, <2>1 DEF KeysInStep
<1>10. PoolsApartUntilReseeded'
  <2>1. ASSUME StreamOf[m] = "marketing", seeds = 0, Isolated(table)
        PROVE  table[i].role # "transactional"
    <3>1. /\ DOMAIN loaded[m] = DOMAIN table
          /\ \A k \in DOMAIN table : loaded[m][k].role = table[k].role
      BY <1>2, <2>1 DEF LoadedInStep
    <3>2. Isolated(loaded[m])
      BY <2>1, <3>1, IsolatedByRoles
    <3>3. loaded[m][i].role # "transactional"
      BY <1>4, <2>1, <3>2, MarketingIsolated
    <3> QED
      BY <1>5, <3>1, <3>3
  <2> QED
    BY <1>2, <1>6, <2>1 DEF PoolsApartUntilReseeded
<1> QED
  BY <1>7, <1>8, <1>9, <1>10 DEF DispatchInv

LEMMA RefuseInv ==
  ASSUME DispatchInv, NEW m \in Msgs, Refuse(m)
  PROVE  DispatchInv'
<1> USE DEF Refuse
<1>1. KeysInStep'
  BY KeysStay
<1>2. TypeOK /\ LoadedInStep
  BY DEF DispatchInv
<1>3. TypeOK'
  <2>1. phase' \in [Msgs -> Phases]
    BY <1>2 DEF TypeOK, Phases
  <2>2. DOMAIN loaded' = Msgs /\ \A n \in Msgs : IsTable(loaded'[n])
    BY <1>2, EmptyTable DEF TypeOK, NoTable
  <2> QED
    BY <1>2, <2>1, <2>2 DEF TypeOK, nameVars, IsTable
<1>4. LoadedInStep'
  <2>1. \A n \in Msgs : loaded'[n] = IF n = m THEN <<>> ELSE loaded[n]
    BY <1>2 DEF TypeOK
  <2>2. \A n \in Msgs : phase'[n] = IF n = m THEN "absent" ELSE phase[n]
    BY <1>2 DEF TypeOK
  <2>3. DOMAIN <<>> = {}
    OBVIOUS
  <2> QED
    BY <1>2, <2>1, <2>2, <2>3 DEF LoadedInStep
<1>5. PoolsApartUntilReseeded'
  BY DEF DispatchInv, PoolsApartUntilReseeded
<1> QED
  BY <1>1, <1>3, <1>4, <1>5 DEF DispatchInv

\* A message moves on after its choice, or the day's counters change.
LEMMA LaterInv ==
  ASSUME DispatchInv, UNCHANGED <<table, loaded, via, seeds, nameVars>>,
         usage' \in [Addresses -> 0 .. MaxSends], phase' \in [Msgs -> Phases],
         \A m \in Msgs : phase'[m] = "choosing" => phase[m] = "choosing"
  PROVE  DispatchInv'
<1>1. KeysInStep'
  BY KeysStay
<1>2. TypeOK'
  BY DEF DispatchInv, TypeOK, nameVars, IsTable
<1>3. LoadedInStep'
  BY DEF DispatchInv, LoadedInStep
<1>4. PoolsApartUntilReseeded'
  BY DEF DispatchInv, PoolsApartUntilReseeded
<1> QED
  BY <1>1, <1>2, <1>3, <1>4 DEF DispatchInv

LEMMA ClaimInv ==
  ASSUME DispatchInv, NEW m \in Msgs, Claim(m)
  PROVE  DispatchInv'
<1>1. /\ phase' \in [Msgs -> Phases]
      /\ \A n \in Msgs : phase'[n] = "choosing" => phase[n] = "choosing"
  BY DEF Claim, DispatchInv, TypeOK, Phases
<1>2. usage' \in [Addresses -> 0 .. MaxSends]
  BY DEF Claim, DispatchInv, TypeOK
<1> QED
  BY <1>1, <1>2, LaterInv DEF Claim

LEMMA DeliverInv ==
  ASSUME DispatchInv, NEW m \in Msgs, Deliver(m)
  PROVE  DispatchInv'
<1> USE DEF Deliver
<1>1. PICK p \in {"done", "queued"} : phase' = [phase EXCEPT ![m] = p]
  OBVIOUS
<1>2. /\ phase' \in [Msgs -> Phases]
      /\ \A n \in Msgs : phase'[n] = "choosing" => phase[n] = "choosing"
  BY <1>1 DEF DispatchInv, TypeOK, Phases
<1>3. usage \in [Addresses -> 0 .. MaxSends]
  BY DEF DispatchInv, TypeOK
<1>4. usage' \in [Addresses -> 0 .. MaxSends]
  <2>1. CASE via[m] \in Addresses
    <3>1. usage[via[m]] + 1 \in 0 .. MaxSends
      BY <1>3, <2>1, DispatchAssumption
    <3> QED
      BY <1>3, <3>1
  <2>2. CASE via[m] \notin Addresses
    BY <1>3, <2>2
  <2> QED
    BY <2>1, <2>2
<1> QED
  BY <1>2, <1>4, LaterInv

LEMMA NewDayInv ==
  ASSUME DispatchInv, NewDay
  PROVE  DispatchInv'
<1>1. usage' \in [Addresses -> 0 .. MaxSends]
  BY DispatchAssumption DEF NewDay
<1>2. phase' = phase /\ phase \in [Msgs -> Phases]
  BY DEF NewDay, DispatchInv, TypeOK
<1> QED
  BY <1>1, <1>2, LaterInv DEF NewDay

LEMMA SetHealthInv ==
  ASSUME DispatchInv, NEW i \in DOMAIN table, NEW h \in Healths, SetHealth(i, h)
  PROVE  DispatchInv'
<1> USE DEF SetHealth
<1>1. TypeOK /\ LoadedInStep /\ PoolsApartUntilReseeded
  BY DEF DispatchInv
<1>2. IsTable(table)
  BY <1>1 DEF TypeOK
<1>3. DOMAIN table' = DOMAIN table
  BY <1>2 DEF IsTable
<1>4. \A k \in DOMAIN table : table'[k].role = table[k].role
                              /\ table'[k].hostname = table[k].hostname
  <2>1. ASSUME NEW k \in DOMAIN table
        PROVE  table'[k].role = table[k].role /\ table'[k].hostname = table[k].hostname
    <3>1. table[k] \in Row
      BY <1>2 DEF IsTable
    <3>2. table'[k] = IF k = i THEN [table[i] EXCEPT !.health = h] ELSE table[k]
      BY <1>2 DEF IsTable
    <3> QED
      BY <3>1, <3>2 DEF Row
  <2> QED
    BY <2>1
<1>5. IsTable(table')
  <2>1. table[i] \in Row
    BY <1>2 DEF IsTable
  <2>2. [table[i] EXCEPT !.health = h] \in Row
    BY <2>1 DEF Row
  <2> QED
    BY <1>2, <2>2 DEF IsTable
<1>6. KeysInStep'
  BY KeysStay
<1>7. TypeOK'
  BY <1>1, <1>3, <1>5 DEF TypeOK, nameVars, IsTable
<1>8. LoadedInStep'
  BY <1>1, <1>3, <1>4 DEF LoadedInStep
<1>9. PoolsApartUntilReseeded'
  <2>1. Isolated(table') <=> Isolated(table)
    BY <1>3, <1>4, IsolatedByRoles
  <2>2. \A m \in Msgs : via[m] # 0 => via[m] \in DOMAIN table
    BY <1>1 DEF TypeOK
  <2> QED
    BY <1>1, <1>4, <2>1, <2>2 DEF PoolsApartUntilReseeded, Isolated
<1> QED
  BY <1>6, <1>7, <1>8, <1>9 DEF DispatchInv

LEMMA PublishInv ==
  ASSUME DispatchInv, PublishDns
  PROVE  DispatchInv'
<1> USE DEF PublishDns
<1>1. TypeOK /\ LoadedInStep /\ KeysInStep /\ PoolsApartUntilReseeded
  BY DEF DispatchInv
<1>2. PICK k \in {0, key}, inbound \in Inbound(table) :
        zone' = [a |-> ARecords(table, inbound), dkim |-> k]
  BY DEF generate_dns
<1>3. UNCHANGED <<table, usage, phase, loaded, via, seeds>>
  BY DEF mailVars
<1>4. TypeOK'
  <2>1. \A i \in DOMAIN table : table[i].hostname \in Names
    BY <1>1, TableRows DEF TypeOK
  <2>2. mail_hostname \in Names
    BY DEF Names
  <2>3. inbound \in DOMAIN table
    BY DEF Inbound
  <2>4. zone'.a \subseteq Names \X (DOMAIN table)
    BY <1>2, <2>1, <2>2, <2>3 DEF ARecords
  <2>5. zone'.dkim \in 0 .. key /\ key' = key /\ signed' = signed
    BY <1>1, <1>2 DEF TypeOK
  <2> QED
    BY <1>1, <1>3, <2>4, <2>5 DEF TypeOK, IsTable
<1>5. LoadedInStep' /\ PoolsApartUntilReseeded'
  BY <1>1, <1>3 DEF LoadedInStep, PoolsApartUntilReseeded
<1>6. KeysInStep'
  BY <1>1, <1>2 DEF KeysInStep
<1> QED
  BY <1>4, <1>5, <1>6 DEF DispatchInv

LEMMA RestartInv ==
  ASSUME DispatchInv, NEW cfg \in Configs, Restart(cfg)
  PROVE  DispatchInv'
<1> USE DEF Restart
<1>1. TypeOK /\ LoadedInStep /\ KeysInStep
  BY DEF DispatchInv
<1>2. /\ IsTable(table) /\ IsTable(table') /\ DOMAIN table \subseteq DOMAIN table'
  <2>1. IsTable(table)
    BY <1>1 DEF TypeOK
  <2> QED
    BY <2>1, SeedKeeps
<1>3. key' = key /\ key \in Nat
  BY <1>1 DEF TypeOK, KeysInStep, seed_domain
<1>4. seeds' \in 0 .. MaxSeeds /\ seeds' # 0
  BY <1>1, DispatchAssumption DEF TypeOK
<1>5. TypeOK'
  <2>1. phase' \in [Msgs -> Phases]
    <3>1. ASSUME NEW m \in Msgs PROVE phase'[m] \in Phases
      BY <1>1 DEF TypeOK, Phases
    <3> QED
      BY <3>1
  <2>2. DOMAIN loaded' = Msgs /\ \A m \in Msgs : IsTable(loaded'[m])
    BY EmptyTable
  <2>3. /\ via' \in [Msgs -> (DOMAIN table') \cup {0}]
        /\ zone'.a \subseteq Names \X (DOMAIN table')
    BY <1>1, <1>2 DEF TypeOK
  <2> QED
    BY <1>1, <1>2, <1>3, <1>4, <2>1, <2>2, <2>3 DEF TypeOK, IsTable
<1>6. LoadedInStep'
  BY <1>4, EmptyTable DEF LoadedInStep
<1>7. KeysInStep'
  BY <1>1, <1>3 DEF KeysInStep
<1>8. PoolsApartUntilReseeded'
  BY <1>4 DEF PoolsApartUntilReseeded
<1> QED
  BY <1>5, <1>6, <1>7, <1>8 DEF DispatchInv

LEMMA NextInv == DispatchInv /\ [Next]_vars => DispatchInv'
<1> SUFFICES ASSUME DispatchInv, [Next]_vars PROVE DispatchInv'
  OBVIOUS
<1>1. CASE UNCHANGED vars
  BY <1>1 DEF vars, mailVars, nameVars, DispatchInv, TypeOK, IsTable, LoadedInStep,
              KeysInStep, PoolsApartUntilReseeded
<1>2. CASE \E m \in Msgs : Load(m) \/ Enqueue(m) \/ Refuse(m) \/ Claim(m) \/ Deliver(m)
  BY <1>2, LoadInv, EnqueueInv, RefuseInv, ClaimInv, DeliverInv
<1>3. CASE \E i \in DOMAIN table, h \in Healths : SetHealth(i, h)
  BY <1>3, SetHealthInv
<1>4. CASE NewDay \/ PublishDns
  BY <1>4, NewDayInv, PublishInv
<1>5. CASE \E cfg \in Configs : Restart(cfg)
  BY <1>5, RestartInv
<1> QED
  BY <1>1, <1>2, <1>3, <1>4, <1>5 DEF Next

(***************************************************************************)
(* The invariant of queue, health and seeding together, for every number   *)
(* of messages, addresses, configurations and restarts.                    *)
(***************************************************************************)
THEOREM DispatchInvariant == Spec => []DispatchInv
  BY InitInv, NextInv, PTL DEF Spec

(***************************************************************************)
(* Every variable keeps its type; in particular ip_id always names a row.  *)
(***************************************************************************)
THEOREM TypeCorrect == Spec => []TypeOK
<1>1. DispatchInv => TypeOK
  BY DEF DispatchInv
<1> QED
  BY <1>1, DispatchInvariant, PTL

(***************************************************************************)
(* No marketing message is bound to a transactional IP while the other     *)
(* pools have a row and the roles stand.                                   *)
(***************************************************************************)
THEOREM PoolsApart == Spec => []PoolsApartUntilReseeded
<1>1. DispatchInv => PoolsApartUntilReseeded
  BY DEF DispatchInv
<1> QED
  BY <1>1, DispatchInvariant, PTL

(***************************************************************************)
(* Routing turns no transactional or mailbox message away while an IP of   *)
(* the loaded table is out of quarantine, nor a marketing message while    *)
(* one of its own is.                                                      *)
(***************************************************************************)
THEOREM Served == Spec => []ServedWhileHealthy
<1>1. ASSUME DispatchInv, NEW m \in Msgs,
             NEW i \in Healthy(loaded[m]),
             StreamOf[m] = "marketing" /\ Isolated(loaded[m])
               => loaded[m][i].role # "transactional"
      PROVE  Choices(StreamOf[m], loaded[m], usage) # {}
  <2>1. IsTable(loaded[m])
    BY <1>1 DEF DispatchInv, TypeOK
  <2>2. RowsTyped(loaded[m])
    BY <2>1, TableRows DEF RowsTyped
  <2>3. \A k \in DOMAIN loaded[m] : usage[k] \in Nat
    BY <1>1, <2>1, DispatchAssumption DEF IsTable, DispatchInv, TypeOK
  <2>4. StreamOf[m] \in Streams
    BY DispatchAssumption
  <2>5. CASE StreamOf[m] = "marketing"
    <3>1. candidates("marketing", loaded[m]) # {}
      BY <1>1, <2>2, <2>5, MarketingServed
    <3> QED
      BY <2>2, <2>3, <2>4, <2>5, <3>1, ChoiceExists
  <2>6. CASE StreamOf[m] \in {"transactional", "mailbox"}
    <3>1. candidates(StreamOf[m], loaded[m]) # {}
      BY <1>1, <2>6, TransactionalServed
    <3> QED
      BY <2>2, <2>3, <2>4, <3>1, ChoiceExists
  <2> QED
    BY <2>4, <2>5, <2>6 DEF Streams
<1>2. DispatchInv => ServedWhileHealthy
  <2> SUFFICES ASSUME DispatchInv, NEW m \in Msgs
               PROVE  LET usable == IF StreamOf[m] = "marketing" /\ Isolated(loaded[m])
                                      THEN Healthy(loaded[m]) \ by_role(loaded[m], "transactional")
                                      ELSE Healthy(loaded[m])
                      IN  usable # {} => Choices(StreamOf[m], loaded[m], usage) # {}
    BY DEF ServedWhileHealthy
  <2> QED
    BY <1>1 DEF by_role
<1> QED
  BY <1>2, DispatchInvariant, PTL

(***************************************************************************)
(* A signature made before any number of restarts verifies with the key    *)
(* that was published before or after them, if one was: the bundle of a    *)
(* failed query has none.                                                  *)
(***************************************************************************)
THEOREM Signatures == Spec => []SignaturesVerify
<1>1. DispatchInv => SignaturesVerify
  BY DEF DispatchInv, KeysInStep, SignaturesVerify
<1> QED
  BY <1>1, DispatchInvariant, PTL
=============================================================================
