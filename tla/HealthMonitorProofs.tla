------------------------- MODULE HealthMonitorProofs -------------------------
(***************************************************************************)
(* What refresh_health keeps true of the ips table for any number of IPs,  *)
(* any delivery counters and any ages, next to the administrator, block    *)
(* lists, failed passes and restarts.                                      *)
(***************************************************************************)
EXTENDS HealthMonitor, TLAPS

(***************************************************************************)
(* What a pass carries from one statement to the next, with the two        *)
(* properties that rest on it, inductive as a whole: the flag it judges by *)
(* is the stored one unless it has probed, a hit is judged as a listing,   *)
(* and the pair it is about to write is one the judges could agree on.     *)
(***************************************************************************)
PassInStep ==
  /\ now.pc = "judge" => /\ ~now.due => now.listed = listed[now.ip]
                         /\ now.hits => now.due /\ now.listed
  /\ now.pc = "write" => /\ now.health = "quarantine" => now.volume = "stop"
                         /\ now.health # "quarantine" => seen[now.ip] # "quarantine"
                         /\ now.hits => now.volume = "stop"
                         /\ ~now.due /\ listed[now.ip] => now.volume = "stop"

MonitorInv == TypeOK /\ PassInStep /\ QuarantineMeansStop /\ ListedMeansStop

(***************************************************************************)
(* The verdicts                                                            *)
(***************************************************************************)
LEMMA SignalsType ==
  ASSUME TypeOK, NEW i \in Ips, NEW b \in BOOLEAN
  PROVE  SignalsOf(i, b) \in Signals
<1>1. window[i] \in Sums /\ age[i] \in Nat
  BY MonitorAssumption DEF TypeOK
<1> QED
  BY <1>1 DEF SignalsOf, Signals, TypeOK, Sums

LEMMA VerdictType ==
  ASSUME NEW s
  PROVE  evaluate_health(s) \in Healths /\ decide_volume(s) \in Decisions
  BY DEF evaluate_health, decide_volume, Healths, Decisions

\* The judges agree, never end a quarantine, and stop a listed IP.
LEMMA VerdictRules ==
  ASSUME NEW s
  PROVE  /\ evaluate_health(s) = "quarantine" => decide_volume(s) = "stop"
         /\ s.health = "quarantine" => evaluate_health(s) = "quarantine"
         /\ s.dnsbl_listed => decide_volume(s) = "stop"
  BY DEF evaluate_health, decide_volume, Stopped

-----------------------------------------------------------------------------
LEMMA InitInv ==
  ASSUME Init
  PROVE  MonitorInv
<1>1. TypeOK
  BY MonitorAssumption DEF Init, TypeOK, Healths, Decisions, PassStates, Idle
<1>2. PassInStep /\ QuarantineMeansStop /\ ListedMeansStop
  BY DEF Init, PassInStep, Idle, QuarantineMeansStop, ListedMeansStop
<1> QED
  BY <1>1, <1>2 DEF MonitorInv

\* Deliveries and the passage of time touch neither the verdicts nor a pass.
LEMMA WorldInv ==
  ASSUME MonitorInv, NEW i \in Ips,
         \/ BumpBlocked(i) \/ Bump(i) \/ HourTurns(i) \/ BlockExpires(i)
         \/ Grow(i) \/ ListChanges(i)
  PROVE  MonitorInv'
<1>1. TypeOK'
  <2>1. CASE BumpBlocked(i)
    BY <2>1 DEF MonitorInv, TypeOK, BumpBlocked, ipVars, passVars
  <2>2. CASE Bump(i)
    BY <2>2 DEF MonitorInv, TypeOK, Bump, ipVars, passVars, worldVars
  <2>3. CASE HourTurns(i)
    BY <2>3 DEF MonitorInv, TypeOK, HourTurns, ipVars, passVars, worldVars
  <2>4. CASE BlockExpires(i)
    BY <2>4 DEF MonitorInv, TypeOK, BlockExpires, ipVars, passVars
  <2>5. CASE Grow(i)
    BY <2>5 DEF MonitorInv, TypeOK, Grow, ipVars, countVars, passVars
  <2>6. CASE ListChanges(i)
    BY <2>6 DEF MonitorInv, TypeOK, ListChanges, ipVars, countVars, passVars
  <2> QED
    BY <2>1, <2>2, <2>3, <2>4, <2>5, <2>6
<1>2. UNCHANGED <<health, volume, listed, now, seen, byMonitor>>
  BY DEF BumpBlocked, Bump, HourTurns, BlockExpires, Grow, ListChanges, ipVars, passVars
<1>3. (PassInStep /\ QuarantineMeansStop /\ ListedMeansStop)'
  BY <1>2 DEF MonitorInv, PassInStep, QuarantineMeansStop, ListedMeansStop
<1> QED
  BY <1>1, <1>3 DEF MonitorInv

LEMMA ProbeExpiresInv ==
  ASSUME MonitorInv, NEW i \in Ips, ProbeExpires(i)
  PROVE  MonitorInv'
<1>1. TypeOK'
  BY DEF MonitorInv, TypeOK, ProbeExpires, countVars, passVars, worldVars
<1>2. (PassInStep /\ QuarantineMeansStop /\ ListedMeansStop)'
  BY DEF MonitorInv, PassInStep, QuarantineMeansStop, ListedMeansStop, ProbeExpires, passVars
<1> QED
  BY <1>1, <1>2 DEF MonitorInv

LEMMA AdminInv ==
  ASSUME MonitorInv, NEW i \in Ips, NEW h \in Healths, AdminSetHealth(i, h)
  PROVE  MonitorInv'
<1>1. TypeOK'
  BY DEF MonitorInv, TypeOK, AdminSetHealth, countVars, passVars, worldVars
<1>2. (PassInStep /\ ListedMeansStop)'
  BY DEF MonitorInv, PassInStep, ListedMeansStop, AdminSetHealth, passVars
<1>3. QuarantineMeansStop'
  BY DEF MonitorInv, QuarantineMeansStop, TypeOK, AdminSetHealth
<1> QED
  BY <1>1, <1>2, <1>3 DEF MonitorInv

LEMMA PassStartInv ==
  ASSUME MonitorInv, PassStart
  PROVE  MonitorInv'
  BY DEF MonitorInv, TypeOK, PassInStep, QuarantineMeansStop, ListedMeansStop,
         PassStart, ipVars, countVars, worldVars, Idle

LEMMA LookUpInv ==
  ASSUME MonitorInv, NEW i \in Ips, LookUp(i)
  PROVE  MonitorInv'
<1>1. \E p \in [listed : BOOLEAN, hits : BOOLEAN], d \in BOOLEAN :
        /\ now' = [pc |-> "judge", ip |-> i, due |-> d, listed |-> p.listed, hits |-> p.hits]
        /\ ~d => p.listed = listed[i]
        /\ p.hits => d /\ p.listed
  <2>1. CASE probed[i]
    <3> DEFINE p == [listed |-> listed[i], hits |-> FALSE]
    <3>1. p \in [listed : BOOLEAN, hits : BOOLEAN]
      BY DEF MonitorInv, TypeOK
    <3>2. now' = [pc |-> "judge", ip |-> i, due |-> FALSE, listed |-> p.listed, hits |-> p.hits]
      BY <2>1 DEF LookUp
    <3> QED
      BY <3>1, <3>2
  <2>2. CASE ~probed[i]
    <3>1. PICK p \in Probe(i) :
            now' = [pc |-> "judge", ip |-> i, due |-> TRUE, listed |-> p.listed, hits |-> p.hits]
      BY <2>2 DEF LookUp
    <3>2. onList[i] \in BOOLEAN /\ listed[i] \in BOOLEAN
      BY DEF MonitorInv, TypeOK
    <3>3. p \in [listed : BOOLEAN, hits : BOOLEAN]
      <4>1. \/ p = [listed |-> onList[i], hits |-> onList[i]]
            \/ p = [listed |-> FALSE, hits |-> FALSE]
            \/ p = [listed |-> listed[i], hits |-> FALSE]
        BY <3>1 DEF Probe
      <4>2. \A a, b \in BOOLEAN :
              [listed |-> a, hits |-> b] \in [listed : BOOLEAN, hits : BOOLEAN]
        OBVIOUS
      <4> QED
        BY <3>2, <4>1, <4>2, Zenon
    <3>4. p.hits => p.listed
      BY <3>1 DEF Probe
    <3> QED
      BY <3>1, <3>3, <3>4
  <2> QED
    BY <2>1, <2>2
<1>2. TypeOK'
  BY <1>1 DEF MonitorInv, TypeOK, PassStates, LookUp, ipVars, countVars, worldVars
<1>3. PassInStep'
  BY <1>1 DEF PassInStep, LookUp, ipVars
<1>4. (QuarantineMeansStop /\ ListedMeansStop)'
  BY DEF MonitorInv, QuarantineMeansStop, ListedMeansStop, LookUp, ipVars
<1> QED
  BY <1>2, <1>3, <1>4 DEF MonitorInv

\* What a pass at a statement knows.
LEMMA PassType ==
  ASSUME TypeOK
  PROVE  /\ now.pc = "judge" => /\ now.ip \in Ips /\ now.due \in BOOLEAN
                                /\ now.listed \in BOOLEAN /\ now.hits \in BOOLEAN
         /\ now.pc = "write" => /\ now.ip \in Ips /\ now.due \in BOOLEAN
                                /\ now.hits \in BOOLEAN
                                /\ now.health \in Healths /\ now.volume \in Decisions
  BY DEF TypeOK, PassStates, Idle

LEMMA JudgeInv ==
  ASSUME MonitorInv, Judge
  PROVE  MonitorInv'
<1> DEFINE s == SignalsOf(now.ip, now.listed)
<1>1. /\ now.pc = "judge"
      /\ now' = [pc |-> "write", ip |-> now.ip, due |-> now.due, hits |-> now.hits,
                 health |-> evaluate_health(s), volume |-> decide_volume(s)]
  BY DEF Judge
<1>2. /\ now.ip \in Ips /\ now.due \in BOOLEAN /\ now.hits \in BOOLEAN
      /\ now.listed \in BOOLEAN
  BY <1>1, PassType DEF MonitorInv
<1>3. s.health = seen[now.ip] /\ s.dnsbl_listed = now.listed
  BY DEF SignalsOf
<1>4. evaluate_health(s) \in Healths /\ decide_volume(s) \in Decisions
  BY VerdictType
<1>5. /\ evaluate_health(s) = "quarantine" => decide_volume(s) = "stop"
      /\ seen[now.ip] = "quarantine" => evaluate_health(s) = "quarantine"
      /\ now.listed => decide_volume(s) = "stop"
  BY <1>3, VerdictRules
<1> HIDE DEF s
<1>6. TypeOK'
  BY <1>1, <1>2, <1>4 DEF MonitorInv, TypeOK, PassStates, Judge, ipVars, countVars, worldVars
<1>7. PassInStep'
  BY <1>1, <1>2, <1>5 DEF MonitorInv, PassInStep, Judge, ipVars
<1>8. (QuarantineMeansStop /\ ListedMeansStop)'
  BY DEF MonitorInv, QuarantineMeansStop, ListedMeansStop, Judge, ipVars
<1> QED
  BY <1>6, <1>7, <1>8 DEF MonitorInv

LEMMA WriteInv ==
  ASSUME MonitorInv, Write
  PROVE  MonitorInv'
<1>1. /\ now.pc = "write" /\ now.ip \in Ips /\ now.due \in BOOLEAN
      /\ now.hits \in BOOLEAN /\ now.health \in Healths /\ now.volume \in Decisions
  BY PassType DEF MonitorInv, Write
<1>2. TypeOK'
  <2>1. /\ health' \in [Ips -> Healths] /\ volume' \in [Ips -> Decisions]
        /\ byMonitor' \in [Ips -> BOOLEAN]
    BY <1>1 DEF MonitorInv, TypeOK, Write
  <2>2. listed' \in [Ips -> BOOLEAN] /\ probed' \in [Ips -> BOOLEAN]
    BY <1>1 DEF MonitorInv, TypeOK, Write
  <2> QED
    BY <2>1, <2>2 DEF MonitorInv, TypeOK, Write, countVars, worldVars, PassStates
<1>3. PassInStep'
  BY DEF PassInStep, Write, Idle
<1>4. QuarantineMeansStop'
  BY <1>1 DEF MonitorInv, TypeOK, QuarantineMeansStop, PassInStep, Write
<1>5. ListedMeansStop'
  <2> SUFFICES ASSUME NEW i \in Ips, listed'[i] PROVE volume'[i] = "stop"
    BY DEF ListedMeansStop
  <2>1. CASE i # now.ip
    BY <2>1, <1>1 DEF MonitorInv, TypeOK, ListedMeansStop, Write
  <2>2. CASE i = now.ip /\ now.due
    BY <2>2, <1>1 DEF MonitorInv, TypeOK, PassInStep, Write
  <2>3. CASE i = now.ip /\ ~now.due
    BY <2>3, <1>1 DEF MonitorInv, TypeOK, PassInStep, Write
  <2> QED
    BY <1>1, <2>1, <2>2, <2>3
<1> QED
  BY <1>2, <1>3, <1>4, <1>5 DEF MonitorInv

LEMMA PassFailsInv ==
  ASSUME MonitorInv, PassFails
  PROVE  MonitorInv'
<1>1. faults' \in 0 .. MaxFaults
  BY MonitorAssumption DEF MonitorInv, TypeOK, PassFails
<1> QED
  BY <1>1 DEF MonitorInv, TypeOK, PassInStep, QuarantineMeansStop, ListedMeansStop,
              PassFails, ipVars, countVars, worldVars, Idle, PassStates

LEMMA NextInv ==
  ASSUME MonitorInv, [Next]_vars
  PROVE  MonitorInv'
<1>1. CASE UNCHANGED vars
  BY <1>1 DEF MonitorInv, TypeOK, PassInStep, QuarantineMeansStop, ListedMeansStop,
              vars, ipVars, countVars, passVars, worldVars
<1>2. CASE PassStep
  BY <1>2, PassStartInv, LookUpInv, JudgeInv, WriteInv DEF PassStep
<1>3. CASE PassFails
  BY <1>3, PassFailsInv
<1>4. ASSUME NEW i \in Ips, NEW h \in Healths, AdminSetHealth(i, h)
      PROVE  MonitorInv'
  BY <1>4, AdminInv
<1>5. ASSUME NEW i \in Ips,
             \/ BumpBlocked(i) \/ Bump(i) \/ HourTurns(i) \/ BlockExpires(i)
             \/ Grow(i) \/ ListChanges(i)
      PROVE  MonitorInv'
  BY <1>5, WorldInv
<1>6. ASSUME NEW i \in Ips, ProbeExpires(i)
      PROVE  MonitorInv'
  BY <1>6, ProbeExpiresInv
<1> QED
  BY <1>1, <1>2, <1>3, <1>4, <1>5, <1>6 DEF Next

(***************************************************************************)
(* The invariant of refresh_health.                                        *)
(***************************************************************************)
THEOREM MonitorInvariant == Spec => []MonitorInv
  BY InitInv, NextInv, PTL DEF Spec

(***************************************************************************)
(* The columns of ips, the windows of send_counters and a pass keep to     *)
(* their types.                                                            *)
(***************************************************************************)
THEOREM TypeCorrect == Spec => []TypeOK
<1>1. MonitorInv => TypeOK
  BY DEF MonitorInv
<1> QED
  BY <1>1, MonitorInvariant, PTL

(***************************************************************************)
(* An IP that refresh_health left in quarantine is stored as stopped.      *)
(***************************************************************************)
THEOREM QuarantineStops == Spec => []QuarantineMeansStop
<1>1. MonitorInv => QuarantineMeansStop
  BY DEF MonitorInv
<1> QED
  BY <1>1, MonitorInvariant, PTL

(***************************************************************************)
(* An IP stored as listed is stored as stopped.                            *)
(***************************************************************************)
THEOREM ListingStops == Spec => []ListedMeansStop
<1>1. MonitorInv => ListedMeansStop
  BY DEF MonitorInv
<1> QED
  BY <1>1, MonitorInvariant, PTL

(***************************************************************************)
(* refresh_health ends a quarantine only if it had loaded the IP before    *)
(* the quarantine began.                                                   *)
(***************************************************************************)
THEOREM QuarantineOutlivesPasses == Spec => QuarantineLeftOnlyUnseen
<1> DEFINE Left == \A i \in Ips :
                     health[i] = "quarantine" /\ health'[i] # "quarantine" /\ byMonitor'[i]
                       => now.pc = "write" /\ now.ip = i /\ seen[i] # "quarantine"
<1>1. ASSUME MonitorInv, [Next]_vars
      PROVE  [Left]_vars
  <2> SUFFICES ASSUME Next, NEW i \in Ips,
                      health[i] = "quarantine", health'[i] # "quarantine", byMonitor'[i]
               PROVE  now.pc = "write" /\ now.ip = i /\ seen[i] # "quarantine"
    BY <1>1
  <2>1. CASE Write
    <3>1. now.pc = "write" /\ now.ip = i
      BY <2>1 DEF Write, MonitorInv, TypeOK
    <3>2. now.health # "quarantine"
      BY <2>1, <3>1, <1>1 DEF Write, MonitorInv, TypeOK
    <3> QED
      BY <3>1, <3>2, <1>1 DEF MonitorInv, PassInStep
  <2>2. ASSUME NEW k \in Ips, NEW h \in Healths, AdminSetHealth(k, h)
        PROVE  FALSE
    BY <1>1, <2>2 DEF AdminSetHealth, MonitorInv, TypeOK
  <2>3. CASE health' = health
    BY <2>3
  <2>4. Write \/ health' = health \/ \E k \in Ips, h \in Healths : AdminSetHealth(k, h)
    BY DEF Next, PassStep, PassStart, LookUp, Judge, PassFails, BumpBlocked, Bump,
           HourTurns, BlockExpires, Grow, ProbeExpires, ListChanges, ipVars
  <2> QED
    BY <2>1, <2>2, <2>3, <2>4
<1> QED
  BY <1>1, MonitorInvariant, PTL DEF Spec, QuarantineLeftOnlyUnseen
=============================================================================
