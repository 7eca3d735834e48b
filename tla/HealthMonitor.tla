--------------------------- MODULE HealthMonitor ---------------------------
(***************************************************************************)
(* The health of sending IPs: refresh_health (src/src/queue.rs), which     *)
(* judges every IP from the delivery counters and the DNS block lists, and *)
(* the three that write next to it: bump_counter after each delivery, the  *)
(* administrator's admin_set_health (src/src/http.rs), and time, which     *)
(* moves the counters' windows on.                                         *)
(*                                                                         *)
(* A pass of refresh_health reads all IPs at its start and then spends, on *)
(* each, several statements and up to four DNS lookups before it writes.   *)
(* There is one pass at a time: worker_loop runs it inline.                *)
(*                                                                         *)
(* An operator named Faulty_X is X with a plausible mistake; no            *)
(* specification uses it.                                                  *)
(***************************************************************************)
EXTENDS Reputation, FiniteSets

CONSTANTS
  Ips,        \* rows of the ips table; never deleted
  Windows,    \* values the windowed sums of send_counters take
  Ages,       \* values ip_age_days takes
  MaxFaults   \* bound: failed statements of a pass plus restarts

Sums == [sent_7d : Nat, bounce_7d : Nat, sent_24h : Nat, bounce_24h : Nat,
         deferred_24h : Nat]

ASSUME MonitorAssumption ==
  /\ IsFiniteSet(Ips)
  /\ Windows \subseteq Sums /\ Windows # {}
  /\ Ages \subseteq Nat /\ Ages # {}
  /\ MaxFaults \in Nat

VARIABLES
  health, volume,  \* ips.health, ips.volume_decision
  listed,          \* ips.listed_on is not empty
  probed,          \* last_probe_at is at most six hours ago
  age,             \* days since ips.created_at
  window,          \* the sums of send_counters, without `blocked`
  blocked,         \* SUM(blocked) over 48 hours is positive
  openRow,         \* send_counters has the row of the current hour
  todo,            \* IPs the pass has still to judge
  seen,            \* health of each IP as the pass loaded it
  now,             \* the IP the pass is at, and what it has learned
  onList,          \* environment: a DNS block list holds the IP
  refused,         \* history: a provider blocked the IP within 48 hours
  byMonitor,       \* history: health was last written by refresh_health
  faults           \* faults so far, at most MaxFaults

ipVars   == <<health, volume, listed, probed>>
countVars == <<window, blocked, openRow>>
passVars == <<todo, seen, now>>
worldVars == <<age, onList, refused>>
vars == <<ipVars, countVars, passVars, worldVars, byMonitor, faults>>

Idle == [pc |-> "idle"]

PassStates ==
  {Idle}
  \cup [pc : {"judge"}, ip : Ips, due : BOOLEAN, listed : BOOLEAN, hits : BOOLEAN]
  \cup [pc : {"write"}, ip : Ips, due : BOOLEAN, hits : BOOLEAN,
        health : Healths, volume : Decisions]

TypeOK ==
  /\ health \in [Ips -> Healths] /\ volume \in [Ips -> Decisions]
  /\ listed \in [Ips -> BOOLEAN] /\ probed \in [Ips -> BOOLEAN]
  /\ age \in [Ips -> Ages]
  /\ window \in [Ips -> Windows]
  /\ blocked \in [Ips -> BOOLEAN] /\ openRow \in [Ips -> BOOLEAN]
  /\ todo \subseteq Ips /\ seen \in [Ips -> Healths]
  /\ now \in PassStates
  /\ onList \in [Ips -> BOOLEAN] /\ refused \in [Ips -> BOOLEAN]
  /\ byMonitor \in [Ips -> BOOLEAN]
  /\ faults \in 0 .. MaxFaults

\* seed_ip inserts 'warmup'; the other columns have the defaults of
\* src/sql/002_reputation.sql.  The counters may already hold traffic.
Init ==
  /\ health = [i \in Ips |-> "warmup"] /\ volume = [i \in Ips |-> "hold"]
  /\ listed = [i \in Ips |-> FALSE] /\ probed = [i \in Ips |-> FALSE]
  /\ age \in [Ips -> Ages]
  /\ window \in [Ips -> Windows]
  /\ blocked = [i \in Ips |-> FALSE] /\ openRow = [i \in Ips |-> FALSE]
  /\ todo = {} /\ seen = health /\ now = Idle
  /\ onList = [i \in Ips |-> FALSE] /\ refused = [i \in Ips |-> FALSE]
  /\ byMonitor = [i \in Ips |-> FALSE]
  /\ faults = 0

-----------------------------------------------------------------------------
(* Delivery outcomes and the passage of time *)

\* bump_counter after a Block.  The INSERT that opens the hour's row stores
\* sent = 1 and blocked = 0; only the ON CONFLICT branch counts the block.
BumpBlocked(i) ==
  /\ refused' = [refused EXCEPT ![i] = TRUE]
  /\ openRow' = [openRow EXCEPT ![i] = TRUE]
  /\ blocked' = [blocked EXCEPT ![i] = blocked[i] \/ openRow[i]]
  /\ \E w \in Windows : window' = [window EXCEPT ![i] = w]
  /\ UNCHANGED <<ipVars, passVars, age, onList, byMonitor, faults>>

\* bump_counter after any other outcome.
Bump(i) ==
  /\ openRow' = [openRow EXCEPT ![i] = TRUE]
  /\ \E w \in Windows : window' = [window EXCEPT ![i] = w]
  /\ UNCHANGED <<blocked, ipVars, passVars, worldVars, byMonitor, faults>>

\* The hour turns: the next delivery opens a new row, sums slide on.
HourTurns(i) ==
  /\ openRow' = [openRow EXCEPT ![i] = FALSE]
  /\ \E w \in Windows : window' = [window EXCEPT ![i] = w]
  /\ UNCHANGED <<blocked, ipVars, passVars, worldVars, byMonitor, faults>>

\* The last block is more than 48 hours old.
BlockExpires(i) ==
  /\ refused[i]
  /\ refused' = [refused EXCEPT ![i] = FALSE]
  /\ blocked' = [blocked EXCEPT ![i] = FALSE]
  /\ openRow' = [openRow EXCEPT ![i] = FALSE]
  /\ UNCHANGED <<window, ipVars, passVars, age, onList, byMonitor, faults>>

Grow(i) ==
  /\ \E a \in Ages : a > age[i] /\ age' = [age EXCEPT ![i] = a]
  /\ UNCHANGED <<ipVars, countVars, passVars, onList, refused, byMonitor, faults>>

\* Six hours pass since the last probe.
ProbeExpires(i) ==
  /\ probed[i]
  /\ probed' = [probed EXCEPT ![i] = FALSE]
  /\ UNCHANGED <<health, volume, listed, countVars, passVars, worldVars,
                 byMonitor, faults>>

\* A block list takes the IP up or drops it.
ListChanges(i) ==
  /\ onList' = [onList EXCEPT ![i] = ~onList[i]]
  /\ UNCHANGED <<ipVars, countVars, passVars, age, refused, byMonitor, faults>>

\* POST /console/api/ips/{id}/health
AdminSetHealth(i, h) ==
  /\ health' = [health EXCEPT ![i] = h]
  /\ byMonitor' = [byMonitor EXCEPT ![i] = FALSE]
  /\ UNCHANGED <<volume, listed, probed, countVars, passVars, worldVars, faults>>

-----------------------------------------------------------------------------
(* A pass of refresh_health *)

\* A column too far: volume_decision is read for health.
Faulty_PassStart ==
  /\ todo = {} /\ now = Idle
  /\ todo' = Ips
  /\ seen' = volume
  /\ UNCHANGED <<now, ipVars, countVars, worldVars, byMonitor, faults>>

\* load_ips: one SELECT, whose healths are used until the pass ends.
PassStart ==
  /\ todo = {} /\ now = Idle
  /\ todo' = Ips
  /\ seen' = health
  /\ UNCHANGED <<now, ipVars, countVars, worldVars, byMonitor, faults>>

(***************************************************************************)
(* What dnsbl::listed_on may report: [listed |-> what the pass goes on     *)
(* with, hits |-> whether listed_on is written non-empty].  A lookup that  *)
(* fails counts as a miss.  If no resolver can be built the call is an     *)
(* error, and the pass goes on with the old flag but stores no hits.       *)
(***************************************************************************)
Probe(i) ==
  {[listed |-> onList[i], hits |-> onList[i]],
   [listed |-> FALSE, hits |-> FALSE],
   [listed |-> listed[i], hits |-> FALSE]}

\* The stored flag is judged instead of the probe's.
Faulty_LookUp(i) ==
  /\ now = Idle /\ i \in todo
  /\ IF probed[i]
       THEN now' = [pc |-> "judge", ip |-> i, due |-> FALSE, listed |-> listed[i],
                    hits |-> FALSE]
       ELSE \E p \in Probe(i) :
              now' = [pc |-> "judge", ip |-> i, due |-> TRUE, listed |-> listed[i],
                      hits |-> p.hits]
  /\ UNCHANGED <<todo, seen, ipVars, countVars, worldVars, byMonitor, faults>>

\* probe_due, listed_flag and, when due, the probe.
LookUp(i) ==
  /\ now = Idle /\ i \in todo
  /\ IF probed[i]
       THEN now' = [pc |-> "judge", ip |-> i, due |-> FALSE, listed |-> listed[i],
                    hits |-> FALSE]
       ELSE \E p \in Probe(i) :
              now' = [pc |-> "judge", ip |-> i, due |-> TRUE, listed |-> p.listed,
                      hits |-> p.hits]
  /\ UNCHANGED <<todo, seen, ipVars, countVars, worldVars, byMonitor, faults>>

\* The blocks are filtered by a provider the pass does not have.
Faulty_SignalsOf(i, isListed) ==
  [health |-> seen[i], age |-> age[i],
   sent_7d |-> window[i].sent_7d, bounce_7d |-> window[i].bounce_7d,
   complaint_7d |-> 0,
   sent_24h |-> window[i].sent_24h, bounce_24h |-> window[i].bounce_24h,
   deferred_24h |-> window[i].deferred_24h,
   blocked_48h |-> FALSE, dnsbl_listed |-> isListed]

\* load_signals, with the health loaded at the start of the pass.  No code
\* increments send_counters.complained.
SignalsOf(i, isListed) ==
  [health |-> seen[i], age |-> age[i],
   sent_7d |-> window[i].sent_7d, bounce_7d |-> window[i].bounce_7d,
   complaint_7d |-> 0,
   sent_24h |-> window[i].sent_24h, bounce_24h |-> window[i].bounce_24h,
   deferred_24h |-> window[i].deferred_24h,
   blocked_48h |-> blocked[i], dnsbl_listed |-> isListed]

Judge ==
  /\ now.pc = "judge"
  /\ LET s == SignalsOf(now.ip, now.listed) IN
       now' = [pc |-> "write", ip |-> now.ip, due |-> now.due, hits |-> now.hits,
               health |-> evaluate_health(s), volume |-> decide_volume(s)]
  /\ UNCHANGED <<todo, seen, ipVars, countVars, worldVars, byMonitor, faults>>

\* The UPDATE, whatever health the row has by now.  (It also sets
\* graduated_at and reputation_score, which no code decides anything by.)
Write ==
  /\ now.pc = "write"
  /\ health' = [health EXCEPT ![now.ip] = now.health]
  /\ volume' = [volume EXCEPT ![now.ip] = now.volume]
  /\ IF now.due
       THEN /\ listed' = [listed EXCEPT ![now.ip] = now.hits]
            /\ probed' = [probed EXCEPT ![now.ip] = TRUE]
       ELSE UNCHANGED <<listed, probed>>
  /\ byMonitor' = [byMonitor EXCEPT ![now.ip] = TRUE]
  /\ todo' = todo \ {now.ip}
  /\ now' = Idle
  /\ UNCHANGED <<seen, countVars, worldVars, faults>>

\* A failed statement ends the pass for every IP; so does a restart, after
\* which seed_ip updates hostname and role only.
PassFails ==
  /\ faults < MaxFaults
  /\ faults' = faults + 1
  /\ todo # {}
  /\ todo' = {} /\ now' = Idle
  /\ UNCHANGED <<seen, ipVars, countVars, worldVars, byMonitor>>

PassStep == PassStart \/ (\E i \in Ips : LookUp(i)) \/ Judge \/ Write

Next ==
  \/ \E i \in Ips : \/ BumpBlocked(i) \/ Bump(i) \/ HourTurns(i)
                     \/ BlockExpires(i) \/ Grow(i) \/ ProbeExpires(i)
                     \/ ListChanges(i)
                     \/ \E h \in Healths : AdminSetHealth(i, h)
  \/ PassStep
  \/ PassFails

Spec == Init /\ [][Next]_vars

\* worker_loop starts a pass every two seconds, and every lookup and
\* statement of a pass returns.
FairSpec == Spec /\ WF_vars(PassStep)

-----------------------------------------------------------------------------
(* Properties *)

(***************************************************************************)
(* refresh_health stores health and volume together: an IP it left in      *)
(* quarantine is stored as stopped, although evaluate_health and           *)
(* decide_volume judge by rules of their own.                              *)
(***************************************************************************)
QuarantineMeansStop ==
  \A i \in Ips : health[i] = "quarantine" /\ byMonitor[i] => volume[i] = "stop"

(***************************************************************************)
(* An IP stored as listed is stored as stopped, whether the flag came from *)
(* a probe of this pass or was kept from an earlier one.                   *)
(***************************************************************************)
ListedMeansStop ==
  \A i \in Ips : listed[i] => volume[i] = "stop"

(***************************************************************************)
(* refresh_health ends a quarantine only by overtaking it: it writes       *)
(* another health over a quarantine only if it had loaded the IP before    *)
(* the quarantine began.                                                   *)
(***************************************************************************)
QuarantineLeftOnlyUnseen ==
  [][\A i \in Ips :
       health[i] = "quarantine" /\ health'[i] # "quarantine" /\ byMonitor'[i]
         => now.pc = "write" /\ now.ip = i /\ seen[i] # "quarantine"]_vars

(***************************************************************************)
(* "block quarantines immediately": a block the counters hold puts the IP  *)
(* in quarantine within a pass, unless it first ages out.                  *)
(***************************************************************************)
CountedBlockQuarantines ==
  \A i \in Ips : blocked[i] ~> (health[i] = "quarantine" \/ ~blocked[i])

(***************************************************************************)
(* README, "auto quarantine on bounce/complaint/block": every block does.  *)
(***************************************************************************)
EveryBlockQuarantines ==
  \A i \in Ips : refused[i] ~> (health[i] = "quarantine" \/ ~refused[i])

=============================================================================
