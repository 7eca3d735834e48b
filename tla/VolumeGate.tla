----------------------------- MODULE VolumeGate -----------------------------
(***************************************************************************)
(* What enqueue_raw (src/src/queue.rs) does with the quota: one IP, one    *)
(* mailbox provider, and the domains that send through it.  A call reads   *)
(* the sends of the day and the hour from send_counters, takes the volume  *)
(* decision, and stores the message due at once, or in 15 minutes when     *)
(* nothing is left; nothing looks at the quota again.  Sends are counted   *)
(* by bump_counter after the delivery, and every retry counts.             *)
(*                                                                         *)
(* Messages of a domain are alike here, so they are counted, not named.    *)
(* The reads of one call are one step: within a day sends only grow, so    *)
(* reads at different times find something left if and only if one reading *)
(* at the first or at the last of these times does.                        *)
(*                                                                         *)
(* An operator named Faulty_X is X with a plausible mistake; no            *)
(* specification uses it.                                                  *)
(***************************************************************************)
EXTENDS Reputation, FiniteSets, Functions

CONSTANTS
  Domains,     \* sending domains
  Ip,          \* the sending IP
  Isp,         \* the provider of the recipients
  IpHealth,    \* health of the IP; routing offers none in quarantine
  Ages,        \* age in days of the IP and the domains at the start
  SentBefore,  \* sends of the hour the model starts in
  Verdicts,    \* what decide_volume may answer
  MaxCalls,    \* bound: [Domains -> Nat], calls that reach the quota
  MaxSends,    \* bound: [0 .. MaxDays -> Nat], sends of a domain in a day
  MaxLost,     \* bound: messages of a domain lost in a day
  MaxDays      \* bound: midnights

Scopes == Domains \cup {Ip}

Total(f) == FoldFunction(LAMBDA x, y : x + y, 0, f)

\* The IP's count of the day is the sum over all domains that use it.
ASSUME GateAssumption ==
  /\ IsFiniteSet(Domains) /\ Ip \notin Domains
  /\ Isp \in Isps /\ IpHealth \in {"warmup", "active"}
  /\ Ages \subseteq [Scopes -> Nat]
  /\ SentBefore \in [Scopes -> Nat]
  /\ Total([d \in Domains |-> SentBefore[d]]) <= SentBefore[Ip]
  /\ Verdicts \subseteq Decisions
  /\ MaxCalls \in [Domains -> Nat]
  /\ MaxLost \in Nat /\ MaxDays \in Nat
  /\ MaxSends \in [0 .. MaxDays -> Nat]

VARIABLES
  age,        \* ip_age_days, and days since first_sent_at
  calls,      \* calls that have read the counters, by domain
  calling,    \* those that found something left and have yet to INSERT
  due,        \* messages due or being delivered and not yet counted
  later,      \* messages whose next_attempt_at is ahead
  lost,       \* messages claimed today that will never be counted
  sent,       \* sends counted today, by domain and for the IP
  hour,       \* sends of the IP counted this hour
  opened,     \* history: messages stored today that found something left
  peak,       \* history: greatest Uncounted of today, by domain and for the IP
  days        \* midnights so far, at most MaxDays

queueVars == <<calls, calling, due, later, lost>>
countVars == <<sent, hour>>
histVars  == <<opened, peak>>
dayVars   == <<age, days>>
vars == <<queueVars, countVars, histVars, dayVars>>

Counts == [Domains -> Nat]

TypeOK ==
  /\ age \in [Scopes -> Nat]
  /\ calls \in Counts /\ calling \in Counts
  /\ due \in Counts /\ later \in Counts /\ lost \in Counts
  /\ sent \in [Scopes -> Nat] /\ hour \in Nat
  /\ opened \in Counts /\ peak \in [Scopes -> Nat]
  /\ days \in 0 .. MaxDays

-----------------------------------------------------------------------------
Plus(f, d, n) == [f EXCEPT ![d] = @ + n]
None == [d \in Domains |-> 0]

Cap(s) == warmup_daily_cap(age[s], Isp)

Quota(d) ==
  remaining_quota(age[Ip], age[d], IpHealth, Isp, sent[Ip], sent[d], hour)

\* Messages let through, or being delivered, that the counters do not know of.
Uncounted(s) ==
  IF s \in Domains THEN calling[s] + due[s] + lost[s]
                   ELSE Total(calling) + Total(due) + Total(lost)

\* `peak` follows Uncounted.
PeakFollows ==
  peak' = [s \in Scopes |-> IF Uncounted(s)' > peak[s] THEN Uncounted(s)' ELSE peak[s]]

\* A day in which the caps have been kept so far.
Init ==
  /\ age \in Ages
  /\ calls = None /\ calling = None
  /\ due = None /\ later = None /\ lost = None
  /\ sent = SentBefore /\ hour = SentBefore[Ip]
  /\ \A s \in Scopes : sent[s] <= Cap(s)
  /\ opened = [d \in Domains |-> SentBefore[d]] /\ peak = [s \in Scopes |-> 0]
  /\ days = 0

\* enqueue_raw from its first read of the counters to the delay.  A delayed
\* message counts as stored: no other step can tell before it is due.
Decide(d) ==
  /\ calls[d] < MaxCalls[d]
  /\ calls' = Plus(calls, d, 1)
  /\ \E v \in Verdicts :
       IF apply_volume(Quota(d), v) = 0
         THEN later' = Plus(later, d, 1) /\ UNCHANGED calling
         ELSE calling' = Plus(calling, d, 1) /\ UNCHANGED later
  /\ UNCHANGED <<due, lost, countVars, opened, dayVars>>
  /\ PeakFollows

\* enqueue_raw: the INSERT of a message that is due at once.
Insert(d) ==
  /\ calling[d] > 0
  /\ calling' = Plus(calling, d, -1)
  /\ due' = Plus(due, d, 1)
  /\ opened' = Plus(opened, d, 1)
  /\ UNCHANGED <<calls, later, lost, countVars, peak, dayVars>>

\* The INSERT fails, or the process stops before it.
InsertFails(d) ==
  /\ calling[d] > 0
  /\ calling' = Plus(calling, d, -1)
  /\ UNCHANGED <<calls, due, later, lost, countVars, histVars, dayVars>>

\* The 15 minutes, or the delay of a retry, are over.
BecomeDue(d) ==
  /\ later[d] > 0
  /\ later' = Plus(later, d, -1)
  /\ due' = Plus(due, d, 1)
  /\ UNCHANGED <<calls, calling, lost, countVars, opened, dayVars>>
  /\ PeakFollows

\* counters sums over the domains when it is given none.
Counted(d) == [sent EXCEPT ![d] = @ + 1, ![Ip] = @ + 1]

\* A deferred send is not counted.
Faulty_Send(d) ==
  /\ due[d] > 0 /\ sent[d] < MaxSends[days]
  /\ due' = Plus(due, d, -1)
  /\ \/ later' = Plus(later, d, 1) /\ UNCHANGED countVars
     \/ sent' = Counted(d) /\ hour' = hour + 1 /\ UNCHANGED later
  /\ UNCHANGED <<calls, calling, lost, histVars, dayVars>>

\* A message is sent that another task has sent.
Faulty_Send_Again(d) ==
  /\ sent[d] < MaxSends[days]
  /\ due' = Plus(due, d, -1)
  /\ later' = later \/ later' = Plus(later, d, 1)
  /\ sent' = Counted(d)
  /\ hour' = hour + 1
  /\ UNCHANGED <<calls, calling, lost, histVars, dayVars>>

\* process_job: deliver and bump_counter, which counts a send whatever the
\* outcome; finish takes a deferred message back.
Send(d) ==
  /\ due[d] > 0 /\ sent[d] < MaxSends[days]
  /\ due' = Plus(due, d, -1)
  /\ later' = later \/ later' = Plus(later, d, 1)
  /\ sent' = Counted(d)
  /\ hour' = hour + 1
  /\ UNCHANGED <<calls, calling, lost, histVars, dayVars>>

\* A restart between the claim and bump_counter, or bump_counter fails: the
\* message stays in `sending`, delivered or not.
Lose(d) ==
  /\ due[d] > 0 /\ lost[d] < MaxLost
  /\ due' = Plus(due, d, -1)
  /\ lost' = Plus(lost, d, 1)
  /\ UNCHANGED <<calls, calling, later, countVars, histVars, dayVars>>

\* date_trunc('hour', now())
HourTurns ==
  /\ hour' = 0
  /\ UNCHANGED <<queueVars, sent, histVars, dayVars>>

\* bucket::date = CURRENT_DATE, and everyone is a day older.
NewDay ==
  /\ days < MaxDays
  /\ days' = days + 1
  /\ age' = [s \in Scopes |-> age[s] + 1]
  /\ sent' = [s \in Scopes |-> 0] /\ hour' = 0 /\ lost' = None
  /\ UNCHANGED <<calls, calling, due, later>>
  /\ opened' = None /\ peak' = [s \in Scopes |-> Uncounted(s)']

Next ==
  \/ \E d \in Domains : \/ Decide(d) \/ Insert(d) \/ InsertFails(d)
                        \/ BecomeDue(d) \/ Send(d) \/ Lose(d)
  \/ HourTurns
  \/ NewDay

Spec == Init /\ [][Next]_vars

-----------------------------------------------------------------------------
(* Properties *)

(***************************************************************************)
(* What the gate of enqueue_raw achieves for a domain although it counts   *)
(* late: of the messages of a day, those let through at once keep the      *)
(* domain's daily cap if they come one by one, and exceed it otherwise by  *)
(* fewer than were uncounted at one time.                                  *)
(***************************************************************************)
DomainOvershootBounded ==
  \A d \in Domains : opened[d] <= Cap(d) + SaturatingSub(peak[d], 1)

(***************************************************************************)
(* The same for the IP: its cap holds for the messages of all domains      *)
(* together, except for fewer than were uncounted, of all domains, at one  *)
(* time.                                                                   *)
(***************************************************************************)
IpOvershootBounded == Total(opened) <= Cap(Ip) + SaturatingSub(peak[Ip], 1)
=============================================================================
