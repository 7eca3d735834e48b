---------------------------- MODULE MessageQueue ----------------------------
(***************************************************************************)
(* The outbound mail queue of src/src/queue.rs: the `messages` table, the  *)
(* intake calls that insert into it (enqueue_raw), the worker that claims  *)
(* due rows (drain_once) and spawns one unsupervised task per row          *)
(* (process_job, finish), the inbound bounce reports (record_verp_bounce), *)
(* and the suppression list they all share.                                *)
(*                                                                         *)
(* Every action is one database statement or one network exchange: the     *)
(* grain at which the tasks of the process interleave.  The process may be *)
(* stopped between any two of them, and any statement may fail.            *)
(*                                                                         *)
(* An operator named Faulty_X is X with a plausible mistake; no            *)
(* specification uses it.  It serves to confirm that a property would      *)
(* notice the mistake.                                                     *)
(***************************************************************************)
EXTENDS Integers, FiniteSets

CONSTANTS
  Msgs,        \* message ids; a message is the enqueue_raw call that may insert it
  Rcpts,       \* recipient addresses, after trim and to_ascii_lowercase
  Recipient,   \* [Msgs -> Rcpts]: messages.recipient
  Priority,    \* [Msgs -> Nat]: Stream::priority of the message's stream
  Dsns,        \* bounce reports that may arrive over SMTP
  Reported,    \* [Dsns -> Msgs]: the id in the VERP address a report is sent to
  Batch,       \* Config::worker_concurrency, the LIMIT of the claim
  Retries,     \* greatest n with retry_delay_secs(n) # None; 7 in the code
  MaxFaults    \* bound: restarts of the process plus failed statements

ASSUME QueueAssumption ==
  /\ IsFiniteSet(Msgs) /\ IsFiniteSet(Dsns)
  /\ Recipient \in [Msgs -> Rcpts]
  /\ Priority \in [Msgs -> Nat]
  /\ Reported \in [Dsns -> Msgs]
  /\ Batch \in Nat \ {0}
  /\ Retries \in Nat
  /\ MaxFaults \in Nat

VARIABLES
  status,       \* messages.status; "absent" before the INSERT
  attempts,     \* messages.attempts
  due,          \* next_attempt_at <= now()
  created,      \* rank of created_at among the rows, 0 before the INSERT
  intake,       \* calls of enqueue_raw past their suppression check
  jobs,         \* spawned process_job tasks
  dsn,          \* progress of each record_verp_bounce call
  suppressions, \* the suppressions table
  events,       \* rows of the events table, per message
  counted,      \* sends the counters hold, per message (bump_counter)
  tries,        \* history: calls of deliver whose outcome is decided, per message
  faults        \* faults so far, at most MaxFaults

rowVars  == <<status, attempts, due, created>>
histVars == <<events, counted, tries>>
vars == <<rowVars, intake, jobs, dsn, suppressions, histVars, faults>>

Statuses == {"absent", "queued", "sending", "sent", "bounced"}

(***************************************************************************)
(* What deliver returns, as far as finish tells it apart: Success, Hard or *)
(* Block ("reject"), Defer or Soft ("defer").                              *)
(***************************************************************************)
Outcomes == {"success", "reject", "defer"}

\* The statement a task runs next; "deliver" is the SMTP exchange.
JobSteps == {"deliver", "count", "event", "update", "suppress"}
DsnSteps == {"none", "mark", "suppress", "event", "done"}

\* `attempts` is the column as RETURNING gave it when the row was claimed.
Job == [msg : Msgs, attempts : 0 .. Retries, pc : JobSteps,
        class : Outcomes \cup {"unknown"}]

TypeOK ==
  /\ status \in [Msgs -> Statuses]
  /\ attempts \in [Msgs -> 0 .. Retries + 1]
  /\ due \in [Msgs -> BOOLEAN]
  /\ created \in [Msgs -> Nat]
  /\ intake \subseteq Msgs
  /\ jobs \subseteq Job
  /\ dsn \in [Dsns -> DsnSteps]
  /\ suppressions \subseteq Rcpts
  /\ events \in [Msgs -> Nat]
  /\ counted \in [Msgs -> Nat]
  /\ tries \in [Msgs -> Nat]
  /\ faults \in 0 .. MaxFaults

Init ==
  /\ status = [m \in Msgs |-> "absent"]
  /\ attempts = [m \in Msgs |-> 0]
  /\ due = [m \in Msgs |-> FALSE]
  /\ created = [m \in Msgs |-> 0]
  /\ intake = {}
  /\ jobs = {}
  /\ dsn = [d \in Dsns |-> "none"]
  /\ suppressions = {}
  /\ events = [m \in Msgs |-> 0]
  /\ counted = [m \in Msgs |-> 0]
  /\ tries = [m \in Msgs |-> 0]
  /\ faults = 0

-----------------------------------------------------------------------------
(***************************************************************************)
(* enqueue_raw                                                             *)
(***************************************************************************)

\* The check is forgotten.
Faulty_Check(m) ==
  /\ status[m] = "absent" /\ m \notin intake
  /\ intake' = intake \cup {m}
  /\ UNCHANGED <<rowVars, jobs, dsn, suppressions, histVars, faults>>

\* The suppression check.  A suppressed recipient is an early return that
\* changes nothing.
Check(m) ==
  /\ status[m] = "absent" /\ m \notin intake
  /\ Recipient[m] \notin suppressions
  /\ intake' = intake \cup {m}
  /\ UNCHANGED <<rowVars, jobs, dsn, suppressions, histVars, faults>>

\* Any later early return: unknown domain, no healthy IP, a failed query.
Refuse(m) ==
  /\ m \in intake
  /\ intake' = intake \ {m}
  /\ UNCHANGED <<rowVars, jobs, dsn, suppressions, histVars, faults>>

\* The INSERT.  The row is due at once, or 15 minutes later when the volume
\* left for the IP is 0.
Insert(m) ==
  /\ m \in intake
  /\ intake' = intake \ {m}
  /\ status' = [status EXCEPT ![m] = "queued"]
  /\ \E now \in BOOLEAN : due' = [due EXCEPT ![m] = now]
  /\ created' = [created EXCEPT
                   ![m] = Cardinality({n \in Msgs : created[n] > 0}) + 1]
  /\ UNCHANGED <<attempts, jobs, dsn, suppressions, histVars, faults>>

\* POST /v1/suppressions and the unsubscribe form.
Suppress(r) ==
  /\ r \notin suppressions
  /\ suppressions' = suppressions \cup {r}
  /\ UNCHANGED <<rowVars, intake, jobs, dsn, histVars, faults>>

-----------------------------------------------------------------------------
(***************************************************************************)
(* drain_once                                                              *)
(***************************************************************************)

\* now() passes next_attempt_at.
BecomeDue(m) ==
  /\ status[m] = "queued" /\ ~due[m]
  /\ due' = [due EXCEPT ![m] = TRUE]
  /\ UNCHANGED <<status, attempts, created, intake, jobs, dsn, suppressions,
                 histVars, faults>>

\* ORDER BY priority, created_at
Before(m, n) ==
  \/ Priority[m] < Priority[n]
  \/ Priority[m] = Priority[n] /\ created[m] < created[n]

\* LIMIT
First(rows) == {m \in rows : Cardinality({n \in rows : Before(n, m)}) < Batch}

\* Rows the UPDATE of a bounce report may hold locked (SKIP LOCKED).
Lockable == {Reported[d] : d \in {e \in Dsns : dsn[e] = "mark"}}

\* Rows left in `sending` are claimed again, to rescue stranded ones.
Faulty_DueRows_Rescue == {m \in Msgs : status[m] \in {"queued", "sending"} /\ due[m]}

\* Every row that was not sent is claimed.
Faulty_DueRows_Bounced == {m \in Msgs : status[m] \in {"queued", "bounced"} /\ due[m]}

DueRows == {m \in Msgs : status[m] = "queued" /\ due[m]}

\* One atomic UPDATE ... RETURNING, then one spawned task per row.
Claim ==
  \E locked \in SUBSET Lockable :
    LET rows == First(DueRows \ locked) IN
    /\ rows # {}
    /\ status' = [m \in Msgs |-> IF m \in rows THEN "sending" ELSE status[m]]
    /\ jobs' = jobs \cup {[msg |-> m, attempts |-> attempts[m],
                           pc |-> "deliver", class |-> "unknown"] : m \in rows}
    /\ UNCHANGED <<attempts, due, created, intake, dsn, suppressions, histVars,
                   faults>>

-----------------------------------------------------------------------------
(***************************************************************************)
(* process_job and finish, statement by statement                          *)
(***************************************************************************)
Advance(j, step) == jobs' = (jobs \ {j}) \cup {[j EXCEPT !.pc = step]}
End(j) == jobs' = jobs \ {j}

\* deliver: the SMTP exchange, or its dry-run stand-in.  The outcome is the
\* remote host's choice, and the step is the moment it has chosen: what it
\* sends of its own accord may arrive before the task goes on.
Deliver(j) ==
  /\ j.pc = "deliver"
  /\ \E c \in Outcomes :
       jobs' = (jobs \ {j}) \cup {[j EXCEPT !.pc = "count", !.class = c]}
  /\ tries' = [tries EXCEPT ![j.msg] = @ + 1]
  /\ UNCHANGED <<rowVars, intake, dsn, suppressions, events, counted, faults>>

\* bump_counter
Count(j) ==
  /\ j.pc = "count"
  /\ counted' = [counted EXCEPT ![j.msg] = @ + 1]
  /\ Advance(j, "event")
  /\ UNCHANGED <<rowVars, intake, dsn, suppressions, events, tries, faults>>

\* The failed INSERT is ignored.
Faulty_Record(j) ==
  /\ j.pc = "event"
  /\ Advance(j, "update")
  /\ UNCHANGED <<rowVars, intake, dsn, suppressions, histVars, faults>>

\* finish: INSERT INTO events
Record(j) ==
  /\ j.pc = "event"
  /\ events' = [events EXCEPT ![j.msg] = @ + 1]
  /\ Advance(j, "update")
  /\ UNCHANGED <<rowVars, intake, dsn, suppressions, counted, tries, faults>>

\* finish: the UPDATE of the row, which has no condition on its status.
Succeed(j) ==
  /\ j.class = "success"
  /\ status' = [status EXCEPT ![j.msg] = "sent"]
  /\ End(j)
  /\ UNCHANGED <<attempts, due>>

\* The recipient is not suppressed.
Faulty_Reject(j) ==
  /\ j.class = "reject"
  /\ status' = [status EXCEPT ![j.msg] = "bounced"]
  /\ attempts' = [attempts EXCEPT ![j.msg] = @ + 1]
  /\ End(j)
  /\ UNCHANGED due

Reject(j) ==
  /\ j.class = "reject"
  /\ status' = [status EXCEPT ![j.msg] = "bounced"]
  /\ attempts' = [attempts EXCEPT ![j.msg] = @ + 1]
  /\ Advance(j, "suppress")
  /\ UNCHANGED due

\* Off by one.
Faulty_RetryAllowed(n) == n <= Retries + 1

\* retry_delay_secs(n) # None
RetryAllowed(n) == n <= Retries

\* The attempt is not counted.
Faulty_Defer_Uncounted(j) ==
  /\ j.class = "defer"
  /\ End(j)
  /\ UNCHANGED attempts
  /\ IF RetryAllowed(j.attempts + 1)
       THEN /\ status' = [status EXCEPT ![j.msg] = "queued"]
            /\ due' = [due EXCEPT ![j.msg] = FALSE]
       ELSE /\ status' = [status EXCEPT ![j.msg] = "bounced"]
            /\ UNCHANGED due

\* The row is not touched once the retries are exhausted.
Faulty_Defer_Dropped(j) ==
  /\ j.class = "defer"
  /\ RetryAllowed(j.attempts + 1)
  /\ attempts' = [attempts EXCEPT ![j.msg] = @ + 1]
  /\ End(j)
  /\ status' = [status EXCEPT ![j.msg] = "queued"]
  /\ due' = [due EXCEPT ![j.msg] = FALSE]

Defer(j) ==
  /\ j.class = "defer"
  /\ attempts' = [attempts EXCEPT ![j.msg] = @ + 1]
  /\ End(j)
  /\ IF RetryAllowed(j.attempts + 1)
       THEN /\ status' = [status EXCEPT ![j.msg] = "queued"]
            /\ due' = [due EXCEPT ![j.msg] = FALSE]
       ELSE /\ status' = [status EXCEPT ![j.msg] = "bounced"]
            /\ UNCHANGED due

Update(j) ==
  /\ j.pc = "update"
  /\ Succeed(j) \/ Reject(j) \/ Defer(j)
  /\ UNCHANGED <<created, intake, dsn, suppressions, histVars, faults>>

\* finish: INSERT INTO suppressions after a hard bounce or a block.
SuppressRejected(j) ==
  /\ j.pc = "suppress"
  /\ suppressions' = suppressions \cup {Recipient[j.msg]}
  /\ End(j)
  /\ UNCHANGED <<rowVars, intake, dsn, histVars, faults>>

JobStep(j) ==
  Deliver(j) \/ Count(j) \/ Record(j) \/ Update(j) \/ SuppressRejected(j)

\* A `?` on a failed statement ends the task; drain_once only logs it.
JobFails(j) ==
  /\ faults < MaxFaults
  /\ faults' = faults + 1
  /\ End(j)
  /\ UNCHANGED <<rowVars, intake, dsn, suppressions, histVars>>

-----------------------------------------------------------------------------
(***************************************************************************)
(* record_verp_bounce.  A report can name a message only after a remote    *)
(* host has seen the VERP address, so after a delivery attempt; nothing    *)
(* orders it with the task that made the attempt.                          *)
(***************************************************************************)
MoveDsn(d, from, to) == dsn[d] = from /\ dsn' = [dsn EXCEPT ![d] = to]

\* SELECT recipient
DsnArrives(d) ==
  /\ tries[Reported[d]] > 0
  /\ MoveDsn(d, "none", "mark")
  /\ UNCHANGED <<rowVars, intake, jobs, suppressions, histVars, faults>>

\* A report counts as an attempt.
Faulty_DsnMark(d) ==
  /\ MoveDsn(d, "mark", "suppress")
  /\ status' = [status EXCEPT ![Reported[d]] = "bounced"]
  /\ attempts' = [attempts EXCEPT ![Reported[d]] = @ + 1]
  /\ UNCHANGED <<due, created, intake, jobs, suppressions, histVars, faults>>

\* UPDATE ... SET status='bounced', whatever the status was.
DsnMark(d) ==
  /\ MoveDsn(d, "mark", "suppress")
  /\ status' = [status EXCEPT ![Reported[d]] = "bounced"]
  /\ UNCHANGED <<attempts, due, created, intake, jobs, suppressions, histVars,
                 faults>>

DsnSuppress(d) ==
  /\ MoveDsn(d, "suppress", "event")
  /\ suppressions' = suppressions \cup {Recipient[Reported[d]]}
  /\ UNCHANGED <<rowVars, intake, jobs, histVars, faults>>

DsnRecord(d) ==
  /\ MoveDsn(d, "event", "done")
  /\ events' = [events EXCEPT ![Reported[d]] = @ + 1]
  /\ UNCHANGED <<rowVars, intake, jobs, suppressions, counted, tries, faults>>

DsnStep(d) == DsnMark(d) \/ DsnSuppress(d) \/ DsnRecord(d)

\* A failed statement ends the call; smtp_in::handle drops the error.
DsnFails(d) ==
  /\ faults < MaxFaults
  /\ faults' = faults + 1
  /\ dsn[d] \in {"mark", "suppress", "event"}
  /\ dsn' = [dsn EXCEPT ![d] = "done"]
  /\ UNCHANGED <<rowVars, intake, jobs, suppressions, histVars>>

-----------------------------------------------------------------------------
(***************************************************************************)
(* The process stops (main's select!, install.sh, a host reboot) and is    *)
(* started again: every task is gone, the tables are as they were.         *)
(* migrate and seed write neither messages nor suppressions.               *)
(***************************************************************************)
Restart ==
  /\ faults < MaxFaults
  /\ faults' = faults + 1
  /\ intake' = {}
  /\ jobs' = {}
  /\ dsn' = [d \in Dsns |-> IF dsn[d] = "none" THEN "none" ELSE "done"]
  /\ UNCHANGED <<rowVars, suppressions, histVars>>

Next ==
  \/ \E m \in Msgs : Check(m) \/ Refuse(m) \/ Insert(m) \/ BecomeDue(m)
  \/ \E r \in Rcpts : Suppress(r)
  \/ Claim
  \/ \E j \in jobs : JobStep(j) \/ JobFails(j)
  \/ \E d \in Dsns : DsnArrives(d) \/ DsnStep(d) \/ DsnFails(d)
  \/ Restart

Spec == Init /\ [][Next]_vars

(***************************************************************************)
(* Fairness: worker_loop ticks every two seconds for as long as the        *)
(* process lives, tokio runs every spawned task (deliver has timeouts on   *)
(* each network operation), and time passes.  Nothing obliges a caller, a  *)
(* remote host or a fault to act.                                          *)
(***************************************************************************)
WorkerFairness ==
  /\ WF_vars(Claim)
  /\ \A m \in Msgs : /\ WF_vars(BecomeDue(m))
                     /\ WF_vars(\E j \in jobs : j.msg = m /\ JobStep(j))
  /\ \A d \in Dsns : WF_vars(DsnStep(d))

FairSpec == Spec /\ WorkerFairness

-----------------------------------------------------------------------------
(***************************************************************************)
(* Properties                                                              *)
(***************************************************************************)
Working(m) == {j \in jobs : j.msg = m}
Unfinished(j) == j.pc # "suppress"    \* the row is still to be updated

\* A report has set the row to bounced at some time.
Marked(m) == \E d \in Dsns : Reported[d] = m /\ dsn[d] \in {"suppress", "event", "done"}

(***************************************************************************)
(* No message is ever in the hands of two tasks: the claim of drain_once   *)
(* hands a row out once, and no retry, bounce report, failed task or       *)
(* restart lets it be handed out again while a task still works on it.     *)
(***************************************************************************)
OneJobPerMessage ==
  \A j, k \in jobs : j.msg = k.msg => j = k

(***************************************************************************)
(* While a task works on a row, the row says so (`sending`), unless a      *)
(* bounce report has overwritten it; and the attempt number the task read  *)
(* when it claimed the row is still the row's.  finish computes the retry  *)
(* from that number and writes the row unconditionally.                    *)
(***************************************************************************)
JobOwnsRow ==
  \A j \in jobs : Unfinished(j) =>
    /\ \/ status[j.msg] = "sending"
       \/ status[j.msg] = "bounced" /\ Marked(j.msg)
    /\ j.attempts = attempts[j.msg]

(***************************************************************************)
(* The retry schedule is honoured whatever is lost: deliver is called at   *)
(* most once per scheduled attempt of a message, never more than           *)
(* Retries + 1 times, and the column never falls more than one attempt     *)
(* behind what was done.                                                   *)
(***************************************************************************)
RetryBudget ==
  \A m \in Msgs : /\ tries[m] <= Retries + 1
                  /\ tries[m] <= attempts[m] + 1

(***************************************************************************)
(* The audit trail: the events table and the counters trail the exchanges  *)
(* and lead the row.  An attempt the row counts has an event, and a sent   *)
(* row has one more; a counted send was made.                              *)
(***************************************************************************)
AuditTrail ==
  \A m \in Msgs :
    /\ attempts[m] + (IF status[m] = "sent" THEN 1 ELSE 0) <= events[m]
    /\ events[m] <= counted[m] + Cardinality({d \in Dsns : Reported[d] = m /\ dsn[d] = "done"})
    /\ counted[m] <= tries[m]

(***************************************************************************)
(* "VERP return-path + suppression list": without faults, a bounced        *)
(* message has its recipient on the suppression list, is about to, or      *)
(* bounced because its retries ran out.                                    *)
(***************************************************************************)
BounceSuppresses ==
  faults = 0 =>
    \A m \in Msgs : status[m] = "bounced" =>
      \/ Recipient[m] \in suppressions
      \/ Working(m) # {}
      \/ \E d \in Dsns : Reported[d] = m /\ dsn[d] = "suppress"
      \/ attempts[m] = Retries + 1

(***************************************************************************)
(* The work on a message runs down, which is why it is ever settled:       *)
(* StepsLeft bounds what the worker may still do for it, six steps for     *)
(* each attempt (its delay, its claim, four statements) and the            *)
(* suppression of its recipient.  No step of anyone, be it a report, a     *)
(* fault or a restart, adds to it once the row is there, and each step     *)
(* that touches the message's delay or its task takes from it; so what is  *)
(* settled or stranded is never taken up again.                            *)
(***************************************************************************)
Stage == [deliver |-> 5, count |-> 4, event |-> 3, update |-> 2, suppress |-> 1]

StepsOfTask(j) == Stage[j.pc] + (IF Unfinished(j) THEN 6 * (Retries - j.attempts) ELSE 0)

StepsOfRow(m) ==
  IF status[m] = "queued"
    THEN 6 * (Retries - attempts[m]) + (IF due[m] THEN 6 ELSE 7)
    ELSE 0

StepsLeft(m) ==
  IF Working(m) = {} THEN StepsOfRow(m) ELSE StepsOfTask(CHOOSE j \in Working(m) : TRUE)

WorkRunsDown ==
  [][\A m \in Msgs : status[m] # "absent" =>
       \/ StepsLeft(m)' < StepsLeft(m)
       \/ /\ StepsLeft(m)' = StepsLeft(m)
          /\ UNCHANGED <<due[m], Working(m)>>]_vars

(***************************************************************************)
(* Every accepted message is settled in the end, whatever competes with it *)
(* for the claim, whatever a report does to its row and wherever the       *)
(* process stops, unless its own task was lost between the claim and the   *)
(* UPDATE of finish.                                                       *)
(***************************************************************************)
Settled(m) == status[m] \in {"sent", "bounced"} /\ Working(m) = {}
Stranded(m) == faults > 0 /\ status[m] = "sending" /\ Working(m) = {}

SettlesOrStrands ==
  \A m \in Msgs : (status[m] = "queued") ~> [](Settled(m) \/ Stranded(m))

(***************************************************************************)
(* What the console says of a row in `sending`: it is still in the queue,  *)
(* so that it is settled some day like any other accepted message.         *)
(***************************************************************************)
Settles == \A m \in Msgs : (status[m] = "queued") ~> [](Settled(m))

(***************************************************************************)
(* The queue keeps the contract of DeliveryContract across interleavings,  *)
(* reports, failed statements and restarts.  A message is on trial while   *)
(* its row says `sending` or a task has yet to update the row: a report    *)
(* that overwrites the row of a running task takes effect only if the task *)
(* is lost.                                                                *)
(***************************************************************************)
OnTrial(m) == status[m] = "sending" \/ \E j \in Working(m) : Unfinished(j)

ContractState(m) ==
  CASE OnTrial(m) -> IF tries[m] = attempts[m] THEN "trying" ELSE "tried"
    [] ~OnTrial(m) /\ status[m] = "queued" -> "waiting"
    [] OTHER -> status[m]

DC == INSTANCE DeliveryContract WITH
        Limit <- Retries + 1,
        state <- [m \in Msgs |-> ContractState(m)],
        made <- tries

KeepsContract == DC!Contract

(***************************************************************************)
(* Rows enter the table by the contract of IntakeContract and never leave  *)
(* it, and no recipient leaves the list: no retry, report, fault or        *)
(* restart stores a message past the look-up.                              *)
(***************************************************************************)
IC == INSTANCE IntakeContract WITH
        Callers <- Msgs, Boxes <- Rcpts, Ids <- {0},
        hand <- [m \in Msgs |-> IF m \in intake THEN {Recipient[m]} ELSE {}],
        queue <- {[by |-> m, to |-> Recipient[m], id |-> 0] :
                    m \in {n \in Msgs : status[n] # "absent"}},
        list <- suppressions

KeepsIntakeContract == IC!Contract
=============================================================================
