------------------------- MODULE MessageQueueProofs -------------------------
(***************************************************************************)
(* Safety of MessageQueue for every set of messages, recipients, reports,  *)
(* batch size, retry schedule and number of faults.                        *)
(***************************************************************************)
EXTENDS MessageQueue, FiniteSetTheorems, TLAPS

(***************************************************************************)
(* The relation between tables and tasks that OneJobPerMessage, JobOwnsRow *)
(* and RetryBudget rest on, inductive as a whole: what a call of           *)
(* enqueue_raw knows of its row, how far a row's counters have come in     *)
(* each status and at each statement of a task, and that a report answers  *)
(* a try.                                                                  *)
(***************************************************************************)
RowsInStep ==
  \A m \in Msgs :
    /\ m \in intake => status[m] = "absent"
    /\ status[m] = "absent" => tries[m] = 0 /\ attempts[m] = 0
    /\ status[m] = "queued" => tries[m] = attempts[m] /\ attempts[m] <= Retries
    /\ \A d \in Dsns : Reported[d] = m /\ dsn[d] # "none" => tries[m] > 0

JobsInStep ==
  \A j \in jobs :
    CASE j.pc = "deliver"  -> tries[j.msg] = attempts[j.msg]
      [] j.pc \in {"count", "event", "update"} -> tries[j.msg] = attempts[j.msg] + 1
      [] j.pc = "suppress" -> status[j.msg] = "bounced"

QueueInv ==
  TypeOK /\ OneJobPerMessage /\ JobOwnsRow /\ RetryBudget /\ RowsInStep /\ JobsInStep

-----------------------------------------------------------------------------
(***************************************************************************)
(* TypeOK alone is not inductive: that a row's attempts stay within the    *)
(* schedule depends on who may count them.  QueueInv is proved as a whole, *)
(* one lemma per group of actions.                                         *)
(***************************************************************************)
LocalInv == OneJobPerMessage /\ JobOwnsRow /\ RetryBudget /\ RowsInStep /\ JobsInStep

\* The rank given to a new row is a natural number: there are finitely many.
LEMMA RankType ==
  ASSUME TypeOK
  PROVE  Cardinality({n \in Msgs : created[n] > 0}) + 1 \in Nat
<1>1. IsFiniteSet({n \in Msgs : created[n] > 0})
  BY QueueAssumption, FS_Subset
<1> QED
  BY <1>1, FS_CardinalityType

\* The initial tables are empty and well typed.
LEMMA InitInv == Init => QueueInv
  BY QueueAssumption
  DEF Init, QueueInv, TypeOK, Statuses, DsnSteps, OneJobPerMessage, JobOwnsRow,
      RetryBudget, RowsInStep, JobsInStep

\* A step that leaves rows, tasks, reports and tries alone keeps what relates
\* them.
LEMMA FrameInv ==
  ASSUME QueueInv, UNCHANGED <<status, attempts, jobs, dsn, tries>>,
         \A m \in intake' : status[m] = "absent"
  PROVE  LocalInv'
<1>1. OneJobPerMessage' /\ RetryBudget'
  BY DEF QueueInv, OneJobPerMessage, RetryBudget
<1>2. JobOwnsRow'
  BY DEF QueueInv, JobOwnsRow, Unfinished, Marked
<1>3. RowsInStep'
  BY DEF QueueInv, RowsInStep
<1>4. JobsInStep'
  BY DEF QueueInv, JobsInStep
<1> QED
  BY <1>1, <1>2, <1>3, <1>4 DEF LocalInv

\* enqueue_raw and the suppression calls touch no row a task works on.
LEMMA IntakeInv ==
  ASSUME QueueInv,
         \/ \E m \in Msgs : Check(m) \/ Refuse(m) \/ Insert(m) \/ BecomeDue(m)
         \/ \E r \in Rcpts : Suppress(r)
  PROVE  QueueInv'
<1> USE QueueAssumption DEF QueueInv
<1>1. ASSUME NEW m \in Msgs, Check(m) \/ Refuse(m) \/ BecomeDue(m)
      PROVE  QueueInv'
  <2>1. TypeOK'
    BY <1>1 DEF TypeOK, Check, Refuse, BecomeDue, rowVars, histVars
  <2>2. LocalInv'
    <3>1. UNCHANGED <<status, attempts, jobs, dsn, tries>>
      BY <1>1 DEF Check, Refuse, BecomeDue, rowVars, histVars
    <3>2. \A n \in intake' : status[n] = "absent"
      BY <1>1 DEF Check, Refuse, BecomeDue, RowsInStep, TypeOK
    <3> QED
      BY <3>1, <3>2, FrameInv
  <2> QED
    BY <2>1, <2>2 DEF LocalInv
<1>2. ASSUME NEW m \in Msgs, Insert(m)
      PROVE  QueueInv'
  <2>1. TypeOK'
    BY <1>2, RankType DEF TypeOK, Insert, histVars, Statuses
  <2>2. \A j \in jobs : j.msg # m
    BY <1>2 DEF Insert, TypeOK, RowsInStep, JobsInStep, JobOwnsRow, Unfinished, Job, JobSteps
  <2>3. status' = [status EXCEPT ![m] = "queued"] /\ intake' = intake \ {m}
        /\ UNCHANGED <<attempts, jobs, dsn, tries>>
    BY <1>2 DEF Insert, histVars
  <2>4. status[m] = "absent"
    BY <1>2 DEF Insert, RowsInStep
  <2>5. OneJobPerMessage' /\ RetryBudget'
    BY <2>3 DEF OneJobPerMessage, RetryBudget
  <2>6. JobOwnsRow'
    BY <2>2, <2>3 DEF JobOwnsRow, Unfinished, Marked, TypeOK, Job
  <2>7. RowsInStep'
    BY <2>3, <2>4 DEF RowsInStep, TypeOK
  <2>8. JobsInStep'
    BY <2>2, <2>3 DEF JobsInStep, TypeOK, Job
  <2> QED
    BY <2>1, <2>5, <2>6, <2>7, <2>8
<1>3. ASSUME NEW r \in Rcpts, Suppress(r)
      PROVE  QueueInv'
  <2>1. TypeOK'
    BY <1>3 DEF TypeOK, Suppress, rowVars, histVars
  <2>2. LocalInv'
    BY <1>3, FrameInv DEF Suppress, rowVars, histVars, RowsInStep, TypeOK
  <2> QED
    BY <2>1, <2>2 DEF LocalInv
<1> QED
  BY <1>1, <1>2, <1>3

\* No row that is queued is in the hands of a task, so a claim makes the one
\* task of each row it takes.
LEMMA ClaimInv ==
  ASSUME QueueInv, Claim
  PROVE  QueueInv'
<1> USE QueueAssumption DEF QueueInv
<1> DEFINE task(m) == [msg |-> m, attempts |-> attempts[m],
                       pc |-> "deliver", class |-> "unknown"]
           new(S) == {task(m) : m \in S}
<1>1. PICK locked \in SUBSET Lockable :
        /\ status' = [m \in Msgs |-> IF m \in First(DueRows \ locked)
                                       THEN "sending" ELSE status[m]]
        /\ jobs' = jobs \cup new(First(DueRows \ locked))
        /\ UNCHANGED <<attempts, due, created, intake, dsn, suppressions, histVars,
                       faults>>
  BY DEF Claim
<1> DEFINE rows == First(DueRows \ locked)
<1>2. \A m \in rows : m \in Msgs /\ status[m] = "queued"
  BY DEF First, DueRows
<1>3. \A j \in jobs : j.msg \notin rows
  BY <1>2 DEF TypeOK, JobsInStep, JobOwnsRow, Unfinished, Job, JobSteps
<1>4. \A m \in rows : task(m) \in Job
  BY <1>2 DEF TypeOK, RowsInStep, Job, JobSteps
<1>5. \A j \in new(rows) : /\ j \in Job /\ j.msg \in rows
                           /\ j.pc = "deliver" /\ j.attempts = attempts[j.msg]
  <2> TAKE j \in new(rows)
  <2>1. PICK m \in rows : j = task(m)
    OBVIOUS
  <2> QED
    BY <1>4, <2>1
<1>6. \A j, k \in new(rows) : j.msg = k.msg => j = k
  <2> TAKE j, k \in new(rows)
  <2>1. PICK m \in rows : j = task(m)
    OBVIOUS
  <2>2. PICK n \in rows : k = task(n)
    OBVIOUS
  <2> QED
    BY <2>1, <2>2
<1> HIDE DEF new, rows, task
<1>7. TypeOK'
  BY <1>1, <1>5 DEF TypeOK, Statuses, histVars, rows
<1>8. OneJobPerMessage'
  BY <1>1, <1>3, <1>5, <1>6 DEF OneJobPerMessage, rows
<1>9. JobOwnsRow'
  BY <1>1, <1>2, <1>3, <1>5 DEF JobOwnsRow, TypeOK, Unfinished, Marked, Job, rows
<1>10. RetryBudget' /\ RowsInStep'
  BY <1>1, <1>2 DEF RetryBudget, RowsInStep, TypeOK, histVars, rows
<1>11. JobsInStep'
  BY <1>1, <1>2, <1>3, <1>5 DEF JobsInStep, RowsInStep, TypeOK, Job, histVars, rows
<1> QED
  BY <1>7, <1>8, <1>9, <1>10, <1>11

\* A task keeps its message to itself as it moves on.
LEMMA TaskMoves ==
  ASSUME QueueInv, NEW j \in jobs, NEW k, k.msg = j.msg,
         jobs' = (jobs \ {j}) \cup {k} \/ jobs' = jobs \ {j}
  PROVE  OneJobPerMessage'
  BY DEF QueueInv, OneJobPerMessage

\* What a task and the row it works on are, before its next statement.
LEMMA TaskAndRow ==
  ASSUME QueueInv, NEW j \in jobs
  PROVE  /\ j.msg \in Msgs /\ j \in Job
         /\ j.attempts \in 0 .. Retries
         /\ \A k \in jobs : k.msg = j.msg => k = j
         /\ status[j.msg] \in {"sending", "bounced"}
         /\ Unfinished(j) => j.attempts = attempts[j.msg]
  BY DEF QueueInv, TypeOK, OneJobPerMessage, JobOwnsRow, JobsInStep, Unfinished, Job,
         JobSteps

\* deliver: the one statement that adds a try, at the start of an attempt.
LEMMA DeliverInv ==
  ASSUME QueueInv, NEW j \in jobs, Deliver(j)
  PROVE  QueueInv'
<1> USE QueueAssumption
<1>1. PICK c \in Outcomes : jobs' = (jobs \ {j}) \cup {[j EXCEPT !.pc = "count", !.class = c]}
  BY DEF Deliver
<1> DEFINE k == [j EXCEPT !.pc = "count", !.class = c]
<1>2. /\ k \in Job /\ k.msg = j.msg /\ k.pc = "count" /\ k.attempts = j.attempts
      /\ j.pc = "deliver" /\ Unfinished(j)
  BY TaskAndRow DEF Deliver, Job, JobSteps, Outcomes, Unfinished
<1>3. /\ tries' = [tries EXCEPT ![j.msg] = @ + 1]
      /\ UNCHANGED <<status, attempts, due, created, intake, dsn, suppressions, events,
                     counted, faults>>
  BY DEF Deliver, rowVars
<1>4. /\ j.msg \in Msgs /\ j.attempts = attempts[j.msg] /\ j.attempts \in 0 .. Retries
      /\ tries[j.msg] = attempts[j.msg] /\ tries \in [Msgs -> Nat]
      /\ \A i \in jobs \ {j} : i.msg # j.msg
      /\ status[j.msg] \in {"sending", "bounced"}
  BY <1>2, TaskAndRow DEF QueueInv, JobsInStep, TypeOK
<1>5. jobs' = (jobs \ {j}) \cup {k}
  BY <1>1
<1> HIDE DEF k
<1>6. TypeOK'
  BY <1>2, <1>3, <1>4, <1>5 DEF QueueInv, TypeOK
<1>7. OneJobPerMessage'
  BY <1>2, <1>5, TaskMoves
<1>8. JobOwnsRow'
  BY <1>2, <1>3, <1>5 DEF QueueInv, JobOwnsRow, Unfinished, Marked
<1>9. RetryBudget' /\ RowsInStep'
  BY <1>3, <1>4 DEF QueueInv, RetryBudget, RowsInStep, TypeOK
<1>10. JobsInStep'
  BY <1>2, <1>3, <1>4, <1>5 DEF QueueInv, JobsInStep, TypeOK, Job
<1> QED
  BY <1>6, <1>7, <1>8, <1>9, <1>10 DEF QueueInv

\* bump_counter, the event and the suppression leave the row alone.
LEMMA BookkeepingInv ==
  ASSUME QueueInv, NEW j \in jobs,
         Count(j) \/ Record(j) \/ SuppressRejected(j) \/ JobFails(j)
  PROVE  QueueInv'
<1> USE QueueAssumption
<1>1. UNCHANGED <<status, attempts, due, created, intake, dsn, tries>>
  BY DEF Count, Record, SuppressRejected, JobFails, rowVars, histVars
<1>2. TypeOK'
  BY TaskAndRow DEF QueueInv, TypeOK, Count, Record, SuppressRejected, JobFails, Advance,
     End, Job, JobSteps, rowVars, histVars
<1>3. RetryBudget' /\ RowsInStep'
  BY <1>1 DEF QueueInv, RetryBudget, RowsInStep
<1>4. CASE Count(j) \/ Record(j)
  <2>1. PICK step \in {"event", "update"} :
          jobs' = (jobs \ {j}) \cup {[j EXCEPT !.pc = step]}
    BY <1>4 DEF Count, Record, Advance
  <2> DEFINE k == [j EXCEPT !.pc = step]
  <2>2. /\ k.msg = j.msg /\ k.pc = step /\ k.attempts = j.attempts
        /\ j.pc \in {"count", "event"} /\ Unfinished(j)
    BY <1>4, TaskAndRow DEF Count, Record, Job, Unfinished
  <2>3. jobs' = (jobs \ {j}) \cup {k}
    BY <2>1
  <2> HIDE DEF k
  <2>4. OneJobPerMessage'
    BY <2>2, <2>3, TaskMoves
  <2>5. JobOwnsRow'
    BY <1>1, <2>2, <2>3 DEF QueueInv, JobOwnsRow, Unfinished, Marked
  <2>6. JobsInStep'
    BY <1>1, <2>2, <2>3 DEF QueueInv, JobsInStep
  <2> QED
    BY <1>2, <1>3, <2>4, <2>5, <2>6 DEF QueueInv
<1>5. CASE SuppressRejected(j) \/ JobFails(j)
  <2>1. jobs' = jobs \ {j}
    BY <1>5 DEF SuppressRejected, JobFails, End
  <2>2. OneJobPerMessage'
    BY <2>1, TaskMoves
  <2>3. JobOwnsRow'
    BY <1>1, <2>1 DEF QueueInv, JobOwnsRow, Unfinished, Marked
  <2>4. JobsInStep'
    BY <1>1, <2>1 DEF QueueInv, JobsInStep
  <2> QED
    BY <1>2, <1>3, <2>2, <2>3, <2>4 DEF QueueInv
<1> QED
  BY <1>4, <1>5

\* finish's UPDATE ends the task's hold on the row, or leaves it only the
\* recipient to suppress; a row goes back to the queue with a try left.
LEMMA UpdateInv ==
  ASSUME QueueInv, NEW j \in jobs, Update(j)
  PROVE  QueueInv'
<1> USE QueueAssumption
<1>1. /\ j.pc = "update" /\ Unfinished(j)
      /\ UNCHANGED <<created, intake, dsn, suppressions, events, counted, tries, faults>>
  BY DEF Update, histVars, Unfinished
<1>2. /\ j.msg \in Msgs /\ j \in Job /\ j.attempts = attempts[j.msg]
      /\ attempts[j.msg] \in 0 .. Retries
      /\ tries[j.msg] = attempts[j.msg] + 1
      /\ \A i \in jobs \ {j} : i.msg # j.msg
      /\ status[j.msg] \in {"sending", "bounced"}
  BY <1>1, TaskAndRow DEF QueueInv, JobsInStep
<1>3. CASE Succeed(j)
  <2>1. /\ jobs' = jobs \ {j} /\ status' = [status EXCEPT ![j.msg] = "sent"]
        /\ UNCHANGED <<attempts, due>>
    BY <1>3 DEF Succeed, End
  <2>2. TypeOK'
    BY <1>1, <2>1 DEF QueueInv, TypeOK, Statuses
  <2>3. OneJobPerMessage'
    BY <2>1, TaskMoves
  <2>4. JobOwnsRow'
    BY <1>1, <1>2, <2>1 DEF QueueInv, TypeOK, JobOwnsRow, Unfinished, Marked, Job
  <2>5. RetryBudget' /\ RowsInStep'
    BY <1>1, <1>2, <2>1 DEF QueueInv, TypeOK, RetryBudget, RowsInStep
  <2>6. JobsInStep'
    BY <1>1, <1>2, <2>1 DEF QueueInv, TypeOK, JobsInStep, Job
  <2> QED
    BY <2>2, <2>3, <2>4, <2>5, <2>6 DEF QueueInv
<1>4. CASE Reject(j)
  <2> DEFINE k == [j EXCEPT !.pc = "suppress"]
  <2>1. /\ jobs' = (jobs \ {j}) \cup {k}
        /\ status' = [status EXCEPT ![j.msg] = "bounced"]
        /\ attempts' = [attempts EXCEPT ![j.msg] = @ + 1]
        /\ UNCHANGED due
    BY <1>4 DEF Reject, Advance
  <2>2. k \in Job /\ k.msg = j.msg /\ k.pc = "suppress" /\ ~Unfinished(k)
    BY <1>2 DEF Job, JobSteps, Unfinished
  <2> HIDE DEF k
  <2>3. TypeOK'
    BY <1>1, <1>2, <2>1, <2>2 DEF QueueInv, TypeOK, Statuses
  <2>4. OneJobPerMessage'
    BY <2>1, <2>2, TaskMoves
  <2>5. JobOwnsRow'
    BY <1>1, <1>2, <2>1, <2>2 DEF QueueInv, TypeOK, JobOwnsRow, Unfinished, Marked, Job
  <2>6. RetryBudget' /\ RowsInStep'
    BY <1>1, <1>2, <2>1 DEF QueueInv, TypeOK, RetryBudget, RowsInStep
  <2>7. JobsInStep'
    BY <1>1, <1>2, <2>1, <2>2 DEF QueueInv, TypeOK, JobsInStep, Job
  <2> QED
    BY <2>3, <2>4, <2>5, <2>6, <2>7 DEF QueueInv
<1>5. CASE Defer(j)
  <2>1. /\ jobs' = jobs \ {j}
        /\ attempts' = [attempts EXCEPT ![j.msg] = @ + 1]
        /\ \/ /\ attempts[j.msg] + 1 <= Retries
              /\ status' = [status EXCEPT ![j.msg] = "queued"]
              /\ due' = [due EXCEPT ![j.msg] = FALSE]
           \/ /\ status' = [status EXCEPT ![j.msg] = "bounced"]
              /\ UNCHANGED due
    BY <1>2, <1>5 DEF Defer, End, RetryAllowed
  <2>2. TypeOK'
    <3>1. attempts' \in [Msgs -> 0 .. Retries + 1]
      BY <1>2, <2>1 DEF QueueInv, TypeOK
    <3>2. status' \in [Msgs -> Statuses] /\ due' \in [Msgs -> BOOLEAN]
      BY <2>1 DEF QueueInv, TypeOK, Statuses
    <3> QED
      BY <1>1, <2>1, <3>1, <3>2 DEF QueueInv, TypeOK
  <2>3. OneJobPerMessage'
    BY <2>1, TaskMoves
  <2>4. JobOwnsRow'
    BY <1>1, <1>2, <2>1 DEF QueueInv, TypeOK, JobOwnsRow, Unfinished, Marked, Job
  <2>5. RetryBudget' /\ RowsInStep'
    BY <1>1, <1>2, <2>1 DEF QueueInv, TypeOK, RetryBudget, RowsInStep
  <2>6. JobsInStep'
    BY <1>1, <1>2, <2>1 DEF QueueInv, TypeOK, JobsInStep, Job
  <2> QED
    BY <2>2, <2>3, <2>4, <2>5, <2>6 DEF QueueInv
<1> QED
  BY <1>3, <1>4, <1>5 DEF Update

\* A report names a message that was tried, so never a row still absent; the
\* status it writes is one a running task allows for.
LEMMA DsnInv ==
  ASSUME QueueInv, NEW d \in Dsns, DsnArrives(d) \/ DsnStep(d) \/ DsnFails(d)
  PROVE  QueueInv'
<1> USE QueueAssumption
<1>1. UNCHANGED <<attempts, due, created, intake, jobs, tries>>
  BY DEF DsnArrives, DsnStep, DsnMark, DsnSuppress, DsnRecord, DsnFails, rowVars, histVars
<1>2. TypeOK'
  BY DEF QueueInv, TypeOK, DsnArrives, DsnStep, DsnMark, DsnSuppress, DsnRecord, DsnFails,
     MoveDsn, DsnSteps, Statuses, rowVars, histVars
<1>3. \A m \in Msgs : Marked(m) => Marked(m)'
  BY DEF QueueInv, TypeOK, Marked, DsnArrives, DsnStep, DsnMark, DsnSuppress, DsnRecord,
     DsnFails, MoveDsn
<1>4. Reported[d] \in Msgs /\ tries[Reported[d]] > 0
  BY DEF QueueInv, TypeOK, RowsInStep, DsnArrives, DsnStep, DsnMark, DsnSuppress,
     DsnRecord, DsnFails, MoveDsn
<1>5. \/ UNCHANGED status
      \/ /\ status' = [status EXCEPT ![Reported[d]] = "bounced"]
         /\ Marked(Reported[d])'
  BY DEF QueueInv, TypeOK, Marked, DsnArrives, DsnStep, DsnMark, DsnSuppress, DsnRecord,
     DsnFails, MoveDsn, rowVars
<1>6. OneJobPerMessage' /\ RetryBudget'
  BY <1>1 DEF QueueInv, OneJobPerMessage, RetryBudget
<1>7. JobOwnsRow'
  BY <1>1, <1>3, <1>5 DEF QueueInv, TypeOK, JobOwnsRow, Unfinished, Job
<1>8. RowsInStep'
  <2>1. \A e \in Dsns : dsn'[e] # "none" => dsn[e] # "none" \/ e = d
    BY DEF QueueInv, TypeOK, DsnArrives, DsnStep, DsnMark, DsnSuppress, DsnRecord,
       DsnFails, MoveDsn
  <2> QED
    BY <1>1, <1>4, <1>5, <2>1 DEF QueueInv, TypeOK, RowsInStep
<1>9. JobsInStep'
  BY <1>1, <1>5 DEF QueueInv, TypeOK, JobsInStep, Job, JobSteps
<1> QED
  BY <1>2, <1>6, <1>7, <1>8, <1>9 DEF QueueInv

\* A restart drops tasks and calls; the rows are as they were.
LEMMA RestartInv ==
  ASSUME QueueInv, Restart
  PROVE  QueueInv'
<1> USE QueueAssumption
<1>1. /\ jobs' = {} /\ intake' = {}
      /\ dsn' = [d \in Dsns |-> IF dsn[d] = "none" THEN "none" ELSE "done"]
      /\ UNCHANGED <<status, attempts, due, created, tries>>
  BY DEF Restart, rowVars, histVars
<1>2. TypeOK'
  BY DEF QueueInv, TypeOK, Restart, DsnSteps, rowVars, histVars
<1>3. OneJobPerMessage' /\ JobOwnsRow' /\ JobsInStep'
  BY <1>1 DEF OneJobPerMessage, JobOwnsRow, JobsInStep
<1>4. RetryBudget' /\ RowsInStep'
  BY <1>1 DEF QueueInv, TypeOK, RetryBudget, RowsInStep
<1> QED
  BY <1>2, <1>3, <1>4 DEF QueueInv

\* Every operation, fault and restart keeps the invariant.
LEMMA NextInv == QueueInv /\ [Next]_vars => QueueInv'
<1> SUFFICES ASSUME QueueInv, [Next]_vars PROVE QueueInv'
  OBVIOUS
<1>1. ASSUME UNCHANGED vars
      PROVE  QueueInv'
  <2>1. TypeOK'
    BY <1>1 DEF QueueInv, TypeOK, vars, rowVars, histVars
  <2>2. LocalInv'
    <3>1. \A m \in intake' : status[m] = "absent"
      BY <1>1 DEF QueueInv, TypeOK, RowsInStep, vars
    <3> QED
      BY <1>1, <3>1, FrameInv DEF vars, rowVars, histVars
  <2> QED
    BY <2>1, <2>2 DEF QueueInv, LocalInv
<1>2. ASSUME NEW j \in jobs, JobStep(j) \/ JobFails(j)
      PROVE  QueueInv'
  BY <1>2, DeliverInv, BookkeepingInv, UpdateInv DEF JobStep
<1> QED
  BY <1>1, <1>2, IntakeInv, ClaimInv, DsnInv, RestartInv DEF Next

(***************************************************************************)
(* Every reachable state of the queue satisfies the invariant.             *)
(***************************************************************************)
THEOREM QueueInvariant == Spec => []QueueInv
  BY InitInv, NextInv, PTL DEF Spec

(***************************************************************************)
(* Every reachable state is well typed: in particular no row is counted    *)
(* more than Retries + 1 attempts and none is claimed with more than       *)
(* Retries.                                                                *)
(***************************************************************************)
THEOREM TypeCorrect == Spec => []TypeOK
  BY QueueInvariant, PTL DEF QueueInv

(***************************************************************************)
(* drain_once and finish never let two tasks work on one message, whatever *)
(* fails and however often the process is restarted.                       *)
(***************************************************************************)
THEOREM SingleOwner == Spec => []OneJobPerMessage
  BY QueueInvariant, PTL DEF QueueInv

(***************************************************************************)
(* The row of a running task says so, or was marked by a bounce report.    *)
(***************************************************************************)
THEOREM RowOwned == Spec => []JobOwnsRow
  BY QueueInvariant, PTL DEF QueueInv

(***************************************************************************)
(* No message meets a remote host more often than retry_delay_secs allows. *)
(***************************************************************************)
THEOREM RetriesBounded == Spec => []RetryBudget
  BY QueueInvariant, PTL DEF QueueInv

-----------------------------------------------------------------------------
(***************************************************************************)
(* The audit trail.  AuditTrail is not inductive: that the event of a task *)
(* goes before its UPDATE, and its count before its event, is known only   *)
(* from where the task is.                                                 *)
(***************************************************************************)
Answered(m) == {d \in Dsns : Reported[d] = m /\ dsn[d] = "done"}

TasksPaidUp ==
  \A j \in jobs :
    /\ j.pc = "count" => counted[j.msg] + 1 <= tries[j.msg]
    /\ j.pc = "event" => events[j.msg] + 1 <= counted[j.msg] + Cardinality(Answered(j.msg))
    /\ j.pc = "update" => attempts[j.msg] + 1 <= events[j.msg]

LedgerInv == AuditTrail /\ TasksPaidUp

\* The calls of record_verp_bounce that are over can be counted, and only add up.
LEMMA AnsweredGrows ==
  ASSUME TypeOK, NEW m, \A d \in Dsns : dsn[d] = "done" => dsn'[d] = "done"
  PROVE  /\ Cardinality(Answered(m)) \in Nat /\ Cardinality(Answered(m)') \in Nat
         /\ Cardinality(Answered(m)) <= Cardinality(Answered(m)')
         /\ (\E d \in Dsns : Reported[d] = m /\ dsn[d] # "done" /\ dsn'[d] = "done")
              => Cardinality(Answered(m)) + 1 <= Cardinality(Answered(m)')
<1>1. IsFiniteSet(Answered(m)) /\ IsFiniteSet(Answered(m)')
  <2>1. Answered(m) \subseteq Dsns /\ Answered(m)' \subseteq Dsns
    BY DEF Answered
  <2> QED
    BY <2>1, QueueAssumption, FS_Subset
<1>2. Cardinality(Answered(m)) \in Nat /\ Cardinality(Answered(m)') \in Nat
  BY <1>1, FS_CardinalityType
<1>3. Answered(m) \subseteq Answered(m)'
  BY DEF Answered
<1>4. Cardinality(Answered(m)) <= Cardinality(Answered(m)')
  BY <1>1, <1>3, FS_Subset
<1>5. ASSUME NEW d \in Dsns, Reported[d] = m, dsn[d] # "done", dsn'[d] = "done"
      PROVE  Cardinality(Answered(m)) + 1 <= Cardinality(Answered(m)')
  <2>1. Answered(m) \cup {d} \subseteq Answered(m)' /\ d \notin Answered(m)
    BY <1>3, <1>5 DEF Answered
  <2>2. Cardinality(Answered(m) \cup {d}) = Cardinality(Answered(m)) + 1
    BY <1>1, <2>1, FS_AddElement
  <2>3. Cardinality(Answered(m) \cup {d}) <= Cardinality(Answered(m)')
    BY <1>1, <2>1, FS_Subset
  <2> QED
    BY <2>2, <2>3
<1> QED
  BY <1>2, <1>4, <1>5

\* Statements that write no number, send nothing and leave no task behind an
\* attempt cannot upset the books.
LEMMA LedgerFrame ==
  ASSUME QueueInv, LedgerInv, UNCHANGED <<attempts, events, counted, tries>>,
         \A j \in jobs' : j \in jobs \/ j.pc \in {"deliver", "suppress"},
         \A m \in Msgs : status'[m] = "sent" => status[m] = "sent",
         \A d \in Dsns : dsn[d] = "done" => dsn'[d] = "done"
  PROVE  LedgerInv'
<1>1. \A m \in Msgs : /\ Cardinality(Answered(m)) \in Nat /\ Cardinality(Answered(m)') \in Nat
                      /\ Cardinality(Answered(m)) <= Cardinality(Answered(m)')
  BY AnsweredGrows DEF QueueInv
<1>2. TypeOK
  BY DEF QueueInv
<1>3. \A m \in Msgs : /\ attempts[m] + (IF status[m] = "sent" THEN 1 ELSE 0) <= events[m]
                      /\ events[m] <= counted[m] + Cardinality(Answered(m))
                      /\ counted[m] <= tries[m]
  BY DEF LedgerInv, AuditTrail, Answered
<1>4. \A m \in Msgs : attempts[m] \in Nat /\ events[m] \in Nat /\ counted[m] \in Nat /\ tries[m] \in Nat
  BY <1>2, QueueAssumption DEF TypeOK
<1>5. \A m \in Msgs : /\ attempts'[m] + (IF status'[m] = "sent" THEN 1 ELSE 0) <= events'[m]
                      /\ events'[m] <= counted'[m] + Cardinality(Answered(m)')
                      /\ counted'[m] <= tries'[m]
  BY <1>1, <1>3, <1>4
<1>6. AuditTrail'
  BY <1>5 DEF AuditTrail, Answered
<1>7. TasksPaidUp'
  <2> SUFFICES ASSUME NEW j \in jobs'
               PROVE  /\ j.pc = "count" => counted'[j.msg] + 1 <= tries'[j.msg]
                      /\ j.pc = "event" =>
                           events'[j.msg] + 1 <= counted'[j.msg] + Cardinality(Answered(j.msg)')
                      /\ j.pc = "update" => attempts'[j.msg] + 1 <= events'[j.msg]
    BY DEF TasksPaidUp, Answered
  <2>1. CASE j \in jobs
    <3>1. j.msg \in Msgs
      BY <1>2, <2>1 DEF TypeOK, Job
    <3> QED
      BY <1>1, <1>4, <2>1, <3>1 DEF LedgerInv, TasksPaidUp
  <2> QED
    BY <2>1
<1> QED
  BY <1>6, <1>7 DEF LedgerInv

\* One row's line in the books, and what its task has yet to enter.
LEMMA Books ==
  ASSUME QueueInv, LedgerInv, NEW m \in Msgs
  PROVE  /\ attempts[m] \in Nat /\ events[m] \in Nat
         /\ counted[m] \in Nat /\ tries[m] \in Nat
         /\ Cardinality(Answered(m)) \in Nat
         /\ attempts[m] + (IF status[m] = "sent" THEN 1 ELSE 0) <= events[m]
         /\ events[m] <= counted[m] + Cardinality(Answered(m))
         /\ counted[m] <= tries[m]
<1>1. TypeOK
  BY DEF QueueInv
<1>2. attempts[m] \in Nat /\ events[m] \in Nat /\ counted[m] \in Nat /\ tries[m] \in Nat
  BY <1>1, QueueAssumption DEF TypeOK
<1>3. Cardinality(Answered(m)) \in Nat
  <2>1. Answered(m) \subseteq Dsns
    BY DEF Answered
  <2> QED
    BY <2>1, QueueAssumption, FS_Subset, FS_CardinalityType
<1> QED
  BY <1>2, <1>3 DEF LedgerInv, AuditTrail, Answered

\* A statement of a task makes one entry, in the order of TasksPaidUp.
LEMMA TaskLedger ==
  ASSUME QueueInv, LedgerInv, NEW j \in jobs,
         Deliver(j) \/ Count(j) \/ Record(j) \/ Update(j)
  PROVE  LedgerInv'
<1> DEFINE A(m) == Cardinality(Answered(m))
<1>1. /\ j.msg \in Msgs /\ j \in Job
      /\ \A i \in jobs \ {j} : i.msg \in Msgs /\ i.msg # j.msg
      /\ status[j.msg] \in {"sending", "bounced"}
  BY TaskAndRow DEF QueueInv, TypeOK, Job
<1>2. /\ UNCHANGED dsn
      /\ \A i \in jobs' : i \in jobs \ {j} \/ i.msg = j.msg
  BY <1>1 DEF Deliver, Count, Record, Update, Succeed, Reject, Defer, Advance, End, Job
<1>3. \A m : A(m)' = A(m)
  BY <1>2 DEF Answered
<1>4. \A m \in Msgs : /\ attempts[m] \in Nat /\ events[m] \in Nat /\ counted[m] \in Nat
                      /\ tries[m] \in Nat /\ A(m) \in Nat
                      /\ attempts[m] + (IF status[m] = "sent" THEN 1 ELSE 0) <= events[m]
                      /\ events[m] <= counted[m] + A(m) /\ counted[m] <= tries[m]
  BY Books
<1>5. \A i \in jobs : /\ i.pc = "count" => counted[i.msg] + 1 <= tries[i.msg]
                      /\ i.pc = "event" => events[i.msg] + 1 <= counted[i.msg] + A(i.msg)
                      /\ i.pc = "update" => attempts[i.msg] + 1 <= events[i.msg]
  BY DEF LedgerInv, TasksPaidUp
<1>6. \A m \in Msgs \ {j.msg} :
        /\ attempts'[m] = attempts[m] /\ events'[m] = events[m] /\ counted'[m] = counted[m]
        /\ tries'[m] = tries[m] /\ status'[m] = status[m]
  BY DEF QueueInv, TypeOK, Deliver, Count, Record, Update, Succeed, Reject, Defer,
         rowVars, histVars
<1> HIDE DEF A
<1>7. SUFFICES /\ /\ attempts'[j.msg] + (IF status'[j.msg] = "sent" THEN 1 ELSE 0) <= events'[j.msg]
                  /\ events'[j.msg] <= counted'[j.msg] + A(j.msg)
                  /\ counted'[j.msg] <= tries'[j.msg]
               /\ \A i \in jobs' \ jobs :
                    /\ i.msg = j.msg
                    /\ i.pc = "count" => counted'[j.msg] + 1 <= tries'[j.msg]
                    /\ i.pc = "event" => events'[j.msg] + 1 <= counted'[j.msg] + A(j.msg)
                    /\ i.pc = "update" => attempts'[j.msg] + 1 <= events'[j.msg]
               /\ j \notin jobs'
  <2>1. \A m \in Msgs : /\ attempts'[m] + (IF status'[m] = "sent" THEN 1 ELSE 0) <= events'[m]
                        /\ events'[m] <= counted'[m] + A(m)'
                        /\ counted'[m] <= tries'[m]
    BY <1>3, <1>4, <1>6, <1>7
  <2>2. AuditTrail'
    BY <2>1 DEF AuditTrail, Answered, A
  <2>3. \A i \in jobs' : /\ i.pc = "count" => counted'[i.msg] + 1 <= tries'[i.msg]
                         /\ i.pc = "event" => events'[i.msg] + 1 <= counted'[i.msg] + A(i.msg)'
                         /\ i.pc = "update" => attempts'[i.msg] + 1 <= events'[i.msg]
    <3> TAKE i \in jobs'
    <3>1. CASE i \in jobs
      BY <1>1, <1>3, <1>5, <1>6, <1>7, <3>1
    <3>2. CASE i \notin jobs
      BY <1>3, <1>7, <3>2
    <3> QED
      BY <3>1, <3>2
  <2>4. TasksPaidUp'
    BY <2>3 DEF TasksPaidUp, A
  <2> QED
    BY <2>2, <2>4 DEF LedgerInv
<1>8. CASE Deliver(j)
  <2>1. PICK c \in Outcomes :
          jobs' = (jobs \ {j}) \cup {[j EXCEPT !.pc = "count", !.class = c]}
    BY <1>8 DEF Deliver
  <2>2. /\ UNCHANGED <<attempts, events, counted, status>>
        /\ tries'[j.msg] = tries[j.msg] + 1 /\ j.pc = "deliver"
    BY <1>1, <1>8 DEF Deliver, QueueInv, TypeOK, rowVars
  <2>3. /\ \A i \in jobs' \ jobs : i.msg = j.msg /\ i.pc = "count"
        /\ j \notin jobs'
    BY <1>1, <2>1, <2>2 DEF Job
  <2> QED
    BY <1>1, <1>4, <2>2, <2>3
<1>9. CASE Count(j)
  <2>1. jobs' = (jobs \ {j}) \cup {[j EXCEPT !.pc = "event"]}
    BY <1>9 DEF Count, Advance
  <2>2. /\ UNCHANGED <<attempts, events, tries, status>>
        /\ counted'[j.msg] = counted[j.msg] + 1 /\ j.pc = "count"
    BY <1>1, <1>9 DEF Count, QueueInv, TypeOK, rowVars
  <2>3. /\ \A i \in jobs' \ jobs : i.msg = j.msg /\ i.pc = "event"
        /\ j \notin jobs'
    BY <1>1, <2>1, <2>2 DEF Job
  <2> QED
    BY <1>1, <1>4, <1>5, <2>2, <2>3
<1>10. CASE Record(j)
  <2>1. jobs' = (jobs \ {j}) \cup {[j EXCEPT !.pc = "update"]}
    BY <1>10 DEF Record, Advance
  <2>2. /\ UNCHANGED <<attempts, counted, tries, status>>
        /\ events'[j.msg] = events[j.msg] + 1 /\ j.pc = "event"
    BY <1>1, <1>10 DEF Record, QueueInv, TypeOK, rowVars
  <2>3. /\ \A i \in jobs' \ jobs : i.msg = j.msg /\ i.pc = "update"
        /\ j \notin jobs'
    BY <1>1, <2>1, <2>2 DEF Job
  <2> QED
    BY <1>1, <1>4, <1>5, <2>2, <2>3
<1>11. CASE Update(j)
  <2>1. /\ UNCHANGED <<events, counted, tries>> /\ j.pc = "update"
        /\ jobs' = jobs \ {j} \/ jobs' = (jobs \ {j}) \cup {[j EXCEPT !.pc = "suppress"]}
    BY <1>11 DEF Update, Succeed, Reject, Defer, End, Advance, histVars
  <2>2. \/ attempts'[j.msg] = attempts[j.msg]
        \/ attempts'[j.msg] = attempts[j.msg] + 1 /\ status'[j.msg] # "sent"
    BY <1>1, <1>11 DEF Update, Succeed, Reject, Defer, QueueInv, TypeOK
  <2>3. /\ \A i \in jobs' \ jobs : i.msg = j.msg /\ i.pc = "suppress"
        /\ j \notin jobs'
    BY <1>1, <2>1 DEF Job
  <2> QED
    BY <1>1, <1>4, <1>5, <2>1, <2>2, <2>3
<1> QED
  BY <1>8, <1>9, <1>10, <1>11

\* The event of a report is entered as the report is over.
LEMMA ReportLedger ==
  ASSUME QueueInv, LedgerInv, NEW d \in Dsns, DsnRecord(d)
  PROVE  LedgerInv'
<1> DEFINE n == Reported[d]
<1>1. n \in Msgs /\ dsn[d] = "event" /\ dsn' = [dsn EXCEPT ![d] = "done"]
  BY QueueAssumption DEF DsnRecord, MoveDsn
<1>2. /\ UNCHANGED <<attempts, counted, tries, status, jobs>>
      /\ events' = [events EXCEPT ![n] = @ + 1]
  BY DEF DsnRecord, rowVars
<1>3. TypeOK /\ \A e \in Dsns : dsn[e] = "done" => dsn'[e] = "done"
  BY <1>1 DEF QueueInv, TypeOK
<1>4. \A m : /\ Cardinality(Answered(m)) \in Nat /\ Cardinality(Answered(m)') \in Nat
             /\ Cardinality(Answered(m)) <= Cardinality(Answered(m)')
  BY <1>3, AnsweredGrows
<1>5. Cardinality(Answered(n)) + 1 <= Cardinality(Answered(n)')
  <2>1. Reported[d] = n /\ dsn[d] # "done" /\ dsn'[d] = "done"
    BY <1>1, <1>3 DEF TypeOK
  <2> QED
    BY <1>3, <2>1, AnsweredGrows
<1>6. \A m \in Msgs : events'[m] = IF m = n THEN events[m] + 1 ELSE events[m]
  BY <1>1, <1>2, <1>3 DEF TypeOK
<1> HIDE DEF n
<1>7. \A m \in Msgs : /\ attempts'[m] + (IF status'[m] = "sent" THEN 1 ELSE 0) <= events'[m]
                      /\ events'[m] <= counted'[m] + Cardinality(Answered(m)')
                      /\ counted'[m] <= tries'[m]
  BY <1>2, <1>4, <1>5, <1>6, Books
<1>8. AuditTrail'
  BY <1>7 DEF AuditTrail, Answered
<1>9. \A j \in jobs' :
        /\ j.pc = "count" => counted'[j.msg] + 1 <= tries'[j.msg]
        /\ j.pc = "event" => events'[j.msg] + 1 <= counted'[j.msg] + Cardinality(Answered(j.msg)')
        /\ j.pc = "update" => attempts'[j.msg] + 1 <= events'[j.msg]
  <2> TAKE j \in jobs'
  <2>1. j \in jobs /\ j.msg \in Msgs
    BY <1>2, <1>3 DEF TypeOK, Job
  <2> QED
    BY <1>2, <1>4, <1>5, <1>6, <2>1, Books DEF LedgerInv, TasksPaidUp
<1>10. TasksPaidUp'
  BY <1>9 DEF TasksPaidUp, Answered
<1> QED
  BY <1>8, <1>10 DEF LedgerInv

\* Every operation, fault and restart keeps the books.
LEMMA NextLedger == QueueInv /\ LedgerInv /\ [Next]_vars => LedgerInv'
<1> SUFFICES ASSUME QueueInv, LedgerInv, [Next]_vars PROVE LedgerInv'
  OBVIOUS
<1> USE DEF rowVars, histVars
<1>1. CASE UNCHANGED vars
  BY <1>1, LedgerFrame DEF vars
<1>2. ASSUME NEW m \in Msgs, Check(m) \/ Refuse(m) \/ Insert(m) \/ BecomeDue(m)
      PROVE  LedgerInv'
  BY <1>2, LedgerFrame DEF Check, Refuse, Insert, BecomeDue, QueueInv, TypeOK
<1>3. ASSUME NEW r \in Rcpts, Suppress(r)
      PROVE  LedgerInv'
  BY <1>3, LedgerFrame DEF Suppress
<1>4. CASE Claim
  BY <1>4, LedgerFrame DEF Claim
<1>5. ASSUME NEW j \in jobs, JobStep(j) \/ JobFails(j)
      PROVE  LedgerInv'
  <2>1. CASE SuppressRejected(j) \/ JobFails(j)
    BY <2>1, LedgerFrame DEF SuppressRejected, JobFails, End
  <2> QED
    BY <1>5, <2>1, TaskLedger DEF JobStep
<1>6. ASSUME NEW d \in Dsns, DsnArrives(d) \/ DsnStep(d) \/ DsnFails(d)
      PROVE  LedgerInv'
  <2>1. CASE DsnRecord(d)
    BY <2>1, ReportLedger
  <2>2. CASE DsnArrives(d) \/ DsnMark(d) \/ DsnSuppress(d) \/ DsnFails(d)
    <3>1. /\ UNCHANGED <<attempts, events, counted, tries, jobs>>
          /\ \A m \in Msgs : status'[m] = "sent" => status[m] = "sent"
          /\ \A e \in Dsns : dsn[e] = "done" => dsn'[e] = "done"
      BY <2>2 DEF DsnArrives, DsnMark, DsnSuppress, DsnFails, MoveDsn, QueueInv, TypeOK
    <3> QED
      BY <3>1, LedgerFrame
  <2> QED
    BY <1>6, <2>1, <2>2 DEF DsnStep
<1>7. CASE Restart
  BY <1>7, LedgerFrame DEF Restart, QueueInv, TypeOK
<1> QED
  BY <1>1, <1>2, <1>3, <1>4, <1>5, <1>6, <1>7 DEF Next

(***************************************************************************)
(* The events table and the counters trail the exchanges and lead the row, *)
(* whatever fails and however often the process is restarted.              *)
(***************************************************************************)
THEOREM BooksKept == Spec => []AuditTrail
<1>1. Init => LedgerInv
  <2> SUFFICES ASSUME Init PROVE LedgerInv
    OBVIOUS
  <2>1. \A m \in Msgs : Answered(m) = {}
    BY DEF Init, Answered
  <2>2. \A m \in Msgs : Cardinality(Answered(m)) = 0
    BY <2>1, FS_EmptySet
  <2>3. AuditTrail
    BY <2>2 DEF Init, AuditTrail, Answered
  <2>4. TasksPaidUp
    BY DEF Init, TasksPaidUp
  <2> QED
    BY <2>3, <2>4 DEF LedgerInv
<1>2. LedgerInv => AuditTrail
  BY DEF LedgerInv
<1> QED
  BY <1>1, <1>2, NextLedger, QueueInvariant, PTL DEF Spec

-----------------------------------------------------------------------------
(***************************************************************************)
(* The suppression list.  BounceSuppresses becomes inductive with what a   *)
(* report leaves behind it: a call past its second statement has           *)
(* suppressed the recipient.                                               *)
(***************************************************************************)
ReportsSuppress ==
  faults = 0 => \A d \in Dsns : dsn[d] \in {"event", "done"}
                                  => Recipient[Reported[d]] \in suppressions

ListInv == BounceSuppresses /\ ReportsSuppress

\* Statements that bounce nothing, end no task and conclude no report.
LEMMA ListFrame ==
  ASSUME QueueInv, ListInv, UNCHANGED attempts, faults' = 0 => faults = 0,
         suppressions \subseteq suppressions',
         \A m \in Msgs : status'[m] = "bounced" =>
           status[m] = "bounced" /\ (Working(m) # {} => Working(m)' # {}),
         \A d \in Dsns : \/ dsn'[d] = dsn[d]
                         \/ dsn[d] = "none" /\ dsn'[d] = "mark"
  PROVE  ListInv'
  BY QueueAssumption DEF QueueInv, TypeOK, ListInv, BounceSuppresses, ReportsSuppress

\* Every operation, fault and restart keeps bounces and suppressions together.
LEMMA NextList == QueueInv /\ ListInv /\ [Next]_vars => ListInv'
<1> SUFFICES ASSUME QueueInv, ListInv, [Next]_vars PROVE ListInv'
  OBVIOUS
<1> USE QueueAssumption DEF rowVars, histVars
<1>0. TypeOK
  BY DEF QueueInv
<1>1. CASE UNCHANGED vars
  BY <1>1, ListFrame DEF vars, Working
<1>2. ASSUME NEW m \in Msgs, Check(m) \/ Refuse(m) \/ Insert(m) \/ BecomeDue(m)
      PROVE  ListInv'
  BY <1>0, <1>2, ListFrame DEF Check, Refuse, Insert, BecomeDue, Working, TypeOK
<1>3. ASSUME NEW r \in Rcpts, Suppress(r)
      PROVE  ListInv'
  BY <1>3, ListFrame DEF Suppress, Working
<1>4. CASE Claim
  <2>1. /\ UNCHANGED <<attempts, faults, suppressions, dsn>> /\ jobs \subseteq jobs'
        /\ \A m \in Msgs : status'[m] = "bounced" => status[m] = "bounced"
    BY <1>4 DEF Claim
  <2>2. \A m \in Msgs : Working(m) # {} => Working(m)' # {}
    BY <2>1 DEF Working
  <2> QED
    BY <2>1, <2>2, ListFrame
<1>5. ASSUME NEW j \in jobs, JobStep(j)
      PROVE  ListInv'
  <2>1. /\ j.msg \in Msgs /\ j \in Job /\ Recipient[j.msg] \in Rcpts
        /\ \A m \in Msgs \ {j.msg} : \A k : k \in Working(m) => k # j
    BY TaskAndRow DEF Working
  <2>2. UNCHANGED <<dsn, faults>>
    BY <1>5 DEF JobStep, Deliver, Count, Record, Update, SuppressRejected
  <2>3. CASE Deliver(j) \/ Count(j) \/ Record(j)
    <3>1. PICK k : k.msg = j.msg /\ jobs' = (jobs \ {j}) \cup {k}
      BY <2>1, <2>3 DEF Deliver, Count, Record, Advance, Job
    <3>2. \A m \in Msgs : Working(m) # {} => Working(m)' # {}
      BY <3>1 DEF Working
    <3> QED
      BY <2>2, <2>3, <3>2, ListFrame DEF Deliver, Count, Record
  <2>4. CASE Update(j)
    <3>1. /\ UNCHANGED suppressions /\ Unfinished(j)
          /\ attempts[j.msg] = j.attempts /\ attempts[j.msg] \in 0 .. Retries
          /\ \A m \in Msgs \ {j.msg} : status'[m] = status[m] /\ attempts'[m] = attempts[m]
      BY <1>0, <2>1, <2>4, TaskAndRow DEF Update, Succeed, Reject, Defer, TypeOK, Unfinished
    <3>2. \A m \in Msgs \ {j.msg} : Working(m) # {} => Working(m)' # {}
      BY <2>1, <2>4 DEF Update, Succeed, Reject, Defer, Advance, End, Working
    <3>3. \/ status'[j.msg] # "bounced" \/ Working(j.msg)' # {}
          \/ attempts'[j.msg] = Retries + 1
      <4>1. CASE Succeed(j)
        BY <1>0, <2>1, <4>1 DEF Succeed, TypeOK
      <4>2. CASE Reject(j)
        <5> DEFINE k == [j EXCEPT !.pc = "suppress"]
        <5>1. k.msg = j.msg /\ k \in jobs'
          BY <2>1, <4>2 DEF Reject, Advance, Job
        <5> QED
          BY <5>1 DEF Working
      <4>3. CASE Defer(j)
        BY <1>0, <2>1, <3>1, <4>3 DEF Defer, RetryAllowed, TypeOK
      <4> QED
        BY <2>4, <4>1, <4>2, <4>3 DEF Update
    <3> QED
      BY <2>2, <3>1, <3>2, <3>3 DEF ListInv, BounceSuppresses, ReportsSuppress
  <2>5. CASE SuppressRejected(j)
    <3>1. /\ UNCHANGED <<status, attempts>> /\ jobs' = jobs \ {j}
          /\ suppressions' = suppressions \cup {Recipient[j.msg]}
      BY <2>5 DEF SuppressRejected, End
    <3>2. \A m \in Msgs \ {j.msg} : Working(m) # {} => Working(m)' # {}
      BY <2>1, <3>1 DEF Working
    <3> QED
      BY <2>2, <3>1, <3>2 DEF ListInv, BounceSuppresses, ReportsSuppress
  <2> QED
    BY <1>5, <2>3, <2>4, <2>5 DEF JobStep
<1>6. ASSUME faults' = faults + 1
      PROVE  ListInv'
  BY <1>0, <1>6 DEF ListInv, BounceSuppresses, ReportsSuppress, TypeOK
<1>7. ASSUME NEW d \in Dsns, DsnArrives(d) \/ DsnStep(d)
      PROVE  ListInv'
  <2>1. UNCHANGED <<attempts, jobs, faults>> /\ \A m : Working(m)' = Working(m)
    BY <1>7 DEF DsnArrives, DsnStep, DsnMark, DsnSuppress, DsnRecord, Working
  <2>2. CASE DsnArrives(d)
    BY <1>0, <2>1, <2>2, ListFrame DEF DsnArrives, MoveDsn, TypeOK
  <2>3. CASE DsnMark(d)
    <3>1. /\ dsn[d] = "mark" /\ dsn' = [dsn EXCEPT ![d] = "suppress"]
          /\ status' = [status EXCEPT ![Reported[d]] = "bounced"] /\ UNCHANGED suppressions
      BY <2>3 DEF DsnMark, MoveDsn
    <3>2. \A e \in Dsns \ {d} : dsn'[e] = dsn[e]
      BY <1>0, <3>1 DEF TypeOK
    <3>3. dsn'[d] = "suppress"
      BY <1>0, <3>1 DEF TypeOK
    <3>4. \A m \in Msgs : m # Reported[d] => status'[m] = status[m]
      BY <1>0, <3>1 DEF TypeOK
    <3>5. \A e \in Dsns : dsn[e] = "suppress" => dsn'[e] = "suppress"
      BY <3>1, <3>2
    <3>6. ReportsSuppress'
      BY <2>1, <3>1, <3>2, <3>3 DEF ListInv, ReportsSuppress
    <3>7. BounceSuppresses'
      BY <2>1, <3>1, <3>3, <3>4, <3>5 DEF ListInv, BounceSuppresses
    <3> QED
      BY <3>6, <3>7 DEF ListInv
  <2>4. CASE DsnSuppress(d)
    <3>1. /\ dsn[d] = "suppress" /\ dsn' = [dsn EXCEPT ![d] = "event"]
          /\ suppressions' = suppressions \cup {Recipient[Reported[d]]} /\ UNCHANGED status
      BY <2>4 DEF DsnSuppress, MoveDsn
    <3>2. \A e \in Dsns \ {d} : dsn'[e] = dsn[e]
      BY <1>0, <3>1 DEF TypeOK
    <3> QED
      BY <2>1, <3>1, <3>2 DEF ListInv, BounceSuppresses, ReportsSuppress
  <2>5. CASE DsnRecord(d)
    <3>1. /\ dsn[d] = "event" /\ dsn' = [dsn EXCEPT ![d] = "done"]
          /\ UNCHANGED <<status, suppressions>>
      BY <2>5 DEF DsnRecord, MoveDsn
    <3>2. \A e \in Dsns \ {d} : dsn'[e] = dsn[e]
      BY <1>0, <3>1 DEF TypeOK
    <3>3. Recipient[Reported[d]] \in suppressions \/ faults # 0
      BY <3>1 DEF ListInv, ReportsSuppress
    <3> QED
      BY <2>1, <3>1, <3>2, <3>3 DEF ListInv, BounceSuppresses, ReportsSuppress
  <2> QED
    BY <1>7, <2>2, <2>3, <2>4, <2>5 DEF DsnStep
<1>8. (\E j \in jobs : JobFails(j)) \/ (\E d \in Dsns : DsnFails(d)) \/ Restart
        => faults' = faults + 1
  BY DEF JobFails, DsnFails, Restart
<1> QED
  BY <1>1, <1>2, <1>3, <1>4, <1>5, <1>6, <1>7, <1>8 DEF Next

(***************************************************************************)
(* Without faults, a bounced message has its recipient suppressed, is      *)
(* about to, or ran out of retries.                                        *)
(***************************************************************************)
THEOREM BouncesAreRemembered == Spec => []BounceSuppresses
<1>1. Init => ListInv
  BY DEF Init, ListInv, BounceSuppresses, ReportsSuppress
<1>2. ListInv => BounceSuppresses
  BY DEF ListInv
<1> QED
  BY <1>1, <1>2, NextList, QueueInvariant, PTL DEF Spec

-----------------------------------------------------------------------------
(***************************************************************************)
(* The queue implements DeliveryContract: every statement is a step of the *)
(* contract or none, seen through ContractState.                           *)
(***************************************************************************)
Standing == [m \in Msgs |-> ContractState(m)]

\* The contract sees of a message its row, its tries and whether a task has
\* yet to update the row.
LEMMA OthersStay ==
  ASSUME NEW n, NEW m \in Msgs, m # n,
         status'[m] = status[m], attempts'[m] = attempts[m], tries'[m] = tries[m],
         \A j : j.msg # n => (j \in jobs <=> j \in jobs')
  PROVE  ContractState(m)' = ContractState(m)
<1>1. Working(m)' = Working(m)
  BY DEF Working
<1> QED
  BY <1>1 DEF ContractState, OnTrial

\* One message's move is a change of Standing at one place.
LEMMA OneMoves ==
  ASSUME NEW n \in Msgs, \A m \in Msgs : m # n => ContractState(m)' = ContractState(m)
  PROVE  Standing' = [Standing EXCEPT ![n] = ContractState(n)']
  BY DEF Standing

\* Nobody moves.
LEMMA NoneMoves ==
  ASSUME \A m \in Msgs : ContractState(m)' = ContractState(m), UNCHANGED tries
  PROVE  UNCHANGED DC!cvars
<1>1. Standing' = Standing
  BY DEF Standing
<1> QED
  BY <1>1 DEF Standing, DC!cvars

\* A set of messages that had an exchange is bounced together.
LEMMA SetBounces ==
  ASSUME TypeOK, NEW S \in SUBSET Msgs, UNCHANGED tries,
         \A m \in S : ContractState(m)' = "bounced" /\ tries[m] > 0,
         \A m \in Msgs \ S : ContractState(m)' = ContractState(m)
  PROVE  DC!Bounce
<1>1. S \in SUBSET {m \in Msgs : tries[m] > 0}
  OBVIOUS
<1>2. Standing' = [m \in Msgs |-> IF m \in S THEN "bounced" ELSE Standing[m]]
  BY DEF Standing
<1> QED
  BY <1>1, <1>2 DEF DC!Bounce, Standing

\* A task whose row is still to be updated keeps the message on trial.
LEMMA TrialOfTask ==
  ASSUME QueueInv, NEW j \in jobs
  PROVE  Unfinished(j) => OnTrial(j.msg)
  BY DEF OnTrial, Working

\* A row without a task left to update it stands as its status says.
LEMMA NoTask ==
  ASSUME NEW m \in Msgs, \A j \in Working(m) : ~Unfinished(j),
         status[m] \in {"absent", "queued", "sent", "bounced"}
  PROVE  ContractState(m) = IF status[m] = "queued" THEN "waiting" ELSE status[m]
  BY DEF ContractState, OnTrial

\* Intake: a stored row waits, and nothing else is seen.
LEMMA IntakeKeeps ==
  ASSUME QueueInv, NEW n \in Msgs, Check(n) \/ Refuse(n) \/ Insert(n) \/ BecomeDue(n)
  PROVE  [DC!ContractNext]_(DC!cvars)
<1> USE QueueAssumption DEF rowVars, histVars
<1>1. /\ UNCHANGED <<attempts, tries, jobs>>
      /\ \A m \in Msgs : m # n => status'[m] = status[m]
  BY DEF Check, Refuse, Insert, BecomeDue, QueueInv, TypeOK
<1>2. \A m \in Msgs : m # n => ContractState(m)' = ContractState(m)
  BY <1>1, OthersStay
<1>3. CASE Check(n) \/ Refuse(n) \/ BecomeDue(n)
  <2>1. status' = status
    BY <1>3 DEF Check, Refuse, BecomeDue
  <2>2. ContractState(n)' = ContractState(n)
    BY <1>1, <2>1 DEF ContractState, OnTrial, Working
  <2> QED
    BY <1>1, <1>2, <2>2, NoneMoves
<1>4. CASE Insert(n)
  <2>1. status[n] = "absent" /\ status'[n] = "queued"
    BY <1>4 DEF Insert, QueueInv, TypeOK, RowsInStep
  <2>2. \A j \in jobs : j.msg # n
    BY <2>1, TaskAndRow
  <2>3. Working(n) = {} /\ Working(n)' = {}
    BY <1>1, <2>2 DEF Working
  <2>4. ContractState(n) = "absent" /\ ContractState(n)' = "waiting"
    BY <2>1, <2>3 DEF ContractState, OnTrial
  <2>5. Standing' = [Standing EXCEPT ![n] = "waiting"] /\ Standing[n] = "absent"
    BY <1>2, <2>4, OneMoves DEF Standing
  <2>6. DC!Accept(n)
    BY <1>1, <2>5 DEF DC!Accept, DC!Move, Standing
  <2> QED
    BY <2>6 DEF DC!ContractNext
<1> QED
  BY <1>3, <1>4

\* A claim takes waiting messages up, each with a try left.
LEMMA ClaimKeeps ==
  ASSUME QueueInv, Claim
  PROVE  DC!TakeUp
<1> USE QueueAssumption DEF histVars
<1> DEFINE task(m) == [msg |-> m, attempts |-> attempts[m],
                       pc |-> "deliver", class |-> "unknown"]
<1>1. PICK locked \in SUBSET Lockable :
        /\ status' = [m \in Msgs |-> IF m \in First(DueRows \ locked)
                                       THEN "sending" ELSE status[m]]
        /\ jobs' = jobs \cup {task(m) : m \in First(DueRows \ locked)}
        /\ UNCHANGED <<attempts, tries>>
  BY DEF Claim
<1> DEFINE rows == First(DueRows \ locked)
<1>2. \A m \in rows : m \in Msgs /\ status[m] = "queued"
  BY DEF First, DueRows
<1>3. \A m \in rows : /\ \A j \in jobs : j.msg # m
                      /\ tries[m] = attempts[m] /\ tries[m] < Retries + 1
  BY <1>2, TaskAndRow DEF QueueInv, RowsInStep, TypeOK
<1>4. \A m \in rows : ContractState(m) = "waiting"
  BY <1>2, <1>3 DEF ContractState, OnTrial, Working
<1>5. \A m \in rows : ContractState(m)' = "trying"
  BY <1>1, <1>2, <1>3 DEF ContractState, OnTrial
<1>6. \A m \in Msgs \ rows : Working(m)' = Working(m)
  <2> TAKE m \in Msgs \ rows
  <2>1. \A n \in rows : task(n).msg # m
    OBVIOUS
  <2> QED
    BY <1>1, <2>1 DEF Working
<1>7. \A m \in Msgs \ rows : ContractState(m)' = ContractState(m)
  BY <1>1, <1>6 DEF ContractState, OnTrial
<1> HIDE DEF rows, task
<1>8. Standing' = [m \in Msgs |-> IF m \in rows THEN "trying" ELSE Standing[m]]
  BY <1>5, <1>7 DEF Standing
<1>9. rows \in SUBSET {m \in Msgs : Standing[m] = "waiting" /\ tries[m] < Retries + 1}
  BY <1>2, <1>3, <1>4 DEF Standing
<1> QED
  BY <1>1, <1>8, <1>9 DEF DC!TakeUp, Standing

\* The statements of a task: the exchange, its resolution, and nothing else.
LEMMA TaskKeeps ==
  ASSUME QueueInv, NEW j \in jobs, JobStep(j)
  PROVE  [DC!ContractNext]_(DC!cvars)
<1> USE QueueAssumption DEF rowVars, histVars
<1> DEFINE n == j.msg
<1>1. /\ n \in Msgs /\ j \in Job
      /\ \A i \in jobs \ {j} : i.msg # n
      /\ status[n] \in {"sending", "bounced"}
      /\ Unfinished(j) => j.attempts = attempts[n] /\ attempts[n] <= Retries
      /\ attempts[n] \in Nat /\ tries[n] \in Nat
  BY TaskAndRow DEF QueueInv, TypeOK
<1>2. /\ \A m \in Msgs : m # n => /\ status'[m] = status[m] /\ attempts'[m] = attempts[m]
                                  /\ tries'[m] = tries[m]
      /\ \A i : i.msg # n => (i \in jobs <=> i \in jobs')
  BY <1>1 DEF JobStep, Deliver, Count, Record, Update, Succeed, Reject, Defer, SuppressRejected,
     Advance, End, QueueInv, TypeOK, Job
<1>3. \A m \in Msgs : m # n => ContractState(m)' = ContractState(m)
  BY <1>2, OthersStay
<1>4. Standing' = [Standing EXCEPT ![n] = ContractState(n)'] /\ Standing[n] = ContractState(n)
  BY <1>1, <1>3, OneMoves DEF Standing
<1>5. CASE Deliver(j)
  <2>1. PICK c \in Outcomes :
          jobs' = (jobs \ {j}) \cup {[j EXCEPT !.pc = "count", !.class = c]}
    BY <1>5 DEF Deliver
  <2> DEFINE k == [j EXCEPT !.pc = "count", !.class = c]
  <2>2. k.msg = n /\ Unfinished(k) /\ k \in jobs'
    BY <1>1, <2>1 DEF Job, Unfinished
  <2> HIDE DEF k
  <2>3. /\ Unfinished(j) /\ tries[n] = attempts[n] /\ UNCHANGED <<status, attempts>>
        /\ tries' = [tries EXCEPT ![n] = @ + 1]
    BY <1>5 DEF Deliver, Unfinished, QueueInv, JobsInStep
  <2>4. ContractState(n) = "trying"
    BY <2>3, TrialOfTask DEF ContractState
  <2>5. OnTrial(n)'
    BY <2>2 DEF OnTrial, Working, Unfinished
  <2>6. ContractState(n)' = "tried"
    BY <1>1, <2>3, <2>5 DEF ContractState, QueueInv, TypeOK
  <2>7. DC!Exchange(n)
    BY <1>1, <1>4, <2>3, <2>4, <2>6 DEF DC!Exchange, Standing
  <2> QED
    BY <1>1, <2>7 DEF DC!ContractNext
<1>6. CASE Count(j) \/ Record(j)
  <2>1. PICK k : /\ k.msg = n /\ Unfinished(k)
                 /\ jobs' = (jobs \ {j}) \cup {k}
    BY <1>1, <1>6 DEF Count, Record, Advance, Job, Unfinished
  <2>2. /\ Unfinished(j) /\ UNCHANGED <<status, attempts, tries>>
    BY <1>6 DEF Count, Record, Unfinished
  <2>3. OnTrial(n) /\ OnTrial(n)'
    BY <1>1, <2>1, <2>2, TrialOfTask DEF OnTrial, Working, Unfinished
  <2>4. ContractState(n)' = ContractState(n)
    BY <2>2, <2>3 DEF ContractState
  <2> QED
    BY <1>3, <2>2, <2>4, NoneMoves
<1>7. CASE Update(j)
  <2>1. Unfinished(j) /\ tries[n] = attempts[n] + 1 /\ UNCHANGED tries
    BY <1>7 DEF Update, Unfinished, QueueInv, JobsInStep
  <2>2. ContractState(n) = "tried"
    BY <1>1, <2>1, TrialOfTask DEF ContractState
  <2>3. \A i \in Working(n)' : ~Unfinished(i)
    BY <1>1, <1>7 DEF Update, Succeed, Reject, Defer, Advance, End, Working, Unfinished, Job
  <2>4. \/ status'[n] = "sent"
        \/ status'[n] = "bounced"
        \/ status'[n] = "queued" /\ tries[n] < Retries + 1
    BY <1>1, <1>7, <2>1 DEF Update, Succeed, Reject, Defer, RetryAllowed, QueueInv, TypeOK
  <2>5. ContractState(n)' = IF status'[n] = "queued" THEN "waiting" ELSE status'[n]
    BY <2>3, <2>4 DEF ContractState, OnTrial, Unfinished
  <2>6. CASE status'[n] \in {"sent", "queued"}
    <3>1. DC!Resolve(n)
      BY <1>4, <2>1, <2>2, <2>4, <2>5, <2>6 DEF DC!Resolve, DC!Move, Standing
    <3> QED
      BY <1>1, <3>1 DEF DC!ContractNext
  <2>7. CASE status'[n] = "bounced"
    <3>1. ContractState(n)' = "bounced" /\ tries[n] > 0
      BY <1>1, <2>1, <2>5, <2>7
    <3>2. {n} \in SUBSET Msgs /\ TypeOK
      BY <1>1 DEF QueueInv
    <3>3. DC!Bounce
      BY <1>3, <2>1, <3>1, <3>2, SetBounces
    <3> QED
      BY <3>3 DEF DC!ContractNext
  <2> QED
    BY <2>4, <2>6, <2>7
<1>8. CASE SuppressRejected(j)
  <2>1. /\ UNCHANGED <<status, attempts, tries>> /\ jobs' = jobs \ {j}
        /\ status[n] = "bounced" /\ ~Unfinished(j)
    BY <1>8 DEF SuppressRejected, End, Unfinished, QueueInv, JobsInStep
  <2>2. /\ \A i \in Working(n) : ~Unfinished(i)
        /\ \A i \in Working(n)' : ~Unfinished(i)
    BY <1>1, <2>1 DEF Working
  <2>3. ContractState(n)' = ContractState(n)
    BY <2>1, <2>2 DEF ContractState, OnTrial, Unfinished
  <2> QED
    BY <1>3, <2>1, <2>3, NoneMoves
<1> QED
  BY <1>5, <1>6, <1>7, <1>8 DEF JobStep

\* What a lost task, a report or a restart can do: nothing, or bounce
\* messages that a report has answered.
LEMMA LossKeeps ==
  ASSUME QueueInv, UNCHANGED <<status, attempts, tries>>, jobs' \subseteq jobs
  PROVE  [DC!ContractNext]_(DC!cvars)
<1> DEFINE S == {m \in Msgs : ContractState(m)' # ContractState(m)}
<1>1. \A m \in Msgs : Working(m)' \subseteq Working(m)
  BY DEF Working
<1>2. \A m \in S : status[m] = "bounced" /\ ContractState(m)' = "bounced" /\ tries[m] > 0
  <2> TAKE m \in S
  <2>1. status[m] # "sending" /\ OnTrial(m) /\ ~OnTrial(m)'
    BY <1>1 DEF ContractState, OnTrial, Unfinished
  <2>2. PICK j \in jobs : j.msg = m /\ Unfinished(j)
    BY <2>1 DEF OnTrial, Working
  <2>3. status[m] = "bounced" /\ Marked(m)
    BY <2>1, <2>2 DEF QueueInv, JobOwnsRow
  <2>4. tries[m] > 0
    BY <2>3 DEF Marked, QueueInv, RowsInStep
  <2>5. ContractState(m)' = "bounced"
    BY <2>1, <2>3 DEF ContractState
  <2> QED
    BY <2>3, <2>4, <2>5
<1>3. S \in SUBSET Msgs /\ \A m \in Msgs \ S : ContractState(m)' = ContractState(m)
  OBVIOUS
<1> HIDE DEF S
<1>4. DC!Bounce
  BY <1>2, <1>3, SetBounces DEF QueueInv
<1> QED
  BY <1>4 DEF DC!ContractNext

\* A report that marks a row bounces a message, or waits behind its task.
LEMMA MarkKeeps ==
  ASSUME QueueInv, NEW d \in Dsns, DsnMark(d)
  PROVE  [DC!ContractNext]_(DC!cvars)
<1> DEFINE n == Reported[d]
<1>1. /\ n \in Msgs /\ UNCHANGED <<attempts, tries, jobs>>
      /\ status' = [status EXCEPT ![n] = "bounced"] /\ tries[n] > 0
  BY QueueAssumption DEF DsnMark, MoveDsn, histVars, QueueInv, RowsInStep
<1> HIDE DEF n
<1>2. \A m \in Msgs : m # n => ContractState(m)' = ContractState(m)
  BY <1>1, OthersStay DEF QueueInv, TypeOK
<1>3. Working(n)' = Working(n) /\ status'[n] = "bounced"
  BY <1>1 DEF Working, QueueInv, TypeOK
<1>4. CASE \E j \in Working(n) : Unfinished(j)
  <2>1. OnTrial(n) /\ OnTrial(n)'
    BY <1>3, <1>4 DEF OnTrial, Unfinished
  <2>2. ContractState(n)' = ContractState(n)
    BY <1>1, <2>1 DEF ContractState
  <2> QED
    BY <1>1, <1>2, <2>2, NoneMoves
<1>5. CASE \A j \in Working(n) : ~Unfinished(j)
  <2>1. ContractState(n)' = "bounced"
    BY <1>3, <1>5 DEF ContractState, OnTrial, Unfinished
  <2>2. {n} \in SUBSET Msgs /\ TypeOK
    BY <1>1 DEF QueueInv
  <2>3. DC!Bounce
    BY <1>1, <1>2, <2>1, <2>2, SetBounces
  <2> QED
    BY <2>3 DEF DC!ContractNext
<1> QED
  BY <1>4, <1>5

\* Every step of the queue is a step of the contract or none.
LEMMA NextKeeps == QueueInv /\ [Next]_vars => [DC!ContractNext]_(DC!cvars)
<1> SUFFICES ASSUME QueueInv, [Next]_vars PROVE [DC!ContractNext]_(DC!cvars)
  OBVIOUS
<1> USE DEF rowVars, histVars
<1>1. CASE UNCHANGED vars
  BY <1>1, LossKeeps DEF vars
<1>2. ASSUME NEW r \in Rcpts, Suppress(r)
      PROVE  [DC!ContractNext]_(DC!cvars)
  BY <1>2, LossKeeps DEF Suppress
<1>3. CASE Claim
  BY <1>3, ClaimKeeps DEF DC!ContractNext
<1>4. ASSUME NEW j \in jobs, JobFails(j)
      PROVE  [DC!ContractNext]_(DC!cvars)
  BY <1>4, LossKeeps DEF JobFails, End
<1>5. ASSUME NEW d \in Dsns, DsnArrives(d) \/ DsnSuppress(d) \/ DsnRecord(d) \/ DsnFails(d)
      PROVE  [DC!ContractNext]_(DC!cvars)
  BY <1>5, LossKeeps DEF DsnArrives, DsnSuppress, DsnRecord, DsnFails
<1>6. CASE Restart
  BY <1>6, LossKeeps DEF Restart
<1> QED
  BY <1>1, <1>2, <1>3, <1>4, <1>5, <1>6, IntakeKeeps, TaskKeeps, MarkKeeps DEF Next, DsnStep

(***************************************************************************)
(* The queue keeps the contract of DeliveryContract: at most one exchange  *)
(* per take-up, none beyond the schedule, and nothing comes back from      *)
(* `bounced`, through interleavings, reports, failed statements and        *)
(* restarts.                                                               *)
(***************************************************************************)
THEOREM ContractKept == Spec => KeepsContract
<1>1. Init => DC!ContractInit
  <2> SUFFICES ASSUME Init PROVE DC!ContractInit
    OBVIOUS
  <2>1. \A m \in Msgs : ContractState(m) = "absent"
    BY DEF Init, ContractState, OnTrial, Working
  <2> QED
    BY <2>1 DEF Init, DC!ContractInit
<1> QED
  BY <1>1, NextKeeps, QueueInvariant, PTL DEF Spec, KeepsContract, DC!Contract
-----------------------------------------------------------------------------
(***************************************************************************)
(* The work on each message runs down.                                     *)
(***************************************************************************)
RunsDown(m) ==
  \/ StepsLeft(m)' < StepsLeft(m)
  \/ StepsLeft(m)' = StepsLeft(m) /\ UNCHANGED <<due[m], Working(m)>>

\* What is left for a message in a task's hands is what is left for the task.
LEMMA LeftOfTask ==
  ASSUME NEW m, NEW j, Working(m) = {j}
  PROVE  StepsLeft(m) = StepsOfTask(j)
<1>1. (CHOOSE i \in {j} : TRUE) = j
  OBVIOUS
<1> QED
  BY <1>1 DEF StepsLeft

\* The same after a step.
LEMMA LeftOfTaskNext ==
  ASSUME NEW m, NEW j, Working(m)' = {j}
  PROVE  StepsLeft(m)' = StepsOfTask(j)
<1>1. (CHOOSE i \in {j} : TRUE) = j
  OBVIOUS
<1> QED
  BY <1>1 DEF StepsLeft, StepsOfTask, Unfinished

\* The task of a message is its only one, and has a statement left to run.
LEMMA TaskHasWork ==
  ASSUME QueueInv, NEW j \in jobs
  PROVE  /\ Working(j.msg) = {j}
         /\ StepsOfTask(j) \in Nat /\ StepsOfTask(j) > 0
         /\ Unfinished(j) => StepsOfTask(j) = Stage[j.pc] + 6 * (Retries - attempts[j.msg])
<1>1. Working(j.msg) = {j}
  BY TaskAndRow DEF Working
<1>2. Stage[j.pc] \in 1 .. 5
  BY TaskAndRow DEF Stage, Job, JobSteps
<1>3. Retries - j.attempts \in Nat
  BY TaskAndRow, QueueAssumption
<1> QED
  BY <1>1, <1>2, <1>3, TaskAndRow DEF StepsOfTask

\* A message whose row and task are left alone has as much work left as before.
LEMMA WorkStays ==
  ASSUME NEW m, UNCHANGED <<status[m], attempts[m], due[m], Working(m)>>
  PROVE  RunsDown(m)
<1>1. StepsLeft(m)' = StepsLeft(m)
  BY DEF StepsLeft, StepsOfRow, StepsOfTask, Unfinished
<1> QED
  BY <1>1 DEF RunsDown

\* A delay that passes is one step less; a row that enters has no work before.
LEMMA IntakeRunsDown ==
  ASSUME QueueInv, NEW n \in Msgs, Check(n) \/ Refuse(n) \/ Insert(n) \/ BecomeDue(n),
         NEW m \in Msgs, status[m] # "absent"
  PROVE  RunsDown(m)
<1> USE DEF rowVars, histVars
<1>1. UNCHANGED <<attempts, jobs>>
  BY DEF Check, Refuse, Insert, BecomeDue
<1>2. Working(m)' = Working(m)
  BY <1>1 DEF Working
<1>3. CASE BecomeDue(m)
  <2>1. /\ status[m] = "queued" /\ ~due[m] /\ due'[m] /\ status' = status
        /\ attempts[m] \in Nat
    BY <1>3 DEF BecomeDue, QueueInv, TypeOK
  <2>2. Working(m) = {}
    BY <2>1, TaskAndRow DEF Working
  <2>3. StepsLeft(m) = 6 * (Retries - attempts[m]) + 7
    BY <2>1, <2>2 DEF StepsLeft, StepsOfRow
  <2>4. StepsLeft(m)' = 6 * (Retries - attempts[m]) + 6
    BY <1>1, <1>2, <2>1, <2>2 DEF StepsLeft, StepsOfRow
  <2>5. Retries \in Nat /\ attempts[m] \in Nat
    BY <2>1, QueueAssumption
  <2> QED
    BY <2>3, <2>4, <2>5 DEF RunsDown
<1>4. CASE ~BecomeDue(m)
  <2>1. status'[m] = status[m] /\ due'[m] = due[m]
    BY <1>4 DEF Check, Refuse, Insert, BecomeDue, QueueInv, TypeOK, RowsInStep
  <2> QED
    BY <1>1, <1>2, <2>1, WorkStays
<1> QED
  BY <1>3, <1>4

\* A claim is the second of an attempt's six steps.
LEMMA ClaimRunsDown ==
  ASSUME QueueInv, Claim, NEW m \in Msgs
  PROVE  RunsDown(m)
<1> DEFINE task(n) == [msg |-> n, attempts |-> attempts[n],
                       pc |-> "deliver", class |-> "unknown"]
<1>1. PICK locked \in SUBSET Lockable :
        /\ status' = [n \in Msgs |-> IF n \in First(DueRows \ locked)
                                       THEN "sending" ELSE status[n]]
        /\ jobs' = jobs \cup {task(n) : n \in First(DueRows \ locked)}
        /\ UNCHANGED <<attempts, due>>
  BY DEF Claim
<1> DEFINE rows == First(DueRows \ locked)
<1>2. CASE m \in rows
  <2>1. status[m] = "queued" /\ due[m]
    BY <1>2 DEF First, DueRows
  <2>2. Working(m) = {}
    BY <2>1, TaskAndRow DEF Working
  <2>3. Working(m)' = {task(m)}
    BY <1>1, <1>2, <2>2 DEF Working
  <2>4. StepsLeft(m) = 6 * (Retries - attempts[m]) + 6
    BY <2>1, <2>2 DEF StepsLeft, StepsOfRow
  <2>5. StepsLeft(m)' = StepsOfTask(task(m))
    BY <2>3, LeftOfTaskNext
  <2>6. StepsOfTask(task(m)) = 5 + 6 * (Retries - attempts[m])
    BY DEF StepsOfTask, Unfinished, Stage
  <2> QED
    BY <2>4, <2>5, <2>6, QueueAssumption DEF RunsDown, QueueInv, TypeOK
<1>3. CASE m \notin rows
  <2>1. \A n \in rows : task(n).msg # m
    BY <1>3
  <2>2. Working(m)' = Working(m)
    BY <1>1, <2>1 DEF Working
  <2> QED
    BY <1>1, <1>3, <2>2, WorkStays
<1> QED
  BY <1>2, <1>3

\* Each statement of a task takes one from what is left, the last ones more;
\* the delay of a retry costs what the attempt behind it has left.
LEMMA TaskRunsDown ==
  ASSUME QueueInv, NEW j \in jobs, JobStep(j), NEW m \in Msgs
  PROVE  RunsDown(m)
<1> USE QueueAssumption DEF rowVars, histVars
<1> DEFINE n == j.msg
<1>1. /\ n \in Msgs /\ j \in Job
      /\ \A i \in jobs \ {j} : i.msg # n
      /\ attempts[n] \in Nat
      /\ Unfinished(j) => j.attempts = attempts[n] /\ attempts[n] <= Retries
  BY TaskAndRow DEF QueueInv, TypeOK
<1>2. CASE m # n
  <2>1. /\ UNCHANGED <<status[m], attempts[m], due[m]>>
        /\ \A i : i.msg = m => (i \in jobs <=> i \in jobs')
    BY <1>1, <1>2 DEF JobStep, Deliver, Count, Record, Update, Succeed, Reject, Defer,
       SuppressRejected, Advance, End, QueueInv, TypeOK, Job
  <2>2. Working(m)' = Working(m)
    BY <2>1 DEF Working
  <2> QED
    BY <2>1, <2>2, WorkStays
<1>3. CASE m = n
  <2>1. StepsLeft(n) = StepsOfTask(j) /\ StepsOfTask(j) \in Nat /\ StepsOfTask(j) > 0
    BY TaskHasWork, LeftOfTask
  <2>2. ASSUME NEW k, k.msg = n, k.attempts = j.attempts,
               jobs' = (jobs \ {j}) \cup {k}, Unfinished(j),
               Stage[k.pc] \in Nat, Stage[j.pc] \in Nat, Stage[k.pc] < Stage[j.pc]
        PROVE  RunsDown(n)
    <3>1. Working(n)' = {k}
      BY <1>1, <2>2 DEF Working
    <3>2. StepsLeft(n)' = StepsOfTask(k)
      BY <3>1, LeftOfTaskNext
    <3>3. StepsOfTask(k) < StepsOfTask(j)
      BY <1>1, <2>2 DEF StepsOfTask
    <3> QED
      BY <2>1, <3>2, <3>3 DEF RunsDown
  <2>3. CASE Deliver(j)
    <3>1. PICK k : /\ k.msg = n /\ k.attempts = j.attempts /\ k.pc = "count"
                   /\ jobs' = (jobs \ {j}) \cup {k}
      BY <1>1, <2>3 DEF Deliver, Job
    <3>2. j.pc = "deliver"
      BY <2>3 DEF Deliver
    <3> QED
      BY <1>3, <2>2, <3>1, <3>2 DEF Unfinished, Stage
  <2>4. CASE Count(j)
    <3>1. PICK k : /\ k.msg = n /\ k.attempts = j.attempts /\ k.pc = "event"
                   /\ jobs' = (jobs \ {j}) \cup {k}
      BY <1>1, <2>4 DEF Count, Advance, Job
    <3>2. j.pc = "count"
      BY <2>4 DEF Count
    <3> QED
      BY <1>3, <2>2, <3>1, <3>2 DEF Unfinished, Stage
  <2>5. CASE Record(j)
    <3>1. PICK k : /\ k.msg = n /\ k.attempts = j.attempts /\ k.pc = "update"
                   /\ jobs' = (jobs \ {j}) \cup {k}
      BY <1>1, <2>5 DEF Record, Advance, Job
    <3>2. j.pc = "event"
      BY <2>5 DEF Record
    <3> QED
      BY <1>3, <2>2, <3>1, <3>2 DEF Unfinished, Stage
  <2>6. CASE Update(j) /\ Reject(j)
    <3>1. PICK k : /\ k.msg = n /\ k.attempts = j.attempts /\ k.pc = "suppress"
                   /\ jobs' = (jobs \ {j}) \cup {k}
      BY <1>1, <2>6 DEF Reject, Advance, Job
    <3>2. j.pc = "update"
      BY <2>6 DEF Update
    <3> QED
      BY <1>3, <2>2, <3>1, <3>2 DEF Unfinished, Stage
  <2>7. CASE (Update(j) /\ (Succeed(j) \/ Defer(j))) \/ SuppressRejected(j)
    <3>1. jobs' = jobs \ {j}
      BY <2>7 DEF Succeed, Defer, SuppressRejected, End
    <3>2. Working(n)' = {}
      BY <1>1, <3>1 DEF Working
    <3>3. StepsLeft(n)' = StepsOfRow(n)'
      BY <3>2 DEF StepsLeft
    <3>4. CASE status'[n] # "queued"
      BY <1>3, <2>1, <3>3, <3>4 DEF StepsOfRow, RunsDown
    <3>5. CASE status'[n] = "queued"
      <4>1. Defer(j) /\ j.pc = "update"
        BY <1>1, <2>7, <3>5 DEF Update, Succeed, SuppressRejected, QueueInv, TypeOK, JobsInStep
      <4>2. Unfinished(j)
        BY <4>1 DEF Unfinished
      <4>3. attempts'[n] = attempts[n] + 1 /\ ~due'[n]
        BY <1>1, <3>5, <4>1 DEF Defer, QueueInv, TypeOK
      <4>4. StepsLeft(n)' = 6 * (Retries - (attempts[n] + 1)) + 7
        BY <3>3, <3>5, <4>3 DEF StepsOfRow
      <4>5. StepsLeft(n) = 2 + 6 * (Retries - attempts[n])
        BY <2>1, <4>1, <4>2, TaskHasWork DEF Stage
      <4>6. Retries \in Nat /\ attempts[n] \in Nat
        BY <1>1
      <4> QED
        BY <1>3, <4>4, <4>5, <4>6 DEF RunsDown
    <3> QED
      BY <3>4, <3>5
  <2> QED
    BY <1>3, <2>3, <2>4, <2>5, <2>6, <2>7 DEF JobStep, Update
<1> QED
  BY <1>2, <1>3

\* A lost task is not replaced: what its row says is no longer `queued`.
LEMMA LossRunsDown ==
  ASSUME QueueInv, UNCHANGED <<status, attempts, due>>, jobs' \subseteq jobs,
         NEW m \in Msgs
  PROVE  RunsDown(m)
<1>1. CASE Working(m)' = Working(m)
  BY <1>1, WorkStays
<1>2. CASE Working(m)' # Working(m)
  <2>1. PICK j \in Working(m) : j \notin jobs'
    BY <1>2 DEF Working
  <2>2. j \in jobs /\ j.msg = m
    BY DEF Working
  <2>3. Working(m) = {j} /\ StepsOfTask(j) > 0 /\ status[m] # "queued"
    BY <2>2, TaskHasWork, TaskAndRow
  <2>4. Working(m)' = {}
    BY <2>1, <2>3 DEF Working
  <2>5. StepsLeft(m)' = 0
    BY <2>3, <2>4 DEF StepsLeft, StepsOfRow
  <2> QED
    BY <2>3, <2>5, LeftOfTask DEF RunsDown
<1> QED
  BY <1>1, <1>2

\* A report takes a waiting message out of the queue, and is not seen by a
\* running task.
LEMMA MarkRunsDown ==
  ASSUME QueueInv, NEW d \in Dsns, DsnMark(d), NEW m \in Msgs
  PROVE  RunsDown(m)
<1>1. /\ UNCHANGED <<attempts, due, jobs>>
      /\ status'[m] = IF m = Reported[d] THEN "bounced" ELSE status[m]
  BY DEF DsnMark, QueueInv, TypeOK
<1>2. Working(m)' = Working(m)
  BY <1>1 DEF Working
<1>3. CASE m # Reported[d] \/ Working(m) # {}
  <2>1. StepsLeft(m)' = StepsLeft(m)
    BY <1>1, <1>2, <1>3 DEF StepsLeft, StepsOfRow, StepsOfTask, Unfinished
  <2> QED
    BY <1>1, <1>2, <2>1 DEF RunsDown
<1>4. CASE m = Reported[d] /\ Working(m) = {}
  <2>1. StepsLeft(m)' = 0
    BY <1>1, <1>2, <1>4 DEF StepsLeft, StepsOfRow
  <2>2. status[m] = "queued" => attempts[m] \in 0 .. Retries
    BY DEF QueueInv, TypeOK, RowsInStep
  <2>3. StepsLeft(m) = 0 \/ StepsLeft(m) > 0
    BY <1>4, <2>2, QueueAssumption DEF StepsLeft, StepsOfRow
  <2> QED
    BY <1>1, <1>2, <2>1, <2>3 DEF RunsDown
<1> QED
  BY <1>3, <1>4

\* No step adds to the work left for a message.
LEMMA NextRunsDown ==
  ASSUME QueueInv, [Next]_vars, NEW m \in Msgs, status[m] # "absent"
  PROVE  RunsDown(m)
<1> USE DEF rowVars, histVars
<1>1. CASE UNCHANGED vars
  BY <1>1, LossRunsDown DEF vars
<1>2. ASSUME NEW r \in Rcpts, Suppress(r)
      PROVE  RunsDown(m)
  BY <1>2, LossRunsDown DEF Suppress
<1>3. ASSUME NEW j \in jobs, JobFails(j)
      PROVE  RunsDown(m)
  BY <1>3, LossRunsDown DEF JobFails, End
<1>4. ASSUME NEW d \in Dsns, DsnArrives(d) \/ DsnSuppress(d) \/ DsnRecord(d) \/ DsnFails(d)
      PROVE  RunsDown(m)
  BY <1>4, LossRunsDown DEF DsnArrives, DsnSuppress, DsnRecord, DsnFails
<1>5. CASE Restart
  BY <1>5, LossRunsDown DEF Restart
<1> QED
  BY <1>1, <1>2, <1>3, <1>4, <1>5, IntakeRunsDown, ClaimRunsDown, TaskRunsDown, MarkRunsDown
  DEF Next, DsnStep

\* No state leaves more work than a full schedule of attempts.
LEMMA WorkIsFinite ==
  ASSUME QueueInv, NEW m \in Msgs
  PROVE  StepsLeft(m) \in 0 .. 6 * Retries + 7
<1>1. Retries \in Nat /\ attempts[m] \in Nat
  BY QueueAssumption DEF QueueInv, TypeOK
<1>2. CASE Working(m) = {}
  <2>1. status[m] = "queued" => attempts[m] <= Retries
    BY DEF QueueInv, RowsInStep
  <2> QED
    BY <1>1, <1>2, <2>1 DEF StepsLeft, StepsOfRow
<1>3. ASSUME NEW j \in Working(m)
      PROVE  StepsLeft(m) \in 0 .. 6 * Retries + 7
  <2>1. j \in jobs /\ j.msg = m
    BY DEF Working
  <2>2. StepsLeft(m) = StepsOfTask(j)
    BY <2>1, TaskHasWork, LeftOfTask
  <2>3. Stage[j.pc] \in 1 .. 5 /\ j.attempts \in 0 .. Retries
    BY <2>1, TaskAndRow DEF Stage, Job, JobSteps
  <2> QED
    BY <1>1, <2>2, <2>3 DEF StepsOfTask
<1> QED
  BY <1>2, <1>3

(***************************************************************************)
(* At any time the worker has at most 6 * Retries + 7 steps left for any   *)
(* message.                                                                *)
(***************************************************************************)
THEOREM EffortIsFinite == Spec => [](\A m \in Msgs : StepsLeft(m) \in 0 .. 6 * Retries + 7)
<1>1. QueueInv => \A m \in Msgs : StepsLeft(m) \in 0 .. 6 * Retries + 7
  BY WorkIsFinite
<1> QED
  BY <1>1, QueueInvariant, PTL

(***************************************************************************)
(* Whatever reports, faults and restarts do, no step adds to the work left *)
(* for a stored message, so the worker takes at most 6 * Retries + 7 steps *)
(* for it, and none once it is settled or stranded.                        *)
(***************************************************************************)
THEOREM EffortRunsDown == Spec => WorkRunsDown
<1>1. QueueInv /\ [Next]_vars =>
        [\A m \in Msgs : status[m] # "absent" =>
           \/ StepsLeft(m)' < StepsLeft(m)
           \/ /\ StepsLeft(m)' = StepsLeft(m)
              /\ UNCHANGED <<due[m], Working(m)>>]_vars
  BY NextRunsDown DEF RunsDown
<1> QED
  BY <1>1, QueueInvariant, PTL DEF Spec, WorkRunsDown
-----------------------------------------------------------------------------
(***************************************************************************)
(* The queue implements IntakeContract: only enqueue_raw's statements move *)
(* a look-up or store a row, and a stored row is never absent again.       *)
(***************************************************************************)
HandOf(m) == IF m \in intake THEN {Recipient[m]} ELSE {}
Hands == [m \in Msgs |-> HandOf(m)]
EntryOf(m) == [by |-> m, to |-> Recipient[m], id |-> 0]
Present == {m \in Msgs : status[m] # "absent"}
Entries == {EntryOf(m) : m \in Present}

\* What the contract sees, by these names.
LEMMA IntakeView ==
  IC!cvars = <<Hands, Entries, suppressions>> /\ IC!cvars' = <<Hands', Entries', suppressions'>>
  BY DEF IC!cvars, Hands, HandOf, Entries, EntryOf, Present

\* The same rows are stored.
LEMMA SameEntries ==
  ASSUME Present' = Present
  PROVE  Entries' = Entries
  BY DEF Entries, EntryOf

\* Look-ups are dropped.
LEMMA LookUpsDropped ==
  ASSUME intake' \subseteq intake, Present' = Present, UNCHANGED suppressions
  PROVE  [IC!ContractNext]_(IC!cvars)
<1> DEFINE S == Msgs \ intake'
<1>1. Hands' = [m \in Msgs |-> IF m \in S THEN {} ELSE Hands[m]]
  BY DEF Hands, HandOf
<1>2. S \in SUBSET Msgs
  OBVIOUS
<1>3. Entries' = Entries
  BY SameEntries
<1> HIDE DEF S
<1>4. IC!Drop
  BY <1>1, <1>2, <1>3 DEF IC!Drop, Hands, HandOf, Entries, EntryOf, Present
<1> QED
  BY <1>4 DEF IC!ContractNext

\* A recipient goes on the list.
LEMMA ListGrows ==
  ASSUME NEW r \in Rcpts, suppressions' = suppressions \cup {r},
         UNCHANGED intake, Present' = Present
  PROVE  [IC!ContractNext]_(IC!cvars)
<1>1. Hands' = Hands /\ Entries' = Entries
  BY SameEntries DEF Hands, HandOf
<1>2. IC!Suppress(r)
  BY <1>1 DEF IC!Suppress, Hands, HandOf, Entries, EntryOf, Present
<1> QED
  BY <1>2 DEF IC!ContractNext

\* The suppression check that finds nothing.
LEMMA CheckLooksUp ==
  ASSUME NEW m \in Msgs, Check(m)
  PROVE  [IC!ContractNext]_(IC!cvars)
<1> USE QueueAssumption DEF rowVars
<1>1. Hands[m] = {} /\ Hands' = [Hands EXCEPT ![m] = {Recipient[m]}]
  BY DEF Check, Hands, HandOf
<1>2. Entries' = Entries
  BY SameEntries DEF Check, Present
<1>3. Recipient[m] \in Rcpts /\ Recipient[m] \notin suppressions /\ UNCHANGED suppressions
  BY DEF Check
<1>4. IC!LookUp(m, Recipient[m])
  BY <1>1, <1>2, <1>3 DEF IC!LookUp, Hands, HandOf, Entries, EntryOf, Present
<1> QED
  BY <1>3, <1>4 DEF IC!ContractNext

\* The INSERT: the row is not there yet (RowsInStep).
LEMMA InsertEnters ==
  ASSUME QueueInv, NEW m \in Msgs, Insert(m)
  PROVE  [IC!ContractNext]_(IC!cvars)
<1> USE QueueAssumption
<1>1. Hands[m] = {Recipient[m]} /\ Hands' = [Hands EXCEPT ![m] = {}]
  BY DEF Insert, Hands, HandOf
<1>2. m \notin Present /\ Present' = Present \cup {m}
  BY DEF Insert, Present, QueueInv, TypeOK, RowsInStep
<1>3. EntryOf(m) \notin Entries /\ Entries' = Entries \cup {EntryOf(m)}
  BY <1>2 DEF Entries, EntryOf
<1>4. UNCHANGED suppressions
  BY DEF Insert
<1>5. IC!Enter(m, Recipient[m], 0)
  BY <1>1, <1>3, <1>4 DEF IC!Enter, IC!Entry, Hands, HandOf, Entries, EntryOf, Present
<1> QED
  BY <1>5 DEF IC!ContractNext

\* A statement of a task changes the status of a stored row only.
LEMMA TaskKeepsRows ==
  ASSUME QueueInv, NEW j \in jobs, JobStep(j)
  PROVE  Present' = Present
<1>1. j.msg \in Present
  BY TaskAndRow DEF Present
<1>2. \A m \in Msgs : m # j.msg => status'[m] = status[m]
  BY DEF JobStep, Deliver, Count, Record, Update, Succeed, Reject, Defer, SuppressRejected,
     rowVars, QueueInv, TypeOK
<1>3. status'[j.msg] # "absent"
  BY <1>1, TaskAndRow DEF JobStep, Deliver, Count, Record, Update, Succeed, Reject, Defer,
     SuppressRejected, rowVars, QueueInv, TypeOK, Present
<1> QED
  BY <1>1, <1>2, <1>3 DEF Present

\* So does a report: it answers a try.
LEMMA ReportKeepsRows ==
  ASSUME QueueInv, NEW d \in Dsns, DsnMark(d)
  PROVE  Present' = Present
<1>1. Reported[d] \in Present
  <2>1. Reported[d] \in Msgs /\ dsn[d] # "none"
    BY QueueAssumption DEF DsnMark, MoveDsn
  <2>2. tries[Reported[d]] > 0
    BY <2>1 DEF QueueInv, RowsInStep
  <2>3. status[Reported[d]] = "absent" => tries[Reported[d]] = 0
    BY <2>1 DEF QueueInv, RowsInStep
  <2> QED
    BY <2>1, <2>2, <2>3 DEF Present
<1> QED
  BY <1>1 DEF DsnMark, QueueInv, TypeOK, Present

LEMMA NextEnters == QueueInv /\ [Next]_vars => [IC!ContractNext]_(IC!cvars)
<1> SUFFICES ASSUME QueueInv, [Next]_vars PROVE [IC!ContractNext]_(IC!cvars)
  OBVIOUS
<1> USE QueueAssumption DEF rowVars
<1>1. CASE UNCHANGED vars
  BY <1>1, LookUpsDropped DEF vars, Present
<1>2. ASSUME NEW m \in Msgs, Refuse(m) \/ BecomeDue(m)
      PROVE  [IC!ContractNext]_(IC!cvars)
  BY <1>2, LookUpsDropped DEF Refuse, BecomeDue, Present
<1>3. ASSUME NEW r \in Rcpts, Suppress(r)
      PROVE  [IC!ContractNext]_(IC!cvars)
  BY <1>3, ListGrows DEF Suppress, Present
<1>4. CASE Claim
  <2>1. Present' = Present
    BY <1>4 DEF Claim, First, DueRows, Present, QueueInv, TypeOK
  <2> QED
    BY <1>4, <2>1, LookUpsDropped DEF Claim
<1>5. ASSUME NEW j \in jobs, JobStep(j)
      PROVE  [IC!ContractNext]_(IC!cvars)
  <2>1. CASE SuppressRejected(j)
    <3>1. Recipient[j.msg] \in Rcpts
      BY TaskAndRow
    <3> QED
      BY <1>5, <2>1, <3>1, TaskKeepsRows, ListGrows DEF SuppressRejected
  <2>2. CASE ~SuppressRejected(j)
    <3>1. UNCHANGED <<intake, suppressions>>
      BY <1>5, <2>2 DEF JobStep, Deliver, Count, Record, Update
    <3> QED
      BY <1>5, <3>1, TaskKeepsRows, LookUpsDropped
  <2> QED
    BY <2>1, <2>2
<1>6. ASSUME NEW j \in jobs, JobFails(j)
      PROVE  [IC!ContractNext]_(IC!cvars)
  BY <1>6, LookUpsDropped DEF JobFails, Present
<1>7. ASSUME NEW d \in Dsns, DsnSuppress(d)
      PROVE  [IC!ContractNext]_(IC!cvars)
  BY <1>7, ListGrows DEF DsnSuppress, Present
<1>8. ASSUME NEW d \in Dsns, DsnMark(d)
      PROVE  [IC!ContractNext]_(IC!cvars)
  BY <1>8, ReportKeepsRows, LookUpsDropped DEF DsnMark
<1>9. ASSUME NEW d \in Dsns, DsnArrives(d) \/ DsnRecord(d) \/ DsnFails(d)
      PROVE  [IC!ContractNext]_(IC!cvars)
  BY <1>9, LookUpsDropped DEF DsnArrives, DsnRecord, DsnFails, Present
<1>10. CASE Restart
  BY <1>10, LookUpsDropped DEF Restart, Present
<1> QED
  BY <1>1, <1>2, <1>3, <1>4, <1>5, <1>6, <1>7, <1>8, <1>9, <1>10, CheckLooksUp, InsertEnters
  DEF Next, DsnStep

(***************************************************************************)
(* The queue keeps the contract of IntakeContract: a row is stored once,   *)
(* by a call that looked its recipient up, and nothing that the worker, a  *)
(* report, a fault or a restart does stores one or takes a recipient off   *)
(* the list.                                                               *)
(***************************************************************************)
THEOREM IntakeContractKept == Spec => KeepsIntakeContract
<1>1. Init => IC!ContractInit
  <2> SUFFICES ASSUME Init PROVE IC!ContractInit
    OBVIOUS
  <2>1. Hands = [m \in Msgs |-> {}] /\ Entries = {} /\ suppressions = {}
    BY DEF Init, Hands, HandOf, Entries, Present
  <2> QED
    BY <2>1 DEF IC!ContractInit, Hands, HandOf, Entries, EntryOf, Present
<1> QED
  BY <1>1, NextEnters, QueueInvariant, PTL DEF Spec, KeepsIntakeContract, IC!Contract
=============================================================================
