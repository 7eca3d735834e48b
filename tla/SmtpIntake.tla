----------------------------- MODULE SmtpIntake -----------------------------
(***************************************************************************)
(* src/src/smtp_in.rs: a session of the SMTP intake, one action per        *)
(* command and, while a mail is stored, per statement and per reply.       *)
(* Sessions share nothing but the tables, so this is one connection after  *)
(* the other; the client sends any command at any time, as PIPELINING      *)
(* allows it to.  NOOP, an unknown command and a bad address have a reply  *)
(* each and change nothing.                                                *)
(*                                                                         *)
(* `turn` counts the commands with which a client begins anew: a           *)
(* connection, EHLO, MAIL FROM, RSET and the end of DATA.  What it gave is *)
(* tagged with the turn it was given in, so that one can tell the parts of *)
(* a message apart; the code forgets in three of the five, and `since` is  *)
(* the last turn in which it did.                                          *)
(*                                                                         *)
(* An operator named Faulty_X is X with a plausible mistake; no            *)
(* specification uses it.                                                  *)
(***************************************************************************)
EXTENDS SuppressionList

CONSTANTS
  Reports,   \* recipients bounce+{id}@bounces.{root}
  MaxRcpts,  \* bound: recipients of a transaction
  MaxTurns   \* bound: turns, in all sessions

ASSUME IntakeAssumption ==
  /\ IsFiniteSet(Boxes) /\ IsFiniteSet(Reports)
  /\ Boxes \cap Reports = {}
  /\ MaxRcpts \in Nat /\ MaxTurns \in Nat \ {0}

VARIABLES
  state,      \* of the session, see States
  mail_from,  \* turn of the last MAIL FROM; 0 for none or <>
  rcpt,       \* recipients, with the turn that named them
  data,       \* turns that gave lines of the message
  at,         \* the recipient the loop over `rcpt` is at
  turn,       \* history: the present turn
  since,      \* history: the turn in which the session last forgot
  stored,     \* messages inserted
  acked,      \* messages that a "250 queued" stands for
  owed,       \* replies the client waits for, less those it has too many
  unusual     \* history: the session had a mail with other than one mailbox

smtpVars ==
  <<state, mail_from, rcpt, data, at, turn, since, stored, acked, owed, unusual>>

\* In "loop" enqueue_raw is yet to be called for rcpt[at]; in "passed" it has
\* looked up the recipient; in "stored" and "refused" it has returned, and its
\* answer has yet to be written.
States == {"command", "data", "loop", "passed", "stored", "refused", "closed"}

Turns == 1 .. MaxTurns
Rcpt == [to : Boxes \cup Reports, turn : Turns]
Message ==
  [turn : Turns, since : Turns, at : 1 .. MaxRcpts,
   from : Turns, to : Rcpt, data : SUBSET Turns]

SmtpTypeOK ==
  /\ state \in States
  /\ mail_from \in 0 .. MaxTurns
  /\ rcpt \in Seq(Rcpt) /\ Len(rcpt) <= MaxRcpts
  /\ data \subseteq Turns
  /\ at \in 0 .. MaxRcpts + 1
  /\ turn \in 0 .. MaxTurns + 1 /\ since \in 0 .. MaxTurns + 1
  /\ stored \subseteq Message /\ acked \subseteq Message
  /\ owed \in Int
  /\ unusual \in BOOLEAN

SmtpInit ==
  /\ state = "closed" /\ mail_from = 0 /\ rcpt = <<>> /\ data = {} /\ at = 0
  /\ turn = 0 /\ since = 0 /\ stored = {} /\ acked = {}
  /\ owed = 0 /\ unusual = FALSE

-----------------------------------------------------------------------------
(* Commands *)

\* A connection; its local state is fresh (see Close).
Connect ==
  /\ state = "closed" /\ turn <= MaxTurns
  /\ state' = "command"
  /\ turn' = turn + 1 /\ since' = turn + 1
  /\ UNCHANGED <<mail_from, rcpt, data, at, stored, acked, owed, unusual, suppressions>>

\* EHLO: nothing is forgotten.
Ehlo ==
  /\ state = "command" /\ turn < MaxTurns
  /\ turn' = turn + 1
  /\ UNCHANGED <<state, mail_from, rcpt, data, at, since, stored, acked, owed, unusual,
                 suppressions>>

\* MAIL FROM: an address without a domain of ours fails later; none at all is
\* the empty string.  The recipients stay.
MailFrom ==
  /\ state = "command" /\ turn < MaxTurns
  /\ turn' = turn + 1
  /\ mail_from' \in {0, turn + 1}
  /\ UNCHANGED <<state, rcpt, data, at, since, stored, acked, owed, unusual, suppressions>>

RcptTo(r) ==
  /\ state = "command" /\ turn <= MaxTurns /\ Len(rcpt) < MaxRcpts
  /\ rcpt' = Append(rcpt, [to |-> r, turn |-> turn])
  /\ UNCHANGED <<state, mail_from, data, at, turn, since, stored, acked, owed, unusual, suppressions>>

\* The sender stays.
Faulty_Reset ==
  /\ state = "command" /\ turn <= MaxTurns
  /\ rcpt' = <<>> /\ turn' = turn + 1 /\ since' = turn + 1
  /\ UNCHANGED <<state, mail_from, data, at, stored, acked, owed, unusual, suppressions>>

\* RSET
Reset ==
  /\ state = "command" /\ turn <= MaxTurns
  /\ mail_from' = 0 /\ rcpt' = <<>> /\ turn' = turn + 1 /\ since' = turn + 1
  /\ UNCHANGED <<state, data, at, stored, acked, owed, unusual, suppressions>>

\* DATA, answered by 354 whatever has been given so far.
Data ==
  /\ state = "command" /\ turn <= MaxTurns
  /\ state' = "data"
  /\ UNCHANGED <<mail_from, rcpt, data, at, turn, since, stored, acked, owed, unusual, suppressions>>

-----------------------------------------------------------------------------
(* The end of DATA *)

Ordinary(s) == {i \in DOMAIN s : s[i].to \in Boxes}

\* mail_from, rcpt and data are cleared.
Clear ==
  /\ turn' = turn + 1 /\ since' = turn + 1
  /\ state' = "command"
  /\ mail_from' = 0 /\ rcpt' = <<>> /\ data' = {} /\ at' = 0

\* The lines of the message and a single dot.  Without recipients it is
\* answered and the mail forgotten.
Dot ==
  /\ state = "data"
  /\ IF rcpt = <<>>
       THEN Clear /\ UNCHANGED <<owed, unusual>>
       ELSE /\ state' = "loop" /\ at' = 1
            /\ data' = data \cup {turn}
            /\ owed' = owed + 1
            /\ unusual' = (unusual \/ Cardinality(Ordinary(rcpt)) # 1)
            /\ UNCHANGED <<mail_from, rcpt, turn, since>>
  /\ UNCHANGED <<stored, acked, suppressions>>

InLoop == state = "loop" /\ at <= Len(rcpt)

\* `continue` without a step to the next recipient.
Faulty_Report ==
  /\ InLoop /\ rcpt[at].to \in Reports
  /\ UNCHANGED <<state, mail_from, rcpt, data, at, turn, since, stored, acked, owed, unusual, suppressions>>

\* record_verp_bounce (the reports of MessageQueue), which may fail unnoticed;
\* there is no reply.
Report ==
  /\ InLoop /\ rcpt[at].to \in Reports
  /\ at' = at + 1
  /\ UNCHANGED <<state, mail_from, rcpt, data, turn, since, stored, acked, owed, unusual, suppressions>>

\* The list is consulted for the first recipient only.
Faulty_Lookup ==
  /\ InLoop /\ rcpt[at].to \in Boxes
  /\ at = 1 => ~Suppressed([box |-> rcpt[at].to, form |-> "lower"])
  /\ state' = "passed"
  /\ UNCHANGED <<mail_from, rcpt, data, at, turn, since, stored, acked, owed, unusual, suppressions>>

\* enqueue_raw: the recipient is not suppressed.
Lookup ==
  /\ InLoop /\ rcpt[at].to \in Boxes
  /\ ~Suppressed([box |-> rcpt[at].to, form |-> "lower"])
  /\ state' = "passed"
  /\ UNCHANGED <<mail_from, rcpt, data, at, turn, since, stored, acked, owed, unusual, suppressions>>

\* enqueue_raw fails: suppressed, no domain of ours, no IP, a failed query.
RefuseRcpt ==
  /\ \/ InLoop /\ rcpt[at].to \in Boxes
     \/ state = "passed"
  /\ state' = "refused"
  /\ UNCHANGED <<mail_from, rcpt, data, at, turn, since, stored, acked, owed, unusual, suppressions>>

ThisMessage ==
  [turn |-> turn, since |-> since, at |-> at,
   from |-> mail_from, to |-> rcpt[at], data |-> data]

\* enqueue_raw: the INSERT.  A sender that is empty has no domain of ours.
StoreRcpt ==
  /\ state = "passed" /\ mail_from # 0
  /\ stored' = stored \cup {ThisMessage}
  /\ state' = "stored"
  /\ UNCHANGED <<mail_from, rcpt, data, at, turn, since, acked, owed, unusual, suppressions>>

\* A failed write is taken for a success.
Faulty_Ack ==
  /\ state = "stored"
  /\ acked' = acked \/ acked' = acked \cup {ThisMessage}
  /\ owed' = owed - 1
  /\ state' = "loop" /\ at' = at + 1
  /\ UNCHANGED <<mail_from, rcpt, data, turn, since, stored, unusual, suppressions>>

\* "250 2.0.0 queued {id}"
Ack ==
  /\ state = "stored"
  /\ acked' = acked \cup {ThisMessage}
  /\ owed' = owed - 1
  /\ state' = "loop" /\ at' = at + 1
  /\ UNCHANGED <<mail_from, rcpt, data, turn, since, stored, unusual, suppressions>>

\* A recipient without a sender is passed over.
Faulty_Deny ==
  /\ state = "refused"
  /\ owed' = IF mail_from = 0 THEN owed ELSE owed - 1
  /\ state' = "loop" /\ at' = at + 1
  /\ UNCHANGED <<mail_from, rcpt, data, turn, since, stored, acked, unusual, suppressions>>

\* A recipient that fails is tried again.
Faulty_Deny_Again ==
  /\ state = "refused"
  /\ state' = "loop"
  /\ UNCHANGED <<mail_from, rcpt, data, at, turn, since, stored, acked, owed, unusual, suppressions>>

\* "451 4.3.0 {e}"
Deny ==
  /\ state = "refused"
  /\ owed' = owed - 1
  /\ state' = "loop" /\ at' = at + 1
  /\ UNCHANGED <<mail_from, rcpt, data, turn, since, stored, acked, unusual, suppressions>>

\* The list of recipients is kept.
Faulty_EndOfLoop ==
  /\ state = "loop" /\ at > Len(rcpt)
  /\ turn' = turn + 1 /\ since' = turn + 1
  /\ state' = "command"
  /\ mail_from' = 0 /\ data' = {} /\ at' = 0
  /\ UNCHANGED <<rcpt, stored, acked, owed, unusual, suppressions>>

EndOfLoop ==
  /\ state = "loop" /\ at > Len(rcpt)
  /\ Clear
  /\ UNCHANGED <<stored, acked, owed, unusual, suppressions>>

\* The local variables of the session go with it.
Close ==
  /\ state' = "closed"
  /\ mail_from' = 0 /\ rcpt' = <<>> /\ data' = {} /\ at' = 0
  /\ owed' = 0 /\ unusual' = FALSE
  /\ UNCHANGED <<turn, since, stored, acked>>

\* QUIT, the end of the stream, or a failed read or write.
Hangup == state # "closed" /\ Close /\ UNCHANGED suppressions

\* Statements, which the database runs, and replies, which the client must
\* read: write_all has no timeout.
SmtpWork == Report \/ Lookup \/ RefuseRcpt \/ StoreRcpt \/ EndOfLoop
SmtpReply == Ack \/ Deny

SmtpNext ==
  \/ Connect \/ Ehlo \/ MailFrom \/ Reset \/ Data \/ Dot \/ Hangup
  \/ \E r \in Boxes \cup Reports : RcptTo(r)
  \/ SmtpWork \/ SmtpReply

-----------------------------------------------------------------------------
(* Properties *)

(***************************************************************************)
(* A session forgets at RSET, at the end of DATA and with its connection,  *)
(* and then it forgets everything: the sender and the recipients of a      *)
(* message were given after the last of these, and its lines with this     *)
(* DATA.  No more than that: MAIL FROM and EHLO forget nothing, so that    *)
(* recipients named before a second MAIL FROM leave with its sender.       *)
(***************************************************************************)
NothingOutlivesReset ==
  \A m \in stored :
    m.since <= m.from /\ m.since <= m.to.turn /\ m.data = {m.turn}

(***************************************************************************)
(* "250 queued" is true, and it is written for every message stored,       *)
(* unless the session ended over it: of a mail at most one message is      *)
(* stored and not acknowledged, the last one.                              *)
(***************************************************************************)
AcksFollowStores ==
  /\ acked \subseteq stored
  /\ \A m \in stored \ acked :
       /\ \A k \in stored : k.turn = m.turn => k.at <= m.at
       /\ m.turn = turn => state \in {"stored", "closed"}

(***************************************************************************)
(* A client that sends its mails to one mailbox each gets exactly one      *)
(* reply to each line that calls for one.  (With more, or with a bounce    *)
(* report, it does not: the server answers by recipient.)                  *)
(***************************************************************************)
RepliesInStep ==
  ~unusual /\ state # "closed" =>
    owed = IF state \in {"loop", "passed", "stored", "refused"}
             THEN Cardinality({i \in Ordinary(rcpt) : i >= at})
             ELSE 0
=============================================================================
