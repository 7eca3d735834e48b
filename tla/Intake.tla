------------------------------- MODULE Intake -------------------------------
(***************************************************************************)
(* The two ways into the queue, side by side: the SMTP intake and the HTTP *)
(* API, which meet in the table `suppressions`.                            *)
(***************************************************************************)
EXTENDS SmtpIntake, HttpApi

VARIABLE late  \* history: messages stored for a suppressed mailbox, by caller

vars == <<smtpVars, httpVars, suppressions, late>>

\* A caller of enqueue_raw: the SMTP session, or a request.
Session == "session"
Callers == Requests \cup {Session}

ASSUME CallerAssumption == Session \notin Requests

TypeOK ==
  /\ SmtpTypeOK /\ HttpTypeOK
  /\ suppressions \subseteq Addresses
  /\ late \in [Callers -> [Boxes -> Nat]]

Init ==
  /\ SmtpInit /\ HttpInit
  /\ suppressions = {}
  /\ late = [c \in Callers |-> [b \in Boxes |-> 0]]

InLower(b) == [box |-> b, form |-> "lower"]

\* Caller c stores a message for mailbox b.
Note(c, b) ==
  late' = IF InLower(b) \in suppressions THEN [late EXCEPT ![c][b] = @ + 1] ELSE late

SmtpStep ==
  /\ SmtpNext
  /\ IF stored' = stored THEN UNCHANGED late ELSE Note(Session, rcpt[at].to)
  /\ UNCHANGED httpVars

HttpStep ==
  /\ HttpNext
  /\ IF copies' = copies THEN UNCHANGED late
     ELSE \E r \in Requests : copies'[r] # copies[r] /\ Note(r, Recipient(r).box)
  /\ UNCHANGED smtpVars

\* The process stops: the session and the requests are gone, the tables stay.
Restart ==
  /\ Close
  /\ answer' = [r \in Requests |-> IF answer[r] \in Open THEN "gone" ELSE answer[r]]
  /\ place' = [r \in Requests |-> 0]
  /\ UNCHANGED <<keys, copies, tries, suppressions, late>>

Next == SmtpStep \/ HttpStep \/ Restart

\* tokio runs a handler on, and every query returns.  Nothing makes a client
\* read its replies.
Spec ==
  /\ Init /\ [][Next]_vars
  /\ WF_vars(SmtpWork /\ SmtpStep)
  /\ \A r \in Requests : WF_vars(HttpWork(r) /\ HttpStep)

-----------------------------------------------------------------------------
(* Properties *)

(***************************************************************************)
(* A suppression takes effect at once, for both ways in and every spelling *)
(* that a client uses: after it, a session or a request stores at most the *)
(* one message whose recipient it had looked up before.                    *)
(***************************************************************************)
AtMostOneLate == \A c \in Callers, b \in Boxes : late[c][b] <= 1

(***************************************************************************)
(* A request that is being served comes to an end.  A mail that is being   *)
(* stored comes to its next reply or to its end: the database does not     *)
(* keep a session waiting, though a client that does not read its replies  *)
(* may.                                                                    *)
(***************************************************************************)
HandlersReturn ==
  /\ \A r \in Requests : answer[r] \in Open ~> answer[r] \notin Open
  /\ state \in {"loop", "passed"} ~> state \notin {"loop", "passed"}

(***************************************************************************)
(* The session and the requests call enqueue_raw as IntakeContract has it, *)
(* in whatever order their statements run: for each message a look-up of   *)
(* its own mailbox, and a restart stores nothing and forgets nothing.      *)
(***************************************************************************)
InHand(c) ==
  IF c = Session
    THEN IF state = "passed" THEN {rcpt[at].to} ELSE {}
    ELSE IF answer[c] = "checked" THEN {Recipient(c).box} ELSE {}

SessionRows == {[by |-> Session, to |-> m.to.to, id |-> <<m.turn, m.at>>] : m \in stored}

RowsOf(r) ==
  UNION {{[by |-> r, to |-> To[r][k].box, id |-> <<k, n>>] : n \in 1 .. copies[r][k]} :
           k \in DOMAIN To[r]}

Places == UNION {DOMAIN To[r] : r \in Requests}
RowIds == (Turns \X (1 .. MaxRcpts)) \cup (Places \X (1 .. MaxTries))

IC == INSTANCE IntakeContract WITH
        Ids <- RowIds,
        hand <- [c \in Callers |-> InHand(c)],
        queue <- SessionRows \cup (UNION {RowsOf(r) : r \in Requests}),
        list <- {b \in Boxes : InLower(b) \in suppressions}

KeepsIntakeContract == IC!Contract

(***************************************************************************)
(* Why the handlers return: each statement or reply takes one from what a  *)
(* handler has left, and nothing that the other one, the clients or the    *)
(* tables do adds to it.  A mail has two statements and a reply for each   *)
(* recipient to come, and the end of its loop; a request two statements.   *)
(***************************************************************************)
SessionLeft ==
  CASE state = "loop"                  -> 3 * (Len(rcpt) - at) + 4
    [] state = "passed"                -> 3 * (Len(rcpt) - at) + 3
    [] state \in {"stored", "refused"} -> 3 * (Len(rcpt) - at) + 2
    [] OTHER                           -> 0

RequestLeft(r) ==
  CASE answer[r] = "loop"    -> 2 * (Len(To[r]) - place[r]) + 2
    [] answer[r] = "checked" -> 2 * (Len(To[r]) - place[r]) + 1
    [] OTHER                 -> 0

HandlersRunDown ==
  [][/\ SessionLeft > 0 =>
          SessionLeft' < SessionLeft \/ UNCHANGED <<state, rcpt, at, stored>>
     /\ \A r \in Requests : RequestLeft(r) > 0 =>
          RequestLeft(r)' < RequestLeft(r) \/ UNCHANGED <<answer[r], place[r], copies[r]>>]_vars
=============================================================================
