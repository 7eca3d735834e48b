--------------------------- MODULE IntakeContract ---------------------------
(***************************************************************************)
(* What enqueue_raw promises to the table `messages`, whoever calls it: a  *)
(* message is stored only by a caller that has looked its recipient up and *)
(* found it not suppressed; for each message it looks anew; no message is  *)
(* taken back, and no recipient leaves the list.  It does not promise that *)
(* the recipient is still not suppressed when the message is stored.       *)
(*                                                                         *)
(* MessageQueue keeps this contract with its calls of enqueue_raw, Intake  *)
(* with the session and the requests that make them.                       *)
(***************************************************************************)

CONSTANTS
  Callers,  \* calls of enqueue_raw, or those that make them one by one
  Boxes,    \* recipients, as enqueue_raw looks them up
  Ids       \* tells the messages of a caller to one recipient apart

VARIABLES
  hand,   \* [Callers -> SUBSET Boxes], the recipient looked up, if any
  queue,  \* messages stored
  list    \* suppressed recipients

cvars == <<hand, queue, list>>

Entry(c, b, id) == [by |-> c, to |-> b, id |-> id]

ContractInit ==
  /\ hand = [c \in Callers |-> {}]
  /\ queue = {}
  /\ list = {}

LookUp(c, b) ==
  /\ hand[c] = {} /\ b \notin list
  /\ hand' = [hand EXCEPT ![c] = {b}]
  /\ UNCHANGED <<queue, list>>

\* Some callers give up, or a restart ends them.
Drop ==
  /\ \E S \in SUBSET Callers : hand' = [c \in Callers |-> IF c \in S THEN {} ELSE hand[c]]
  /\ UNCHANGED <<queue, list>>

Enter(c, b, id) ==
  /\ hand[c] = {b} /\ Entry(c, b, id) \notin queue
  /\ hand' = [hand EXCEPT ![c] = {}]
  /\ queue' = queue \cup {Entry(c, b, id)}
  /\ UNCHANGED list

Suppress(b) ==
  /\ list' = list \cup {b}
  /\ UNCHANGED <<hand, queue>>

ContractNext ==
  \/ \E c \in Callers, b \in Boxes : LookUp(c, b) \/ \E id \in Ids : Enter(c, b, id)
  \/ Drop
  \/ \E b \in Boxes : Suppress(b)

Contract == ContractInit /\ [][ContractNext]_cvars
=============================================================================
