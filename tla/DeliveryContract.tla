-------------------------- MODULE DeliveryContract --------------------------
(***************************************************************************)
(* What the mail queue promises for a message, without its tables, tasks   *)
(* or faults: an accepted message waits and is tried, at most Limit times, *)
(* until it is sent or bounced; only a bounce report takes a sent message  *)
(* back, and nothing brings a bounced one back.  The contract does not     *)
(* promise that a message on trial is ever resolved.                       *)
(***************************************************************************)
EXTENDS Integers

CONSTANTS
  Msgs,    \* messages
  Limit    \* exchanges with a remote host a message may have

VARIABLES
  state,   \* where the message stands
  made     \* exchanges it has had

cvars == <<state, made>>

\* "trying": taken up, not yet handed over; "tried": its outcome is to be told.
States == {"absent", "waiting", "trying", "tried", "sent", "bounced"}

ContractTypeOK ==
  /\ state \in [Msgs -> States]
  /\ made \in [Msgs -> 0 .. Limit]

ContractInit ==
  /\ state = [m \in Msgs |-> "absent"]
  /\ made = [m \in Msgs |-> 0]

Move(m, from, to) ==
  /\ state[m] = from
  /\ state' = [state EXCEPT ![m] = to]
  /\ UNCHANGED made

Accept(m) == Move(m, "absent", "waiting")

\* A set of waiting messages is taken up together; each has a try left.
TakeUp ==
  \E S \in SUBSET {m \in Msgs : state[m] = "waiting" /\ made[m] < Limit} :
    /\ state' = [m \in Msgs |-> IF m \in S THEN "trying" ELSE state[m]]
    /\ UNCHANGED made

\* The one exchange a take-up leads to.
Exchange(m) ==
  /\ state[m] = "trying" /\ made[m] < Limit
  /\ state' = [state EXCEPT ![m] = "tried"]
  /\ made' = [made EXCEPT ![m] = @ + 1]

\* Only an exchange can end in success, and only a message with a try left
\* goes back to wait.
Resolve(m) ==
  \/ Move(m, "tried", "sent")
  \/ made[m] < Limit /\ Move(m, "tried", "waiting")

\* Bounced by the exchange, by exhaustion or by a report; a set at a time,
\* since a restart settles every trial a report had already ended.
Bounce ==
  \E S \in SUBSET {m \in Msgs : made[m] > 0} :
    /\ state' = [m \in Msgs |-> IF m \in S THEN "bounced" ELSE state[m]]
    /\ UNCHANGED made

ContractNext ==
  \/ \E m \in Msgs : Accept(m) \/ Exchange(m) \/ Resolve(m)
  \/ TakeUp
  \/ Bounce

Contract == ContractInit /\ [][ContractNext]_cvars
=============================================================================
