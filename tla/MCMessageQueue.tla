--------------------------- MODULE MCMessageQueue ---------------------------
(***************************************************************************)
(* Small instances of MessageQueue for TLC: an urgent and a bulk message   *)
(* to one recipient (the suppression of one meets the other in every       *)
(* state), and one bounce report about the urgent one.                     *)
(***************************************************************************)
EXTENDS MessageQueue, TLC

CONSTANTS m1, m2, r1, d1, d2

MCRecipient == [m \in Msgs |-> r1]

\* Stream::priority of Transactional for m1, of Marketing for the others.
MCPriority == [m \in Msgs |-> IF m = m1 THEN 10 ELSE 50]

MCReported == [d \in Dsns |-> m1]
=============================================================================
