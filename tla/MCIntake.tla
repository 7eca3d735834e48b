------------------------------ MODULE MCIntake ------------------------------
(***************************************************************************)
(* Instances of Intake for TLC: a mailbox, which a request names in two    *)
(* spellings, and a bounce report.                                         *)
(***************************************************************************)
EXTENDS Intake

CONSTANTS ann, report, news, key

Address(b, f) == [box |-> b, form |-> f]

MCTo == [r \in Requests |-> <<Address(ann, "capitals"), Address(ann, "lower")>>]
MCKeyOf == [r \in Requests |-> key]
MCListed == {Address(ann, "capitals")}

OneTo == [r \in Requests |-> <<Address(ann, "capitals")>>]
=============================================================================
