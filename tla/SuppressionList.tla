--------------------------- MODULE SuppressionList ---------------------------
(***************************************************************************)
(* The table `suppressions`, which the SMTP intake and the HTTP API share, *)
(* and the spellings of an address in it.  An address is a mailbox and the *)
(* way it is written: in lower case, with capitals, or with blanks around  *)
(* it.                                                                     *)
(***************************************************************************)
EXTENDS Integers, Sequences, FiniteSets

CONSTANT Boxes  \* mailboxes

VARIABLE suppressions  \* a set of addresses

Spellings == {"lower", "capitals", "padded"}
Addresses == [box : Boxes, form : Spellings]

\* trim().to_ascii_lowercase(), in enqueue_raw.
Normal(a) == [a EXCEPT !.form = "lower"]

\* to_ascii_lowercase(), in add_suppression.
Folded(a) == [a EXCEPT !.form = IF @ = "padded" THEN "padded" ELSE "lower"]

\* The look-up of enqueue_raw.
Suppressed(a) == Normal(a) \in suppressions

Insert(a) == suppressions' = suppressions \cup {a}
=============================================================================
