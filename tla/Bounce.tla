------------------------------- MODULE Bounce -------------------------------
(***************************************************************************)
(* src/src/bounce.rs and the end of smtp_out.rs: what becomes of the text  *)
(* of a failed delivery.  A text is known by the numbers of three digits   *)
(* in it, in their order, and by the phrases the rules look for.           *)
(*                                                                         *)
(* An operator named Faulty_X is X with a plausible mistake; no            *)
(* specification uses it.                                                  *)
(***************************************************************************)
EXTENDS Integers, Sequences

Classes == {"success", "defer", "soft", "hard", "block"}

BlockPhrases ==
  {"5.7.1", "5.7.0", "5.7.26", "blocked", "blacklist", "blocklist", "spamhaus",
   "listed on", "reputation", "not allowed to send", "access denied",
   "policy violation"}

HardPhrases ==
  {"5.1.1", "5.1.10", "user unknown", "unknown user", "does not exist",
   "doesn't exist", "no such user", "recipient address rejected",
   "invalid recipient", "bad destination", "not a valid mailbox"}

SoftPhrases ==
  {"mailbox full", "over quota", "insufficient storage", "out of storage",
   "4.2.2", "5.2.2"}

\* The last one is of a test only; no rule looks for it.
Phrases ==
  BlockPhrases \cup HardPhrases \cup SoftPhrases
    \cup {"spam", "reject", "4.7.", "mailbox unavailable", "5.1", "greylisted"}

is_block(code, words) ==
  \/ words \cap BlockPhrases # {}
  \/ {"spam", "reject"} \subseteq words
  \/ code = 421 /\ "4.7." \in words

is_hard(words) ==
  \/ words \cap HardPhrases # {}
  \/ {"mailbox unavailable", "5.1"} \subseteq words

is_soft(words) == words \cap SoftPhrases # {}

Temporary(code) == code \in 400 .. 499
Permanent(code) == code \in 500 .. 599

\* A code that is no success is permanent.
Faulty_classify_smtp(code, words) ==
  CASE code \in 200 .. 299 -> "success"
    [] code \notin 200 .. 299 /\ is_block(code, words) -> "block"
    [] code \notin 200 .. 299 /\ ~is_block(code, words) -> "hard"

classify_smtp(code, words) ==
  CASE code \in 200 .. 299 -> "success"
    [] code \notin 200 .. 299 /\ is_block(code, words) -> "block"
    [] code \notin 200 .. 299 /\ ~is_block(code, words) /\ is_hard(words) -> "hard"
    [] OTHER -> CASE Permanent(code) /\ is_soft(words) -> "soft"
                  [] Permanent(code) /\ ~is_soft(words) -> "hard"
                  [] ~Permanent(code) -> "defer"

\* A text without a number gets 450.
extract_code(numbers) ==
  LET codes == {i \in DOMAIN numbers : numbers[i] \in 200 .. 599}
  IN  IF codes = {} THEN 450
      ELSE numbers[CHOOSE i \in codes : \A k \in codes : i <= k]

classify_error(text) == classify_smtp(extract_code(text.numbers), text.words)
=============================================================================
