----------------------------- MODULE Reputation -----------------------------
(***************************************************************************)
(* The volume decision of src/src/reputation.rs: what fraction of the      *)
(* remaining quota the live delivery signals leave.  The console's score   *)
(* (reputation_score) decides nothing and is left out.                     *)
(*                                                                         *)
(* An operator named Faulty_X is X with a plausible mistake; no            *)
(* specification uses it.                                                  *)
(***************************************************************************)
EXTENDS Warming

Decisions == {"stop", "cut", "slow", "hold", "push"}

Signals == [health : Healths, age : Nat, sent_7d : Nat, bounce_7d : Nat,
            complaint_7d : Nat, sent_24h : Nat, bounce_24h : Nat,
            deferred_24h : Nat, blocked_48h : BOOLEAN, dnsbl_listed : BOOLEAN]

Stopped(s) ==
  \/ s.health = "quarantine" \/ s.blocked_48h \/ s.dnsbl_listed
  \/ Complaining(s)
  \/ Bouncing(s)

BouncingToday(s) == s.sent_24h >= 30 /\ RateAbove(s.bounce_24h, s.sent_24h, 3, 100)

PushedBack(s) ==
  \/ s.sent_7d >= 50 /\ RateAbove(s.bounce_7d, s.sent_7d, 2, 100)
  \/ s.sent_24h >= 40 /\ RateAbove(s.deferred_24h, s.sent_24h, 20, 100)

Clean(s) ==
  /\ s.health = "active"
  /\ s.sent_7d >= 500
  /\ RateBelow(s.bounce_7d, s.sent_7d, 1, 100)
  /\ s.complaint_7d = 0
  /\ RateBelow(s.deferred_24h, s.sent_24h, 5, 100)
  /\ ~s.dnsbl_listed

\* The pause for a listed or blocked IP is looked at last.
Faulty_decide_volume(s) ==
  IF Complaining(s) \/ Bouncing(s) THEN "stop"
  ELSE IF BouncingToday(s) THEN "cut"
  ELSE IF PushedBack(s) THEN "slow"
  ELSE IF Clean(s) THEN "push"
  ELSE IF Stopped(s) THEN "stop"
  ELSE "hold"

decide_volume(s) ==
  IF Stopped(s) THEN "stop"
  ELSE IF BouncingToday(s) THEN "cut"
  ELSE IF PushedBack(s) THEN "slow"
  ELSE IF Clean(s) THEN "push"
  ELSE "hold"

\* Percent; the code multiplies by the f64 and takes the floor.
Multiplier == [stop |-> 0, cut |-> 25, slow |-> 50, hold |-> 100, push |-> 120]

apply_volume(remaining, decision) ==
  (remaining * Multiplier[decision]) \div 100

(***************************************************************************)
(* What the two judges of an IP owe each other: refresh_health stores both *)
(* verdicts in one row.                                                    *)
(***************************************************************************)
HealthAgreesWithVolume(s) ==
  /\ evaluate_health(s) = "quarantine" => decide_volume(s) = "stop"
  /\ decide_volume(s) = "push" => evaluate_health(s) # "quarantine"
=============================================================================
