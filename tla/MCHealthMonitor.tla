-------------------------- MODULE MCHealthMonitor --------------------------
(***************************************************************************)
(* Instances of HealthMonitor for TLC.  A window stands for each region    *)
(* the rules tell apart: a quiet day, a clean busy one, a bad one, and a   *)
(* bouncing week.                                                          *)
(***************************************************************************)
EXTENDS HealthMonitor

CONSTANTS i1, i2

Quiet    == [sent_7d |-> 10, bounce_7d |-> 0, sent_24h |-> 5, bounce_24h |-> 0, deferred_24h |-> 1]
Busy     == [sent_7d |-> 800, bounce_7d |-> 4, sent_24h |-> 200, bounce_24h |-> 1, deferred_24h |-> 5]
BadDay   == [sent_7d |-> 600, bounce_7d |-> 11, sent_24h |-> 100, bounce_24h |-> 4, deferred_24h |-> 0]
BadWeek  == [sent_7d |-> 100, bounce_7d |-> 6, sent_24h |-> 20, bounce_24h |-> 2, deferred_24h |-> 0]

AllWindows == {Quiet, Busy, BadDay, BadWeek}
QuietWindow == {Quiet}
=============================================================================
