---------------------------- MODULE MCVolumeGate ----------------------------
(***************************************************************************)
(* Instances of VolumeGate for TLC: Apple, whose cap is 10 on the first    *)
(* day and 25 on the second, and an IP of either age.  The old domain may  *)
(* send 25 and the new one 10, so the cap of the domain binds, or the cap  *)
(* of the IP does.                                                         *)
(***************************************************************************)
EXTENDS VolumeGate

CONSTANTS new, old

FirstDays  == {[s \in Scopes |-> IF s = new THEN 0 ELSE IF s = old THEN 1 ELSE a] : a \in {0, 1}}
NearlyFull == [s \in Scopes |-> IF s = old THEN 0 ELSE 9]
FewCalls   == [d \in Domains |-> IF d = new THEN 3 ELSE 1]
TwoDays    == [day \in 0 .. MaxDays |-> IF day = 0 THEN 11 ELSE 1]
=============================================================================
