------------------------- MODULE MCMaintenanceLease -------------------------
(* Instances of MaintenanceLease for TLC: the real 120 s lease renewed     *)
(* every 30 s, in ticks of 15 s, two invocations.                          *)
EXTENDS MaintenanceLease, TLC

CONSTANTS p1, p2

MCProcs == {p1, p2}
Skewed == (p1 :> 0) @@ (p2 :> 1)
=============================================================================
