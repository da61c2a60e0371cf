------------------------------ MODULE MCSpeedTest ------------------------------
(* Small instances of SpeedTest for TLC: two groups, one of them larger than *)
(* a wave.                                                                   *)
EXTENDS SpeedTest

CONSTANTS g1, g2

MCAddresses == [g \in Groups |-> IF g = g1 THEN 3 ELSE 1]
=============================================================================
