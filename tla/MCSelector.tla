------------------------------ MODULE MCSelector ------------------------------
(* Small instances of Selector for TLC: one group of two bundled addresses  *)
(* (a third can be pinned), a penalty of one tick.                          *)
EXTENDS Selector

CONSTANTS g1, a1, a2, a3

MCBundled == [g \in Groups |-> <<a1, a2>>]

MCF64Min == -1000000
=============================================================================
