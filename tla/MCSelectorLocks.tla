---------------------------- MODULE MCSelectorLocks ----------------------------
(* A small instance of SelectorLocks: a bundled address and one that can    *)
(* only be pinned.                                                          *)
EXTENDS SelectorLocks

CONSTANTS a1, a2

MCBundled == <<a1>>

MCF64Min == -1000000
=============================================================================
