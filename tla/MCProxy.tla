------------------------------- MODULE MCProxy -------------------------------
(* Small instances of Proxy for TLC: one group of two bundled addresses.     *)
EXTENDS Proxy

CONSTANTS g1, a1, a2

MCBundled == [g \in Groups |-> <<a1, a2>>]

MCF64Min == -1000000
=============================================================================
