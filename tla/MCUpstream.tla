------------------------------ MODULE MCUpstream ------------------------------
(* A small instance of Upstream: reads shorter than a connect and longer    *)
(* headers, so that each timer can be the one that fires.                   *)
EXTENDS Upstream

MCLatencies == 0 .. ConnectTimeout + ReadTimeout

MCF64Min == -1000000
=============================================================================
