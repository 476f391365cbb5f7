---------------------------- MODULE MCServerPool ----------------------------
(* Model-checking parameters for ServerPool.                               *)
EXTENDS ServerPool, TLC
=============================================================================
