------------------------------ MODULE MCClient ------------------------------
(* Model-checking parameters for Client.                                   *)
EXTENDS Client, TLC

(* Requests are interchangeable.                                           *)
Requests == Permutations(Req)
=============================================================================
