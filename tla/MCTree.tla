------------------------------- MODULE MCTree -------------------------------
(* Model-checking parameters for Tree: two goroutines on two keys.         *)
EXTENDS Tree, TLC

Goroutines == Permutations(Thread)
=============================================================================
