------------------------------- MODULE MCStore -------------------------------
(* Model-checking parameters for Store.                                    *)
EXTENDS Store, TLC

(* Goroutines are interchangeable.  Namespaces are not: IdleFrame names    *)
(* one of them.                                                            *)
Goroutines == Permutations(Proc)
=============================================================================
