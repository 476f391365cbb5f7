------------------------------ MODULE MCServer ------------------------------
(* Model-checking parameters for Server.                                   *)
EXTENDS Server, TLC

(* Servers that run, requests, and the workers of all servers are          *)
(* interchangeable.                                                        *)
ServersWorkersRequests == Permutations(Node \ Down) \cup Permutations(Worker) \cup Permutations(Req)
=============================================================================
