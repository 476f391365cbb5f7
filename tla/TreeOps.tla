------------------------------ MODULE TreeOps ------------------------------
(***************************************************************************)
(* The data operations of store/tree/tree.go, as operators on one subtree. *)
(*                                                                         *)
(* A subtree is the pair of its red-black tree's node set N (the keys that *)
(* have a node, possibly with an empty list) and the function D from every *)
(* key to the list stored at its node, {} where there is none.  A list is  *)
(* the set of its entries: `exp' is the int64 the code stores, `id' is the *)
(* rank of the Put that appended it, so the set ordered by id is the list. *)
(*                                                                         *)
(* Keys are numbers because the tree is ordered; TTL is expireAfterSecs.   *)
(* A definition named after another one with a suffix (AddUpKeys for AddUp)*)
(* is a mutant of it: a plausible fault that the properties must notice.   *)
(***************************************************************************)
EXTENDS Integers, FiniteSets

CONSTANTS Key, TTL

ASSUME KeyAssumption == Key \subseteq Nat /\ IsFiniteSet(Key)
ASSUME TTLAssumption == TTL \in Nat \ {0}

Entry == [id : Nat, exp : Nat]

NoDates == [k \in Key |-> {}]

(* removeExpired: keep removeAt > currentTime.                             *)
removeExpired(dates, time) == {d \in dates : d.exp > time}

(* getAndCleanupUnsafe drops a node whose list is already empty.  It is    *)
(* the only place that shrinks the tree: Count stores the filtered list    *)
(* back even when nothing is left of it.                                   *)
getAndCleanupUnsafe(N, D, k) == IF k \in N /\ D[k] = {} THEN N \ {k} ELSE N

(* The node set and the lists after Tree.Count(k), and what it returns.    *)
CountNodes(N, D, k) == getAndCleanupUnsafe(N, D, k)
CountDates(D, k, time) == [D EXCEPT ![k] = removeExpired(@, time)]

CountResultUnfiltered(D, k, time) == Cardinality(D[k])
CountResultOffByOne(D, k, time) == Cardinality(removeExpired(D[k], time)) - 1
CountResult(D, k, time) == Cardinality(removeExpired(D[k], time))

(* The same for Tree.Put(k) appending entry e.                             *)
PutNodes(N, D, k) == getAndCleanupUnsafe(N, D, k) \cup {k}
PutDates(D, k, time, e) == [D EXCEPT ![k] = removeExpired(@, time) \cup {e}]

(* Does the call relink nodes of the red-black tree?  Overwriting the value*)
(* of an existing node does not; a removal, an insertion, and the removal  *)
(* followed by an insertion that Put does on an empty node, do.            *)
CountRelinks(N, D, k) == k \in N /\ D[k] = {}
PutRelinks(N, D, k) == k \notin N \/ D[k] = {}

(* Tree.Keys' treatment of one key's count: is the key returned, and what  *)
(* becomes of the sum.                                                     *)
KeyCountsMany(c) == c > 1
KeyCounts(c) == c # 0
AddUpKeys(s, c) == s + 1
AddUp(s, c) == s + c

Least(S) == {k \in S : \A j \in S : k <= j}

(* Red-black tree iteration in key order: the node after k, if any.        *)
SuccessorTwice(N, k) == Least({j \in N : \E i \in N : k < i /\ i < j})
Successor(N, k) == Least({j \in N : j > k})
=============================================================================
