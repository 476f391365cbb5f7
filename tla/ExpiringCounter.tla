-------------------------- MODULE ExpiringCounter --------------------------
(***************************************************************************)
(* What package tree promises its callers: every Put of a key is counted   *)
(* by Count from then until the second it expires, exactly once, and by    *)
(* nothing else.  There are no nodes, no lists and no cleanup here: `live' *)
(* is exactly the set of unexpired entries at every moment.                *)
(***************************************************************************)
EXTENDS Integers, FiniteSets

CONSTANTS Key, TTL, Thread, MaxNow, MaxPuts

VARIABLES now,      \* time.Now().Unix()
          nextId,   \* rank of the next Put
          live,     \* the unexpired entries of each key
          keyCount  \* the last number Count returned to each thread

vars == <<now, nextId, live, keyCount>>

Unexpired(lists, time) == [k \in Key |-> {e \in lists[k] : e.exp > time}]

Init ==
    /\ now = 0
    /\ nextId = 0
    /\ live = [k \in Key |-> {}]
    /\ keyCount = [t \in Thread |-> 0]

Put(t, k) == \E secs \in {now, now + 1} :
    /\ nextId < MaxPuts
    /\ secs <= MaxNow
    /\ now' = secs
    /\ nextId' = nextId + 1
    /\ live' = [Unexpired(live, secs) EXCEPT
                  ![k] = @ \cup {[id |-> nextId, exp |-> secs + TTL]}]
    /\ UNCHANGED keyCount

Count(t, k) ==
    /\ keyCount' = [keyCount EXCEPT ![t] = Cardinality(live[k])]
    /\ UNCHANGED <<now, nextId, live>>

Tick ==
    /\ now < MaxNow
    /\ now' = now + 1
    /\ live' = Unexpired(live, now + 1)
    /\ UNCHANGED <<nextId, keyCount>>

Next == Tick \/ \E t \in Thread, k \in Key : Put(t, k) \/ Count(t, k)

Spec == Init /\ [][Next]_vars
=============================================================================
