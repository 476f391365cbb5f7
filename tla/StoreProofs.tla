----------------------------- MODULE StoreProofs -----------------------------
(***************************************************************************)
(* Proofs about module Store, for any number of goroutines, namespaces,    *)
(* keys and subtrees, and for any mix of operations.                       *)
(***************************************************************************)
EXTENDS Store, FiniteSetTheorems, TLAPS

USE KeyAssumption, TTLAssumption, StoreAssumption DEF NoTree

-----------------------------------------------------------------------------
(* The inductive invariant.                                                *)
(*                                                                         *)
(* The subtrees: a key without a node has no entries, a subtree that was   *)
(* not made yet has none at all, and ids are handed out in order.          *)
Trees ==
    /\ \A n \in Ns : namespaces[n] \in used \cup {NoTree}
    /\ \A t \in TreeId : \A k \in Key :
         /\ IsFiniteSet(dates[t][k])
         /\ k \notin nodes[t] => dates[t][k] = {}
         /\ t \notin used => dates[t][k] = {}
         /\ \A e \in dates[t][k] : e.id < nextId

(* Where a call is and which subtrees it has.                              *)
Placed(f) ==
    /\ f.pc = "idle" => f.op = "none"
    /\ f.pc \in {"install", "put"} => f.op = "put"
    /\ f.pc = "count" => f.op = "count"
    /\ f.pc = "list" => f.op \in {"countEntries", "keyMatch", "countServer"}
    /\ f.pc = "scan" => f.op \in {"countEntries", "keyMatch", "countServer", "cleanup"}
    /\ f.pc = "visit" => f.op \in {"countServer", "cleanup"}
    /\ f.pc \in {"fetch", "drop"} => f.op = "cleanup"
    /\ f.pc \in {"put", "count", "list", "scan"} => f.tr \in used
    /\ f.op = "cleanup" /\ f.pc # "fetch" => \A n \in f.spaces : f.subtrees[n] \in used
    /\ f.since <= nextId

(* What is found at n was put there after the call looked at the map.      *)
Newer(f, n) == \A e \in Reachable(n) : e.id >= f.since

(* What a call knows that will overwrite or remove a namespace: whatever   *)
(* is there, or whatever has not expired, is newer than its look at the    *)
(* map.                                                                    *)
Knows(f) ==
    /\ f.pc = "install" => Newer(f, f.ns)
    /\ f.op = "cleanup" /\ f.pc # "fetch" =>
         \A n \in f.spaces : namespaces[n] = f.subtrees[n] \/ Newer(f, n)
    /\ f.op = "cleanup" /\ f.pc = "scan" =>
         /\ namespaces[f.ns] = f.tr \/ Newer(f, f.ns)
         /\ f.hits = 0 =>
              \A k \in Key \ f.todo : \A e \in dates[f.tr][k] : e.exp > now => e.id >= f.since
    /\ f.pc = "drop" => \A e \in Reachable(f.ns) : e.exp > now => e.id >= f.since

Inv == TypeOK /\ Trees /\ \A p \in Proc : Placed(frame[p]) /\ Knows(frame[p])

-----------------------------------------------------------------------------
(* Everything but the calls, and what a step may do to it.                 *)
WorldType ==
    /\ now \in Nat /\ nextId \in Nat /\ calls \in Nat
    /\ namespaces \in [Ns -> Tree] /\ used \subseteq TreeId
    /\ nodes \in [TreeId -> SUBSET Key]
    /\ dates \in [TreeId -> [Key -> SUBSET Entry]]
    /\ lastGCd \subseteq Ns
    /\ enabled \in BOOLEAN /\ stopped \in BOOLEAN
    /\ timers \in Nat /\ lists \in Nat

LEMMA TypeParts == TypeOK <=> WorldType /\ frame \in [Proc -> Frame]
BY DEF TypeOK, WorldType

(* A namespace changes only to one that is empty, and an entry that comes  *)
(* has a new id ...                                                        *)
Grows ==
    /\ used \subseteq used' /\ nextId <= nextId' /\ now <= now'
    /\ \A n \in Ns : namespaces'[n] = namespaces[n] \/ Reachable(n)' = {}
    /\ \A t \in TreeId : \A k \in Key : \A e \in dates'[t][k] :
         e \in dates[t][k] \/ e.id >= nextId

(* ... and an entry that goes has expired.                                 *)
Keeps ==
    \A t \in TreeId : \A k \in Key : \A e \in dates[t][k] : e.exp > now' => e \in dates'[t][k]

LEMMA ReachableIs ==
    ASSUME NEW n \in Ns, NEW e
    PROVE  e \in Reachable(n) <=>
               namespaces[n] # NoTree /\ \E k \in Key : e \in dates[namespaces[n]][k]
BY DEF Reachable

LEMMA ReachableIsNext ==
    ASSUME NEW n \in Ns, NEW e
    PROVE  e \in Reachable(n)' <=>
               namespaces'[n] # NoTree /\ \E k \in Key : e \in dates'[namespaces'[n]][k]
BY DEF Reachable

LEMMA ReachableType ==
    ASSUME WorldType, NEW n \in Ns
    PROVE  Reachable(n) \subseteq Entry
<1>1. namespaces[n] \in TreeId \cup {NoTree}
  BY DEF WorldType, Tree
<1> QED
  BY <1>1, ReachableIs DEF WorldType

LEMMA ReachableTypeNext ==
    ASSUME WorldType', NEW n \in Ns
    PROVE  Reachable(n)' \subseteq Entry
<1>1. namespaces'[n] \in TreeId \cup {NoTree}
  BY DEF WorldType, Tree
<1> QED
  BY <1>1, ReachableIsNext DEF WorldType

LEMMA ReachableGrows ==
    ASSUME WorldType, Grows, NEW n \in Ns, NEW e \in Reachable(n)'
    PROVE  namespaces'[n] = namespaces[n] /\ (e \in Reachable(n) \/ e.id >= nextId)
<1>1. namespaces'[n] = namespaces[n]
  BY DEF Grows
<1>2. namespaces[n] \in TreeId \cup {NoTree}
  BY DEF WorldType, Tree
<1>3. PICK k \in Key : e \in dates'[namespaces[n]][k] /\ namespaces[n] # NoTree
  BY <1>1, ReachableIsNext
<1>4. e \in dates[namespaces[n]][k] \/ e.id >= nextId
  BY <1>2, <1>3 DEF Grows
<1> QED
  BY <1>1, <1>3, <1>4, ReachableIs

LEMMA NewerKept ==
    ASSUME WorldType, WorldType', Grows, NEW f \in Frame, f.since <= nextId, NEW n \in Ns, Newer(f, n)
    PROVE  Newer(f, n)'
<1> SUFFICES ASSUME NEW e \in Reachable(n)' PROVE e.id >= f.since
  BY DEF Newer
<1>1. e \in Reachable(n) \/ e.id >= nextId
  BY ReachableGrows
<1>2. e \in Entry
  <2>1. Reachable(n)' \subseteq Entry
    BY ReachableTypeNext
  <2> QED
    BY <2>1
<1>3. f.since \in Nat /\ nextId \in Nat /\ e.id \in Nat
  BY <1>2 DEF Frame, WorldType, Entry
<1> QED
  BY <1>1, <1>3 DEF Newer

LEMMA PlacedKept ==
    ASSUME WorldType, WorldType', Grows, NEW f \in Frame, Placed(f)
    PROVE  Placed(f)'
<1>1. f.since \in Nat /\ nextId \in Nat /\ nextId' \in Nat
  BY DEF Frame, WorldType
<1>2. f.since <= nextId'
  BY <1>1 DEF Placed, Grows
<1>3. f.pc \in {"put", "count", "list", "scan"} => f.tr \in used'
  BY DEF Placed, Grows
<1>4. f.op = "cleanup" /\ f.pc # "fetch" => \A n \in f.spaces : f.subtrees[n] \in used'
  BY DEF Placed, Grows
<1> QED
  BY <1>2, <1>3, <1>4 DEF Placed

LEMMA KnowsKept ==
    ASSUME WorldType, WorldType', Grows, NEW f \in Frame, Placed(f), Knows(f)
    PROVE  Knows(f)'
<1>1. /\ f.since \in Nat /\ nextId \in Nat /\ now \in Nat /\ now' \in Nat /\ f.since <= nextId
      /\ f.ns \in Ns /\ f.spaces \subseteq Ns /\ f.todo \subseteq Key
  BY DEF Frame, WorldType, Placed
<1>2. ASSUME NEW n \in Ns, Newer(f, n) PROVE Newer(f, n)'
  BY <1>1, <1>2, NewerKept
<1>3. ASSUME NEW n \in Ns, NEW t, namespaces[n] = t \/ Newer(f, n)
      PROVE  namespaces'[n] = t \/ Newer(f, n)'
  <2>1. CASE Newer(f, n)
    BY <1>2, <2>1
  <2>2. CASE namespaces[n] = t
    <3>1. CASE namespaces'[n] = namespaces[n]
      BY <2>2, <3>1
    <3>2. CASE Reachable(n)' = {}
      BY <3>2 DEF Newer
    <3> QED
      BY <3>1, <3>2 DEF Grows
  <2> QED
    BY <1>3, <2>1, <2>2
<1>4. f.pc = "install" => Newer(f, f.ns)'
  BY <1>1, <1>2 DEF Knows
<1>5. f.op = "cleanup" /\ f.pc # "fetch" =>
        \A n \in f.spaces : namespaces'[n] = f.subtrees[n] \/ Newer(f, n)'
  BY <1>1, <1>3 DEF Knows
<1>6. ASSUME f.op = "cleanup", f.pc = "scan"
      PROVE  /\ namespaces'[f.ns] = f.tr \/ Newer(f, f.ns)'
             /\ f.hits = 0 => \A k \in Key \ f.todo : \A e \in dates'[f.tr][k] :
                                 e.exp > now' => e.id >= f.since
  <2>1. namespaces'[f.ns] = f.tr \/ Newer(f, f.ns)'
    BY <1>1, <1>3, <1>6 DEF Knows
  <2>2. ASSUME f.hits = 0, NEW k \in Key \ f.todo, NEW e \in dates'[f.tr][k], e.exp > now'
        PROVE  e.id >= f.since
    <3>1. f.tr \in TreeId
      BY <1>6 DEF Placed, WorldType
    <3>2. e \in Entry
      BY <3>1 DEF WorldType
    <3>3. e.id \in Nat /\ e.exp \in Nat
      BY <3>2 DEF Entry
    <3>4. CASE e \in dates[f.tr][k]
      <4>1. e.exp > now
        BY <1>1, <2>2, <3>3 DEF Grows
      <4> QED
        BY <1>6, <2>2, <3>4, <4>1 DEF Knows
    <3>5. CASE e.id >= nextId
      BY <1>1, <3>3, <3>5
    <3> QED
      BY <3>1, <3>4, <3>5 DEF Grows
  <2> QED
    BY <2>1, <2>2
<1>7. ASSUME f.pc = "drop", NEW e \in Reachable(f.ns)', e.exp > now' PROVE e.id >= f.since
  <2>1. e \in Reachable(f.ns) \/ e.id >= nextId
    BY <1>1, ReachableGrows
  <2>2. e \in Entry
    <3>1. ASSUME NEW n \in Ns PROVE Reachable(n)' \subseteq Entry
      BY ReachableTypeNext
    <3> QED
      BY <1>1, <3>1
  <2>3. e.id \in Nat /\ e.exp \in Nat
    BY <2>2 DEF Entry
  <2>4. e.exp > now
    BY <1>1, <1>7, <2>3 DEF Grows
  <2> QED
    BY <1>1, <1>7, <2>1, <2>3, <2>4 DEF Knows
<1> QED
  BY <1>4, <1>5, <1>6, <1>7 DEF Knows

-----------------------------------------------------------------------------
(* The steps of the world.                                                 *)
Same == UNCHANGED <<namespaces, used, nodes, dates>>

LEMMA SameWorld ==
    ASSUME WorldType, Trees, Same, nextId' = nextId, now' \in Nat, now <= now'
    PROVE  Trees' /\ Grows /\ Keeps
<1>1. Trees'
  BY DEF Trees, Same
<1>2. Grows
  BY DEF Grows, Same, WorldType
<1>3. Keeps
  BY DEF Keeps, Same
<1> QED
  BY <1>1, <1>2, <1>3

(* Lists in subtree t change at key k only, by losing expired entries and  *)
(* perhaps gaining new ones.                                               *)
ListsChange(t, k, new) ==
    \A u \in TreeId : \A j \in Key :
        dates'[u][j] = IF u = t /\ j = k THEN removeExpired(dates[t][k], now) \cup new
                       ELSE dates[u][j]

LEMMA ChangeWorld ==
    ASSUME WorldType, Trees, NEW t \in used, NEW k \in Key, NEW new \in SUBSET Entry,
           IsFiniteSet(new), \A e \in new : e.id = nextId /\ nextId < nextId',
           ListsChange(t, k, new),
           nodes' \in [TreeId -> SUBSET Key],
           \A u \in TreeId : \A j \in Key :
               (u # t \/ j # k) /\ j \notin nodes'[u] => j \notin nodes[u] \/ dates[u][j] = {},
           k \notin nodes'[t] => new = {} /\ dates[t][k] = {},
           dates' \in [TreeId -> [Key -> SUBSET Entry]],
           nextId' \in Nat, now' \in Nat, nextId <= nextId', now <= now',
           UNCHANGED <<namespaces, used>>
    PROVE  Trees' /\ Grows /\ Keeps
<1>1. t \in TreeId /\ now \in Nat /\ nextId \in Nat
  BY DEF WorldType
<1>2. ASSUME NEW u \in TreeId, NEW j \in Key
      PROVE  /\ IsFiniteSet(dates'[u][j])
             /\ j \notin nodes'[u] => dates'[u][j] = {}
             /\ u \notin used' => dates'[u][j] = {}
             /\ \A e \in dates'[u][j] : e.id < nextId'
  <2>1. CASE u = t /\ j = k
    <3>1. dates'[u][j] = removeExpired(dates[t][k], now) \cup new
      BY <2>1 DEF ListsChange
    <3>2. removeExpired(dates[t][k], now) \subseteq dates[t][k]
      BY DEF removeExpired
    <3>3. IsFiniteSet(dates[t][k])
      BY <1>1 DEF Trees
    <3>4. IsFiniteSet(removeExpired(dates[t][k], now))
      BY <3>2, <3>3, FS_Subset
    <3>5. IsFiniteSet(dates'[u][j])
      <4>1. IsFiniteSet(removeExpired(dates[t][k], now) \cup new)
        BY <3>4, FS_Union
      <4> QED
        BY <3>1, <4>1
    <3>6. ASSUME NEW e \in dates'[u][j] PROVE e.id < nextId'
      <4>1. CASE e \in new
        BY <4>1
      <4>2. CASE e \in dates[t][k]
        <5>1. e.id < nextId /\ e \in Entry
          BY <1>1, <4>2 DEF Trees, WorldType
        <5> QED
          BY <1>1, <5>1 DEF Entry
      <4> QED
        BY <3>1, <3>2, <4>1, <4>2
    <3>7. j \notin nodes'[u] => dates'[u][j] = {}
      BY <2>1, <3>1, <3>2
    <3> QED
      BY <2>1, <3>5, <3>6, <3>7
  <2>2. CASE ~(u = t /\ j = k)
    <3>1. dates'[u][j] = dates[u][j]
      BY <2>2 DEF ListsChange
    <3>2. ASSUME NEW e \in dates[u][j] PROVE e.id < nextId'
      <4>1. e.id < nextId /\ e \in Entry
        BY DEF Trees, WorldType
      <4> QED
        BY <1>1, <4>1 DEF Entry
    <3> QED
      BY <2>2, <3>1, <3>2 DEF Trees
  <2> QED
    BY <2>1, <2>2
<1>3. Trees'
  BY <1>2 DEF Trees
<1>4. ASSUME NEW u \in TreeId, NEW j \in Key, NEW e \in dates'[u][j]
      PROVE  e \in dates[u][j] \/ e.id >= nextId
  <2>1. CASE u = t /\ j = k
    <3>1. dates'[u][j] = removeExpired(dates[t][k], now) \cup new
      BY <2>1 DEF ListsChange
    <3> QED
      BY <1>1, <1>4, <2>1, <3>1 DEF removeExpired
  <2>2. CASE ~(u = t /\ j = k)
    <3>1. dates'[u][j] = dates[u][j]
      BY <2>2 DEF ListsChange
    <3> QED
      BY <1>4, <3>1
  <2> QED
    BY <2>1, <2>2
<1>5. Grows
  BY <1>4 DEF Grows
<1>6. Keeps
  <2> SUFFICES ASSUME NEW u \in TreeId, NEW j \in Key, NEW e \in dates[u][j], e.exp > now'
               PROVE  e \in dates'[u][j]
    BY DEF Keeps
  <2>1. e \in Entry
    BY DEF WorldType
  <2>2. e.exp > now
    BY <1>1, <2>1 DEF Entry
  <2>3. CASE u = t /\ j = k
    <3>1. dates'[u][j] = removeExpired(dates[t][k], now) \cup new
      BY <2>3 DEF ListsChange
    <3> QED
      BY <2>2, <2>3, <3>1 DEF removeExpired
  <2>4. CASE ~(u = t /\ j = k)
    <3>1. dates'[u][j] = dates[u][j]
      BY <2>4 DEF ListsChange
    <3> QED
      BY <3>1
  <2> QED
    BY <2>3, <2>4
<1> QED
  BY <1>3, <1>5, <1>6

LEMMA CountWorld ==
    ASSUME WorldType, Trees, NEW t \in used, NEW k \in Key, DoCount(t, k)
    PROVE  /\ WorldType' /\ Trees' /\ Grows /\ Keeps
           /\ ListsChange(t, k, {})
<1>1. t \in TreeId
  BY DEF WorldType
<1>2. UNCHANGED <<now, nextId, calls>> /\ UNCHANGED <<namespaces, used>> /\ UNCHANGED gcVars
  BY DEF DoCount, mapVars
<1>3. ListsChange(t, k, {}) /\ dates' \in [TreeId -> [Key -> SUBSET Entry]]
  BY <1>1 DEF DoCount, CountDates, WorldType, ListsChange, removeExpired
<1>4. /\ nodes' \in [TreeId -> SUBSET Key]
      /\ \A u \in TreeId : u # t => nodes'[u] = nodes[u]
      /\ nodes'[t] = IF k \in nodes[t] /\ dates[t][k] = {} THEN nodes[t] \ {k} ELSE nodes[t]
  BY <1>1 DEF DoCount, CountNodes, getAndCleanupUnsafe, WorldType
<1>5. k \notin nodes'[t] => {} = {} /\ dates[t][k] = {}
  BY <1>1, <1>4 DEF Trees
<1>6. \A u \in TreeId : \A j \in Key :
        (u # t \/ j # k) /\ j \notin nodes'[u] => j \notin nodes[u] \/ dates[u][j] = {}
  BY <1>4
<1>7. /\ IsFiniteSet({}) /\ {} \in SUBSET Entry /\ nextId' \in Nat /\ now' \in Nat
      /\ nextId <= nextId' /\ now <= now'
  BY <1>2, FS_EmptySet DEF WorldType
<1>8. \A e \in {} : e.id = nextId /\ nextId < nextId'
  OBVIOUS
<1>9. Trees' /\ Grows /\ Keeps
  BY <1>2, <1>3, <1>4, <1>5, <1>6, <1>7, <1>8, ChangeWorld
<1>10. WorldType'
  BY <1>2, <1>3, <1>4 DEF WorldType, gcVars
<1> QED
  BY <1>3, <1>9, <1>10

LEMMA PutWorld ==
    ASSUME WorldType, Trees, NEW t \in used, NEW k \in Key, NEW secs \in {now, now + 1},
           now' = secs, nextId' = nextId + 1,
           nodes' = [nodes EXCEPT ![t] = PutNodes(nodes[t], dates[t], k)],
           dates' = [dates EXCEPT ![t] = PutDates(dates[t], k, now, [id |-> nextId, exp |-> secs + TTL])],
           UNCHANGED <<namespaces, used>>, UNCHANGED <<calls, lastGCd, enabled, timers, lists, stopped>>
    PROVE  /\ WorldType' /\ Trees' /\ Grows /\ Keeps
           /\ ListsChange(t, k, {[id |-> nextId, exp |-> secs + TTL]})
<1> DEFINE x == [id |-> nextId, exp |-> secs + TTL]
<1>1. t \in TreeId /\ now \in Nat /\ nextId \in Nat
  BY DEF WorldType
<1>2. x \in Entry /\ x.id = nextId
  BY <1>1 DEF Entry
<1> HIDE DEF x
<1>3. dates' = [dates EXCEPT ![t] = [dates[t] EXCEPT ![k] = removeExpired(dates[t][k], now) \cup {x}]]
  BY DEF PutDates, x
<1>4. ListsChange(t, k, {x}) /\ dates' \in [TreeId -> [Key -> SUBSET Entry]]
  <2> DEFINE D == removeExpired(dates[t][k], now) \cup {x}
  <2>1. D \in SUBSET Entry
    BY <1>1, <1>2 DEF WorldType, removeExpired
  <2>2. dates' = [dates EXCEPT ![t] = [dates[t] EXCEPT ![k] = D]]
    BY <1>3
  <2>3. D = removeExpired(dates[t][k], now) \cup {x}
    OBVIOUS
  <2> HIDE DEF D
  <2>4. dates' \in [TreeId -> [Key -> SUBSET Entry]]
    BY <1>1, <2>1, <2>2 DEF WorldType
  <2>5. \A u \in TreeId : \A j \in Key : dates'[u][j] = IF u = t /\ j = k THEN D ELSE dates[u][j]
    BY <1>1, <2>1, <2>2 DEF WorldType
  <2> QED
    BY <2>3, <2>4, <2>5 DEF ListsChange
<1>5. /\ nodes' \in [TreeId -> SUBSET Key]
      /\ \A u \in TreeId : u # t => nodes'[u] = nodes[u]
      /\ nodes'[t] = nodes[t] \cup {k}
  BY <1>1 DEF PutNodes, getAndCleanupUnsafe, WorldType
<1>6. k \notin nodes'[t] => {x} = {} /\ dates[t][k] = {}
  BY <1>5
<1>7. \A u \in TreeId : \A j \in Key :
        (u # t \/ j # k) /\ j \notin nodes'[u] => j \notin nodes[u] \/ dates[u][j] = {}
  BY <1>5
<1>8. /\ IsFiniteSet({x}) /\ {x} \in SUBSET Entry /\ nextId' \in Nat /\ now' \in Nat
      /\ nextId <= nextId' /\ now <= now'
  <2>1. IsFiniteSet({x})
    BY FS_Singleton
  <2>2. nextId' \in Nat /\ now' \in Nat /\ nextId <= nextId' /\ now <= now'
    BY <1>1
  <2> QED
    BY <1>2, <2>1, <2>2
<1>9. \A e \in {x} : e.id = nextId /\ nextId < nextId'
  BY <1>1, <1>2
<1>10. Trees' /\ Grows /\ Keeps
  BY <1>4, <1>5, <1>6, <1>7, <1>8, <1>9, ChangeWorld
<1>11. WorldType'
  BY <1>4, <1>5, <1>8 DEF WorldType
<1> QED
  BY <1>4, <1>10, <1>11 DEF x

(* A namespace changes: to a new subtree, or to none.                      *)
LEMMA InstallWorld ==
    ASSUME WorldType, Trees, NEW n \in Ns, NEW t \in (TreeId \ used) \cup {NoTree},
           used' = used \cup ({t} \ {NoTree}), namespaces' = [namespaces EXCEPT ![n] = t],
           UNCHANGED <<nodes, dates>>,
           UNCHANGED <<now, nextId, calls>>, UNCHANGED <<lastGCd, enabled, timers, lists, stopped>>
    PROVE  /\ WorldType' /\ Trees' /\ Grows /\ Keeps
           /\ namespaces'[n] = t /\ \A m \in Ns : m # n => namespaces'[m] = namespaces[m]
<1>1. WorldType'
  BY DEF WorldType, Tree
<1>2. namespaces'[n] = t /\ \A m \in Ns : m # n => namespaces'[m] = namespaces[m]
  BY DEF WorldType
<1>3. Trees'
  <2>1. \A m \in Ns : namespaces'[m] \in used' \cup {NoTree}
    BY <1>2 DEF Trees
  <2> QED
    BY <2>1 DEF Trees
<1>4. Reachable(n)' = {}
  BY <1>2, ReachableIsNext DEF Trees
<1>5. Grows
  BY <1>2, <1>4 DEF Grows, WorldType
<1>6. Keeps
  BY DEF Keeps
<1> QED
  BY <1>1, <1>2, <1>3, <1>5, <1>6

-----------------------------------------------------------------------------
(* The steps of the calls.                                                 *)
LEMMA FrameStep ==
    ASSUME Inv, WorldType', Trees', Grows, NEW p \in Proc, NEW f \in Frame,
           frame' = [frame EXCEPT ![p] = f], Placed(f)', Knows(f)'
    PROVE  Inv'
<1>1. WorldType /\ frame \in [Proc -> Frame]
  BY TypeParts DEF Inv
<1>2. frame' \in [Proc -> Frame] /\ frame'[p] = f /\ \A q \in Proc : q # p => frame'[q] = frame[q]
  BY <1>1
<1>3. TypeOK'
  BY <1>2 DEF TypeOK, WorldType
<1>4. ASSUME NEW q \in Proc PROVE Placed(frame[q])' /\ Knows(frame[q])'
  <2>1. CASE q = p
    BY <1>2, <2>1 DEF Placed, Knows, Newer
  <2>2. CASE q # p
    <3>1. PICK g \in Frame : g = frame[q]
      BY <1>1
    <3>2. Placed(g) /\ Knows(g)
      BY <3>1 DEF Inv
    <3>3. Placed(g)' /\ Knows(g)'
      BY <1>1, <3>2, PlacedKept, KnowsKept
    <3>4. frame'[q] = g
      BY <1>2, <2>2, <3>1
    <3> QED
      BY <3>3, <3>4 DEF Placed, Knows, Newer
  <2> QED
    BY <2>1, <2>2
<1> QED
  BY <1>3, <1>4 DEF Inv

LEMMA FrameStepNow ==
    ASSUME Inv, WorldType', Trees', Grows, NEW p \in Proc, NEW f \in Frame,
           frame' = [frame EXCEPT ![p] = f], Placed(f), Knows(f)
    PROVE  Inv'
<1>1. WorldType
  BY TypeParts DEF Inv
<1>2. Placed(f)' /\ Knows(f)'
  BY <1>1, PlacedKept, KnowsKept
<1> QED
  BY <1>2, FrameStep

LEMMA FramesStay ==
    ASSUME Inv, WorldType', Trees', Grows, UNCHANGED frame
    PROVE  Inv'
<1>1. WorldType /\ frame \in [Proc -> Frame]
  BY TypeParts DEF Inv
<1>2. TypeOK'
  BY <1>1 DEF TypeOK, WorldType
<1>3. ASSUME NEW q \in Proc PROVE Placed(frame[q])' /\ Knows(frame[q])'
  <2>1. PICK g \in Frame : g = frame[q]
    BY <1>1
  <2>2. Placed(g) /\ Knows(g)
    BY <2>1 DEF Inv
  <2>3. Placed(g)' /\ Knows(g)'
    BY <1>1, <2>2, PlacedKept, KnowsKept
  <2>4. frame'[q] = g
    BY <2>1
  <2> QED
    BY <2>3, <2>4 DEF Placed, Knows, Newer
<1> QED
  BY <1>2, <1>3 DEF Inv

LEMMA IdleIs ==
    /\ IdleFrame \in Frame
    /\ IdleFrame.pc = "idle" /\ IdleFrame.op = "none" /\ IdleFrame.ns \in Ns /\ IdleFrame.key \in Key
    /\ IdleFrame.tr = NoTree /\ IdleFrame.todo = {} /\ IdleFrame.hits = 0 /\ IdleFrame.sum = 0
    /\ IdleFrame.spaces = {} /\ IdleFrame.subtrees = NoSubtrees /\ IdleFrame.crawled = {}
    /\ IdleFrame.since = 0 /\ IdleFrame.base = {}
<1>1. (CHOOSE n \in Ns : TRUE) \in Ns /\ (CHOOSE k \in Key : TRUE) \in Key
  <2>1. \E n \in Ns : TRUE
    OBVIOUS
  <2>2. \E k \in Key : TRUE
    OBVIOUS
  <2> QED
    BY <2>1, <2>2
<1>2. NoSubtrees \in [Ns -> Tree]
  BY DEF NoSubtrees, Tree
<1>3. NoTree \in Tree
  BY DEF Tree
<1> QED
  BY <1>1, <1>2, <1>3 DEF IdleFrame, Frame, AllOps

LEMMA ReturnStep ==
    ASSUME Inv, WorldType', Trees', Grows, NEW p \in Proc, Return(p)
    PROVE  Inv'
<1>1. WorldType
  BY TypeParts DEF Inv
<1>2. PICK f \in Frame : f = IdleFrame
  BY IdleIs
<1>3. f.pc = "idle" /\ f.op = "none" /\ f.since = 0
  BY <1>2, IdleIs
<1>4. Placed(f) /\ Knows(f)
  BY <1>1, <1>3 DEF Placed, Knows, WorldType
<1>5. frame' = [frame EXCEPT ![p] = f]
  BY <1>2 DEF Return
<1> QED
  BY <1>4, <1>5, FrameStepNow

LEMMA LocalWorld ==
    ASSUME Inv, Local
    PROVE  WorldType' /\ Trees' /\ Grows /\ Keeps
<1>1. WorldType /\ Trees
  BY TypeParts DEF Inv
<1>2. WorldType' /\ Same /\ nextId' = nextId /\ now' = now /\ now \in Nat
  BY <1>1 DEF WorldType, Local, mapVars, treeVars, gcVars, Same
<1>3. now' \in Nat /\ now <= now'
  BY <1>2
<1> QED
  BY <1>1, <1>2, <1>3, SameWorld

LEMMA FrameKnown ==
    ASSUME Inv, NEW p \in Proc
    PROVE  /\ WorldType /\ Trees /\ frame[p] \in Frame /\ Placed(frame[p]) /\ Knows(frame[p])
BY TypeParts DEF Inv

LEMMA PutLookupInv ==
    ASSUME Inv, NEW p \in Proc, NEW n \in Ns, NEW k \in Key, PutLookup(p, n, k)
    PROVE  Inv'
<1>1. WorldType /\ Trees
  BY FrameKnown
<1>2. namespaces[n] \in Tree /\ nextId \in Nat /\ calls \in Nat
  BY <1>1 DEF WorldType
<1>3. PICK f \in Frame :
        /\ f.pc = (IF Found(n) THEN "put" ELSE "install") /\ f.op = "put" /\ f.ns = n
        /\ f.tr = namespaces[n] /\ f.since = nextId /\ frame' = [frame EXCEPT ![p] = f]
  <2> DEFINE f == [IdleFrame EXCEPT !.pc = IF Found(n) THEN "put" ELSE "install", !.op = "put",
                                    !.ns = n, !.key = k, !.tr = namespaces[n], !.since = nextId]
  <2>1. f \in Frame
    BY <1>2, IdleIs DEF Frame, AllOps
  <2>2. /\ f.pc = (IF Found(n) THEN "put" ELSE "install") /\ f.op = "put" /\ f.ns = n
        /\ f.tr = namespaces[n] /\ f.since = nextId
    BY IdleIs DEF Frame
  <2>3. frame' = [frame EXCEPT ![p] = f]
    BY DEF PutLookup
  <2> QED
    BY <2>1, <2>2, <2>3
<1>4. Placed(f)
  BY <1>1, <1>2, <1>3 DEF Placed, Found, Trees
<1>5. Knows(f)
  BY <1>3 DEF Knows, Newer, Found, Reachable
<1>6. /\ Same /\ nextId' = nextId /\ now' = now /\ calls' = calls + 1
      /\ UNCHANGED <<lastGCd, enabled, timers, lists, stopped>>
  BY DEF PutLookup, mapVars, treeVars, gcVars, Same
<1>7. WorldType' /\ now' \in Nat /\ now <= now'
  BY <1>1, <1>6 DEF WorldType, Same
<1>8. Trees' /\ Grows
  BY <1>1, <1>6, <1>7, SameWorld
<1> QED
  BY <1>3, <1>4, <1>5, <1>7, <1>8, FrameStepNow

LEMMA PutInstallInv == ASSUME Inv, NEW p \in Proc, PutInstall(p) PROVE Inv'
<1>1. WorldType /\ Trees /\ frame[p] \in Frame /\ Placed(frame[p]) /\ frame[p].pc = "install"
  BY FrameKnown DEF PutInstall
<1>2. PICK t \in TreeId \ used :
        /\ used' = used \cup {t} /\ namespaces' = [namespaces EXCEPT ![frame[p].ns] = t]
        /\ frame' = [frame EXCEPT ![p] = [frame[p] EXCEPT !.pc = "put", !.tr = t]]
  BY DEF PutInstall, Least
<1>3. PICK n \in Ns : n = frame[p].ns
  BY <1>1 DEF Frame
<1>4. /\ UNCHANGED <<nodes, dates>>
      /\ UNCHANGED <<now, nextId, calls>> /\ UNCHANGED <<lastGCd, enabled, timers, lists, stopped>>
  BY DEF PutInstall, treeVars, gcVars
<1>5. WorldType' /\ Trees' /\ Grows
  <2>1. used' = used \cup ({t} \ {NoTree}) /\ namespaces' = [namespaces EXCEPT ![n] = t]
    BY <1>2, <1>3
  <2> QED
    BY <1>1, <1>4, <2>1, InstallWorld
<1>6. PICK f \in Frame :
        /\ f.pc = "put" /\ f.tr = t /\ f.op = frame[p].op /\ f.since = frame[p].since
        /\ frame' = [frame EXCEPT ![p] = f]
  <2> DEFINE f == [frame[p] EXCEPT !.pc = "put", !.tr = t]
  <2>1. f \in Frame
    BY <1>1 DEF Frame, Tree
  <2>2. f.pc = "put" /\ f.tr = t /\ f.op = frame[p].op /\ f.since = frame[p].since
    BY <1>1 DEF Frame
  <2> QED
    BY <1>2, <2>1, <2>2
<1>7. f.op = "put" /\ f.since <= nextId
  BY <1>1, <1>6 DEF Placed
<1>8. Placed(f)'
  BY <1>2, <1>4, <1>6, <1>7 DEF Placed
<1>9. Knows(f)'
  BY <1>6, <1>7 DEF Knows
<1> QED
  BY <1>5, <1>6, <1>8, <1>9, FrameStep

LEMMA PutTreeWorld ==
    ASSUME Inv, NEW p \in Proc, PutTree(p)
    PROVE  /\ WorldType' /\ Trees' /\ Grows /\ Keeps /\ nextId' = nextId + 1
           /\ \E secs \in {now, now + 1} :
                ListsChange(frame[p].tr, frame[p].key, {[id |-> nextId, exp |-> secs + TTL]})
<1>1. WorldType /\ Trees /\ frame[p] \in Frame /\ Placed(frame[p]) /\ frame[p].pc = "put"
  BY FrameKnown DEF PutTree
<1>2. PICK t \in used, k \in Key : t = frame[p].tr /\ k = frame[p].key
  BY <1>1 DEF Placed, Frame
<1>3. PICK secs \in {now, now + 1} :
        /\ now' = secs /\ nextId' = nextId + 1
        /\ nodes' = [nodes EXCEPT ![t] = PutNodes(nodes[t], dates[t], k)]
        /\ dates' = [dates EXCEPT ![t] =
                       PutDates(dates[t], k, now, [id |-> nextId, exp |-> secs + TTL])]
  BY <1>2 DEF PutTree
<1>4. UNCHANGED <<namespaces, used>> /\ UNCHANGED <<calls, lastGCd, enabled, timers, lists, stopped>>
  BY DEF PutTree, mapVars, gcVars
<1> QED
  BY <1>1, <1>2, <1>3, <1>4, PutWorld

LEMMA PutTreeInv == ASSUME Inv, NEW p \in Proc, PutTree(p) PROVE Inv'
<1>1. WorldType' /\ Trees' /\ Grows
  BY PutTreeWorld
<1> QED
  BY <1>1, ReturnStep DEF PutTree

LEMMA LookupInv ==
    ASSUME Inv, NEW p \in Proc, NEW o \in {"count", "countEntries", "keyMatch"},
           NEW n \in Ns, NEW k \in Key, Lookup(p, o, n, k)
    PROVE  Inv'
<1>1. WorldType /\ Trees /\ Found(n)
  BY FrameKnown DEF Lookup
<1>2. namespaces[n] \in Tree /\ namespaces[n] \in used
  BY <1>1 DEF WorldType, Trees, Found
<1>3. PICK f \in Frame :
        /\ f.pc = (IF o = "count" THEN "count" ELSE "list") /\ f.op = o
        /\ f.tr = namespaces[n] /\ f.since = 0 /\ frame' = [frame EXCEPT ![p] = f]
  <2> DEFINE f == [IdleFrame EXCEPT !.pc = IF o = "count" THEN "count" ELSE "list",
                                    !.op = o, !.ns = n, !.key = k, !.tr = namespaces[n]]
  <2>1. f \in Frame
    BY <1>2, IdleIs DEF Frame, AllOps
  <2>2. /\ f.pc = (IF o = "count" THEN "count" ELSE "list") /\ f.op = o
        /\ f.tr = namespaces[n] /\ f.since = 0
    BY IdleIs DEF Frame
  <2>3. frame' = [frame EXCEPT ![p] = f]
    BY DEF Lookup
  <2> QED
    BY <2>1, <2>2, <2>3
<1>4. Placed(f)
  BY <1>1, <1>2, <1>3 DEF Placed, WorldType
<1>5. Knows(f)
  BY <1>3 DEF Knows
<1>6. WorldType' /\ Trees' /\ Grows
  BY LocalWorld DEF Lookup
<1> QED
  BY <1>3, <1>4, <1>5, <1>6, FrameStepNow

LEMMA CountTreeInv == ASSUME Inv, NEW p \in Proc, CountTree(p) PROVE Inv'
<1>1. WorldType /\ Trees /\ frame[p] \in Frame /\ Placed(frame[p]) /\ frame[p].pc = "count"
  BY FrameKnown DEF CountTree
<1>2. PICK t \in used, k \in Key : t = frame[p].tr /\ k = frame[p].key
  BY <1>1 DEF Placed, Frame
<1>3. DoCount(t, k)
  BY <1>2 DEF CountTree
<1>4. WorldType' /\ Trees' /\ Grows
  BY <1>1, <1>3, CountWorld
<1> QED
  BY <1>4, ReturnStep DEF CountTree

LEMMA LiveType ==
    ASSUME WorldType
    PROVE  ReachableLive \subseteq Entry
<1> SUFFICES ASSUME NEW n \in Ns, NEW e \in Reachable(n) PROVE e \in Entry
  BY DEF ReachableLive, removeExpired
<1> QED
  BY ReachableType

LEMMA CountServerListInv == ASSUME Inv, NEW p \in Proc, CountServerList(p) PROVE Inv'
<1>1. WorldType /\ Trees /\ nextId \in Nat
  BY FrameKnown DEF WorldType
<1>2. PICK f \in Frame :
        f.pc = "visit" /\ f.op = "countServer" /\ f.since = nextId /\ frame' = [frame EXCEPT ![p] = f]
  <2> DEFINE f == [IdleFrame EXCEPT !.pc = "visit", !.op = "countServer", !.spaces = Installed,
                                    !.since = nextId, !.base = ReachableLive]
  <2>1. Installed \subseteq Ns /\ ReachableLive \subseteq Entry
    BY <1>1, LiveType DEF Installed
  <2>2. f \in Frame
    BY <1>1, <2>1, IdleIs DEF Frame, AllOps
  <2>3. f.pc = "visit" /\ f.op = "countServer" /\ f.since = nextId
    BY IdleIs DEF Frame
  <2>4. frame' = [frame EXCEPT ![p] = f]
    BY DEF CountServerList
  <2> QED
    BY <2>2, <2>3, <2>4
<1>3. Placed(f) /\ Knows(f)
  BY <1>1, <1>2 DEF Placed, Knows
<1>4. WorldType' /\ Trees' /\ Grows
  BY LocalWorld DEF CountServerList
<1> QED
  BY <1>2, <1>3, <1>4, FrameStepNow

LEMMA CountServerVisitInv == ASSUME Inv, NEW p \in Proc, CountServerVisit(p) PROVE Inv'
<1>1. /\ WorldType /\ Trees /\ frame[p] \in Frame /\ Placed(frame[p])
      /\ frame[p].pc = "visit" /\ frame[p].op = "countServer" /\ Local
  BY FrameKnown DEF CountServerVisit
<1>2. PICK n \in frame[p].spaces :
        frame' = [frame EXCEPT ![p] =
          [frame[p] EXCEPT !.pc = IF Found(n) THEN "list" ELSE "visit",
                           !.spaces = frame[p].spaces \ {n}, !.ns = n, !.tr = namespaces[n]]]
  BY DEF CountServerVisit
<1>3. n \in Ns /\ namespaces[n] \in Tree /\ (Found(n) => namespaces[n] \in used)
  BY <1>1 DEF Frame, WorldType, Found, Trees
<1>4. PICK f \in Frame :
        /\ f.pc = (IF Found(n) THEN "list" ELSE "visit") /\ f.op = "countServer"
        /\ f.tr = namespaces[n] /\ f.since = frame[p].since /\ frame' = [frame EXCEPT ![p] = f]
  <2> DEFINE f == [frame[p] EXCEPT !.pc = IF Found(n) THEN "list" ELSE "visit",
                           !.spaces = frame[p].spaces \ {n}, !.ns = n, !.tr = namespaces[n]]
  <2>1. f \in Frame
    BY <1>1, <1>3 DEF Frame
  <2>2. /\ f.pc = (IF Found(n) THEN "list" ELSE "visit") /\ f.op = "countServer"
        /\ f.tr = namespaces[n] /\ f.since = frame[p].since
    BY <1>1 DEF Frame
  <2>3. frame' = [frame EXCEPT ![p] = f]
    BY <1>1, <1>2
  <2> QED
    BY <2>1, <2>2, <2>3
<1>5. Placed(f) /\ Knows(f)
  BY <1>1, <1>3, <1>4 DEF Placed, Knows
<1>6. WorldType' /\ Trees' /\ Grows
  BY <1>1, LocalWorld
<1> QED
  BY <1>4, <1>5, <1>6, FrameStepNow

LEMMA ScanListInv == ASSUME Inv, NEW p \in Proc, ScanList(p) PROVE Inv'
<1>1. /\ WorldType /\ frame[p] \in Frame /\ Placed(frame[p]) /\ frame[p].pc = "list" /\ Local
  BY FrameKnown DEF ScanList
<1>2. PICK ks \in SUBSET Key : frame' = [frame EXCEPT ![p] = [frame[p] EXCEPT !.pc = "scan", !.todo = ks]]
  BY DEF ScanList
<1>3. PICK f \in Frame :
        /\ f.pc = "scan" /\ f.op = frame[p].op /\ f.tr = frame[p].tr /\ f.since = frame[p].since
        /\ frame' = [frame EXCEPT ![p] = f]
  <2> DEFINE f == [frame[p] EXCEPT !.pc = "scan", !.todo = ks]
  <2>1. f \in Frame
    BY <1>1 DEF Frame
  <2>2. f.pc = "scan" /\ f.op = frame[p].op /\ f.tr = frame[p].tr /\ f.since = frame[p].since
    BY <1>1 DEF Frame
  <2> QED
    BY <1>2, <2>1, <2>2
<1>4. Placed(f) /\ Knows(f)
  BY <1>1, <1>3 DEF Placed, Knows
<1>5. WorldType' /\ Trees' /\ Grows
  BY <1>1, LocalWorld
<1> QED
  BY <1>3, <1>4, <1>5, FrameStepNow

LEMMA CountIs ==
    ASSUME WorldType, Trees, NEW t \in TreeId, NEW k \in Key
    PROVE  /\ IsFiniteSet(removeExpired(dates[t][k], now))
           /\ CountResult(dates[t], k, now) \in Nat
           /\ CountResult(dates[t], k, now) = 0 => removeExpired(dates[t][k], now) = {}
<1>1. IsFiniteSet(dates[t][k]) /\ removeExpired(dates[t][k], now) \subseteq dates[t][k]
  BY DEF Trees, removeExpired
<1>2. IsFiniteSet(removeExpired(dates[t][k], now))
  BY <1>1, FS_Subset
<1> QED
  BY <1>2, FS_CardinalityType, FS_EmptySet DEF CountResult

LEMMA ScanCountIs ==
    ASSUME Inv, NEW p \in Proc, ScanCount(p)
    PROVE  \E t \in used, k \in Key, f \in Frame :
             LET c == CountResult(dates[t], k, now) IN
             /\ t = frame[p].tr /\ k \in frame[p].todo /\ DoCount(t, k) /\ c \in Nat
             /\ f.pc = "scan" /\ f.op = frame[p].op /\ f.tr = t /\ f.ns = frame[p].ns
             /\ f.spaces = frame[p].spaces /\ f.subtrees = frame[p].subtrees
             /\ f.todo = frame[p].todo \ {k} /\ f.since = frame[p].since /\ f.base = frame[p].base
             /\ f.hits = (IF c # 0 THEN frame[p].hits + 1 ELSE frame[p].hits)
             /\ f.sum = frame[p].sum + c
             /\ frame' = [frame EXCEPT ![p] = f]
<1>1. WorldType /\ Trees /\ frame[p] \in Frame /\ Placed(frame[p]) /\ frame[p].pc = "scan"
  BY FrameKnown DEF ScanCount
<1>2. PICK t \in used : t = frame[p].tr
  BY <1>1 DEF Placed
<1>3. PICK k \in frame[p].todo :
        LET c == CountResult(dates[t], k, now) IN
        /\ DoCount(t, k)
        /\ frame' = [frame EXCEPT ![p] =
             [frame[p] EXCEPT !.todo = frame[p].todo \ {k},
                              !.hits = IF c # 0 THEN frame[p].hits + 1 ELSE frame[p].hits,
                              !.sum = frame[p].sum + c]]
  BY <1>2 DEF ScanCount, Least, KeyCounts, AddUp
<1>4. k \in Key /\ t \in TreeId
  BY <1>1 DEF Frame, WorldType
<1>5. PICK c \in Nat : c = CountResult(dates[t], k, now)
  BY <1>1, <1>4, CountIs
<1> DEFINE h == IF c # 0 THEN frame[p].hits + 1 ELSE frame[p].hits
           s == frame[p].sum + c
           f == [frame[p] EXCEPT !.todo = frame[p].todo \ {k}, !.hits = h, !.sum = s]
<1>6. f \in Frame
  <2>1. frame[p].hits \in Nat /\ frame[p].sum \in Nat /\ frame[p].todo \ {k} \subseteq Key
    BY <1>1 DEF Frame
  <2>2. h \in Nat /\ s \in Nat
    BY <1>5, <2>1
  <2> HIDE DEF h, s
  <2> QED
    BY <1>1, <2>1, <2>2 DEF Frame
<1>7. /\ f.pc = "scan" /\ f.op = frame[p].op /\ f.tr = t /\ f.ns = frame[p].ns
      /\ f.spaces = frame[p].spaces /\ f.subtrees = frame[p].subtrees
      /\ f.todo = frame[p].todo \ {k} /\ f.since = frame[p].since /\ f.base = frame[p].base
      /\ f.hits = (IF c # 0 THEN frame[p].hits + 1 ELSE frame[p].hits)
      /\ f.sum = frame[p].sum + c
  BY <1>1, <1>2 DEF Frame
<1>8. DoCount(t, k) /\ frame' = [frame EXCEPT ![p] = f]
  BY <1>3, <1>5
<1> HIDE DEF f
<1> QED
  BY <1>2, <1>4, <1>5, <1>6, <1>7, <1>8

LEMMA ScanCountInv == ASSUME Inv, NEW p \in Proc, ScanCount(p) PROVE Inv'
<1>1. WorldType /\ Trees /\ frame[p] \in Frame /\ Placed(frame[p]) /\ Knows(frame[p]) /\ frame[p].pc = "scan"
  BY FrameKnown DEF ScanCount
<1>2. PICK t \in used, k \in Key, f \in Frame :
             LET c == CountResult(dates[t], k, now) IN
             /\ t = frame[p].tr /\ k \in frame[p].todo /\ DoCount(t, k) /\ c \in Nat
             /\ f.pc = "scan" /\ f.op = frame[p].op /\ f.tr = t /\ f.ns = frame[p].ns
             /\ f.spaces = frame[p].spaces /\ f.subtrees = frame[p].subtrees
             /\ f.todo = frame[p].todo \ {k} /\ f.since = frame[p].since /\ f.base = frame[p].base
             /\ f.hits = (IF c # 0 THEN frame[p].hits + 1 ELSE frame[p].hits)
             /\ f.sum = frame[p].sum + c
             /\ frame' = [frame EXCEPT ![p] = f]
  BY ScanCountIs
<1>3. t \in TreeId /\ frame[p].hits \in Nat
  BY <1>1 DEF Frame, WorldType
<1>4. Placed(f)
  BY <1>1, <1>2 DEF Placed
<1>5. ASSUME f.op = "cleanup", f.hits = 0, NEW j \in Key \ f.todo, NEW e \in dates[f.tr][j], e.exp > now
      PROVE  e.id >= f.since
  <2>1. CountResult(dates[t], k, now) = 0 /\ frame[p].hits = 0
    BY <1>2, <1>3, <1>5
  <2>2. removeExpired(dates[t][k], now) = {}
    BY <1>1, <1>3, <2>1, CountIs
  <2>3. j # k
    BY <1>2, <1>5, <2>2 DEF removeExpired
  <2>4. j \in Key \ frame[p].todo /\ e \in dates[frame[p].tr][j] /\ frame[p].op = "cleanup"
    BY <1>2, <1>5, <2>3
  <2> QED
    BY <1>1, <1>2, <1>5, <2>1, <2>4 DEF Knows
<1>6. Newer(frame[p], frame[p].ns) => Newer(f, f.ns)
  BY <1>2 DEF Newer
<1>7. ASSUME NEW n \in frame[p].spaces PROVE Newer(frame[p], n) => Newer(f, n)
  BY <1>2 DEF Newer
<1>8. Knows(f)
  BY <1>1, <1>2, <1>5, <1>6, <1>7 DEF Knows
<1>9. WorldType' /\ Trees' /\ Grows
  BY <1>1, <1>2, CountWorld
<1> QED
  BY <1>2, <1>4, <1>8, <1>9, FrameStepNow

LEMMA ScanNextInv == ASSUME Inv, NEW p \in Proc, ScanNext(p) PROVE Inv'
<1>1. /\ WorldType /\ frame[p] \in Frame /\ Placed(frame[p]) /\ frame[p].pc = "scan"
      /\ frame[p].op = "countServer" /\ Local
  BY FrameKnown DEF ScanNext
<1>2. PICK f \in Frame :
        /\ f.pc = "visit" /\ f.op = frame[p].op /\ f.since = frame[p].since
        /\ frame' = [frame EXCEPT ![p] = f]
  <2> DEFINE f == [frame[p] EXCEPT !.pc = "visit", !.hits = 0]
  <2>1. f \in Frame
    BY <1>1 DEF Frame
  <2>2. f.pc = "visit" /\ f.op = frame[p].op /\ f.since = frame[p].since
    BY <1>1 DEF Frame
  <2>3. frame' = [frame EXCEPT ![p] = f]
    BY DEF ScanNext
  <2> QED
    BY <2>1, <2>2, <2>3
<1>3. Placed(f) /\ Knows(f)
  BY <1>1, <1>2 DEF Placed, Knows
<1>4. WorldType' /\ Trees' /\ Grows
  BY <1>1, LocalWorld
<1> QED
  BY <1>2, <1>3, <1>4, FrameStepNow

LEMMA ReturnsInv ==
    ASSUME Inv, NEW p \in Proc, CountServerReturn(p) \/ ScanReturn(p)
    PROVE  Inv'
<1>1. Local /\ Return(p)
  BY DEF CountServerReturn, ScanReturn
<1> QED
  BY <1>1, LocalWorld, ReturnStep

LEMMA CleanupListInv ==
    ASSUME Inv, NEW p \in Proc, CleanupList(p), timers' \in Nat, lists' \in Nat
    PROVE  Inv'
<1>1. WorldType /\ Trees
  BY FrameKnown
<1>2. PICK f \in Frame :
        f.pc = "fetch" /\ f.op = "cleanup" /\ f.since = 0 /\ frame' = [frame EXCEPT ![p] = f]
  <2> DEFINE f == [IdleFrame EXCEPT !.pc = "fetch", !.op = "cleanup", !.spaces = Installed]
  <2>1. Installed \subseteq Ns
    BY DEF Installed
  <2>2. f \in Frame
    BY <2>1, IdleIs DEF Frame, AllOps
  <2>3. f.pc = "fetch" /\ f.op = "cleanup" /\ f.since = 0
    BY IdleIs DEF Frame
  <2>4. frame' = [frame EXCEPT ![p] = f]
    BY DEF CleanupList
  <2> QED
    BY <2>2, <2>3, <2>4
<1>3. Placed(f) /\ Knows(f)
  BY <1>1, <1>2 DEF Placed, Knows, WorldType
<1>4. Same /\ nextId' = nextId /\ now' = now /\ calls' = calls /\ UNCHANGED <<lastGCd, enabled, stopped>>
  BY DEF CleanupList, mapVars, treeVars, Same
<1>5. WorldType' /\ now' \in Nat /\ now <= now'
  BY <1>1, <1>4 DEF WorldType, Same
<1>6. Trees' /\ Grows
  BY <1>1, <1>4, <1>5, SameWorld
<1> QED
  BY <1>2, <1>3, <1>5, <1>6, FrameStepNow

LEMMA TimerFiresInv == ASSUME Inv, NEW p \in Proc, TimerFires(p) \/ Namespaces(p) PROVE Inv'
<1>1. WorldType /\ CleanupList(p)
  BY FrameKnown DEF TimerFires, Namespaces
<1>2. timers' \in Nat /\ lists' \in Nat
  BY <1>1 DEF TimerFires, Namespaces, Due, WorldType
<1> QED
  BY <1>1, <1>2, CleanupListInv

(* The steps that change none of the namespaces, subtrees and calls.       *)
LEMMA SettingsInv ==
    ASSUME Inv, \/ Tick \/ EnableCleanup \/ DisableCleanup
                \/ \E p \in Proc : TimerStops(p)
    PROVE  Inv'
<1>1. WorldType /\ Trees
  BY TypeParts DEF Inv
<1>2. Same /\ nextId' = nextId /\ now' \in {now, now + 1} /\ UNCHANGED frame /\ WorldType'
  <2>1. CASE Tick
    BY <1>1, <2>1 DEF Tick, mapVars, treeVars, gcVars, Same, WorldType
  <2>2. CASE EnableCleanup \/ DisableCleanup
    BY <1>1, <2>2 DEF EnableCleanup, DisableCleanup, mapVars, treeVars, Same, WorldType
  <2>3. CASE \E p \in Proc : TimerStops(p)
    BY <1>1, <2>3 DEF TimerStops, Due, mapVars, treeVars, Same, WorldType
  <2> QED
    BY <2>1, <2>2, <2>3
<1>3. now' \in Nat /\ now <= now'
  BY <1>1, <1>2 DEF WorldType
<1>4. Trees' /\ Grows
  BY <1>1, <1>2, <1>3, SameWorld
<1> QED
  BY <1>2, <1>4, FramesStay

LEMMA CleanupFetchIs ==
    ASSUME Inv, NEW p \in Proc, CleanupFetch(p)
    PROVE  \E f \in Frame :
             /\ f.pc = "visit" /\ f.op = "cleanup" /\ f.since = nextId
             /\ \A n \in f.spaces : f.subtrees[n] = namespaces[n] /\ f.subtrees[n] \in used
             /\ frame' = [frame EXCEPT ![p] = f]
<1>1. /\ WorldType /\ Trees /\ frame[p] \in Frame /\ Placed(frame[p])
      /\ frame[p].pc = "fetch" /\ nextId \in Nat
  BY FrameKnown DEF CleanupFetch, WorldType
<1>2. PICK chosen \in SUBSET frame[p].spaces :
        LET fetched == {n \in chosen \ lastGCd : Found(n)} IN
        frame' = [frame EXCEPT ![p] =
          [frame[p] EXCEPT !.pc = "visit", !.spaces = fetched, !.since = nextId,
                   !.subtrees = [n \in Ns |-> IF n \in fetched THEN namespaces[n] ELSE NoTree]]]
  BY DEF CleanupFetch
<1> DEFINE S == {n \in chosen \ lastGCd : Found(n)}
           M == [n \in Ns |-> IF n \in S THEN namespaces[n] ELSE NoTree]
           f == [frame[p] EXCEPT !.pc = "visit", !.spaces = S, !.since = nextId, !.subtrees = M]
<1>3. frame' = [frame EXCEPT ![p] = f]
  BY <1>2
<1>4. S \subseteq Ns
  BY <1>1 DEF Frame
<1>5. \A n \in S : namespaces[n] \in used
  BY <1>1, <1>4 DEF Found, Trees
<1> HIDE DEF S
<1>6. M \in [Ns -> Tree] /\ \A n \in S : M[n] = namespaces[n]
  BY <1>1, <1>4 DEF Tree, WorldType
<1> HIDE DEF M
<1>7. f \in Frame
  BY <1>1, <1>4, <1>6 DEF Frame
<1>8. f.pc = "visit" /\ f.op = "cleanup" /\ f.since = nextId /\ f.spaces = S /\ f.subtrees = M
  BY <1>1 DEF Frame, Placed
<1> HIDE DEF f
<1>9. \A n \in f.spaces : f.subtrees[n] = namespaces[n] /\ f.subtrees[n] \in used
  BY <1>5, <1>6, <1>8
<1> QED
  BY <1>3, <1>7, <1>8, <1>9

LEMMA CleanupFetchInv == ASSUME Inv, NEW p \in Proc, CleanupFetch(p) PROVE Inv'
<1>1. WorldType /\ Local
  BY FrameKnown DEF CleanupFetch
<1>2. PICK f \in Frame :
             /\ f.pc = "visit" /\ f.op = "cleanup" /\ f.since = nextId
             /\ \A n \in f.spaces : f.subtrees[n] = namespaces[n] /\ f.subtrees[n] \in used
             /\ frame' = [frame EXCEPT ![p] = f]
  BY CleanupFetchIs
<1>3. Placed(f)
  BY <1>1, <1>2 DEF Placed, WorldType
<1>4. Knows(f)
  BY <1>2 DEF Knows
<1>5. WorldType' /\ Trees' /\ Grows
  BY <1>1, LocalWorld
<1> QED
  BY <1>2, <1>3, <1>4, <1>5, FrameStepNow

LEMMA CleanupVisitInv == ASSUME Inv, NEW p \in Proc, CleanupVisit(p) PROVE Inv'
<1>1. /\ WorldType /\ Trees /\ frame[p] \in Frame /\ Placed(frame[p]) /\ Knows(frame[p])
      /\ frame[p].pc = "visit" /\ frame[p].op = "cleanup" /\ Local
  BY FrameKnown DEF CleanupVisit
<1>2. PICK n \in frame[p].spaces :
        LET t == frame[p].subtrees[n] IN
        frame' = [frame EXCEPT ![p] =
          [frame[p] EXCEPT !.pc = "scan", !.spaces = frame[p].spaces \ {n},
                           !.ns = n, !.tr = t, !.todo = nodes[t]]]
  BY DEF CleanupVisit
<1>3. PICK t \in used : t = frame[p].subtrees[n]
  BY <1>1 DEF Placed
<1>4. n \in Ns /\ t \in TreeId /\ t \in Tree /\ nodes[t] \subseteq Key
  BY <1>1 DEF Frame, WorldType, Tree
<1>5. PICK f \in Frame :
        /\ f.pc = "scan" /\ f.op = "cleanup" /\ f.since = frame[p].since /\ f.ns = n /\ f.tr = t
        /\ f.todo = nodes[t] /\ f.spaces = frame[p].spaces \ {n} /\ f.subtrees = frame[p].subtrees
        /\ frame' = [frame EXCEPT ![p] = f]
  <2> DEFINE f == [frame[p] EXCEPT !.pc = "scan", !.spaces = frame[p].spaces \ {n},
                                   !.ns = n, !.tr = t, !.todo = nodes[t]]
  <2>1. f \in Frame
    BY <1>1, <1>4 DEF Frame
  <2>2. /\ f.pc = "scan" /\ f.op = "cleanup" /\ f.since = frame[p].since /\ f.ns = n /\ f.tr = t
        /\ f.todo = nodes[t] /\ f.spaces = frame[p].spaces \ {n} /\ f.subtrees = frame[p].subtrees
    BY <1>1 DEF Frame
  <2>3. frame' = [frame EXCEPT ![p] = f]
    BY <1>2, <1>3
  <2> QED
    BY <2>1, <2>2, <2>3
<1>6. Placed(f)
  BY <1>1, <1>5 DEF Placed
<1>7. ASSUME NEW m \in frame[p].spaces PROVE namespaces[m] = f.subtrees[m] \/ Newer(f, m)
  BY <1>1, <1>5 DEF Knows, Newer
<1>8. \A k \in Key \ f.todo : dates[t][k] = {}
  BY <1>1, <1>4, <1>5 DEF Trees
<1>9. Knows(f)
  BY <1>3, <1>5, <1>7, <1>8 DEF Knows
<1>10. WorldType' /\ Trees' /\ Grows
  BY <1>1, LocalWorld
<1> QED
  BY <1>5, <1>6, <1>9, <1>10, FrameStepNow

LEMMA CleanupScannedInv == ASSUME Inv, NEW p \in Proc, CleanupScanned(p) PROVE Inv'
<1>1. /\ WorldType /\ frame[p] \in Frame /\ Placed(frame[p]) /\ Knows(frame[p])
      /\ frame[p].pc = "scan" /\ frame[p].op = "cleanup" /\ frame[p].todo = {} /\ Local
  BY FrameKnown DEF CleanupScanned
<1>2. PICK f \in Frame :
        /\ f.pc = (IF frame[p].hits = 0 THEN "drop" ELSE "visit") /\ f.op = "cleanup"
        /\ f.since = frame[p].since /\ f.ns = frame[p].ns
        /\ f.spaces = frame[p].spaces /\ f.subtrees = frame[p].subtrees
        /\ frame' = [frame EXCEPT ![p] = f]
  <2> DEFINE C == IF frame[p].hits = 0 THEN frame[p].crawled ELSE frame[p].crawled \cup {frame[p].ns}
             f == [frame[p] EXCEPT !.pc = IF frame[p].hits = 0 THEN "drop" ELSE "visit",
                                   !.crawled = C, !.hits = 0, !.sum = 0]
  <2>1. C \subseteq Ns
    BY <1>1 DEF Frame
  <2>2. frame' = [frame EXCEPT ![p] = f]
    BY DEF CleanupScanned, NoneLeft
  <2> HIDE DEF C
  <2>3. f \in Frame
    BY <1>1, <2>1 DEF Frame
  <2>4. /\ f.pc = (IF frame[p].hits = 0 THEN "drop" ELSE "visit") /\ f.op = "cleanup"
        /\ f.since = frame[p].since /\ f.ns = frame[p].ns
        /\ f.spaces = frame[p].spaces /\ f.subtrees = frame[p].subtrees
    BY <1>1 DEF Frame
  <2> QED
    BY <2>2, <2>3, <2>4
<1>3. Placed(f)
  BY <1>1, <1>2 DEF Placed
<1>4. ASSUME NEW m \in frame[p].spaces PROVE namespaces[m] = f.subtrees[m] \/ Newer(f, m)
  BY <1>1, <1>2 DEF Knows, Newer
<1>5. ASSUME f.pc = "drop", NEW e \in Reachable(f.ns), e.exp > now PROVE e.id >= f.since
  <2>1. frame[p].hits = 0 /\ f.ns \in Ns
    BY <1>2, <1>5 DEF Frame
  <2>2. CASE Newer(frame[p], frame[p].ns)
    BY <1>2, <1>5, <2>2 DEF Newer
  <2>3. CASE namespaces[f.ns] = frame[p].tr
    <3>1. PICK k \in Key : e \in dates[frame[p].tr][k]
      BY <2>1, <2>3, <1>5, ReachableIs
    <3> QED
      BY <1>1, <1>2, <1>5, <2>1, <3>1 DEF Knows
  <2> QED
    BY <1>1, <1>2, <2>2, <2>3 DEF Knows
<1>6. Knows(f)
  BY <1>2, <1>4, <1>5 DEF Knows
<1>7. WorldType' /\ Trees' /\ Grows
  BY <1>1, LocalWorld
<1> QED
  BY <1>2, <1>3, <1>6, <1>7, FrameStepNow

LEMMA CleanupDropInv == ASSUME Inv, NEW p \in Proc, CleanupDrop(p) PROVE Inv'
<1>1. /\ WorldType /\ Trees /\ frame[p] \in Frame /\ Placed(frame[p]) /\ Knows(frame[p])
      /\ frame[p].pc = "drop"
  BY FrameKnown DEF CleanupDrop
<1>2. PICK n \in Ns : n = frame[p].ns
  BY <1>1 DEF Frame
<1>3. /\ namespaces' = [namespaces EXCEPT ![n] = NoTree] /\ UNCHANGED <<nodes, dates>>
      /\ UNCHANGED <<now, nextId, calls>> /\ UNCHANGED <<lastGCd, enabled, timers, lists, stopped>>
      /\ used' = used \cup ({NoTree} \ {NoTree})
  BY <1>2 DEF CleanupDrop, treeVars, gcVars
<1>4. WorldType' /\ Trees' /\ Grows
  <2>1. NoTree \in (TreeId \ used) \cup {NoTree}
    OBVIOUS
  <2> QED
    BY <1>1, <1>3, <2>1, InstallWorld
<1>5. PICK f \in Frame :
        /\ f.pc = "visit" /\ f.op = "cleanup" /\ f.since = frame[p].since
        /\ f.spaces = frame[p].spaces /\ f.subtrees = frame[p].subtrees
        /\ frame' = [frame EXCEPT ![p] = f]
  <2> DEFINE f == [frame[p] EXCEPT !.pc = "visit"]
  <2>1. f \in Frame
    BY <1>1 DEF Frame
  <2>2. /\ f.pc = "visit" /\ f.op = "cleanup" /\ f.since = frame[p].since
        /\ f.spaces = frame[p].spaces /\ f.subtrees = frame[p].subtrees
    BY <1>1 DEF Frame, Placed
  <2>3. frame' = [frame EXCEPT ![p] = f]
    BY DEF CleanupDrop
  <2> QED
    BY <2>1, <2>2, <2>3
<1>6. Placed(f)
  BY <1>1, <1>5 DEF Placed
<1>7. ASSUME NEW m \in frame[p].spaces PROVE namespaces[m] = f.subtrees[m] \/ Newer(f, m)
  BY <1>1, <1>5 DEF Knows, Newer, Placed
<1>8. Knows(f)
  BY <1>5, <1>7 DEF Knows
<1> QED
  BY <1>4, <1>5, <1>6, <1>8, FrameStepNow

LEMMA CleanupReturnInv == ASSUME Inv, NEW p \in Proc, CleanupReturn(p) PROVE Inv'
<1>1. WorldType /\ Trees /\ frame[p] \in Frame
  BY FrameKnown
<1>2. /\ Same /\ nextId' = nextId /\ now' = now /\ calls' = calls /\ UNCHANGED <<enabled, lists, stopped>>
      /\ lastGCd' = frame[p].crawled /\ timers' = timers + 1
  BY DEF CleanupReturn, Rearmed, mapVars, treeVars, Same
<1>3. lastGCd' \subseteq Ns
  BY <1>1, <1>2 DEF Frame
<1>4. WorldType' /\ now' \in Nat /\ now <= now'
  BY <1>1, <1>2, <1>3 DEF WorldType, Same
<1>5. Trees' /\ Grows
  BY <1>1, <1>2, <1>4, SameWorld
<1> QED
  BY <1>4, <1>5, ReturnStep DEF CleanupReturn

-----------------------------------------------------------------------------
LEMMA InitInv == Init => Inv
<1> SUFFICES ASSUME Init PROVE Inv
  OBVIOUS
<1>1. TypeOK
  <2>1. NoSubtrees \in [Ns -> Tree] /\ [t \in TreeId |-> NoDates] \in [TreeId -> [Key -> SUBSET Entry]]
    BY DEF NoSubtrees, Tree, NoDates
  <2>2. [p \in Proc |-> IdleFrame] \in [Proc -> Frame]
    BY IdleIs
  <2> QED
    BY <2>1, <2>2 DEF Init, TypeOK
<1>2. Trees
  BY FS_EmptySet DEF Init, Trees, NoSubtrees, NoDates
<1>3. ASSUME NEW p \in Proc PROVE Placed(frame[p]) /\ Knows(frame[p])
  <2>1. frame[p].pc = "idle" /\ frame[p].op = "none" /\ frame[p].since = 0 /\ nextId = 0
    BY IdleIs DEF Init
  <2> QED
    BY <2>1 DEF Placed, Knows
<1> QED
  BY <1>1, <1>2, <1>3 DEF Inv

LEMMA StepInv == Inv /\ [Next]_vars => Inv'
<1> SUFFICES ASSUME Inv, [Next]_vars PROVE Inv'
  OBVIOUS
<1>1. CASE UNCHANGED vars
  <2>1. TypeOK'
    BY <1>1 DEF vars, Inv, TypeOK
  <2>2. Trees'
    BY <1>1 DEF vars, Inv, Trees
  <2>3. \A p \in Proc : (Placed(frame[p]) /\ Knows(frame[p]))'
    BY <1>1 DEF vars, Inv, Placed, Knows, Newer, Reachable
  <2> QED
    BY <2>1, <2>2, <2>3 DEF Inv
<1>2. ASSUME NEW p \in Proc, Put(p) PROVE Inv'
  BY <1>2, PutLookupInv, PutInstallInv, PutTreeInv DEF Put
<1>3. ASSUME NEW p \in Proc, Count(p) PROVE Inv'
  <2>1. ASSUME NEW n \in Ns, NEW k \in Key, CountLookup(p, n, k) PROVE Inv'
    <3>1. "count" \in {"count", "countEntries", "keyMatch"} /\ Lookup(p, "count", n, k)
      BY <2>1 DEF CountLookup
    <3> QED
      BY <3>1, LookupInv
  <2> QED
    BY <1>3, <2>1, CountTreeInv DEF Count
<1>4. ASSUME NEW p \in Proc, Scan(p) PROVE Inv'
  <2>1. ASSUME NEW n \in Ns, CountEntriesLookup(p, n) \/ KeyMatchLookup(p, n) PROVE Inv'
    <3>1. PICK o \in {"count", "countEntries", "keyMatch"} : Lookup(p, o, n, IdleFrame.key)
      BY <2>1 DEF CountEntriesLookup, KeyMatchLookup
    <3>2. IdleFrame.key \in Key
      BY IdleIs
    <3> QED
      BY <3>1, <3>2, LookupInv
  <2> QED
    BY <1>4, <2>1, ScanListInv, ScanCountInv, ScanNextInv, ReturnsInv DEF Scan
<1>5. ASSUME NEW p \in Proc, CountServerEntries(p) PROVE Inv'
  BY <1>5, CountServerListInv, CountServerVisitInv, ReturnsInv DEF CountServerEntries
<1>6. ASSUME NEW p \in Proc, runCleanup(p) PROVE Inv'
  BY <1>6, TimerFiresInv, SettingsInv, CleanupFetchInv, CleanupVisitInv, CleanupScannedInv,
     CleanupDropInv, CleanupReturnInv DEF runCleanup
<1> QED
  BY <1>1, <1>2, <1>3, <1>4, <1>5, <1>6, SettingsInv DEF Next

LEMMA Always == Spec => []Inv
BY InitInv, StepInv, PTL DEF Spec

(* Every variable of the store has its type, whatever its operations and   *)
(* cleanup runs do at the same time.                                       *)
THEOREM StoreTyping == Spec => []TypeOK
<1>1. Inv => TypeOK
  BY DEF Inv
<1> QED
  BY <1>1, Always, PTL

-----------------------------------------------------------------------------
(* Which steps change the map and the subtrees.                            *)
Writes(p) == PutTree(p) \/ CountTree(p) \/ ScanCount(p) \/ PutInstall(p) \/ CleanupDrop(p)
Still == Same /\ nextId' = nextId /\ now' \in {now, now + 1}

LEMMA StillOrWrites ==
    ASSUME [Next]_vars
    PROVE  Still \/ \E p \in Proc : Writes(p)
<1>1. CASE UNCHANGED vars
  BY <1>1 DEF vars, Still, Same
<1>2. CASE Tick \/ EnableCleanup \/ DisableCleanup
  BY <1>2 DEF Tick, EnableCleanup, DisableCleanup, mapVars, treeVars, Still, Same
<1>3. ASSUME NEW p \in Proc, Put(p) PROVE Still \/ Writes(p)
  BY <1>3 DEF Put, PutLookup, mapVars, treeVars, Still, Same, Writes
<1>4. Local => Still
  BY DEF Local, mapVars, treeVars, Still, Same
<1>5. ASSUME NEW p \in Proc, Count(p) PROVE Still \/ Writes(p)
  BY <1>4, <1>5 DEF Count, CountLookup, Lookup, Writes
<1>6. ASSUME NEW p \in Proc, Scan(p) PROVE Still \/ Writes(p)
  BY <1>4, <1>6 DEF Scan, CountEntriesLookup, KeyMatchLookup, Lookup, ScanList, ScanReturn, ScanNext, Writes
<1>7. ASSUME NEW p \in Proc, CountServerEntries(p) PROVE Still
  BY <1>4, <1>7 DEF CountServerEntries, CountServerList, CountServerVisit, CountServerReturn
<1>8. ASSUME NEW p \in Proc, runCleanup(p) PROVE Still \/ Writes(p)
  <2>1. CleanupList(p) => Still
    BY DEF CleanupList, mapVars, treeVars, Still, Same
  <2>2. TimerStops(p) \/ CleanupReturn(p) => Still
    BY DEF TimerStops, CleanupReturn, mapVars, treeVars, Still, Same
  <2> QED
    BY <1>4, <1>8, <2>1, <2>2 DEF runCleanup, TimerFires, Namespaces, CleanupFetch, CleanupVisit,
       CleanupScanned, Writes
<1> QED
  BY <1>1, <1>2, <1>3, <1>5, <1>6, <1>7, <1>8 DEF Next

(* A step that does not change the map keeps what has not expired, and the *)
(* other steps change one namespace, whose entries they know.              *)
Replaces(p, t) ==
    /\ \/ frame[p].pc = "install" /\ t \in TreeId \ used
       \/ frame[p].pc = "drop" /\ t = NoTree
    /\ used' = used \cup ({t} \ {NoTree})
    /\ namespaces' = [namespaces EXCEPT ![frame[p].ns] = t]
    /\ UNCHANGED <<nodes, dates>> /\ UNCHANGED <<now, nextId>>

LEMMA StepWorld ==
    ASSUME Inv, [Next]_vars
    PROVE  /\ Grows /\ Keeps
           /\ UNCHANGED <<namespaces, used>> \/ \E p \in Proc : \E t \in Tree : Replaces(p, t)
<1>1. WorldType /\ Trees
  BY TypeParts DEF Inv
<1>2. CASE Still
  <2>1. now' \in Nat /\ now <= now'
    BY <1>1, <1>2 DEF Still, WorldType
  <2> QED
    BY <1>1, <1>2, <2>1, SameWorld DEF Still, Same
<1>3. ASSUME NEW p \in Proc, PutTree(p) PROVE Grows /\ Keeps /\ UNCHANGED <<namespaces, used>>
  BY <1>3, PutTreeWorld DEF PutTree, mapVars
<1>4. ASSUME NEW p \in Proc, CountTree(p) PROVE Grows /\ Keeps /\ UNCHANGED <<namespaces, used>>
  <2>1. frame[p] \in Frame /\ Placed(frame[p]) /\ frame[p].pc = "count"
    BY <1>4, FrameKnown DEF CountTree
  <2>2. PICK t \in used, k \in Key : t = frame[p].tr /\ k = frame[p].key
    BY <2>1 DEF Placed, Frame
  <2>3. DoCount(t, k)
    BY <1>4, <2>2 DEF CountTree
  <2> QED
    BY <1>1, <2>3, CountWorld DEF DoCount, mapVars
<1>5. ASSUME NEW p \in Proc, ScanCount(p) PROVE Grows /\ Keeps /\ UNCHANGED <<namespaces, used>>
  <2>1. PICK t \in used, k \in Key : DoCount(t, k)
    BY <1>5, ScanCountIs
  <2> QED
    BY <1>1, <2>1, CountWorld DEF DoCount, mapVars
<1>6. ASSUME NEW p \in Proc, NEW t \in Tree, Replaces(p, t),
             UNCHANGED <<calls, lastGCd, enabled, timers, lists, stopped>>
      PROVE  Grows /\ Keeps
  <2>1. PICK n \in Ns : n = frame[p].ns
    BY FrameKnown DEF Frame
  <2>2. t \in (TreeId \ used) \cup {NoTree} /\ namespaces' = [namespaces EXCEPT ![n] = t]
    BY <1>6, <2>1 DEF Replaces
  <2>3. /\ UNCHANGED <<now, nextId, calls>> /\ UNCHANGED <<lastGCd, enabled, timers, lists, stopped>>
        /\ UNCHANGED <<nodes, dates>> /\ used' = used \cup ({t} \ {NoTree})
    BY <1>6 DEF Replaces
  <2> QED
    BY <1>1, <2>2, <2>3, InstallWorld
<1>7. ASSUME NEW p \in Proc, PutInstall(p) \/ CleanupDrop(p)
      PROVE  Grows /\ Keeps /\ \E t \in Tree : Replaces(p, t)
  <2>1. UNCHANGED <<calls, lastGCd, enabled, timers, lists, stopped>>
    BY <1>7 DEF PutInstall, CleanupDrop, gcVars
  <2>2. PICK t \in Tree : Replaces(p, t)
    <3>1. CASE PutInstall(p)
      <4>1. PICK t \in TreeId \ used :
              used' = used \cup {t} /\ namespaces' = [namespaces EXCEPT ![frame[p].ns] = t]
        BY <3>1 DEF PutInstall, Least
      <4>2. t \in Tree /\ used' = used \cup ({t} \ {NoTree})
        BY <4>1 DEF Tree
      <4>3. frame[p].pc = "install" /\ UNCHANGED <<nodes, dates>> /\ UNCHANGED <<now, nextId>>
        BY <3>1 DEF PutInstall, treeVars
      <4>4. Replaces(p, t)
        BY <4>1, <4>2, <4>3 DEF Replaces
      <4> QED
        BY <4>2, <4>4
    <3>2. CASE CleanupDrop(p)
      <4>1. NoTree \in Tree /\ used' = used \cup ({NoTree} \ {NoTree})
        BY <3>2 DEF CleanupDrop, Tree
      <4>2. Replaces(p, NoTree)
        BY <3>2, <4>1 DEF CleanupDrop, Replaces, treeVars
      <4> QED
        BY <4>1, <4>2
    <3> QED
      BY <1>7, <3>1, <3>2
  <2> QED
    BY <1>6, <2>1, <2>2
<1> QED
  BY <1>2, <1>3, <1>4, <1>5, <1>7, StillOrWrites DEF Writes

LEMMA StepLoss ==
    ASSUME Inv, [Next]_vars, NEW n \in Ns, NEW e \in Reachable(n), e.exp > now', e \notin Reachable(n)'
    PROVE  \E p \in Proc : /\ frame[p].pc \in {"install", "drop"} /\ frame[p].ns = n
                            /\ e.id >= frame[p].since
<1>1. WorldType /\ Grows /\ Keeps
  BY StepWorld, TypeParts DEF Inv
<1>2. namespaces[n] \in TreeId /\ \E k \in Key : e \in dates[namespaces[n]][k]
  BY <1>1, ReachableIs DEF WorldType, Tree
<1>3. namespaces'[n] # namespaces[n]
  <2> SUFFICES ASSUME namespaces'[n] = namespaces[n] PROVE FALSE
    OBVIOUS
  <2>1. PICK k \in Key : e \in dates[namespaces[n]][k]
    BY <1>2
  <2>2. e \in dates'[namespaces[n]][k]
    BY <1>1, <1>2, <2>1 DEF Keeps
  <2> QED
    BY <1>2, <2>2, ReachableIsNext
<1>4. PICK p \in Proc, t \in Tree : Replaces(p, t)
  BY <1>3, StepWorld
<1>5. frame[p].ns = n /\ now' = now /\ frame[p].pc \in {"install", "drop"}
  BY <1>1, <1>3, <1>4 DEF Replaces, WorldType
<1>6. e.id >= frame[p].since
  BY <1>5, FrameKnown DEF Knows, Newer
<1> QED
  BY <1>5, <1>6

(* An unexpired entry leaves its namespace only by the hand of a Put or a  *)
(* cleanup run that looked at the map before the entry was made: for any   *)
(* number of concurrent calls, and whatever the cleanup service does.      *)
THEOREM LossIsConcurrent == Spec => LossOnlyConcurrent
<1> DEFINE A == \A n \in Ns : \A e \in Reachable(n) :
                  e.exp > now' /\ e \notin Reachable(n)' =>
                     \E p \in Proc : /\ frame[p].pc \in {"install", "drop"}
                                    /\ frame[p].ns = n
                                    /\ e.id >= frame[p].since
<1>1. Inv /\ [Next]_vars => A
  BY StepLoss
<1>2. Inv /\ [Next]_vars => [A]_vars
  BY <1>1
<1> HIDE DEF A
<1>3. Spec => [][A]_vars
  BY <1>2, Always, PTL DEF Spec
<1> QED
  BY <1>3 DEF LossOnlyConcurrent, A

-----------------------------------------------------------------------------
(* The cleanup chains.                                                     *)
Cleaning == {p \in Proc : frame[p].op = "cleanup"}

ChainInv ==
    /\ IsFiniteSet(Cleaning)
    /\ ~stopped => enabled /\ timers + Cardinality(Cleaning) = 1 + lists

(* Steps of calls that neither begin nor end a cleanup run.                *)
LEMMA CleaningStays ==
    ASSUME Inv, NEW p \in Proc, NEW g \in Frame, frame' = [frame EXCEPT ![p] = g],
           (g.op = "cleanup") <=> (frame[p].op = "cleanup")
    PROVE  Cleaning' = Cleaning
<1>1. frame \in [Proc -> Frame]
  BY TypeParts DEF Inv
<1> QED
  BY <1>1 DEF Cleaning

LEMMA ReturnStays ==
    ASSUME Inv, NEW p \in Proc, Return(p), frame[p].op # "cleanup"
    PROVE  Cleaning' = Cleaning
BY IdleIs, CleaningStays DEF Return

LEMMA PutStays == ASSUME Inv, NEW p \in Proc, Put(p) PROVE Cleaning' = Cleaning
<1>1. frame[p] \in Frame /\ Placed(frame[p]) /\ frame \in [Proc -> Frame] /\ WorldType
  BY FrameKnown, TypeParts DEF Inv
<1>2. ASSUME NEW n \in Ns, NEW k \in Key, PutLookup(p, n, k) PROVE Cleaning' = Cleaning
  <2>1. frame[p].pc = "idle" /\ frame'[p].op = "put" /\ \A q \in Proc : q # p => frame'[q] = frame[q]
    BY <1>1, <1>2, IdleIs DEF PutLookup, Begins, Frame
  <2> QED
    BY <1>1, <2>1 DEF Placed, Cleaning
<1>3. ASSUME PutInstall(p) PROVE Cleaning' = Cleaning
  <2>1. frame'[p].op = frame[p].op /\ \A q \in Proc : q # p => frame'[q] = frame[q]
    BY <1>1, <1>3 DEF PutInstall, Frame
  <2> QED
    BY <2>1 DEF Cleaning
<1>4. ASSUME PutTree(p) PROVE Cleaning' = Cleaning
  <2>1. Return(p) /\ frame[p].op # "cleanup"
    BY <1>1, <1>4 DEF PutTree, Placed
  <2> QED
    BY <2>1, ReturnStays
<1> QED
  BY <1>2, <1>3, <1>4 DEF Put

LEMMA LookupStays ==
    ASSUME Inv, NEW p \in Proc, NEW o \in {"count", "countEntries", "keyMatch"}, NEW n \in Ns, NEW k,
           Lookup(p, o, n, k)
    PROVE  Cleaning' = Cleaning
<1>1. frame[p] \in Frame /\ Placed(frame[p]) /\ frame \in [Proc -> Frame]
  BY FrameKnown, TypeParts DEF Inv
<1>2. frame[p].pc = "idle" /\ frame'[p].op = o /\ \A q \in Proc : q # p => frame'[q] = frame[q]
  BY <1>1, IdleIs DEF Lookup, Begins, Frame
<1> QED
  BY <1>1, <1>2 DEF Placed, Cleaning

LEMMA ScanStays ==
    ASSUME Inv, NEW p \in Proc, Count(p) \/ Scan(p) \/ CountServerEntries(p)
    PROVE  Cleaning' = Cleaning
<1>1. frame[p] \in Frame /\ Placed(frame[p]) /\ frame \in [Proc -> Frame]
  BY FrameKnown, TypeParts DEF Inv
<1>2. ASSUME NEW n \in Ns, NEW k \in Key, CountLookup(p, n, k) PROVE Cleaning' = Cleaning
  <2>1. "count" \in {"count", "countEntries", "keyMatch"} /\ Lookup(p, "count", n, k)
    BY <1>2 DEF CountLookup
  <2> QED
    BY <2>1, LookupStays
<1>3. ASSUME NEW n \in Ns, CountEntriesLookup(p, n) \/ KeyMatchLookup(p, n) PROVE Cleaning' = Cleaning
  <2>1. PICK o \in {"count", "countEntries", "keyMatch"} : Lookup(p, o, n, IdleFrame.key)
    BY <1>3 DEF CountEntriesLookup, KeyMatchLookup
  <2> QED
    BY <2>1, LookupStays
<1>4. ASSUME CountTree(p) \/ ScanReturn(p) \/ CountServerReturn(p) PROVE Cleaning' = Cleaning
  <2>1. Return(p) /\ frame[p].op # "cleanup"
    BY <1>1, <1>4 DEF CountTree, ScanReturn, CountServerReturn, Placed
  <2> QED
    BY <2>1, ReturnStays
<1>5. ASSUME CountServerList(p) PROVE Cleaning' = Cleaning
  <2>1. frame[p].pc = "idle" /\ frame'[p].op = "countServer" /\ \A q \in Proc : q # p => frame'[q] = frame[q]
    BY <1>1, <1>5, IdleIs DEF CountServerList, Begins, Frame
  <2> QED
    BY <1>1, <2>1 DEF Placed, Cleaning
<1>6. ASSUME CountServerVisit(p) \/ ScanList(p) \/ ScanNext(p) PROVE Cleaning' = Cleaning
  <2>1. frame'[p].op = frame[p].op /\ \A q \in Proc : q # p => frame'[q] = frame[q]
    <3>1. CASE CountServerVisit(p)
      BY <1>1, <3>1 DEF CountServerVisit, Frame
    <3>2. CASE ScanList(p)
      BY <1>1, <3>2 DEF ScanList, Frame
    <3>3. CASE ScanNext(p)
      BY <1>1, <3>3 DEF ScanNext, Frame
    <3> QED
      BY <1>6, <3>1, <3>2, <3>3
  <2> QED
    BY <2>1 DEF Cleaning
<1>7. ASSUME ScanCount(p) PROVE Cleaning' = Cleaning
  <2>1. PICK f \in Frame : f.op = frame[p].op /\ frame' = [frame EXCEPT ![p] = f]
    BY <1>7, ScanCountIs
  <2> QED
    BY <2>1, CleaningStays
<1> QED
  BY <1>2, <1>3, <1>4, <1>5, <1>6, <1>7 DEF Count, Scan, CountServerEntries

LEMMA CleanupStays ==
    ASSUME Inv, NEW p \in Proc,
           CleanupFetch(p) \/ CleanupVisit(p) \/ CleanupScanned(p) \/ CleanupDrop(p)
    PROVE  Cleaning' = Cleaning
<1>1. frame[p] \in Frame /\ Placed(frame[p]) /\ frame \in [Proc -> Frame]
  BY FrameKnown, TypeParts DEF Inv
<1>2. CASE CleanupFetch(p)
  <2>1. PICK f \in Frame : f.op = "cleanup" /\ frame' = [frame EXCEPT ![p] = f]
    BY <1>2, CleanupFetchIs
  <2>2. frame[p].op = "cleanup"
    BY <1>1, <1>2 DEF CleanupFetch, Placed
  <2> QED
    BY <2>1, <2>2, CleaningStays
<1>3. CASE CleanupVisit(p)
  <2>1. PICK n \in frame[p].spaces :
          frame' = [frame EXCEPT ![p] =
            [frame[p] EXCEPT !.pc = "scan", !.spaces = frame[p].spaces \ {n}, !.ns = n,
                             !.tr = frame[p].subtrees[n], !.todo = nodes[frame[p].subtrees[n]]]]
    BY <1>3 DEF CleanupVisit
  <2>2. frame'[p].op = frame[p].op
    BY <1>1, <2>1 DEF Frame
  <2>3. \A q \in Proc : q # p => frame'[q] = frame[q]
    BY <1>1, <2>1
  <2> QED
    BY <2>2, <2>3 DEF Cleaning
<1>4. CASE CleanupScanned(p)
  <2>1. frame'[p].op = frame[p].op /\ \A q \in Proc : q # p => frame'[q] = frame[q]
    BY <1>1, <1>4 DEF CleanupScanned, Frame
  <2> QED
    BY <2>1 DEF Cleaning
<1>5. CASE CleanupDrop(p)
  <2>1. frame'[p].op = frame[p].op /\ \A q \in Proc : q # p => frame'[q] = frame[q]
    BY <1>1, <1>5 DEF CleanupDrop, Frame
  <2> QED
    BY <2>1 DEF Cleaning
<1> QED
  BY <1>2, <1>3, <1>4, <1>5

LEMMA ChainKept ==
    ASSUME ChainInv, Cleaning' = Cleaning, UNCHANGED gcVars
    PROVE  ChainInv'
BY DEF ChainInv, gcVars

(* A cleanup run takes a timer, or is one more chain ...                   *)
LEMMA ChainBegins ==
    ASSUME Inv, ChainInv, NEW p \in Proc, TimerFires(p) \/ Namespaces(p)
    PROVE  ChainInv'
<1>1. frame[p] \in Frame /\ Placed(frame[p]) /\ frame \in [Proc -> Frame] /\ WorldType
  BY FrameKnown, TypeParts DEF Inv
<1>2. /\ frame[p].pc = "idle" /\ CleanupList(p)
      /\ \/ timers' = timers - 1 /\ timers > 0 /\ lists' = lists
         \/ timers' = timers /\ lists' = lists + 1
  BY DEF TimerFires, Namespaces, Begins, Due
<1>3. frame'[p].op = "cleanup" /\ \A q \in Proc : q # p => frame'[q] = frame[q]
  BY <1>1, <1>2, IdleIs DEF CleanupList, Frame
<1>4. Cleaning' = Cleaning \cup {p} /\ p \notin Cleaning
  BY <1>1, <1>2, <1>3 DEF Placed, Cleaning
<1>5. IsFiniteSet(Cleaning) /\ Cardinality(Cleaning) \in Nat
  BY FS_CardinalityType DEF ChainInv
<1>6. IsFiniteSet(Cleaning \cup {p}) /\ Cardinality(Cleaning \cup {p}) = Cardinality(Cleaning) + 1
  BY <1>4, <1>5, FS_AddElement
<1>7. enabled' = enabled /\ stopped' = stopped
  BY <1>2 DEF CleanupList
<1>8. timers \in Nat /\ lists \in Nat
  BY <1>1 DEF WorldType
<1>9. ~stopped' => timers' + Cardinality(Cleaning') = 1 + lists'
  BY <1>2, <1>4, <1>5, <1>6, <1>7, <1>8 DEF ChainInv
<1> QED
  BY <1>4, <1>6, <1>7, <1>9 DEF ChainInv

(* ... and leaves a timer behind.                                          *)
LEMMA ChainEnds == ASSUME Inv, ChainInv, NEW p \in Proc, CleanupReturn(p) PROVE ChainInv'
<1>1. frame[p] \in Frame /\ frame \in [Proc -> Frame] /\ WorldType
  BY FrameKnown, TypeParts DEF Inv
<1>2. /\ frame[p].op = "cleanup" /\ timers' = timers + 1
      /\ enabled' = enabled /\ stopped' = stopped /\ lists' = lists
  BY DEF CleanupReturn, Rearmed
<1>3. frame'[p].op = "none" /\ \A q \in Proc : q # p => frame'[q] = frame[q]
  BY <1>1, IdleIs DEF CleanupReturn, Return
<1>4. Cleaning' = Cleaning \ {p} /\ p \in Cleaning
  BY <1>2, <1>3 DEF Cleaning
<1>5. IsFiniteSet(Cleaning) /\ Cardinality(Cleaning) \in Nat
  BY FS_CardinalityType DEF ChainInv
<1>6. IsFiniteSet(Cleaning \ {p}) /\ Cardinality(Cleaning \ {p}) = Cardinality(Cleaning) - 1
  BY <1>4, <1>5, FS_RemoveElement
<1>7. timers \in Nat /\ lists \in Nat
  BY <1>1 DEF WorldType
<1>8. ~stopped' => timers' + Cardinality(Cleaning') = 1 + lists'
  BY <1>2, <1>4, <1>5, <1>6, <1>7 DEF ChainInv
<1> QED
  BY <1>2, <1>4, <1>6, <1>8 DEF ChainInv

LEMMA ChainStep == Inv /\ ChainInv /\ [Next]_vars => ChainInv'
<1> SUFFICES ASSUME Inv, ChainInv, [Next]_vars PROVE ChainInv'
  OBVIOUS
<1>1. CASE UNCHANGED vars
  BY <1>1 DEF vars, ChainInv, Cleaning
<1>2. CASE Tick
  <2>1. Cleaning' = Cleaning /\ UNCHANGED gcVars
    BY <1>2 DEF Tick, Cleaning
  <2> QED
    BY <2>1, ChainKept
<1>3. CASE EnableCleanup \/ DisableCleanup
  <2>1. /\ Cleaning' = Cleaning /\ timers' = timers /\ lists' = lists
        /\ ~stopped' => ~stopped /\ enabled'
    BY <1>3 DEF EnableCleanup, DisableCleanup, Cleaning
  <2> QED
    BY <2>1 DEF ChainInv
<1>4. ASSUME NEW p \in Proc, Put(p) PROVE ChainInv'
  <2>1. UNCHANGED gcVars
    BY <1>4 DEF Put, PutLookup, PutInstall, PutTree
  <2> QED
    BY <1>4, <2>1, PutStays, ChainKept
<1>5. ASSUME NEW p \in Proc, Count(p) \/ Scan(p) \/ CountServerEntries(p) PROVE ChainInv'
  <2>1. UNCHANGED gcVars
    BY <1>5 DEF Count, CountLookup, CountTree, Lookup, Scan, CountEntriesLookup, KeyMatchLookup, ScanList,
       ScanCount, ScanReturn, ScanNext, CountServerEntries, CountServerList, CountServerVisit,
       CountServerReturn, Local, DoCount
  <2> QED
    BY <1>5, <2>1, ScanStays, ChainKept
<1>6. ASSUME NEW p \in Proc, runCleanup(p) PROVE ChainInv'
  <2>1. ASSUME TimerStops(p) PROVE ChainInv'
    <3>1. ~enabled /\ Cleaning' = Cleaning /\ stopped' = stopped
      BY <2>1 DEF TimerStops, Cleaning
    <3> QED
      BY <3>1 DEF ChainInv
  <2>2. ASSUME CleanupFetch(p) \/ CleanupVisit(p) \/ CleanupScanned(p) \/ CleanupDrop(p) PROVE ChainInv'
    <3>1. UNCHANGED gcVars
      BY <2>2 DEF CleanupFetch, CleanupVisit, CleanupScanned, CleanupDrop, Local
    <3> QED
      BY <2>2, <3>1, CleanupStays, ChainKept
  <2> QED
    BY <1>6, <2>1, <2>2, ChainBegins, ChainEnds DEF runCleanup
<1> QED
  BY <1>1, <1>2, <1>3, <1>4, <1>5, <1>6 DEF Next

LEMMA ChainInit == Init => ChainInv
<1> SUFFICES ASSUME Init PROVE ChainInv
  OBVIOUS
<1>1. Cleaning = {}
  BY IdleIs DEF Init, Cleaning
<1>2. timers = 1 /\ lists = 0 /\ enabled
  BY DEF Init
<1> QED
  BY <1>1, <1>2, FS_EmptySet DEF ChainInv

(* Until DisableCleanup is called, the number of cleanup chains is one     *)
(* more than the calls of Namespaces that ran a cleanup: no chain is ever  *)
(* lost, and none that Namespaces starts ever ends.                        *)
THEOREM CleanupChains == Spec => []ChainsAddUp
<1>1. ChainInv => ChainsAddUp
  BY DEF ChainInv, ChainsAddUp, Cleaning
<1>2. Spec => []ChainInv
  BY ChainInit, ChainStep, Always, PTL DEF Spec
<1> QED
  BY <1>1, <1>2, PTL

-----------------------------------------------------------------------------
(* One call at a time.  What a call knows of the map stays true until it   *)
(* changes it.                                                             *)
Alone == \A p, q \in Proc : p = q

Current(f) ==
    /\ f.pc = "install" => namespaces[f.ns] = NoTree
    /\ f.pc = "put" => namespaces[f.ns] = f.tr
    /\ f.op = "cleanup" /\ f.pc # "fetch" => f.since = nextId

AckInv == AckedReachable /\ \A p \in Proc : Current(frame[p])

LEMMA CurrentReturn ==
    ASSUME Inv, NEW p \in Proc, Return(p)
    PROVE  Current(frame[p])'
<1>1. frame'[p] = IdleFrame
  BY TypeParts DEF Return, Inv
<1> QED
  BY <1>1, IdleIs DEF Current

LEMMA CurrentPut == ASSUME Inv, NEW p \in Proc, Put(p) PROVE Current(frame[p])'
<1>1. frame[p] \in Frame /\ Placed(frame[p]) /\ frame \in [Proc -> Frame] /\ WorldType
  BY FrameKnown, TypeParts DEF Inv
<1>2. ASSUME NEW n \in Ns, NEW k \in Key, PutLookup(p, n, k) PROVE Current(frame[p])'
  <2>1. /\ frame'[p].op = "put" /\ frame'[p].ns = n /\ frame'[p].tr = namespaces[n]
        /\ frame'[p].pc = (IF Found(n) THEN "put" ELSE "install")
    BY <1>1, <1>2, IdleIs DEF PutLookup, Frame
  <2>2. namespaces' = namespaces
    BY <1>2 DEF PutLookup, mapVars
  <2> QED
    BY <2>1, <2>2 DEF Current, Found
<1>3. ASSUME PutInstall(p) PROVE Current(frame[p])'
  <2>1. PICK t \in TreeId :
          /\ namespaces' = [namespaces EXCEPT ![frame[p].ns] = t]
          /\ frame' = [frame EXCEPT ![p] = [frame[p] EXCEPT !.pc = "put", !.tr = t]]
    BY <1>3 DEF PutInstall, Least
  <2>2. frame[p].op = "put" /\ frame[p].ns \in Ns
    BY <1>1, <1>3 DEF PutInstall, Placed, Frame
  <2>3. frame'[p].op = "put" /\ frame'[p].ns = frame[p].ns /\ frame'[p].tr = t /\ frame'[p].pc = "put"
    BY <1>1, <2>1, <2>2 DEF Frame
  <2>4. namespaces'[frame[p].ns] = t
    BY <1>1, <2>1, <2>2 DEF WorldType
  <2> QED
    BY <2>3, <2>4 DEF Current
<1>4. ASSUME PutTree(p) PROVE Current(frame[p])'
  BY <1>4, CurrentReturn DEF PutTree
<1> QED
  BY <1>2, <1>3, <1>4 DEF Put

LEMMA CurrentScan ==
    ASSUME Inv, NEW p \in Proc, Count(p) \/ Scan(p) \/ CountServerEntries(p), Current(frame[p])
    PROVE  Current(frame[p])'
<1>1. frame[p] \in Frame /\ Placed(frame[p]) /\ frame \in [Proc -> Frame]
  BY FrameKnown, TypeParts DEF Inv
<1>2. ASSUME NEW o \in {"count", "countEntries", "keyMatch"}, NEW n \in Ns, NEW k, Lookup(p, o, n, k)
      PROVE  Current(frame[p])'
  <2>1. frame'[p].op = o /\ frame'[p].pc \in {"count", "list"}
    BY <1>1, <1>2, IdleIs DEF Lookup, Frame
  <2> QED
    BY <2>1 DEF Current
<1>3. ASSUME NEW n \in Ns, NEW k \in Key, CountLookup(p, n, k) PROVE Current(frame[p])'
  <2>1. "count" \in {"count", "countEntries", "keyMatch"} /\ Lookup(p, "count", n, k)
    BY <1>3 DEF CountLookup
  <2> QED
    BY <1>2, <2>1
<1>4. ASSUME NEW n \in Ns, CountEntriesLookup(p, n) \/ KeyMatchLookup(p, n) PROVE Current(frame[p])'
  <2>1. PICK o \in {"count", "countEntries", "keyMatch"} : Lookup(p, o, n, IdleFrame.key)
    BY <1>4 DEF CountEntriesLookup, KeyMatchLookup
  <2> QED
    BY <1>2, <2>1
<1>5. ASSUME CountTree(p) \/ ScanReturn(p) \/ CountServerReturn(p) PROVE Current(frame[p])'
  BY <1>5, CurrentReturn DEF CountTree, ScanReturn, CountServerReturn
<1>6. ASSUME CountServerList(p) PROVE Current(frame[p])'
  <2>1. frame'[p].op = "countServer" /\ frame'[p].pc = "visit"
    BY <1>1, <1>6, IdleIs DEF CountServerList, Frame
  <2> QED
    BY <2>1 DEF Current
<1>7. ASSUME CountServerVisit(p) PROVE Current(frame[p])'
  <2>1. frame'[p].op = "countServer" /\ frame'[p].pc \in {"list", "visit"}
    BY <1>1, <1>7 DEF CountServerVisit, Frame
  <2> QED
    BY <2>1 DEF Current
<1>8. ASSUME ScanList(p) PROVE Current(frame[p])'
  <2>1. frame'[p].op = frame[p].op /\ frame'[p].pc = "scan" /\ frame[p].pc = "list"
    BY <1>1, <1>8 DEF ScanList, Frame
  <2> QED
    BY <1>1, <2>1 DEF Current, Placed
<1>9. ASSUME ScanNext(p) PROVE Current(frame[p])'
  <2>1. frame'[p].op = "countServer" /\ frame'[p].pc = "visit"
    BY <1>1, <1>9 DEF ScanNext, Frame
  <2> QED
    BY <2>1 DEF Current
<1>10. ASSUME ScanCount(p) PROVE Current(frame[p])'
  <2>1. PICK f \in Frame : /\ f.op = frame[p].op /\ f.pc = "scan" /\ f.since = frame[p].since
                           /\ frame' = [frame EXCEPT ![p] = f]
    BY <1>10, ScanCountIs
  <2>2. frame'[p] = f /\ nextId' = nextId /\ frame[p].pc = "scan"
    BY <1>1, <1>10, <2>1 DEF ScanCount, DoCount
  <2> QED
    BY <2>1, <2>2 DEF Current
<1> QED
  BY <1>3, <1>4, <1>5, <1>6, <1>7, <1>8, <1>9, <1>10 DEF Count, Scan, CountServerEntries

LEMMA CurrentCleanup ==
    ASSUME Inv, NEW p \in Proc, runCleanup(p), Current(frame[p])
    PROVE  Current(frame[p])'
<1>1. frame[p] \in Frame /\ Placed(frame[p]) /\ frame \in [Proc -> Frame]
  BY FrameKnown, TypeParts DEF Inv
<1>2. ASSUME TimerFires(p) \/ Namespaces(p) PROVE Current(frame[p])'
  <2>1. CleanupList(p)
    BY <1>2 DEF TimerFires, Namespaces
  <2>2. frame'[p].pc = "fetch"
    BY <1>1, <2>1, IdleIs DEF CleanupList, Frame
  <2> QED
    BY <2>2 DEF Current
<1>3. ASSUME TimerStops(p) PROVE Current(frame[p])'
  BY <1>3 DEF TimerStops, mapVars, Current
<1>4. ASSUME CleanupFetch(p) PROVE Current(frame[p])'
  <2>1. PICK f \in Frame : f.pc = "visit" /\ f.since = nextId /\ frame' = [frame EXCEPT ![p] = f]
    BY <1>4, CleanupFetchIs
  <2>2. frame'[p] = f /\ nextId' = nextId
    BY <1>1, <1>4, <2>1 DEF CleanupFetch, Local
  <2> QED
    BY <2>1, <2>2 DEF Current
<1>5. ASSUME CleanupVisit(p) \/ CleanupScanned(p) \/ CleanupDrop(p) PROVE Current(frame[p])'
  <2>1. frame[p].pc \in {"visit", "scan", "drop"} /\ frame[p].op = "cleanup" /\ nextId' = nextId
    BY <1>1, <1>5 DEF CleanupVisit, CleanupScanned, CleanupDrop, Placed, Local
  <2>2. frame'[p].pc \in {"visit", "scan", "drop"} /\ frame'[p].since = frame[p].since
    <3>1. CASE CleanupVisit(p)
      BY <1>1, <3>1 DEF CleanupVisit, Frame
    <3>2. CASE CleanupScanned(p)
      BY <1>1, <3>2 DEF CleanupScanned, Frame
    <3>3. CASE CleanupDrop(p)
      BY <1>1, <3>3 DEF CleanupDrop, Frame
    <3> QED
      BY <1>5, <3>1, <3>2, <3>3
  <2> QED
    BY <2>1, <2>2 DEF Current
<1>6. ASSUME CleanupReturn(p) PROVE Current(frame[p])'
  BY <1>6, CurrentReturn DEF CleanupReturn
<1> QED
  BY <1>2, <1>3, <1>4, <1>5, <1>6 DEF runCleanup

LEMMA CurrentStep ==
    ASSUME Alone, Inv, AckInv, [Next]_vars, NEW p \in Proc
    PROVE  Current(frame[p])'
<1>1. Current(frame[p])
  BY DEF AckInv
<1>2. CASE UNCHANGED vars \/ Tick \/ EnableCleanup \/ DisableCleanup
  BY <1>1, <1>2 DEF vars, Tick, EnableCleanup, DisableCleanup, mapVars, Current
<1>3. ASSUME NEW q \in Proc, Put(q) \/ Count(q) \/ Scan(q) \/ CountServerEntries(q) \/ runCleanup(q)
      PROVE  Current(frame[p])'
  <2>1. q = p
    BY DEF Alone
  <2> QED
    BY <1>1, <1>3, <2>1, CurrentPut, CurrentScan, CurrentCleanup
<1> QED
  BY <1>2, <1>3 DEF Next

LEMMA NextIdStays == ASSUME [Next]_vars PROVE nextId' = nextId \/ \E p \in Proc : PutTree(p)
<1>1. ASSUME NEW p \in Proc, Writes(p), ~PutTree(p) PROVE nextId' = nextId
  BY <1>1 DEF Writes, CountTree, ScanCount, DoCount, PutInstall, CleanupDrop
<1> QED
  BY <1>1, StillOrWrites DEF Still

LEMMA AckedStep ==
    ASSUME Inv, Inv', AckInv, [Next]_vars
    PROVE  AckedReachable'
<1> SUFFICES ASSUME NEW t \in TreeId, NEW k \in Key, NEW e \in dates'[t][k], e.exp > now'
             PROVE  \E n \in Ns : namespaces'[n] = t
  BY DEF AckedReachable, removeExpired
<1>1. WorldType /\ Trees /\ WorldType' /\ Grows /\ Keeps /\ Trees' /\ e \in Entry
  BY StepWorld, TypeParts DEF Inv, TypeOK, WorldType
<1>2. e.exp > now /\ e.id \in Nat /\ nextId \in Nat
  BY <1>1 DEF Grows, WorldType, Entry
<1>3. CASE e \in dates[t][k]
  <2>1. PICK n \in Ns : namespaces[n] = t
    BY <1>2, <1>3 DEF AckInv, AckedReachable, removeExpired
  <2> SUFFICES ASSUME namespaces'[n] # t PROVE FALSE
    BY <2>1
  <2>2. PICK p \in Proc, u \in Tree : Replaces(p, u)
    BY <2>1, StepWorld
  <2>3. frame[p].ns = n /\ frame[p].pc \in {"install", "drop"}
    BY <1>1, <2>1, <2>2 DEF Replaces, WorldType
  <2>4. Current(frame[p]) /\ Knows(frame[p]) /\ Placed(frame[p])
    BY FrameKnown DEF AckInv
  <2>5. frame[p].pc = "drop"
    BY <2>1, <2>3, <2>4 DEF Current
  <2>6. frame[p].since = nextId
    BY <2>4, <2>5 DEF Current, Placed
  <2>7. e \in Reachable(n)
    BY <1>3, <2>1, ReachableIs
  <2>8. e.id >= nextId
    BY <1>2, <2>3, <2>4, <2>5, <2>6, <2>7 DEF Knows
  <2>9. e.id < nextId
    BY <1>1, <1>3 DEF Trees
  <2> QED
    BY <1>2, <2>8, <2>9
<1>4. CASE e \notin dates[t][k]
  <2>1. e.id >= nextId /\ e.id < nextId'
    BY <1>1, <1>4 DEF Grows, Trees
  <2>2. PICK p \in Proc : PutTree(p)
    BY <1>2, <2>1, NextIdStays
  <2>3. t = frame[p].tr
    <3>1. PICK secs \in {now, now + 1} :
            ListsChange(frame[p].tr, frame[p].key, {[id |-> nextId, exp |-> secs + TTL]})
      BY <2>2, PutTreeWorld
    <3> QED
      BY <1>4, <3>1 DEF ListsChange
  <2>4. Current(frame[p]) /\ frame[p].pc = "put" /\ namespaces' = namespaces /\ frame[p].ns \in Ns
    BY <2>2, FrameKnown DEF AckInv, PutTree, mapVars, Frame
  <2> QED
    BY <2>3, <2>4 DEF Current
<1> QED
  BY <1>3, <1>4

(* As long as one goroutine at a time uses the store, cleanup runs         *)
(* included, every acknowledged Put can be counted until it expires.       *)
THEOREM SequentialAcked == Alone => (Spec => []AckedReachable)
<1> SUFFICES ASSUME Alone PROVE Spec => []AckedReachable
  OBVIOUS
<1>1. Init => AckInv
  <2> SUFFICES ASSUME Init PROVE AckInv
    OBVIOUS
  <2>1. AckedReachable
    BY DEF Init, AckedReachable, NoDates, removeExpired
  <2>2. \A p \in Proc : Current(frame[p])
    BY IdleIs DEF Init, Current
  <2> QED
    BY <2>1, <2>2 DEF AckInv
<1>2. Inv /\ Inv' /\ AckInv /\ [Next]_vars => AckInv'
  <2> SUFFICES ASSUME Inv, Inv', AckInv, [Next]_vars PROVE AckInv'
    OBVIOUS
  <2>1. \A p \in Proc : Current(frame[p])'
    BY CurrentStep
  <2>2. AckedReachable'
    BY AckedStep
  <2> QED
    BY <2>1, <2>2 DEF AckInv
<1>3. Spec => []AckInv
  BY <1>1, <1>2, Always, PTL DEF Spec
<1>4. AckInv => AckedReachable
  BY DEF AckInv
<1> QED
  BY <1>3, <1>4, PTL

-----------------------------------------------------------------------------
(* CountServerEntries.  What it counts are sets of entries, so the proof   *)
(* needs that no id is given twice and no subtree is installed twice.      *)
Unique ==
    /\ \A t, u \in TreeId : \A k, j \in Key : \A d \in dates[t][k], e \in dates[u][j] :
         d.id = e.id => t = u /\ k = j /\ d = e
    /\ \A n, m \in Ns : namespaces[n] = namespaces[m] /\ namespaces[n] # NoTree => n = m

(* The keys of the current subtree, and all entries, still to be counted.  *)
Rest(f) == IF f.pc = "list" THEN Key ELSE IF f.pc = "scan" THEN f.todo ELSE {}

Pending(f) == (UNION {Reachable(n) : n \in f.spaces}) \cup (UNION {dates[f.tr][k] : k \in Rest(f)})

(* C are the entries that were counted.                                    *)
Counted(f, C) ==
    /\ IsFiniteSet(C) /\ Cardinality(C) = f.sum /\ C \cap Pending(f) = {}
    /\ \A e \in C : e.id < nextId /\ (e \in f.base \/ e.id >= f.since)
    /\ \A d, e \in C : d.id = e.id => d = e
    /\ \A e \in C : \A t \in TreeId : \A k \in Key : \A d \in dates[t][k] : d.id = e.id => d = e
    /\ f.base \cap ReachableLive \subseteq C \cup Pending(f)

Sums(f) ==
    f.op = "countServer" =>
        /\ IsFiniteSet(f.base)
        /\ \A e \in f.base : e.id < f.since
        /\ \A e \in Pending(f) : e.exp > now => e \in f.base \/ e.id >= f.since
        /\ f.pc \in {"list", "scan"} => \A n \in f.spaces : namespaces[n] # f.tr
        /\ \E C \in SUBSET Entry : Counted(f, C)

SumInv == Unique /\ \A p \in Proc : Sums(frame[p])

(* Entries with different ids are at most as many as the ids.              *)
LEMMA ByIds ==
    ASSUME NEW S \in SUBSET Entry, NEW a \in Nat, NEW b \in Nat, a <= b,
           \A e \in S : a <= e.id /\ e.id < b, \A d, e \in S : d.id = e.id => d = e
    PROVE  IsFiniteSet(S) /\ Cardinality(S) \in Nat /\ Cardinality(S) <= b - a
<1> DEFINE T == a .. (b - 1)
           g == [e \in S |-> e.id]
<1>1. \A e \in S : e.id \in T
  BY DEF Entry
<1>2. g \in Injection(S, T)
  BY <1>1 DEF Injection, IsInjective
<1>3. IsFiniteSet(T) /\ Cardinality(T) = b - a
  <2>1. a \in Int /\ b - 1 \in Int
    OBVIOUS
  <2>2. IsFiniteSet(T) /\ Cardinality(T) = IF a > b - 1 THEN 0 ELSE (b - 1) - a + 1
    BY <2>1, FS_Interval
  <2> QED
    BY <2>2
<1> HIDE DEF T, g
<1>4. IsFiniteSet(S) /\ Cardinality(S) <= Cardinality(T)
  BY <1>2, <1>3, FS_Injection
<1> QED
  BY <1>3, <1>4, FS_CardinalityType

LEMMA PendingIs ==
    ASSUME NEW f, NEW e
    PROVE  e \in Pending(f) <=> \/ \E n \in f.spaces : e \in Reachable(n)
                                \/ \E k \in Rest(f) : e \in dates[f.tr][k]
<1> DEFINE A == UNION {Reachable(n) : n \in f.spaces}
           B == UNION {dates[f.tr][k] : k \in Rest(f)}
<1>1. e \in A <=> \E n \in f.spaces : e \in Reachable(n)
  OBVIOUS
<1>2. e \in B <=> \E k \in Rest(f) : e \in dates[f.tr][k]
  OBVIOUS
<1>3. Pending(f) = A \cup B
  BY DEF Pending
<1> HIDE DEF A, B
<1> QED
  BY <1>1, <1>2, <1>3

LEMMA PendingIsNext ==
    ASSUME NEW f, NEW e
    PROVE  e \in Pending(f)' <=> \/ \E n \in f.spaces : e \in Reachable(n)'
                                 \/ \E k \in Rest(f) : e \in dates'[f.tr][k]
<1> DEFINE A == UNION {Reachable(n)' : n \in f.spaces}
           B == UNION {dates'[f.tr][k] : k \in Rest(f)}
<1>1. e \in A <=> \E n \in f.spaces : e \in Reachable(n)'
  OBVIOUS
<1>2. e \in B <=> \E k \in Rest(f) : e \in dates'[f.tr][k]
  OBVIOUS
<1>3. Pending(f)' = A \cup B
  BY DEF Pending, Rest
<1> HIDE DEF A, B
<1> QED
  BY <1>1, <1>2, <1>3

LEMMA LiveIs ==
    ASSUME NEW e
    PROVE  e \in ReachableLive <=> \E n \in Ns : e \in Reachable(n) /\ e.exp > now
BY DEF ReachableLive, removeExpired

LEMMA LiveIsNext ==
    ASSUME NEW e
    PROVE  e \in ReachableLive' <=> \E n \in Ns : e \in Reachable(n)' /\ e.exp > now'
BY DEF ReachableLive, removeExpired

LEMMA OneKey ==
    ASSUME Unique, NEW t \in TreeId, NEW k \in Key, NEW j \in Key,
           NEW e, e \in dates[t][k], e \in dates[t][j]
    PROVE  k = j
BY DEF Unique

LEMMA FoundOnce ==
    ASSUME WorldType, Unique, NEW n \in Ns, NEW e \in Reachable(n)
    PROVE  /\ \A t \in TreeId : \A k \in Key : e \in dates[t][k] => namespaces[n] = t
           /\ \A m \in Ns : e \in Reachable(m) => m = n
<1>1. PICK k \in Key : e \in dates[namespaces[n]][k] /\ namespaces[n] # NoTree
  BY ReachableIs
<1>2. namespaces[n] \in TreeId
  BY <1>1 DEF WorldType, Tree
<1>3. ASSUME NEW t \in TreeId, NEW j \in Key, e \in dates[t][j] PROVE namespaces[n] = t
  <2>1. \A u, v \in TreeId : \A i, l \in Key : \A d \in dates[u][i], x \in dates[v][l] :
          d.id = x.id => u = v
    BY DEF Unique
  <2> QED
    BY <1>1, <1>2, <1>3, <2>1
<1>4. ASSUME NEW m \in Ns, e \in Reachable(m) PROVE m = n
  <2>1. PICK j \in Key : e \in dates[namespaces[m]][j] /\ namespaces[m] # NoTree
    BY <1>4, ReachableIs
  <2>2. namespaces[m] \in TreeId
    BY <2>1 DEF WorldType, Tree
  <2>3. namespaces[n] = namespaces[m]
    BY <1>3, <2>1, <2>2
  <2> QED
    BY <1>1, <2>3 DEF Unique
<1> QED
  BY <1>3, <1>4

(* What the other goroutines do to a call of CountServerEntries: entries   *)
(* that come are new to it, entries that go have expired or cannot be      *)
(* reached any more.                                                       *)
Fresh == \A n \in Ns : namespaces'[n] = namespaces[n] \/ namespaces'[n] \notin used

LEMMA PendingKept ==
    ASSUME WorldType, Grows, NEW f \in Frame, Placed(f), NEW e \in Pending(f)'
    PROVE  e \in Pending(f) \/ e.id >= nextId
<1>1. CASE \E n \in f.spaces : e \in Reachable(n)'
  <2>1. PICK n \in Ns : n \in f.spaces /\ e \in Reachable(n)'
    BY <1>1 DEF Frame
  <2>2. e \in Reachable(n) \/ e.id >= nextId
    BY <2>1, ReachableGrows
  <2> QED
    BY <2>1, <2>2, PendingIs
<1>2. CASE \E k \in Rest(f) : e \in dates'[f.tr][k]
  <2>1. PICK k \in Rest(f) : e \in dates'[f.tr][k]
    BY <1>2
  <2>2. k \in Key /\ f.tr \in TreeId
    BY <2>1 DEF Rest, Frame, Placed, WorldType
  <2>3. e \in dates[f.tr][k] \/ e.id >= nextId
    BY <2>1, <2>2 DEF Grows
  <2> QED
    BY <2>1, <2>3, PendingIs
<1> QED
  BY <1>1, <1>2, PendingIsNext

LEMMA PendingType ==
    ASSUME WorldType, NEW f \in Frame, Placed(f)
    PROVE  Pending(f) \subseteq Entry
<1> SUFFICES ASSUME NEW e \in Pending(f) PROVE e \in Entry
  OBVIOUS
<1>1. CASE \E n \in f.spaces : e \in Reachable(n)
  BY <1>1, ReachableType DEF Frame
<1>2. CASE \E k \in Rest(f) : e \in dates[f.tr][k]
  <2>1. PICK k \in Rest(f) : e \in dates[f.tr][k]
    BY <1>2
  <2>2. k \in Key /\ f.tr \in TreeId
    BY <2>1 DEF Rest, Frame, Placed, WorldType
  <2> QED
    BY <2>1, <2>2 DEF WorldType
<1> QED
  BY <1>1, <1>2, PendingIs

LEMMA PendingTypeNext ==
    ASSUME WorldType, WorldType', Grows, NEW f \in Frame, Placed(f)
    PROVE  Pending(f)' \subseteq Entry
<1> SUFFICES ASSUME NEW e \in Pending(f)' PROVE e \in Entry
  OBVIOUS
<1>1. CASE \E n \in f.spaces : e \in Reachable(n)'
  BY <1>1, ReachableTypeNext DEF Frame
<1>2. CASE \E k \in Rest(f) : e \in dates'[f.tr][k]
  <2>1. PICK k \in Rest(f) : e \in dates'[f.tr][k]
    BY <1>2
  <2>2. k \in Key /\ f.tr \in TreeId
    BY <2>1 DEF Rest, Frame, Placed, WorldType
  <2> QED
    BY <2>1, <2>2 DEF WorldType
<1> QED
  BY <1>1, <1>2, PendingIsNext

LEMMA CountedKept ==
    ASSUME WorldType, WorldType', Unique, Grows, Keeps, NEW f \in Frame, Placed(f),
           \A e \in f.base : e.id < f.since, NEW C \in SUBSET Entry, Counted(f, C)
    PROVE  Counted(f, C)'
<1>1. /\ f.since \in Nat /\ nextId \in Nat /\ nextId' \in Nat /\ f.since <= nextId /\ nextId <= nextId'
      /\ now \in Nat /\ now' \in Nat /\ now <= now' /\ f.base \subseteq Entry
      /\ \A e \in Entry : e.id \in Nat /\ e.exp \in Nat
  BY DEF Frame, WorldType, Placed, Grows, Entry
<1>2. \A e \in C : e \in Entry /\ e.id < nextId
  BY DEF Counted
<1>3. C \cap Pending(f)' = {}
  <2> SUFFICES ASSUME NEW e \in C, e \in Pending(f)' PROVE FALSE
    OBVIOUS
  <2>1. e \in Pending(f) \/ e.id >= nextId
    BY PendingKept
  <2>2. e \notin Pending(f)
    BY DEF Counted
  <2> QED
    BY <1>1, <1>2, <2>1, <2>2
<1>4. \A e \in C : e.id < nextId'
  BY <1>1, <1>2
<1>5. ASSUME NEW e \in C, NEW t \in TreeId, NEW k \in Key, NEW d \in dates'[t][k], d.id = e.id
      PROVE  d = e
  <2>1. d \in dates[t][k] \/ d.id >= nextId
    BY DEF Grows
  <2>2. d \in dates[t][k]
    BY <1>1, <1>2, <1>5, <2>1
  <2> QED
    BY <1>5, <2>2 DEF Counted
<1>6. ASSUME NEW e \in f.base, e \in ReachableLive' PROVE e \in C \cup Pending(f)'
  <2>1. PICK n \in Ns : e \in Reachable(n)' /\ e.exp > now'
    BY <1>6, LiveIsNext
  <2>2. e \in Entry /\ e.exp > now /\ e.id < nextId
    BY <1>1, <2>1
  <2>3. e \in Reachable(n)
    BY <1>1, <2>1, <2>2, ReachableGrows
  <2>4. e \in ReachableLive
    BY <2>2, <2>3, LiveIs
  <2>5. e \in C \cup Pending(f)
    BY <2>4 DEF Counted
  <2>6. ASSUME NEW m \in f.spaces, e \in Reachable(m) PROVE e \in Pending(f)'
    <3>1. m \in Ns
      BY DEF Frame
    <3>2. m = n
      BY <2>3, <2>6, <3>1, FoundOnce
    <3> QED
      BY <2>1, <3>2, PendingIsNext
  <2>7. ASSUME NEW k \in Rest(f), e \in dates[f.tr][k] PROVE e \in Pending(f)'
    <3>1. k \in Key /\ f.tr \in TreeId
      BY DEF Rest, Frame, Placed, WorldType
    <3>2. e \in dates'[f.tr][k]
      BY <2>1, <2>7, <3>1 DEF Keeps
    <3> QED
      BY <3>2, PendingIsNext
  <2> QED
    BY <2>5, <2>6, <2>7, PendingIs
<1>7. IsFiniteSet(C) /\ Cardinality(C) = f.sum /\ \A d, e \in C : d.id = e.id => d = e
  BY DEF Counted
<1>8. \A e \in C : e \in f.base \/ e.id >= f.since
  BY DEF Counted
<1> QED
  BY <1>3, <1>4, <1>5, <1>6, <1>7, <1>8 DEF Counted

LEMMA SumsKept ==
    ASSUME WorldType, WorldType', Unique, Grows, Keeps, Fresh, NEW f \in Frame, Placed(f), Sums(f)
    PROVE  Sums(f)'
<1> SUFFICES ASSUME f.op = "countServer" PROVE Sums(f)'
  BY DEF Sums
<1>1. IsFiniteSet(f.base) /\ \A e \in f.base : e.id < f.since
  BY DEF Sums
<1>2. ASSUME NEW e \in Pending(f)', e.exp > now' PROVE e \in f.base \/ e.id >= f.since
  <2>1. e \in Entry
    <3>1. Pending(f)' \subseteq Entry
      BY PendingTypeNext
    <3> QED
      BY <3>1
  <2>2. /\ e.id \in Nat /\ e.exp \in Nat /\ now \in Nat /\ now' \in Nat /\ now <= now'
        /\ f.since \in Nat /\ nextId \in Nat /\ f.since <= nextId
    BY <2>1 DEF Entry, WorldType, Grows, Frame, Placed
  <2>3. e \in Pending(f) \/ e.id >= nextId
    BY PendingKept
  <2>4. e.exp > now
    BY <1>2, <2>2
  <2> QED
    BY <2>2, <2>3, <2>4 DEF Sums
<1>3. ASSUME f.pc \in {"list", "scan"}, NEW n \in f.spaces PROVE namespaces'[n] # f.tr
  <2>1. f.tr \in used /\ n \in Ns /\ namespaces[n] # f.tr
    BY <1>3 DEF Placed, Sums, Frame
  <2> QED
    BY <2>1 DEF Fresh
<1>4. PICK C \in SUBSET Entry : Counted(f, C)
  BY DEF Sums
<1>5. Counted(f, C)'
  BY <1>1, <1>4, CountedKept
<1> QED
  BY <1>1, <1>2, <1>3, <1>5 DEF Sums

(* A call's own steps.  One that counts nothing moves entries between what *)
(* is to be visited and what is being scanned.                             *)
LEMMA SumsMove ==
    ASSUME NEW f \in Frame, NEW g \in Frame, Sums(f), f.op = "countServer",
           g.sum = f.sum, g.base = f.base, g.since = f.since, Pending(g) = Pending(f),
           g.pc \in {"list", "scan"} => \A n \in g.spaces : namespaces[n] # g.tr
    PROVE  Sums(g)
<1>1. PICK C \in SUBSET Entry : Counted(f, C)
  BY DEF Sums
<1>2. Counted(g, C)
  BY <1>1 DEF Counted
<1> QED
  BY <1>2 DEF Sums

(* Own(p): where p is now in a call of CountServerEntries, the sum was     *)
(* right before the step as well.                                          *)
Own(p) == \E g \in Frame : frame'[p] = g /\ (g.op = "countServer" => Placed(g) /\ Sums(g))

LEMMA ListOwn == ASSUME Inv, SumInv, NEW p \in Proc, CountServerList(p) PROVE Own(p)
<1>1. WorldType /\ Trees /\ nextId \in Nat /\ frame \in [Proc -> Frame]
  BY FrameKnown, TypeParts DEF WorldType, Inv
<1>2. PICK g \in Frame :
        /\ g.pc = "visit" /\ g.op = "countServer" /\ g.since = nextId /\ g.spaces = Installed
        /\ g.base = ReachableLive /\ g.sum = 0 /\ frame'[p] = g
  <2> DEFINE f == [IdleFrame EXCEPT !.pc = "visit", !.op = "countServer", !.spaces = Installed,
                                    !.since = nextId, !.base = ReachableLive]
  <2>1. Installed \subseteq Ns /\ ReachableLive \subseteq Entry
    BY <1>1, LiveType DEF Installed
  <2>2. f \in Frame
    BY <1>1, <2>1, IdleIs DEF Frame, AllOps
  <2>3. /\ f.pc = "visit" /\ f.op = "countServer" /\ f.since = nextId /\ f.spaces = Installed
        /\ f.base = ReachableLive /\ f.sum = 0
    BY IdleIs DEF Frame
  <2>4. frame'[p] = f
    BY <1>1 DEF CountServerList
  <2> QED
    BY <2>2, <2>3, <2>4
<1>3. ASSUME NEW n \in Ns, NEW e \in Reachable(n)
      PROVE  n \in Installed /\ e \in Entry /\ e.id \in Nat /\ e.id < nextId
  <2>1. PICK k \in Key : e \in dates[namespaces[n]][k] /\ namespaces[n] # NoTree
    BY ReachableIs
  <2>2. PICK t \in TreeId : t = namespaces[n]
    BY <1>1, <2>1 DEF WorldType, Tree
  <2>3. e \in dates[t][k]
    BY <2>1, <2>2
  <2>4. e \in Entry /\ e.id < nextId
    BY <1>1, <2>3 DEF Trees, WorldType
  <2> QED
    BY <2>1, <2>4 DEF Installed, Entry
<1>4. \A e \in g.base : e \in Entry /\ e.id \in Nat /\ e.id < g.since
  BY <1>2, <1>3, LiveIs
<1>5. \A d, e \in g.base : d.id = e.id => d = e
  <2> SUFFICES ASSUME NEW d \in g.base, NEW e \in g.base, d.id = e.id PROVE d = e
    OBVIOUS
  <2>1. PICK n \in Ns, m \in Ns : d \in Reachable(n) /\ e \in Reachable(m)
    BY <1>2, LiveIs
  <2>2. PICK k \in Key, j \in Key : /\ d \in dates[namespaces[n]][k] /\ namespaces[n] # NoTree
                                   /\ e \in dates[namespaces[m]][j] /\ namespaces[m] # NoTree
    BY <2>1, ReachableIs
  <2>3. namespaces[n] \in TreeId /\ namespaces[m] \in TreeId /\ Unique
    BY <1>1, <2>2 DEF WorldType, Tree, SumInv
  <2>4. PICK t \in TreeId, u \in TreeId : t = namespaces[n] /\ u = namespaces[m]
    BY <2>3
  <2>5. d \in dates[t][k] /\ e \in dates[u][j]
    BY <2>2, <2>4
  <2> QED
    BY <2>3, <2>5 DEF Unique
<1>6. IsFiniteSet(g.base)
  <2>1. 0 \in Nat /\ 0 <= nextId /\ \A e \in g.base : 0 <= e.id /\ e.id < nextId
    BY <1>1, <1>2, <1>4
  <2>2. g.base \in SUBSET Entry
    BY <1>4
  <2> QED
    BY <1>1, <1>5, <2>1, <2>2, ByIds
<1>7. ASSUME NEW e \in Pending(g), e.exp > now PROVE e \in g.base
  <2>1. PICK n \in Ns : e \in Reachable(n)
    BY <1>2, PendingIs DEF Rest, Installed
  <2> QED
    BY <1>2, <1>7, <2>1, LiveIs
<1>8. Counted(g, {})
  <2>1. ASSUME NEW e \in ReachableLive PROVE e \in Pending(g)
    <3>1. PICK n \in Ns : e \in Reachable(n)
      BY LiveIs
    <3> QED
      BY <1>2, <1>3, <3>1, PendingIs
  <2> QED
    BY <1>2, <2>1, FS_EmptySet DEF Counted
<1>9. Sums(g)
  BY <1>2, <1>4, <1>6, <1>7, <1>8 DEF Sums
<1>10. Placed(g)
  BY <1>1, <1>2 DEF Placed
<1> QED
  BY <1>2, <1>9, <1>10 DEF Own

LEMMA VisitOwn == ASSUME Inv, SumInv, NEW p \in Proc, CountServerVisit(p) PROVE Own(p)
<1>1. WorldType /\ Trees /\ frame[p] \in Frame /\ Placed(frame[p]) /\ frame \in [Proc -> Frame]
  BY FrameKnown, TypeParts DEF Inv
<1>2. PICK f \in Frame : f = frame[p]
  BY <1>1
<1>3. f.pc = "visit" /\ f.op = "countServer" /\ Sums(f) /\ Placed(f)
  BY <1>1, <1>2 DEF CountServerVisit, SumInv
<1>4. PICK n \in f.spaces :
        frame' = [frame EXCEPT ![p] = [f EXCEPT !.pc = IF Found(n) THEN "list" ELSE "visit",
                                                !.spaces = f.spaces \ {n}, !.ns = n, !.tr = namespaces[n]]]
  BY <1>2 DEF CountServerVisit
<1>5. n \in Ns /\ namespaces[n] \in Tree
  BY <1>1 DEF Frame, WorldType
<1>6. PICK g \in Frame :
        /\ g.pc = (IF Found(n) THEN "list" ELSE "visit") /\ g.op = "countServer"
        /\ g.spaces = f.spaces \ {n} /\ g.tr = namespaces[n] /\ g.sum = f.sum
        /\ g.base = f.base /\ g.since = f.since /\ frame'[p] = g
  <2> DEFINE g == [f EXCEPT !.pc = IF Found(n) THEN "list" ELSE "visit",
                            !.spaces = f.spaces \ {n}, !.ns = n, !.tr = namespaces[n]]
  <2>1. g \in Frame
    BY <1>5 DEF Frame
  <2>2. /\ g.pc = (IF Found(n) THEN "list" ELSE "visit") /\ g.op = "countServer"
        /\ g.spaces = f.spaces \ {n} /\ g.tr = namespaces[n] /\ g.sum = f.sum
        /\ g.base = f.base /\ g.since = f.since
    BY <1>3 DEF Frame
  <2>3. frame'[p] = g
    BY <1>1, <1>4
  <2> QED
    BY <2>1, <2>2, <2>3
<1>7. Placed(g)
  BY <1>1, <1>3, <1>5, <1>6 DEF Placed, Found, Trees
<1>8. ASSUME NEW e PROVE e \in Pending(g) <=> e \in Pending(f)
  <2>1. e \in Reachable(n) <=> \E k \in Rest(g) : e \in dates[g.tr][k]
    BY <1>5, <1>6, ReachableIs DEF Rest, Found
  <2>2. Rest(f) = {}
    BY <1>3 DEF Rest
  <2> QED
    BY <1>6, <2>1, <2>2, PendingIs
<1>9. Pending(g) = Pending(f)
  BY <1>8
<1>10. ASSUME g.pc \in {"list", "scan"}, NEW m \in g.spaces PROVE namespaces[m] # g.tr
  <2>1. m \in Ns /\ m # n /\ namespaces[n] # NoTree
    BY <1>6, <1>10 DEF Found, Frame
  <2> QED
    BY <1>5, <1>6, <2>1 DEF SumInv, Unique
<1>11. Sums(g)
  BY <1>3, <1>6, <1>9, <1>10, SumsMove
<1> QED
  BY <1>6, <1>7, <1>11 DEF Own

LEMMA ScanListOwn == ASSUME Inv, SumInv, NEW p \in Proc, ScanList(p) PROVE Own(p)
<1>1. WorldType /\ Trees /\ frame[p] \in Frame /\ Placed(frame[p]) /\ frame \in [Proc -> Frame]
  BY FrameKnown, TypeParts DEF Inv
<1>2. PICK f \in Frame : f = frame[p]
  BY <1>1
<1>3. f.pc = "list" /\ Sums(f) /\ Placed(f)
  BY <1>1, <1>2 DEF ScanList, SumInv
<1>4. PICK ks \in SUBSET Key :
        /\ f.op # "keyMatch" => ks = nodes[f.tr]
        /\ frame' = [frame EXCEPT ![p] = [f EXCEPT !.pc = "scan", !.todo = ks]]
  BY <1>2 DEF ScanList
<1>5. PICK g \in Frame :
        /\ g.pc = "scan" /\ g.op = f.op /\ g.todo = ks /\ g.spaces = f.spaces /\ g.tr = f.tr
        /\ g.sum = f.sum /\ g.base = f.base /\ g.since = f.since /\ frame'[p] = g
  <2> DEFINE g == [f EXCEPT !.pc = "scan", !.todo = ks]
  <2>1. g \in Frame
    BY DEF Frame
  <2>2. /\ g.pc = "scan" /\ g.op = f.op /\ g.todo = ks /\ g.spaces = f.spaces /\ g.tr = f.tr
        /\ g.sum = f.sum /\ g.base = f.base /\ g.since = f.since
    BY DEF Frame
  <2>3. frame'[p] = g
    BY <1>1, <1>4
  <2> QED
    BY <2>1, <2>2, <2>3
<1> SUFFICES ASSUME g.op = "countServer" PROVE Placed(g) /\ Sums(g)
  BY <1>5 DEF Own
<1>6. Placed(g)
  BY <1>3, <1>5 DEF Placed
<1>7. ASSUME NEW e PROVE e \in Pending(g) <=> e \in Pending(f)
  <2>1. f.tr \in TreeId /\ ks = nodes[f.tr]
    BY <1>1, <1>3, <1>4, <1>5 DEF Placed, WorldType
  <2>2. \A k \in Key : k \notin ks => dates[f.tr][k] = {}
    BY <1>1, <2>1 DEF Trees
  <2>3. Rest(f) = Key /\ Rest(g) = ks
    BY <1>3, <1>5 DEF Rest
  <2> QED
    BY <1>5, <2>2, <2>3, PendingIs
<1>8. Pending(g) = Pending(f)
  BY <1>7
<1>9. Sums(g)
  <2>1. \A n \in g.spaces : namespaces[n] # g.tr
    BY <1>3, <1>5 DEF Sums
  <2> QED
    BY <1>3, <1>5, <1>8, <2>1, SumsMove
<1> QED
  BY <1>6, <1>9

LEMMA ScanNextOwn == ASSUME Inv, SumInv, NEW p \in Proc, ScanNext(p) PROVE Own(p)
<1>1. WorldType /\ Trees /\ frame[p] \in Frame /\ Placed(frame[p]) /\ frame \in [Proc -> Frame]
  BY FrameKnown, TypeParts DEF Inv
<1>2. PICK f \in Frame : f = frame[p]
  BY <1>1
<1>3. f.pc = "scan" /\ f.op = "countServer" /\ f.todo = {} /\ Sums(f) /\ Placed(f)
  BY <1>1, <1>2 DEF ScanNext, SumInv
<1>4. PICK g \in Frame :
        /\ g.pc = "visit" /\ g.op = f.op /\ g.spaces = f.spaces
        /\ g.sum = f.sum /\ g.base = f.base /\ g.since = f.since /\ frame'[p] = g
  <2> DEFINE g == [f EXCEPT !.pc = "visit", !.hits = 0]
  <2>1. g \in Frame
    BY DEF Frame
  <2>2. /\ g.pc = "visit" /\ g.op = f.op /\ g.spaces = f.spaces
        /\ g.sum = f.sum /\ g.base = f.base /\ g.since = f.since
    BY DEF Frame
  <2>3. frame'[p] = g
    BY <1>1, <1>2 DEF ScanNext
  <2> QED
    BY <2>1, <2>2, <2>3
<1>5. Placed(g)
  BY <1>3, <1>4 DEF Placed
<1>6. ASSUME NEW e PROVE e \in Pending(g) <=> e \in Pending(f)
  <2>1. Rest(f) = {} /\ Rest(g) = {}
    BY <1>3, <1>4 DEF Rest
  <2> QED
    BY <1>4, <2>1, PendingIs
<1>7. Pending(g) = Pending(f)
  BY <1>6
<1>8. Sums(g)
  BY <1>3, <1>4, <1>7, SumsMove
<1> QED
  BY <1>4, <1>5, <1>8 DEF Own

(* Counting a key moves its unexpired entries to the ones counted.         *)
LEMMA ScanCountOwn == ASSUME Inv, SumInv, NEW p \in Proc, ScanCount(p) PROVE Own(p)
<1>1. WorldType /\ Trees /\ frame[p] \in Frame /\ Placed(frame[p]) /\ frame \in [Proc -> Frame]
  BY FrameKnown, TypeParts DEF Inv
<1>2. PICK f \in Frame : f = frame[p]
  BY <1>1
<1>3. f.pc = "scan" /\ Sums(f) /\ Placed(f) /\ Unique
  BY <1>1, <1>2 DEF ScanCount, SumInv
<1>4. PICK t \in used, k \in Key, g \in Frame :
        /\ t = f.tr /\ k \in f.todo /\ g.pc = "scan" /\ g.op = f.op /\ g.tr = t /\ g.spaces = f.spaces
        /\ g.todo = f.todo \ {k} /\ g.since = f.since /\ g.base = f.base
        /\ g.sum = f.sum + CountResult(dates[t], k, now)
        /\ frame' = [frame EXCEPT ![p] = g]
  BY <1>2, ScanCountIs
<1>5. frame'[p] = g
  BY <1>1, <1>4
<1> SUFFICES ASSUME g.op = "countServer" PROVE Placed(g) /\ Sums(g)
  BY <1>5 DEF Own
<1>6. Placed(g)
  BY <1>3, <1>4 DEF Placed
<1>7. PICK C \in SUBSET Entry : Counted(f, C)
  BY <1>3, <1>4 DEF Sums
<1> DEFINE R == removeExpired(dates[t][k], now)
           B == C \cup R
<1>8. /\ t \in TreeId /\ \A e \in R : e \in dates[t][k] /\ e.exp > now
      /\ \A e \in dates[t][k] : e.exp > now => e \in R
      /\ R \in SUBSET Entry /\ \A e \in R : e.id < nextId
  <2>1. t \in TreeId
    BY <1>1 DEF WorldType
  <2>2. \A e \in dates[t][k] : e \in Entry /\ e.id < nextId
    BY <1>1, <2>1 DEF WorldType, Trees
  <2> QED
    BY <2>1, <2>2 DEF removeExpired
<1>9. IsFiniteSet(R) /\ g.sum = f.sum + Cardinality(R)
  BY <1>1, <1>4, <1>8, CountIs DEF CountResult
<1> HIDE DEF R
<1>10. Rest(f) = f.todo /\ Rest(g) = f.todo \ {k} /\ f.todo \subseteq Key /\ f.spaces \subseteq Ns
  BY <1>3, <1>4 DEF Rest, Frame
<1>11. ASSUME NEW e \in Pending(g) PROVE e \in Pending(f)
  BY <1>4, <1>10, PendingIs
<1>12. \A e \in R : e \in Pending(f)
  BY <1>4, <1>8, <1>10, PendingIs
<1>13. ASSUME NEW e \in R PROVE e \notin Pending(g)
  <2>1. ASSUME NEW n \in g.spaces, e \in Reachable(n) PROVE FALSE
    <3>1. n \in Ns /\ namespaces[n] # t
      BY <1>3, <1>4, <1>10, <2>1 DEF Sums
    <3> QED
      BY <1>1, <1>3, <1>8, <2>1, <3>1, FoundOnce
  <2>2. ASSUME NEW j \in Rest(g), e \in dates[g.tr][j] PROVE FALSE
    <3>1. j \in Key /\ j # k /\ g.tr = t
      BY <1>4, <1>10
    <3>2. e \in dates[t][k] /\ e \in dates[t][j]
      BY <1>8, <2>2, <3>1
    <3> QED
      <4>1. t \in TreeId /\ Unique
        BY <1>3, <1>8
      <4> QED
        BY <3>1, <3>2, <4>1, OneKey
  <2> QED
    BY <2>1, <2>2, PendingIs
<1>14. IsFiniteSet(B) /\ Cardinality(B) = g.sum
  <2>1. IsFiniteSet(C) /\ Cardinality(C) = f.sum /\ C \cap R = {}
    BY <1>7, <1>12 DEF Counted
  <2>2. Cardinality(C \cap R) = 0
    BY <2>1, FS_EmptySet
  <2>3. IsFiniteSet(B) /\ Cardinality(B) = Cardinality(C) + Cardinality(R) - Cardinality(C \cap R)
    BY <1>9, <2>1, FS_Union
  <2>4. Cardinality(C) \in Nat /\ Cardinality(R) \in Nat
    BY <1>9, <2>1, FS_CardinalityType
  <2> QED
    BY <1>9, <2>1, <2>2, <2>3, <2>4
<1>15. B \cap Pending(g) = {}
  BY <1>7, <1>11, <1>13 DEF Counted
<1>16. \A e \in B : e.id < nextId /\ (e \in g.base \/ e.id >= g.since)
  BY <1>3, <1>4, <1>7, <1>8, <1>12 DEF Counted, Sums
<1>17. \A e \in B : \A u \in TreeId : \A j \in Key : \A d \in dates[u][j] : d.id = e.id => d = e
  <2>1. ASSUME NEW e \in R, NEW u \in TreeId, NEW j \in Key, NEW d \in dates[u][j], d.id = e.id PROVE d = e
    BY <1>3, <1>8, <2>1 DEF Unique
  <2>2. ASSUME NEW e \in C, NEW u \in TreeId, NEW j \in Key, NEW d \in dates[u][j], d.id = e.id PROVE d = e
    BY <1>7, <2>2 DEF Counted
  <2> QED
    BY <2>1, <2>2
<1>18. \A d, e \in B : d.id = e.id => d = e
  <2> SUFFICES ASSUME NEW d \in B, NEW e \in B, d.id = e.id PROVE d = e
    OBVIOUS
  <2>1. CASE d \in R
    BY <1>8, <1>17, <2>1
  <2>2. CASE e \in R
    BY <1>8, <1>17, <2>2
  <2>3. CASE d \in C /\ e \in C
    BY <1>7, <2>3 DEF Counted
  <2> QED
    BY <2>1, <2>2, <2>3
<1>19. ASSUME NEW e \in g.base, e \in ReachableLive PROVE e \in B \cup Pending(g)
  <2>1. e \in C \cup Pending(f) /\ e.exp > now
    BY <1>4, <1>7, <1>19, LiveIs DEF Counted
  <2>2. ASSUME NEW j \in Rest(f), e \in dates[f.tr][j] PROVE e \in R \cup Pending(g)
    <3>1. CASE j = k
      BY <1>4, <1>8, <2>1, <2>2, <3>1
    <3>2. CASE j # k
      BY <1>4, <1>10, <2>2, <3>2, PendingIs
    <3> QED
      BY <3>1, <3>2
  <2>3. ASSUME NEW n \in f.spaces, e \in Reachable(n) PROVE e \in Pending(g)
    BY <1>4, <2>3, PendingIs
  <2> QED
    BY <2>1, <2>2, <2>3, PendingIs
<1>20. B \in SUBSET Entry
  BY <1>8
<1> HIDE DEF B
<1>21. Counted(g, B)
  BY <1>14, <1>15, <1>16, <1>17, <1>18, <1>19 DEF Counted
<1>22. Sums(g)
  <2>1. IsFiniteSet(g.base) /\ \A e \in g.base : e.id < g.since
    BY <1>3, <1>4 DEF Sums
  <2>2. \A e \in Pending(g) : e.exp > now => e \in g.base \/ e.id >= g.since
    BY <1>3, <1>4, <1>11 DEF Sums
  <2>3. \A n \in g.spaces : namespaces[n] # g.tr
    BY <1>3, <1>4 DEF Sums
  <2> QED
    BY <1>20, <1>21, <2>1, <2>2, <2>3 DEF Sums
<1> QED
  BY <1>6, <1>22

(* The steps of other calls, and the last steps of this one.               *)
LEMMA ReturnOwn == ASSUME Inv, NEW p \in Proc, Return(p) PROVE Own(p)
<1>1. frame'[p] = IdleFrame
  BY TypeParts DEF Return, Inv
<1> QED
  BY <1>1, IdleIs DEF Own

LEMMA PutOwn == ASSUME Inv, NEW p \in Proc, Put(p), frame'[p] \in Frame PROVE Own(p)
<1>1. frame[p] \in Frame /\ Placed(frame[p]) /\ frame \in [Proc -> Frame] /\ WorldType
  BY FrameKnown, TypeParts DEF Inv
<1>2. ASSUME NEW n \in Ns, NEW k \in Key, PutLookup(p, n, k) PROVE Own(p)
  <2>1. frame'[p].op = "put"
    BY <1>1, <1>2, IdleIs DEF PutLookup, Frame
  <2> QED
    BY <2>1 DEF Own
<1>3. ASSUME PutInstall(p) PROVE Own(p)
  <2>1. frame'[p].op = frame[p].op /\ frame[p].pc = "install"
    BY <1>1, <1>3 DEF PutInstall, Frame
  <2> QED
    BY <1>1, <2>1 DEF Own, Placed
<1>4. ASSUME PutTree(p) PROVE Own(p)
  BY <1>4, ReturnOwn DEF PutTree
<1> QED
  BY <1>2, <1>3, <1>4 DEF Put

LEMMA ScanOwn ==
    ASSUME Inv, SumInv, NEW p \in Proc, Count(p) \/ Scan(p) \/ CountServerEntries(p), frame'[p] \in Frame
    PROVE  Own(p)
<1>1. frame[p] \in Frame /\ frame \in [Proc -> Frame]
  BY FrameKnown, TypeParts DEF Inv
<1>2. ASSUME NEW o \in {"count", "countEntries", "keyMatch"}, NEW n \in Ns, NEW k, Lookup(p, o, n, k)
      PROVE  Own(p)
  <2>1. frame'[p].op = o
    BY <1>1, <1>2, IdleIs DEF Lookup, Frame
  <2> QED
    BY <2>1 DEF Own
<1>3. ASSUME NEW n \in Ns, NEW k \in Key, CountLookup(p, n, k) PROVE Own(p)
  <2>1. "count" \in {"count", "countEntries", "keyMatch"} /\ Lookup(p, "count", n, k)
    BY <1>3 DEF CountLookup
  <2> QED
    BY <1>2, <2>1
<1>4. ASSUME NEW n \in Ns, CountEntriesLookup(p, n) \/ KeyMatchLookup(p, n) PROVE Own(p)
  <2>1. PICK o \in {"count", "countEntries", "keyMatch"} : Lookup(p, o, n, IdleFrame.key)
    BY <1>4 DEF CountEntriesLookup, KeyMatchLookup
  <2> QED
    BY <1>2, <2>1
<1>5. ASSUME CountTree(p) \/ ScanReturn(p) \/ CountServerReturn(p) PROVE Own(p)
  BY <1>5, ReturnOwn DEF CountTree, ScanReturn, CountServerReturn
<1> QED
  BY <1>3, <1>4, <1>5, ListOwn, VisitOwn, ScanListOwn, ScanNextOwn, ScanCountOwn
     DEF Count, Scan, CountServerEntries

LEMMA CleanupOwn ==
    ASSUME Inv, SumInv, NEW p \in Proc, runCleanup(p), frame'[p] \in Frame
    PROVE  Own(p)
<1>1. frame[p] \in Frame /\ Placed(frame[p]) /\ Sums(frame[p]) /\ frame \in [Proc -> Frame]
  BY FrameKnown, TypeParts DEF Inv, SumInv
<1>2. ASSUME TimerFires(p) \/ Namespaces(p) PROVE Own(p)
  <2>1. CleanupList(p)
    BY <1>2 DEF TimerFires, Namespaces
  <2>2. frame'[p].op = "cleanup"
    BY <1>1, <2>1, IdleIs DEF CleanupList, Frame
  <2> QED
    BY <2>2 DEF Own
<1>3. ASSUME TimerStops(p) PROVE Own(p)
  <2>1. frame'[p] = frame[p]
    BY <1>3 DEF TimerStops
  <2> QED
    BY <1>1, <2>1 DEF Own
<1>4. ASSUME CleanupFetch(p) PROVE Own(p)
  <2>1. PICK f \in Frame : f.op = "cleanup" /\ frame' = [frame EXCEPT ![p] = f]
    BY <1>4, CleanupFetchIs
  <2>2. frame'[p] = f
    BY <1>1, <2>1
  <2> QED
    BY <2>1, <2>2 DEF Own
<1>5. ASSUME CleanupVisit(p) \/ CleanupScanned(p) \/ CleanupDrop(p) PROVE Own(p)
  <2>1. frame[p].op = "cleanup"
    BY <1>1, <1>5 DEF CleanupVisit, CleanupScanned, CleanupDrop, Placed
  <2>2. frame'[p].op = frame[p].op
    <3>1. CASE CleanupVisit(p)
      BY <1>1, <3>1 DEF CleanupVisit, Frame
    <3>2. CASE CleanupScanned(p)
      BY <1>1, <3>2 DEF CleanupScanned, Frame
    <3>3. CASE CleanupDrop(p)
      BY <1>1, <3>3 DEF CleanupDrop, Frame
    <3> QED
      BY <1>5, <3>1, <3>2, <3>3
  <2> QED
    BY <2>1, <2>2 DEF Own
<1>6. ASSUME CleanupReturn(p) PROVE Own(p)
  BY <1>6, ReturnOwn DEF CleanupReturn
<1> QED
  BY <1>2, <1>3, <1>4, <1>5, <1>6 DEF runCleanup

(* A step changes the locals of the goroutine that takes it.               *)
LEMMA OneMoves ==
    ASSUME Inv, [Next]_vars
    PROVE  \/ UNCHANGED frame
           \/ \E p \in Proc :
                /\ Put(p) \/ Count(p) \/ Scan(p) \/ CountServerEntries(p) \/ runCleanup(p)
                /\ \A q \in Proc : q # p => frame'[q] = frame[q]
<1>1. frame \in [Proc -> Frame]
  BY TypeParts DEF Inv
<1>2. CASE UNCHANGED vars \/ Tick \/ EnableCleanup \/ DisableCleanup
  BY <1>2 DEF vars, Tick, EnableCleanup, DisableCleanup
<1>3. ASSUME NEW p \in Proc, Put(p) PROVE \A q \in Proc : q # p => frame'[q] = frame[q]
  BY <1>1, <1>3 DEF Put, PutLookup, PutInstall, PutTree, Return
<1>4. ASSUME NEW p \in Proc, Count(p) PROVE \A q \in Proc : q # p => frame'[q] = frame[q]
  BY <1>1, <1>4 DEF Count, CountLookup, Lookup, CountTree, Return
<1>5. ASSUME NEW p \in Proc, Scan(p) PROVE \A q \in Proc : q # p => frame'[q] = frame[q]
  <2>1. ASSUME ScanCount(p) PROVE \A q \in Proc : q # p => frame'[q] = frame[q]
    BY <1>1, <2>1, ScanCountIs
  <2>2. ASSUME ScanList(p) \/ ScanReturn(p) \/ ScanNext(p) PROVE \A q \in Proc : q # p => frame'[q] = frame[q]
    BY <1>1, <2>2 DEF ScanList, ScanReturn, ScanNext, Return
  <2> QED
    BY <1>1, <1>5, <2>1, <2>2 DEF Scan, CountEntriesLookup, KeyMatchLookup, Lookup
<1>6. ASSUME NEW p \in Proc, CountServerEntries(p) PROVE \A q \in Proc : q # p => frame'[q] = frame[q]
  BY <1>1, <1>6 DEF CountServerEntries, CountServerList, CountServerVisit, CountServerReturn, Return
<1>7. ASSUME NEW p \in Proc, runCleanup(p) PROVE \A q \in Proc : q # p => frame'[q] = frame[q]
  <2>1. ASSUME CleanupFetch(p) PROVE \A q \in Proc : q # p => frame'[q] = frame[q]
    BY <1>1, <2>1, CleanupFetchIs
  <2>2. ASSUME TimerFires(p) \/ TimerStops(p) \/ Namespaces(p) \/ CleanupReturn(p)
        PROVE  \A q \in Proc : q # p => frame'[q] = frame[q]
    BY <1>1, <2>2 DEF TimerFires, TimerStops, Namespaces, CleanupList, CleanupReturn, Return
  <2>3. ASSUME CleanupVisit(p) \/ CleanupScanned(p) \/ CleanupDrop(p)
        PROVE  \A q \in Proc : q # p => frame'[q] = frame[q]
    BY <1>1, <2>3 DEF CleanupVisit, CleanupScanned, CleanupDrop
  <2> QED
    BY <1>7, <2>1, <2>2, <2>3 DEF runCleanup
<1> QED
  BY <1>2, <1>3, <1>4, <1>5, <1>6, <1>7 DEF Next

(* At most one entry z comes, with a new id.                               *)
OneComes(x, y, z) ==
    \A v \in TreeId : \A i \in Key : \A c \in dates'[v][i] :
        c \in dates[v][i] \/ (v = x /\ i = y /\ c = z /\ c.id >= nextId)

LEMMA IdsUnique ==
    ASSUME Inv, Unique, NEW x, NEW y, NEW z, OneComes(x, y, z),
           NEW t \in TreeId, NEW u \in TreeId, NEW k \in Key, NEW j \in Key,
           NEW d, NEW e, d \in dates'[t][k], e \in dates'[u][j], d.id = e.id
    PROVE  t = u /\ k = j /\ d = e
<1>1. WorldType /\ Trees /\ nextId \in Nat
  BY TypeParts DEF Inv, WorldType
<1>2. d \in dates[t][k] => d.id \in Nat /\ d.id < nextId
  BY <1>1 DEF Trees, WorldType, Entry
<1>3. e \in dates[u][j] => e.id \in Nat /\ e.id < nextId
  BY <1>1 DEF Trees, WorldType, Entry
<1>4. d \in dates[t][k] \/ (t = x /\ k = y /\ d = z /\ d.id >= nextId)
  BY DEF OneComes
<1>5. e \in dates[u][j] \/ (u = x /\ j = y /\ e = z /\ e.id >= nextId)
  BY DEF OneComes
<1>6. CASE d \in dates[t][k] /\ e \in dates[u][j]
  <2>1. \A v, w \in TreeId : \A i, l \in Key : \A b \in dates[v][i], c \in dates[w][l] :
          b.id = c.id => v = w /\ i = l /\ b = c
    BY DEF Unique
  <2> QED
    BY <1>6, <2>1
<1>7. CASE ~(d \in dates[t][k] /\ e \in dates[u][j])
  BY <1>1, <1>2, <1>3, <1>4, <1>5, <1>7
<1> QED
  BY <1>6, <1>7

LEMMA UniqueStep == ASSUME Inv, Inv', Unique, [Next]_vars PROVE Unique'
<1>1. /\ WorldType /\ Trees /\ WorldType' /\ Trees' /\ Grows /\ nextId \in Nat
      /\ \A e \in Entry : e.id \in Nat
  BY TypeParts, StepWorld DEF Inv, TypeOK, WorldType, Entry
<1>2. ASSUME NEW t \in TreeId, NEW u \in TreeId, NEW k \in Key, NEW j \in Key,
             NEW d, NEW e, d \in dates'[t][k], e \in dates'[u][j], d.id = e.id
      PROVE  t = u /\ k = j /\ d = e
  <2>1. CASE nextId' = nextId
    <3>1. ASSUME NEW v \in TreeId, NEW i \in Key, NEW c \in dates'[v][i] PROVE c \in dates[v][i]
      <4>1. c.id < nextId /\ c.id \in Nat
        BY <1>1, <2>1 DEF Trees, WorldType
      <4>2. c \in dates[v][i] \/ c.id >= nextId
        BY <1>1 DEF Grows
      <4> QED
        BY <1>1, <4>1, <4>2
    <3>2. OneComes(0, 0, 0)
      BY <3>1 DEF OneComes
    <3> QED
      BY <1>2, <3>2, IdsUnique
  <2>2. ASSUME NEW p \in Proc, PutTree(p) PROVE t = u /\ k = j /\ d = e
    <3>1. PICK secs \in {now, now + 1} :
            ListsChange(frame[p].tr, frame[p].key, {[id |-> nextId, exp |-> secs + TTL]})
      BY <2>2, PutTreeWorld
    <3>2. PICK x, y, z : x = frame[p].tr /\ y = frame[p].key /\ z = [id |-> nextId, exp |-> secs + TTL]
      OBVIOUS
    <3>3. z.id >= nextId
      BY <1>1, <3>2
    <3>4. ASSUME NEW v \in TreeId, NEW i \in Key, NEW c \in dates'[v][i]
          PROVE  c \in dates[v][i] \/ (v = x /\ i = y /\ c = z /\ c.id >= nextId)
      <4>1. dates'[v][i] = IF v = x /\ i = y THEN removeExpired(dates[x][y], now) \cup {z} ELSE dates[v][i]
        BY <3>1, <3>2 DEF ListsChange
      <4>2. CASE v = x /\ i = y
        BY <3>3, <4>1, <4>2 DEF removeExpired
      <4>3. CASE ~(v = x /\ i = y)
        BY <4>1, <4>3
      <4> QED
        BY <4>2, <4>3
    <3>5. OneComes(x, y, z)
      BY <3>4 DEF OneComes
    <3> QED
      BY <1>2, <3>5, IdsUnique
  <2> QED
    BY <2>1, <2>2, NextIdStays
<1>3. ASSUME NEW n \in Ns, NEW m \in Ns, namespaces'[n] = namespaces'[m], namespaces'[n] # NoTree
      PROVE  n = m
  <2>1. CASE UNCHANGED <<namespaces, used>>
    BY <1>3, <2>1 DEF Unique
  <2>2. ASSUME NEW p \in Proc, NEW t \in Tree, Replaces(p, t) PROVE n = m
    <3>1. /\ t \notin used
          /\ \A i \in Ns : namespaces'[i] = IF i = frame[p].ns THEN t ELSE namespaces[i]
      BY <1>1, <2>2 DEF Replaces, WorldType
    <3>2. \A i \in Ns : namespaces[i] \in used \cup {NoTree}
      BY <1>1 DEF Trees
    <3> QED
      BY <1>3, <3>1, <3>2 DEF Unique
  <2> QED
    BY <2>1, <2>2, StepWorld
<1>4. \A t, u \in TreeId : \A k, j \in Key : \A d \in dates'[t][k], e \in dates'[u][j] :
        d.id = e.id => t = u /\ k = j /\ d = e
  BY <1>2
<1> QED
  BY <1>3, <1>4 DEF Unique

LEMMA FreshStep == ASSUME Inv, [Next]_vars PROVE Fresh
<1>1. CASE UNCHANGED <<namespaces, used>>
  BY <1>1 DEF Fresh
<1>2. ASSUME NEW p \in Proc, NEW t \in Tree, Replaces(p, t) PROVE Fresh
  <2>1. /\ t \notin used
        /\ \A i \in Ns : namespaces'[i] = IF i = frame[p].ns THEN t ELSE namespaces[i]
    BY <1>2, TypeParts DEF Replaces, WorldType, Inv
  <2> QED
    BY <2>1 DEF Fresh
<1> QED
  BY <1>1, <1>2, StepWorld

LEMMA SumStep == ASSUME Inv, Inv', SumInv, [Next]_vars PROVE SumInv'
<1>1. /\ WorldType /\ WorldType' /\ Unique /\ Grows /\ Keeps /\ Fresh
      /\ frame \in [Proc -> Frame] /\ frame' \in [Proc -> Frame]
  BY TypeParts, StepWorld, FreshStep DEF Inv, TypeOK, WorldType, SumInv
<1>2. ASSUME NEW q \in Proc, NEW g \in Frame, frame'[q] = g, g.op = "countServer" => Placed(g) /\ Sums(g)
      PROVE  Sums(frame[q])'
  <2>1. Sums(g)'
    <3>1. CASE g.op # "countServer"
      BY <3>1 DEF Sums
    <3>2. CASE g.op = "countServer"
      BY <1>1, <1>2, <3>2, SumsKept
    <3> QED
      BY <3>1, <3>2
  <2>2. g = frame'[q]
    BY <1>2
  <2>3. Pending(g)' = Pending(frame[q])'
    BY <2>2 DEF Pending, Rest
  <2> QED
    BY <2>1, <2>2, <2>3 DEF Sums, Counted
<1>3. ASSUME NEW q \in Proc, frame'[q] = frame[q] PROVE Sums(frame[q])'
  <2>1. PICK g \in Frame : g = frame[q]
    BY <1>1
  <2>2. Placed(g) /\ Sums(g)
    BY <2>1 DEF Inv, SumInv
  <2> QED
    BY <1>2, <1>3, <2>1, <2>2
<1>4. ASSUME NEW p \in Proc, Put(p) \/ Count(p) \/ Scan(p) \/ CountServerEntries(p) \/ runCleanup(p)
      PROVE  Sums(frame[p])'
  <2>1. frame'[p] \in Frame
    BY <1>1
  <2>2. Own(p)
    BY <1>4, <2>1, PutOwn, ScanOwn, CleanupOwn
  <2> QED
    BY <1>2, <2>2 DEF Own
<1>5. \A q \in Proc : Sums(frame[q])'
  BY <1>3, <1>4, OneMoves
<1> QED
  BY <1>1, <1>5, UniqueStep DEF SumInv

LEMMA SumInit == Init => SumInv
<1> SUFFICES ASSUME Init PROVE SumInv
  OBVIOUS
<1>1. Unique
  BY DEF Init, Unique, NoDates, NoSubtrees
<1>2. \A p \in Proc : Sums(frame[p])
  BY IdleIs DEF Init, Sums
<1> QED
  BY <1>1, <1>2 DEF SumInv

(* At the end of the call nothing is pending any more.                     *)
LEMMA SumAtEnd ==
    ASSUME Inv, NEW f \in Frame, Placed(f), Sums(f), f.pc = "visit", f.op = "countServer", f.spaces = {}
    PROVE  /\ Cardinality(f.base \cap ReachableLive) <= f.sum
           /\ f.sum <= Cardinality(f.base) + nextId - f.since
<1>1. PICK C \in SUBSET Entry : Counted(f, C)
  BY DEF Sums
<1>2. Pending(f) = {}
  <2>1. Rest(f) = {}
    BY DEF Rest
  <2> QED
    BY <2>1, PendingIs
<1>3. IsFiniteSet(C) /\ Cardinality(C) = f.sum /\ Cardinality(C) \in Nat
  BY <1>1, FS_CardinalityType DEF Counted
<1>4. f.base \cap ReachableLive \in SUBSET C
  BY <1>1, <1>2 DEF Counted
<1>5. Cardinality(f.base \cap ReachableLive) <= f.sum
  BY <1>3, <1>4, FS_Subset
<1> DEFINE O == C \cap f.base
           N == C \ f.base
<1>6. IsFiniteSet(f.base) /\ Cardinality(f.base) \in Nat /\ f.since \in Nat /\ nextId \in Nat /\ f.since <= nextId
  <2>1. IsFiniteSet(f.base)
    BY DEF Sums
  <2>2. nextId \in Nat
    BY DEF Inv, TypeOK
  <2>3. f.since \in Nat /\ f.since <= nextId
    BY DEF Frame, Placed
  <2> QED
    BY <2>1, <2>2, <2>3, FS_CardinalityType
<1>7. Cardinality(O) <= Cardinality(f.base) /\ IsFiniteSet(O)
  <2>1. O \in SUBSET f.base
    OBVIOUS
  <2> QED
    BY <1>6, <2>1, FS_Subset
<1>8. Cardinality(N) <= nextId - f.since /\ IsFiniteSet(N)
  <2>1. N \in SUBSET Entry
    OBVIOUS
  <2>2. \A e \in N : f.since <= e.id /\ e.id < nextId
    BY <1>1, <1>6 DEF Counted, Entry
  <2>3. \A d, e \in N : d.id = e.id => d = e
    BY <1>1 DEF Counted
  <2> HIDE DEF N
  <2> QED
    BY <1>6, <2>1, <2>2, <2>3, ByIds
<1>9. Cardinality(C) <= Cardinality(O) + Cardinality(N)
  <2>1. C = O \cup N /\ O \cap N = {}
    OBVIOUS
  <2>2. Cardinality(O \cap N) = 0
    BY <2>1, FS_EmptySet
  <2> HIDE DEF O, N
  <2>3. Cardinality(O \cup N) = Cardinality(O) + Cardinality(N) - Cardinality(O \cap N)
    BY <1>7, <1>8, FS_Union
  <2>4. Cardinality(O) \in Nat /\ Cardinality(N) \in Nat
    BY <1>7, <1>8, FS_CardinalityType
  <2>5. Cardinality(C) = Cardinality(O) + Cardinality(N)
    BY <2>1, <2>2, <2>3, <2>4
  <2> QED
    BY <2>4, <2>5
<1>10. Cardinality(O) \in Nat /\ Cardinality(N) \in Nat
  BY <1>7, <1>8, FS_CardinalityType
<1> HIDE DEF O, N
<1>11. f.sum <= Cardinality(f.base) + nextId - f.since
  BY <1>3, <1>6, <1>7, <1>8, <1>9, <1>10
<1> QED
  BY <1>5, <1>11

(* CountServerEntries, which looks every namespace up again while others   *)
(* put, replace and remove namespaces, returns a sum that is at least the  *)
(* number of entries that could be counted during the whole call and at    *)
(* most the number that could at some point of it.                         *)
THEOREM ServerSum == Spec => []ServerSumBounds
<1>1. Inv /\ SumInv => ServerSumBounds
  <2> SUFFICES ASSUME Inv, SumInv, NEW p \in Proc, frame[p].pc = "visit", frame[p].op = "countServer",
                      frame[p].spaces = {}
               PROVE  /\ Cardinality(frame[p].base \cap ReachableLive) <= frame[p].sum
                      /\ frame[p].sum <= Cardinality(frame[p].base) + nextId - frame[p].since
    BY DEF ServerSumBounds
  <2>1. frame[p] \in Frame /\ Placed(frame[p]) /\ Sums(frame[p])
    BY FrameKnown DEF SumInv
  <2> QED
    BY <2>1, SumAtEnd
<1>2. Inv /\ Inv' /\ SumInv /\ [Next]_vars => SumInv'
  BY SumStep
<1>3. Spec => []SumInv
  BY <1>2, SumInit, Always, PTL DEF Spec
<1> QED
  BY <1>1, <1>3, Always, PTL
=============================================================================
