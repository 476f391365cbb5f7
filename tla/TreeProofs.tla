----------------------------- MODULE TreeProofs -----------------------------
(***************************************************************************)
(* Proofs about module Tree, for every set of keys and goroutines, every   *)
(* TTL and every number of Puts.                                           *)
(***************************************************************************)
EXTENDS Tree, FiniteSetTheorems, TLAPS

USE KeyAssumption, TTLAssumption, PatternAssumption, BoundAssumption

(* What is stored at a key is finite, has a node, was put in the past and  *)
(* expires at most TTL seconds from now, later entries not earlier.        *)
Stored ==
    \A k \in Key :
        /\ IsFiniteSet(dates[k])
        /\ dates[k] # {} => k \in nodes
        /\ \A d \in dates[k] : d.id < nextId /\ d.exp <= now + TTL
        /\ \A d, e \in dates[k] : d.id < e.id => d.exp <= e.exp

(* Removing expired entries keeps a list finite, and its length is 0 only  *)
(* if nothing unexpired was in it (tree.go, removeExpired).                *)
LEMMA RemoveExpiredFinite ==
    ASSUME NEW S, IsFiniteSet(S), NEW time
    PROVE  /\ IsFiniteSet(removeExpired(S, time))
           /\ Cardinality(removeExpired(S, time)) \in Nat
           /\ Cardinality(removeExpired(S, time)) = 0 <=> removeExpired(S, time) = {}
<1>1. removeExpired(S, time) \subseteq S
  BY DEF removeExpired
<1>2. IsFiniteSet(removeExpired(S, time))
  BY <1>1, FS_Subset
<1> QED
  BY <1>2, FS_CardinalityType, FS_EmptySet

(* The idle frame and the frames that calls begin with are frames.         *)
LEMMA FrameTypes ==
    ASSUME NEW pc \in {"idle", "keys", "first", "loop", "count"},
           NEW lists \in [Key -> SUBSET Entry], NEW id \in Nat
    PROVE  NewFrame(pc, lists, id) \in Frame
BY DEF NewFrame, Frame

LEMMA IdleFrameType == IdleFrame \in Frame
<1>1. NoDates \in [Key -> SUBSET Entry]
  BY DEF NoDates
<1> QED
  BY <1>1, FrameTypes DEF IdleFrame

LEMMA EntryType ==
    ASSUME NEW id \in Nat, NEW secs \in Nat
    PROVE  [id |-> id, exp |-> secs + TTL] \in Entry
BY DEF Entry

LEMMA LiveType ==
    ASSUME NEW lists \in [Key -> SUBSET Entry], NEW time
    PROVE  Live(lists, time) \in [Key -> SUBSET Entry]
BY DEF Live, removeExpired

LEMMA ExpTypes ==
    ASSUME NEW lists \in [Key -> SUBSET Entry]
    PROVE  \A k \in Key : \A d \in lists[k] : d.exp \in Nat
<1> SUFFICES ASSUME NEW k \in Key, NEW d \in lists[k] PROVE d.exp \in Nat
  OBVIOUS
<1>1. d \in Entry
  OBVIOUS
<1> QED
  BY <1>1 DEF Entry

LEMMA LeastIn ==
    ASSUME NEW S \in SUBSET Key PROVE Least(S) \subseteq S
BY DEF Least

(* The effect of Tree.Count on types and on what is stored.                *)
LEMMA CountPreserves ==
    ASSUME TypeOK, Stored, NEW t \in Thread, NEW k \in Key, DoCount(t, k)
    PROVE  /\ nodes' \subseteq Key
           /\ dates' \in [Key -> SUBSET Entry]
           /\ keyCount' \in [Thread -> Nat]
           /\ torn' \subseteq Thread
           /\ now' = now /\ nextId' = nextId /\ crashed' = crashed
           /\ CountResult(dates, k, now) \in Nat
           /\ Stored'
<1>1. CountResult(dates, k, now) \in Nat
  BY RemoveExpiredFinite DEF CountResult, Stored
<1>2. /\ nodes' = getAndCleanupUnsafe(nodes, dates, k)
      /\ dates' = [dates EXCEPT ![k] = removeExpired(dates[k], now)]
      /\ keyCount' = [keyCount EXCEPT ![t] = CountResult(dates, k, now)]
      /\ torn' \subseteq torn \cup Thread
      /\ now' = now /\ nextId' = nextId /\ crashed' = crashed
  BY DEF DoCount, CountNodes, CountDates, Tear
<1>3. /\ nodes' \subseteq Key
      /\ dates' \in [Key -> SUBSET Entry]
      /\ keyCount' \in [Thread -> Nat]
      /\ torn' \subseteq Thread
  BY <1>1, <1>2 DEF TypeOK, getAndCleanupUnsafe, removeExpired
<1>4. Stored'
  <2> SUFFICES ASSUME NEW j \in Key
               PROVE  /\ IsFiniteSet(dates'[j])
                      /\ dates'[j] # {} => j \in nodes'
                      /\ \A d \in dates'[j] : d.id < nextId' /\ d.exp <= now' + TTL
                      /\ \A d, e \in dates'[j] : d.id < e.id => d.exp <= e.exp
    BY DEF Stored
  <2>1. dates'[j] = IF j = k THEN removeExpired(dates[k], now) ELSE dates[j]
    BY <1>2 DEF TypeOK
  <2>2. dates'[j] \subseteq dates[j]
    BY <2>1 DEF removeExpired
  <2>3. IsFiniteSet(dates'[j])
    BY <2>2, FS_Subset DEF Stored
  <2>4. dates'[j] # {} => j \in nodes'
    <3> SUFFICES ASSUME dates'[j] # {} PROVE j \in nodes'
      OBVIOUS
    <3>1. dates[j] # {} /\ j \in nodes
      BY <2>2 DEF Stored
    <3> QED
      BY <1>2, <3>1 DEF getAndCleanupUnsafe
  <2> QED
    BY <1>2, <2>2, <2>3, <2>4 DEF Stored
<1> QED
  BY <1>1, <1>2, <1>3, <1>4

(* The effect of Tree.Put.                                                 *)
LEMMA PutPreserves ==
    ASSUME TypeOK, Stored, NEW t \in Thread, NEW k \in Key, Put(t, k)
    PROVE  TypeOK' /\ Stored'
<1>1. PICK secs \in {now, now + 1} : PutAt(t, k, secs)
  BY DEF Put
<1> DEFINE e == [id |-> nextId, exp |-> secs + TTL]
<1>2. /\ secs \in Nat /\ now \in Nat /\ now <= secs
      /\ now' = secs /\ nextId' = nextId + 1
      /\ nodes' = getAndCleanupUnsafe(nodes, dates, k) \cup {k}
      /\ dates' = [dates EXCEPT ![k] = removeExpired(dates[k], now) \cup {e}]
      /\ torn' \subseteq torn \cup Thread
      /\ UNCHANGED <<keyCount, frame, crashed>>
  BY <1>1 DEF PutAt, PutNodes, PutDates, Tear, TypeOK
<1>3. e \in Entry
  BY <1>2, EntryType DEF TypeOK
<1>4. TypeOK'
  BY <1>2, <1>3 DEF TypeOK, getAndCleanupUnsafe, removeExpired
<1>5. Stored'
  <2> SUFFICES ASSUME NEW j \in Key
               PROVE  /\ IsFiniteSet(dates'[j])
                      /\ dates'[j] # {} => j \in nodes'
                      /\ \A d \in dates'[j] : d.id < nextId' /\ d.exp <= now' + TTL
                      /\ \A c, d \in dates'[j] : c.id < d.id => c.exp <= d.exp
    BY DEF Stored
  <2>1. dates'[j] = IF j = k THEN removeExpired(dates[k], now) \cup {e} ELSE dates[j]
    BY <1>2 DEF TypeOK
  <2>2. IsFiniteSet(dates'[j])
    <3>1. IsFiniteSet(dates[j]) /\ IsFiniteSet(removeExpired(dates[k], now))
      BY RemoveExpiredFinite DEF Stored
    <3>2. IsFiniteSet(removeExpired(dates[k], now) \cup {e})
      BY <3>1, FS_AddElement
    <3> HIDE DEF e
    <3> QED
      BY <2>1, <3>1, <3>2
  <2>3. dates'[j] # {} => j \in nodes'
    BY <1>2, <2>1 DEF Stored, getAndCleanupUnsafe
  <2>4. \A d \in dates'[j] : d = e \/ d \in dates[j]
    BY <2>1 DEF removeExpired
  <2>5. \A d \in dates[j] : /\ d.id \in Nat /\ d.exp \in Nat
                           /\ d.id < nextId /\ d.exp <= now + TTL
    BY DEF Stored, TypeOK, Entry
  <2>6. e.id = nextId /\ e.exp = secs + TTL
    OBVIOUS
  <2>7. \A d \in dates'[j] : d.id < nextId' /\ d.exp <= now' + TTL
    BY <1>2, <2>4, <2>5, <2>6 DEF TypeOK
  <2>8. \A c, d \in dates'[j] : c.id < d.id => c.exp <= d.exp
    BY <1>2, <2>4, <2>5, <2>6 DEF TypeOK, Stored
  <2> QED
    BY <2>2, <2>3, <2>7, <2>8
<1> QED
  BY <1>4, <1>5

-----------------------------------------------------------------------------
(* The changes the actions make to a frame.                                *)
LEMMA FrameUpdates ==
    ASSUME NEW f \in Frame, NEW S \in SUBSET Key, NEW T \in SUBSET Key, NEW n \in Nat,
           NEW pc \in {"idle", "keys", "first", "loop", "count"}
    PROVE  /\ [f EXCEPT !.todo = S, !.outCount = n, !.outKeys = T] \in Frame
           /\ [f EXCEPT !.pc = pc, !.at = S] \in Frame
           /\ [f EXCEPT !.at = S, !.pc = pc, !.cur = T] \in Frame
           /\ [f EXCEPT !.pc = pc, !.cur = S, !.out = T] \in Frame
<1>1. [f EXCEPT !.todo = S, !.outCount = n, !.outKeys = T] \in Frame
  BY DEF Frame
<1>2. [f EXCEPT !.pc = pc, !.at = S] \in Frame
  BY DEF Frame
<1>3. [f EXCEPT !.at = S, !.pc = pc, !.cur = T] \in Frame
  BY DEF Frame
<1>4. [f EXCEPT !.pc = pc, !.cur = S, !.out = T] \in Frame
  BY DEF Frame
<1> QED
  BY <1>1, <1>2, <1>3, <1>4

LEMMA FrameUpdated ==
    ASSUME TypeOK, NEW t \in Thread, NEW g \in Frame, frame' = [frame EXCEPT ![t] = g]
    PROVE  frame' \in [Thread -> Frame]
BY DEF TypeOK

(* The actions that touch only their goroutine's locals.                   *)
LocalStep == UNCHANGED <<now, nextId, nodes, dates, keyCount>>

LEMMA LocalPreserves ==
    ASSUME TypeOK, Stored, LocalStep,
           frame' \in [Thread -> Frame], torn' \subseteq Thread, crashed' \in BOOLEAN
    PROVE  TypeOK' /\ Stored'
BY DEF LocalStep, TypeOK, Stored

LEMMA KeysTypes ==
    ASSUME TypeOK, Stored, NEW t \in Thread, Keys(t)
    PROVE  TypeOK' /\ Stored'
<1>1. CASE KeysList(t)
  <2>1. NewFrame("keys", Live(dates, now), nextId) \in Frame
    BY FrameTypes, LiveType DEF TypeOK
  <2>2. [NewFrame("keys", Live(dates, now), nextId) EXCEPT !.todo = nodes] \in Frame
    BY <2>1 DEF TypeOK, Frame
  <2>3. frame' \in [Thread -> Frame]
    BY <1>1, <2>2 DEF KeysList, TypeOK
  <2> QED
    BY <1>1, <2>3, LocalPreserves DEF KeysList, LocalStep, TypeOK
<1>2. CASE KeysCount(t)
  <2>1. PICK k \in Least(frame[t].todo) :
          /\ DoCount(t, k)
          /\ frame' = [frame EXCEPT ![t] =
               [frame[t] EXCEPT
                  !.todo = frame[t].todo \ {k},
                  !.outCount = AddUp(frame[t].outCount, CountResult(dates, k, now)),
                  !.outKeys = IF KeyCounts(CountResult(dates, k, now))
                              THEN frame[t].outKeys \cup {k} ELSE frame[t].outKeys]]
    BY <1>2 DEF KeysCount
  <2>2. k \in Key /\ frame[t] \in Frame
    BY LeastIn DEF TypeOK, Frame
  <2>3. CountResult(dates, k, now) \in Nat
    BY <2>1, <2>2, CountPreserves
  <2> DEFINE c == CountResult(dates, k, now)
             S == frame[t].todo \ {k}
             T == IF KeyCounts(c) THEN frame[t].outKeys \cup {k} ELSE frame[t].outKeys
             n == AddUp(frame[t].outCount, c)
             g == [frame[t] EXCEPT !.todo = S, !.outCount = n, !.outKeys = T]
  <2>4. S \in SUBSET Key /\ T \in SUBSET Key /\ n \in Nat
    BY <2>2, <2>3 DEF Frame, AddUp
  <2>5. frame' \in [Thread -> Frame]
    <3>1. frame' = [frame EXCEPT ![t] = g]
      BY <2>1
    <3>2. g \in Frame
      <4> HIDE DEF S, T, n
      <4> QED BY <2>2, <2>4, FrameUpdates
    <3> HIDE DEF g
    <3> QED
      BY <3>1, <3>2, FrameUpdated
  <2> QED
    BY <2>1, <2>2, <2>5, CountPreserves DEF TypeOK
<1>3. CASE KeysReturn(t)
  BY <1>3, IdleFrameType, LocalPreserves DEF KeysReturn, Return, LocalStep, TypeOK
<1> QED
  BY <1>1, <1>2, <1>3 DEF Keys

LEMMA SuccessorIn ==
    ASSUME TypeOK, NEW k PROVE Successor(nodes, k) \subseteq nodes
BY DEF Successor, Least, TypeOK

LEMMA NextNodesIn ==
    ASSUME TypeOK, NEW t, NEW proper \in SUBSET nodes, NEW n \in NextNodes(t, proper)
    PROVE  n \in SUBSET nodes /\ n \in SUBSET Key
<1>1. CASE t \in torn
  <2>1. n = {} \/ \E k \in nodes : n = {k}
    BY <1>1 DEF NextNodes
  <2> QED
    BY <2>1 DEF TypeOK
<1>2. CASE t \notin torn
  BY <1>2 DEF NextNodes, TypeOK
<1> QED
  BY <1>1, <1>2

LEMMA KeyMatchTypes ==
    ASSUME TypeOK, Stored, NEW t \in Thread, KeyMatch(t)
    PROVE  TypeOK' /\ Stored'
<1> USE DEF LocalStep
<1>1. ASSUME NEW p \in Pattern, KeyMatchCall(t, p) PROVE TypeOK' /\ Stored'
  <2>1. NewFrame("first", Live(dates, now), nextId) \in Frame
    BY FrameTypes, LiveType DEF TypeOK
  <2>2. [NewFrame("first", Live(dates, now), nextId) EXCEPT !.match = p] \in Frame
    BY <2>1 DEF Frame
  <2>3. frame' \in [Thread -> Frame]
    BY <1>1, <2>2 DEF KeyMatchCall, TypeOK
  <2> QED
    BY <1>1, <2>3, LocalPreserves DEF KeyMatchCall, TypeOK
<1>2. CASE KeyMatchFirst(t)
  <2>1. PICK n \in NextNodes(t, Least(nodes)) :
          frame' = [frame EXCEPT ![t] = [frame[t] EXCEPT !.pc = "loop", !.at = n]]
    BY <1>2 DEF KeyMatchFirst
  <2>2. n \in SUBSET Key
    BY <2>1, NextNodesIn, LeastIn DEF TypeOK
  <2>3. [frame[t] EXCEPT !.pc = "loop", !.at = n] \in Frame
    BY <2>2, FrameUpdates DEF TypeOK
  <2>4. frame' \in [Thread -> Frame]
    BY <2>1, <2>3, FrameUpdated
  <2> QED
    BY <1>2, <2>4, LocalPreserves DEF KeyMatchFirst, TypeOK
<1>3. CASE KeyMatchStep(t)
  <2>1. PICK k \in (IF t \in torn THEN frame[t].at \cup nodes ELSE frame[t].at) :
        \E n \in NextNodes(t, Successor(nodes, k)) :
         frame' = [frame EXCEPT ![t] =
           [frame[t] EXCEPT !.at = n,
                     !.pc = IF k \in frame[t].match THEN "count" ELSE "loop",
                     !.cur = IF k \in frame[t].match THEN {k} ELSE {}]]
    BY <1>3 DEF KeyMatchStep
  <2>2. PICK n \in NextNodes(t, Successor(nodes, k)) :
         frame' = [frame EXCEPT ![t] =
           [frame[t] EXCEPT !.at = n,
                     !.pc = IF k \in frame[t].match THEN "count" ELSE "loop",
                     !.cur = IF k \in frame[t].match THEN {k} ELSE {}]]
    BY <2>1
  <2>3. n \in SUBSET Key
    BY <2>2, NextNodesIn, SuccessorIn
  <2>4. k \in Key
    BY <2>1 DEF TypeOK, Frame
  <2>5. frame' \in [Thread -> Frame]
    <3> DEFINE pc == IF k \in frame[t].match THEN "count" ELSE "loop"
               T == IF k \in frame[t].match THEN {k} ELSE {}
               g == [frame[t] EXCEPT !.at = n, !.pc = pc, !.cur = T]
    <3>1. pc \in {"idle", "keys", "first", "loop", "count"} /\ T \in SUBSET Key
      BY <2>4
    <3>2. frame' = [frame EXCEPT ![t] = g]
      BY <2>2
    <3>3. g \in Frame
      <4> HIDE DEF pc, T
      <4> QED BY <2>3, <3>1, FrameUpdates DEF TypeOK
    <3> HIDE DEF g
    <3> QED
      BY <3>2, <3>3, FrameUpdated
  <2> QED
    BY <1>3, <2>5, LocalPreserves DEF KeyMatchStep, TypeOK
<1>4. CASE KeyMatchCount(t)
  <2>1. PICK k \in frame[t].cur :
          /\ DoCount(t, k)
          /\ frame' = [frame EXCEPT ![t] =
               [frame[t] EXCEPT
                  !.pc = "loop",
                  !.cur = {},
                  !.out = IF CountResult(dates, k, now) > 0
                          THEN frame[t].out \cup {k} ELSE frame[t].out]]
    BY <1>4 DEF KeyMatchCount
  <2>2. k \in Key
    BY <2>1 DEF TypeOK, Frame
  <2>3. frame' \in [Thread -> Frame]
    <3> DEFINE T == IF CountResult(dates, k, now) > 0 THEN frame[t].out \cup {k}
                                                      ELSE frame[t].out
               g == [frame[t] EXCEPT !.pc = "loop", !.cur = {}, !.out = T]
    <3>1. T \in SUBSET Key
      BY <2>2 DEF TypeOK, Frame
    <3>2. frame' = [frame EXCEPT ![t] = g]
      BY <2>1
    <3>3. g \in Frame
      <4> HIDE DEF T
      <4> QED BY <3>1, FrameUpdates DEF TypeOK
    <3> HIDE DEF g
    <3> QED
      BY <3>2, <3>3, FrameUpdated
  <2> QED
    BY <2>1, <2>2, <2>3, CountPreserves DEF TypeOK
<1>5. CASE KeyMatchReturn(t)
  BY <1>5, IdleFrameType, LocalPreserves DEF KeyMatchReturn, Return, TypeOK
<1>6. CASE KeyMatchPanic(t)
  BY <1>6, LocalPreserves DEF KeyMatchPanic, TypeOK
<1> QED
  BY <1>1, <1>2, <1>3, <1>4, <1>5, <1>6 DEF KeyMatch

LEMMA TypesStep ==
    ASSUME TypeOK, Stored, [Next]_vars PROVE TypeOK' /\ Stored'
<1>1. CASE Tick
  <2>1. TypeOK'
    BY <1>1 DEF Tick, TypeOK
  <2>2. Stored'
    BY <1>1 DEF Tick, TypeOK, Stored, Entry
  <2> QED
    BY <2>1, <2>2
<1>2. ASSUME NEW t \in Thread, NEW k \in Key, Put(t, k) PROVE TypeOK' /\ Stored'
  BY <1>2, PutPreserves
<1>3. ASSUME NEW t \in Thread, NEW k \in Key, Count(t, k) PROVE TypeOK' /\ Stored'
  BY <1>3, CountPreserves DEF Count, TypeOK
<1>4. CASE UNCHANGED vars
  BY <1>4 DEF vars, TypeOK, Stored
<1> QED
  BY <1>1, <1>2, <1>3, <1>4, KeysTypes, KeyMatchTypes DEF Next

LEMMA TypesInit == Init => TypeOK /\ Stored
<1> SUFFICES ASSUME Init PROVE TypeOK /\ Stored
  OBVIOUS
<1>1. TypeOK
  BY IdleFrameType DEF Init, TypeOK, NoDates
<1>2. Stored
  BY FS_EmptySet DEF Init, Stored, NoDates
<1> QED
  BY <1>1, <1>2

(* Type correctness of the subtree and of every call in progress on it     *)
(* (tree.go).                                                              *)
THEOREM Typing == Spec => []TypeOK
<1>1. Spec => [](TypeOK /\ Stored)
  BY TypesInit, TypesStep, PTL DEF Spec
<1> QED
  BY <1>1, PTL

LEMMA StoredAlways == Spec => [](TypeOK /\ Stored)
BY TypesInit, TypesStep, PTL DEF Spec

(* Expired entries form a prefix of each list (tree.go, removeExpired).    *)
THEOREM ExpiredEntriesFirst == Spec => []ExpiredFirst
<1>1. TypeOK /\ Stored => ExpiredFirst
  BY DEF TypeOK, Stored, ExpiredFirst, Entry
<1> QED
  BY <1>1, StoredAlways, PTL

-----------------------------------------------------------------------------
(* What Keys and KeyMatch do to the subtree is what the Counts they call   *)
(* do.                                                                     *)
LEMMA CallsOnlyCount ==
    ASSUME TypeOK, NEW t \in Thread, Keys(t) \/ KeyMatch(t)
    PROVE  (\E k \in Key : DoCount(t, k)) \/ UNCHANGED <<now, nextId, dates, keyCount>>
<1>1. ASSUME KeysCount(t) PROVE \E k \in Key : DoCount(t, k)
  <2>1. frame[t].todo \in SUBSET Key
    BY DEF TypeOK, Frame
  <2> QED
    BY <1>1, <2>1, LeastIn DEF KeysCount
<1>2. ASSUME KeyMatchCount(t) PROVE \E k \in Key : DoCount(t, k)
  BY <1>2 DEF KeyMatchCount, TypeOK, Frame
<1> QED
  BY <1>1, <1>2
  DEF Keys, KeyMatch, KeysList, KeysReturn, KeyMatchCall, KeyMatchFirst, KeyMatchStep,
      KeyMatchReturn, KeyMatchPanic, Return

(* No step turns the clock back or loses an entry before it expires.       *)
LEMMA EntriesSurvive ==
    ASSUME TypeOK, Stored, [Next]_vars
    PROVE  /\ now' \in Nat /\ now <= now'
           /\ \A k \in Key : \A d \in dates[k] : d.exp > now' => d \in dates'[k]
<1>1. ASSUME NEW t \in Thread, NEW k \in Key, DoCount(t, k)
      PROVE  /\ now' = now
             /\ \A j \in Key : \A d \in dates[j] : d.exp > now' => d \in dates'[j]
  BY <1>1 DEF DoCount, CountDates, removeExpired, TypeOK
<1>2. ASSUME NEW t \in Thread, NEW k \in Key, NEW secs \in {now, now + 1}, PutAt(t, k, secs)
      PROVE  /\ now' \in Nat /\ now <= now'
             /\ \A j \in Key : \A d \in dates[j] : d.exp > now' => d \in dates'[j]
  <2>1. now' = secs /\ now \in Nat /\ secs >= now /\ secs \in Nat
    BY <1>2 DEF PutAt, TypeOK
  <2>2. \A j \in Key : \A d \in dates[j] : d.exp > now => d \in dates'[j]
    BY <1>2 DEF PutAt, PutDates, removeExpired, TypeOK
  <2>3. \A j \in Key : \A d \in dates[j] : d.exp \in Nat
    BY ExpTypes DEF TypeOK
  <2> QED
    BY <2>1, <2>2, <2>3
<1>3. ASSUME NEW t \in Thread, NEW k \in Key, DoCount(t, k)
      PROVE  /\ now' \in Nat /\ now <= now'
             /\ \A j \in Key : \A d \in dates[j] : d.exp > now' => d \in dates'[j]
  <2>1. now \in Nat /\ now' = now
    BY <1>1, <1>3 DEF TypeOK
  <2> QED
    BY <1>1, <1>3, <2>1
<1>4. ASSUME NEW t \in Thread, NEW k \in Key, Put(t, k)
      PROVE  /\ now' \in Nat /\ now <= now'
             /\ \A j \in Key : \A d \in dates[j] : d.exp > now' => d \in dates'[j]
  BY <1>2, <1>4 DEF Put
<1>5. CASE UNCHANGED <<now, dates>>
  BY <1>5 DEF TypeOK
<1>6. CASE Tick
  BY <1>6 DEF Tick, TypeOK
<1> QED
  BY <1>3, <1>4, <1>5, <1>6, CallsOnlyCount DEF Next, Count, vars

(* The entries a call remembers are still stored unless they expired.      *)
Kept(t) ==
    frame[t].pc # "idle" =>
        \A k \in Key : \A d \in frame[t].base[k] : d.exp > now => d \in dates[k]

KeysFound(t) ==
    frame[t].pc = "keys" =>
        \A k \in Key \ frame[t].todo :
            removeExpired(frame[t].base[k], now) # {} => k \in frame[t].outKeys

(* A frame whose owner does not move keeps both.                           *)
LEMMA OthersKeep ==
    ASSUME TypeOK, Stored, [Next]_vars, NEW t \in Thread,
           Kept(t), KeysFound(t), frame'[t] = frame[t]
    PROVE  Kept(t)' /\ KeysFound(t)'
<1>1. /\ now \in Nat /\ now' \in Nat /\ now <= now'
      /\ \A k \in Key : \A d \in dates[k] : d.exp > now' => d \in dates'[k]
  BY EntriesSurvive DEF TypeOK
<1>2. \A k \in Key : \A d \in frame[t].base[k] : d.exp \in Nat
  <2>1. frame[t].base \in [Key -> SUBSET Entry]
    BY DEF TypeOK, Frame
  <2> QED
    BY <2>1, ExpTypes
<1>3. Kept(t)'
  <2> SUFFICES ASSUME frame[t].pc # "idle", NEW k \in Key, NEW d \in frame[t].base[k],
                      d.exp > now'
               PROVE  d \in dates'[k]
    BY DEF Kept
  <2>0. d.exp \in Nat
    BY <1>2
  <2>1. d.exp > now
    BY <1>1, <2>0
  <2>2. d \in dates[k]
    BY <2>1 DEF Kept
  <2> QED
    BY <1>1, <2>2
<1>4. \A k \in Key : removeExpired(frame[t].base[k], now')
                        \subseteq removeExpired(frame[t].base[k], now)
  BY <1>1, <1>2 DEF removeExpired
<1>5. KeysFound(t)'
  BY <1>4 DEF KeysFound
<1> QED
  BY <1>3, <1>5

(* A call begins with the unexpired entries of all nodes.                  *)
LEMMA BeginKeeps ==
    ASSUME TypeOK, Stored, NEW t \in Thread, NEW f, f.base = Live(dates, now),
           f.pc = "keys" => f.todo = nodes,
           frame' = [frame EXCEPT ![t] = f], UNCHANGED <<now, dates, nodes>>
    PROVE  Kept(t)' /\ KeysFound(t)'
<1>1. frame'[t] = f /\ now' = now /\ dates' = dates
  BY DEF TypeOK
<1>2. \A k \in Key : f.base[k] = removeExpired(dates[k], now)
  BY DEF Live
<1>3. Kept(t)'
  BY <1>1, <1>2 DEF Kept, removeExpired
<1>4. \A k \in Key \ nodes : removeExpired(f.base[k], now) = {}
  BY <1>2 DEF Stored, removeExpired
<1>5. KeysFound(t)'
  BY <1>1, <1>4 DEF KeysFound
<1> QED
  BY <1>3, <1>5

(* A goroutine that moves within a call keeps what it remembers of the     *)
(* call's beginning.                                                       *)
LEMMA MoverKeeps ==
    ASSUME TypeOK, Stored, [Next]_vars, NEW t \in Thread, Kept(t), frame[t].pc # "idle",
           frame'[t].base = frame[t].base
    PROVE  Kept(t)'
<1>1. /\ now \in Nat /\ now' \in Nat /\ now <= now'
      /\ \A k \in Key : \A d \in dates[k] : d.exp > now' => d \in dates'[k]
  BY EntriesSurvive DEF TypeOK
<1>2. \A k \in Key : \A d \in frame[t].base[k] : d.exp \in Nat
  <2>1. frame[t].base \in [Key -> SUBSET Entry]
    BY DEF TypeOK, Frame
  <2> QED
    BY <2>1, ExpTypes
<1> SUFFICES ASSUME NEW k \in Key, NEW d \in frame[t].base[k], d.exp > now'
             PROVE  d \in dates'[k]
  BY DEF Kept
<1>3. d.exp \in Nat
  BY <1>2
<1>4. d.exp > now
  BY <1>1, <1>3
<1>5. d \in dates[k]
  BY <1>4 DEF Kept
<1> QED
  BY <1>1, <1>5

(* The step of Keys that counts one key.                                   *)
LEMMA KeysCountKeeps ==
    ASSUME TypeOK, Stored, [Next]_vars, NEW t \in Thread, Kept(t), KeysFound(t), KeysCount(t)
    PROVE  Kept(t)' /\ KeysFound(t)'
<1>1. PICK k \in Least(frame[t].todo) :
        /\ frame[t].pc = "keys"
        /\ DoCount(t, k)
        /\ frame' = [frame EXCEPT ![t] =
             [frame[t] EXCEPT
                !.todo = frame[t].todo \ {k},
                !.outCount = AddUp(frame[t].outCount, CountResult(dates, k, now)),
                !.outKeys = IF KeyCounts(CountResult(dates, k, now))
                            THEN frame[t].outKeys \cup {k} ELSE frame[t].outKeys]]
  BY DEF KeysCount
<1>2. frame[t] \in Frame /\ k \in Key /\ now' = now
  BY <1>1, LeastIn DEF TypeOK, Frame, DoCount
<1>3. /\ frame'[t].base = frame[t].base
      /\ frame'[t].todo = frame[t].todo \ {k}
      /\ frame'[t].outKeys = IF KeyCounts(CountResult(dates, k, now))
                             THEN frame[t].outKeys \cup {k} ELSE frame[t].outKeys
  BY <1>1, <1>2 DEF TypeOK, Frame
<1>4. Kept(t)'
  BY <1>1, <1>3, MoverKeeps
<1>5. removeExpired(frame[t].base[k], now) # {} => KeyCounts(CountResult(dates, k, now))
  <2>1. removeExpired(frame[t].base[k], now) \subseteq removeExpired(dates[k], now)
    BY <1>1, <1>2 DEF Kept, removeExpired
  <2>2. IsFiniteSet(dates[k])
    BY <1>2 DEF Stored
  <2> QED
    BY <2>1, <2>2, RemoveExpiredFinite DEF CountResult, KeyCounts
<1>6. KeysFound(t)'
  BY <1>1, <1>2, <1>3, <1>5 DEF KeysFound
<1> QED
  BY <1>4, <1>6

(* The other steps of a goroutine of its own call.                         *)
LEMMA OwnStepKeeps ==
    ASSUME TypeOK, Stored, [Next]_vars, NEW t \in Thread, Kept(t), KeysFound(t),
           Keys(t) \/ KeyMatch(t)
    PROVE  Kept(t)' /\ KeysFound(t)'
<1>0. frame[t] \in Frame /\ frame \in [Thread -> Frame]
  BY DEF TypeOK
<1>1. CASE KeysList(t)
  <2> DEFINE f == [NewFrame("keys", Live(dates, now), nextId) EXCEPT !.todo = nodes]
  <2>1. f.base = Live(dates, now) /\ f.todo = nodes
    BY DEF NewFrame
  <2>2. frame' = [frame EXCEPT ![t] = f] /\ UNCHANGED <<now, dates, nodes>>
    BY <1>1 DEF KeysList
  <2> HIDE DEF f
  <2> QED
    BY <2>1, <2>2, BeginKeeps
<1>2. ASSUME NEW p \in Pattern, KeyMatchCall(t, p) PROVE Kept(t)' /\ KeysFound(t)'
  <2> DEFINE f == [NewFrame("first", Live(dates, now), nextId) EXCEPT !.match = p]
  <2>1. f.base = Live(dates, now) /\ f.pc = "first"
    BY DEF NewFrame
  <2>2. frame' = [frame EXCEPT ![t] = f] /\ UNCHANGED <<now, dates, nodes>>
    BY <1>2 DEF KeyMatchCall
  <2> HIDE DEF f
  <2> QED
    BY <2>1, <2>2, BeginKeeps
<1>3. CASE KeyMatchFirst(t) \/ KeyMatchStep(t) \/ KeyMatchCount(t)
  <2>1. frame[t].pc # "idle" /\ frame'[t].base = frame[t].base /\ frame'[t].pc # "keys"
    <3>1. CASE KeyMatchFirst(t)
      BY <1>0, <3>1 DEF KeyMatchFirst, Frame
    <3>2. CASE KeyMatchStep(t)
      BY <1>0, <3>2 DEF KeyMatchStep, Frame
    <3>3. CASE KeyMatchCount(t)
      BY <1>0, <3>3 DEF KeyMatchCount, Frame
    <3> QED
      BY <1>3, <3>1, <3>2, <3>3
  <2>2. Kept(t)'
    BY <2>1, MoverKeeps
  <2> QED
    BY <2>1, <2>2 DEF KeysFound
<1>4. CASE Return(t)
  <2>1. frame'[t].pc = "idle"
    BY <1>0, <1>4 DEF Return, IdleFrame, NewFrame
  <2> QED
    BY <2>1 DEF Kept, KeysFound
<1>5. CASE KeyMatchPanic(t)
  BY <1>5, OthersKeep DEF KeyMatchPanic
<1> QED
  BY <1>1, <1>2, <1>3, <1>4, <1>5, KeysCountKeeps DEF Keys, KeyMatch, KeysReturn, KeyMatchReturn

(* A goroutine changes no other goroutine's frame.                         *)
LEMMA OwnFrameOnly ==
    ASSUME TypeOK, NEW t \in Thread, NEW u \in Thread, u # t, Keys(u) \/ KeyMatch(u)
    PROVE  frame'[t] = frame[t]
<1>1. frame \in [Thread -> Frame]
  BY DEF TypeOK
<1>2. CASE Keys(u)
  BY <1>1, <1>2 DEF Keys, KeysList, KeysCount, KeysReturn, Return
<1>3. CASE KeyMatch(u)
  BY <1>1, <1>3 DEF KeyMatch, KeyMatchCall, KeyMatchFirst, KeyMatchStep, KeyMatchCount,
                    KeyMatchReturn, KeyMatchPanic, Return
<1> QED
  BY <1>2, <1>3

CallsKept == \A t \in Thread : Kept(t) /\ KeysFound(t)

LEMMA CallsKeep ==
    ASSUME TypeOK, Stored, [Next]_vars, CallsKept PROVE CallsKept'
<1> SUFFICES ASSUME NEW t \in Thread PROVE Kept(t)' /\ KeysFound(t)'
  BY DEF CallsKept
<1>1. Kept(t) /\ KeysFound(t)
  BY DEF CallsKept
<1>2. CASE frame'[t] = frame[t]
  BY <1>1, <1>2, OthersKeep
<1>3. CASE Keys(t) \/ KeyMatch(t)
  BY <1>1, <1>3, OwnStepKeeps
<1>4. ASSUME NEW u \in Thread, NEW k \in Key, Put(u, k) \/ Count(u, k)
      PROVE  frame'[t] = frame[t]
  BY <1>4 DEF Put, PutAt, Count
<1>5. ASSUME Tick \/ UNCHANGED vars PROVE frame'[t] = frame[t]
  BY <1>5 DEF Tick, vars
<1> QED
  BY <1>2, <1>3, <1>4, <1>5, OwnFrameOnly DEF Next

LEMMA KeptAlways == Spec => []CallsKept
<1>1. Init => CallsKept
  BY DEF Init, CallsKept, Kept, KeysFound, IdleFrame, NewFrame
<1>2. TypeOK /\ Stored /\ [Next]_vars /\ CallsKept => CallsKept'
  BY CallsKeep
<1> QED
  BY <1>1, <1>2, StoredAlways, PTL DEF Spec

(* Keys misses no key that was unexpired from its call to its return, with *)
(* any number of goroutines putting, counting and listing meanwhile        *)
(* (tree.go, Keys).                                                        *)
THEOREM KeysFindsAll == Spec => []KeysComplete
<1>1. CallsKept => KeysComplete
  BY DEF CallsKept, KeysFound, KeysComplete
<1> QED
  BY <1>1, KeptAlways, PTL

-----------------------------------------------------------------------------
(* KeyMatch.  What the iterator, if not torn, has not met yet is ahead of  *)
(* it: a matching key with an unexpired entry has a node, and the node is  *)
(* not behind the iterator before the key was read.                        *)
Owed(t) == {k \in frame[t].match : removeExpired(frame[t].base[k], now) # {}}

Ahead(t) ==
    /\ \A a, b \in frame[t].cur : a = b
    /\ frame[t].pc \in {"first", "loop"} => frame[t].cur = {}
    /\ t \notin torn /\ frame[t].pc \in {"loop", "count"} =>
         \A k \in Owed(t) : \/ k \in frame[t].out \cup frame[t].cur
                            \/ frame[t].at # {} /\ \A n \in frame[t].at : n <= k

LEMMA LeastExists == ASSUME NEW S \in SUBSET Nat, S # {} PROVE Least(S) # {}
<1> DEFINE R == {ss \in Nat \X Nat : ss[1] < ss[2]}
<1>1. IsWellFoundedOn(R, Nat)
  BY NatLessThanWellFounded DEF OpToRel
<1>2. \A x, y \in Nat : y < x => <<y, x>> \in R
  OBVIOUS
<1> HIDE DEF R
<1>3. PICK x \in S : \A y \in S : ~(<<y, x>> \in R)
  BY <1>1, WFMin
<1>4. ASSUME NEW y \in S PROVE x <= y
  <2>1. x \in Nat /\ y \in Nat /\ ~(<<y, x>> \in R)
    BY <1>3
  <2>2. ~(y < x)
    BY <1>2, <2>1
  <2> QED
    BY <2>1, <2>2
<1> QED
  BY <1>4 DEF Least

LEMMA LeastBelow ==
    ASSUME NEW S \in SUBSET Key, NEW k \in S
    PROVE  Least(S) # {} /\ \A n \in Least(S) : n <= k
<1>1. S \in SUBSET Nat /\ S # {}
  OBVIOUS
<1> QED
  BY <1>1, LeastExists DEF Least

(* A key that is owed has a node, and counting it gives more than 0.       *)
LEMMA OwedStored ==
    ASSUME TypeOK, Stored, NEW t \in Thread, Kept(t), frame[t].pc # "idle", NEW k \in Owed(t)
    PROVE  k \in Key /\ k \in nodes /\ CountResult(dates, k, now) > 0
<1>1. k \in Key /\ removeExpired(frame[t].base[k], now) # {}
  BY DEF Owed, TypeOK, Frame
<1>2. removeExpired(frame[t].base[k], now) \subseteq removeExpired(dates[k], now)
  BY <1>1 DEF Kept, removeExpired
<1>3. IsFiniteSet(dates[k])
  BY <1>1 DEF Stored
<1>4. removeExpired(dates[k], now) # {} /\ dates[k] # {}
  BY <1>1, <1>2 DEF removeExpired
<1>5. CountResult(dates, k, now) \in Nat /\ CountResult(dates, k, now) # 0
  BY <1>3, <1>4, RemoveExpiredFinite DEF CountResult
<1> QED
  BY <1>1, <1>4, <1>5 DEF Stored

LEMMA OwedShrinks ==
    ASSUME TypeOK, Stored, [Next]_vars, NEW t \in Thread,
           frame'[t].base = frame[t].base, frame'[t].match = frame[t].match
    PROVE  Owed(t)' \subseteq Owed(t)
<1>1. now \in Nat /\ now' \in Nat /\ now <= now'
  BY EntriesSurvive DEF TypeOK
<1>2. frame[t].base \in [Key -> SUBSET Entry] /\ frame[t].match \subseteq Key
  BY DEF TypeOK, Frame
<1>3. \A k \in Key : \A d \in frame[t].base[k] : d.exp \in Nat
  BY <1>2, ExpTypes
<1>4. \A k \in Key : removeExpired(frame[t].base[k], now') \subseteq removeExpired(frame[t].base[k], now)
  BY <1>1, <1>3 DEF removeExpired
<1> QED
  BY <1>2, <1>4 DEF Owed

(* A frame whose owner does not move.                                      *)
LEMMA OthersAhead ==
    ASSUME TypeOK, Stored, [Next]_vars, NEW t \in Thread, Ahead(t), frame'[t] = frame[t],
           t \in torn => t \in torn'
    PROVE  Ahead(t)'
<1>1. Owed(t)' \subseteq Owed(t)
  BY OwedShrinks
<1> QED
  BY <1>1 DEF Ahead

LEMMA FirstAhead ==
    ASSUME TypeOK, Stored, [Next]_vars, NEW t \in Thread, Kept(t), Ahead(t), KeyMatchFirst(t)
    PROVE  Ahead(t)'
<1>1. frame[t] \in Frame /\ frame \in [Thread -> Frame] /\ nodes \subseteq Key
  BY DEF TypeOK
<1>2. PICK n \in NextNodes(t, Least(nodes)) :
        /\ frame[t].pc = "first" /\ torn' = torn
        /\ frame' = [frame EXCEPT ![t] = [frame[t] EXCEPT !.pc = "loop", !.at = n]]
  BY DEF KeyMatchFirst
<1>3. /\ frame'[t].pc = "loop" /\ frame'[t].at = n /\ frame'[t].cur = frame[t].cur
      /\ frame'[t].base = frame[t].base /\ frame'[t].match = frame[t].match
  BY <1>1, <1>2 DEF Frame
<1>4. Owed(t)' \subseteq Owed(t)
  BY <1>3, OwedShrinks
<1>5. frame[t].cur = {}
  BY <1>2 DEF Ahead
<1>6. ASSUME t \notin torn, NEW k \in Owed(t) PROVE n # {} /\ \A m \in n : m <= k
  <2>1. n = Least(nodes) /\ k \in nodes
    BY <1>2, <1>6, OwedStored DEF NextNodes
  <2> QED
    BY <1>1, <2>1, LeastBelow
<1> QED
  BY <1>2, <1>3, <1>4, <1>5, <1>6 DEF Ahead

LEMMA StepAhead ==
    ASSUME TypeOK, Stored, [Next]_vars, NEW t \in Thread, Kept(t), Ahead(t), KeyMatchStep(t)
    PROVE  Ahead(t)'
<1>1. frame[t] \in Frame /\ frame \in [Thread -> Frame] /\ nodes \subseteq Key
  BY DEF TypeOK
<1>2. PICK k \in (IF t \in torn THEN frame[t].at \cup nodes ELSE frame[t].at) :
        \E n \in NextNodes(t, Successor(nodes, k)) :
          frame' = [frame EXCEPT ![t] =
            [frame[t] EXCEPT !.at = n,
                             !.pc = IF k \in frame[t].match THEN "count" ELSE "loop",
                             !.cur = IF k \in frame[t].match THEN {k} ELSE {}]]
  BY DEF KeyMatchStep
<1>3. PICK n \in NextNodes(t, Successor(nodes, k)) :
        frame' = [frame EXCEPT ![t] =
            [frame[t] EXCEPT !.at = n,
                             !.pc = IF k \in frame[t].match THEN "count" ELSE "loop",
                             !.cur = IF k \in frame[t].match THEN {k} ELSE {}]]
  BY <1>2
<1>4. /\ frame'[t].pc = (IF k \in frame[t].match THEN "count" ELSE "loop") /\ frame'[t].at = n
      /\ frame'[t].cur = (IF k \in frame[t].match THEN {k} ELSE {}) /\ frame'[t].out = frame[t].out
      /\ frame'[t].base = frame[t].base /\ frame'[t].match = frame[t].match
  BY <1>1, <1>3 DEF Frame
<1>5. Owed(t)' \subseteq Owed(t)
  BY <1>4, OwedShrinks
<1>6. frame[t].pc = "loop" /\ frame[t].cur = {} /\ torn' = torn /\ k \in Nat
  BY <1>1, <1>2 DEF KeyMatchStep, Ahead, Frame
<1>7. ASSUME t \notin torn, NEW j \in Owed(t), j \notin frame[t].out
      PROVE  j \in frame'[t].cur \/ (n # {} /\ \A m \in n : m <= j)
  <2>1. n = Successor(nodes, k) /\ k \in frame[t].at
    BY <1>2, <1>3, <1>7 DEF NextNodes
  <2>2. k <= j
    BY <1>6, <1>7, <2>1 DEF Ahead
  <2>3. j \in nodes /\ j \in Key /\ j \in frame[t].match /\ j \in Nat
    BY <1>1, <1>6, OwedStored DEF Owed
  <2>4. CASE j = k
    BY <1>4, <2>3, <2>4
  <2>5. CASE j > k
    <3> DEFINE S == {i \in nodes : i > k}
    <3>1. S \in SUBSET Key /\ j \in S
      BY <1>1, <2>3, <2>5
    <3>2. n = Least(S)
      BY <2>1 DEF Successor
    <3> HIDE DEF S
    <3> QED
      BY <3>1, <3>2, LeastBelow
  <2> QED
    BY <1>6, <2>2, <2>3, <2>4, <2>5
<1> QED
  BY <1>4, <1>5, <1>6, <1>7 DEF Ahead

LEMMA CountAhead ==
    ASSUME TypeOK, Stored, [Next]_vars, NEW t \in Thread, Kept(t), Ahead(t), KeyMatchCount(t)
    PROVE  Ahead(t)'
<1>1. frame[t] \in Frame /\ frame \in [Thread -> Frame] /\ nodes \subseteq Key
  BY DEF TypeOK
<1>2. PICK k \in frame[t].cur :
        /\ frame[t].pc = "count" /\ DoCount(t, k)
        /\ frame' = [frame EXCEPT ![t] =
             [frame[t] EXCEPT !.pc = "loop", !.cur = {},
                !.out = IF CountResult(dates, k, now) > 0 THEN frame[t].out \cup {k} ELSE frame[t].out]]
  BY DEF KeyMatchCount
<1>3. /\ frame'[t].pc = "loop" /\ frame'[t].at = frame[t].at /\ frame'[t].cur = {}
      /\ frame'[t].out = (IF CountResult(dates, k, now) > 0 THEN frame[t].out \cup {k} ELSE frame[t].out)
      /\ frame'[t].base = frame[t].base /\ frame'[t].match = frame[t].match
  BY <1>1, <1>2 DEF Frame
<1>4. Owed(t)' \subseteq Owed(t)
  BY <1>3, OwedShrinks
<1>5. t \in torn => t \in torn'
  BY <1>2 DEF DoCount, Tear
<1>6. ASSUME NEW j \in Owed(t), j \in frame[t].out \cup frame[t].cur PROVE j \in frame'[t].out
  <2>1. CASE j \in frame[t].out
    BY <1>3, <2>1
  <2>2. CASE j \in frame[t].cur
    <3>1. j = k
      BY <2>2 DEF Ahead
    <3>2. CountResult(dates, k, now) > 0
      BY <1>2, <3>1, OwedStored
    <3> QED
      BY <1>3, <3>1, <3>2
  <2> QED
    BY <1>6, <2>1, <2>2
<1> QED
  BY <1>2, <1>3, <1>4, <1>5, <1>6 DEF Ahead

LEMMA OwnAhead ==
    ASSUME TypeOK, Stored, [Next]_vars, NEW t \in Thread, Kept(t), Ahead(t), Keys(t) \/ KeyMatch(t)
    PROVE  Ahead(t)'
<1>0. frame[t] \in Frame /\ frame \in [Thread -> Frame]
  BY DEF TypeOK
<1>1. CASE KeysList(t)
  <2>1. frame'[t].pc = "keys" /\ frame'[t].cur = {}
    BY <1>0, <1>1 DEF KeysList, NewFrame
  <2> QED
    BY <2>1 DEF Ahead
<1>2. ASSUME NEW p \in Pattern, KeyMatchCall(t, p) PROVE Ahead(t)'
  <2>1. frame'[t].pc = "first" /\ frame'[t].cur = {}
    BY <1>0, <1>2 DEF KeyMatchCall, NewFrame
  <2> QED
    BY <2>1 DEF Ahead
<1>3. CASE KeysCount(t)
  <2>1. frame[t].pc = "keys" /\ frame'[t].pc = frame[t].pc /\ frame'[t].cur = frame[t].cur
    BY <1>0, <1>3 DEF KeysCount, Frame
  <2> QED
    BY <2>1 DEF Ahead
<1>4. CASE Return(t)
  <2>1. frame'[t].pc = "idle" /\ frame'[t].cur = {}
    BY <1>0, <1>4 DEF Return, IdleFrame, NewFrame
  <2> QED
    BY <2>1 DEF Ahead
<1>5. CASE KeyMatchPanic(t)
  BY <1>5, OthersAhead DEF KeyMatchPanic
<1> QED
  BY <1>1, <1>2, <1>3, <1>4, <1>5, FirstAhead, StepAhead, CountAhead
     DEF Keys, KeyMatch, KeysReturn, KeyMatchReturn

(* Only the return of a call mends a torn iterator, its own.               *)
LEMMA TornStays ==
    ASSUME TypeOK, NEW t \in Thread, NEW u \in Thread, t \in torn, u # t,
           Keys(u) \/ KeyMatch(u)
    PROVE  t \in torn'
<1>1. CASE Keys(u)
  BY <1>1 DEF Keys, KeysList, KeysCount, KeysReturn, Return, DoCount, Tear
<1>2. CASE KeyMatch(u)
  BY <1>2 DEF KeyMatch, KeyMatchCall, KeyMatchFirst, KeyMatchStep, KeyMatchCount,
              KeyMatchReturn, KeyMatchPanic, Return, DoCount, Tear
<1> QED
  BY <1>1, <1>2

AllAhead == \A t \in Thread : Ahead(t)

LEMMA AheadStep ==
    ASSUME TypeOK, Stored, [Next]_vars, CallsKept, AllAhead PROVE AllAhead'
<1> SUFFICES ASSUME NEW t \in Thread PROVE Ahead(t)'
  BY DEF AllAhead
<1>1. Kept(t) /\ Ahead(t)
  BY DEF CallsKept, AllAhead
<1>2. CASE Keys(t) \/ KeyMatch(t)
  BY <1>1, <1>2, OwnAhead
<1>3. ASSUME NEW u \in Thread, u # t, Keys(u) \/ KeyMatch(u) PROVE Ahead(t)'
  <2>1. frame'[t] = frame[t] /\ (t \in torn => t \in torn')
    BY <1>3, OwnFrameOnly, TornStays
  <2> QED
    BY <1>1, <2>1, OthersAhead
<1>4. ASSUME NEW u \in Thread, NEW k \in Key, Put(u, k) \/ Count(u, k) PROVE Ahead(t)'
  <2>1. frame'[t] = frame[t] /\ (t \in torn => t \in torn')
    BY <1>4 DEF Put, PutAt, Count, DoCount, Tear
  <2> QED
    BY <1>1, <2>1, OthersAhead
<1>5. ASSUME Tick \/ UNCHANGED vars PROVE Ahead(t)'
  <2>1. frame'[t] = frame[t] /\ torn' = torn
    BY <1>5 DEF Tick, vars
  <2> QED
    BY <1>1, <2>1, OthersAhead
<1> QED
  BY <1>2, <1>3, <1>4, <1>5 DEF Next

(* A KeyMatch whose iterator no other goroutine relinked nodes under finds *)
(* every matching key that was unexpired from the call to the return,      *)
(* although its own Counts remove nodes behind the iterator (tree.go,      *)
(* KeyMatch).                                                              *)
THEOREM KeyMatchFindsAll == Spec => []KeyMatchComplete
<1>1. Init => AllAhead
  BY DEF Init, AllAhead, Ahead, IdleFrame, NewFrame
<1>2. TypeOK /\ Stored /\ CallsKept /\ [Next]_vars /\ AllAhead => AllAhead'
  BY AheadStep
<1>3. Spec => []AllAhead
  BY <1>1, <1>2, StoredAlways, KeptAlways, PTL DEF Spec
<1>4. AllAhead => KeyMatchComplete
  BY DEF AllAhead, Ahead, KeyMatchComplete, KeyMatchDone, MatchesFound, Owed
<1> QED
  BY <1>3, <1>4, PTL

-----------------------------------------------------------------------------
(* The sum that Keys returns is the number of the entries it counted, C.   *)
(* To add the counts of two keys up one needs that no id is given twice.   *)
UniqueIds == \A k, j \in Key : \A d \in dates[k], e \in dates[j] : d.id = e.id => k = j /\ d = e

CountedBy(f, C) ==
    /\ IsFiniteSet(C) /\ Cardinality(C) = f.outCount
    /\ \A e \in C : e.id < nextId /\ (e \in AllOf(f.base) \/ e.id >= f.baseId)
    /\ \A d, e \in C : d.id = e.id => d = e
    /\ \A e \in C : \A k \in Key : \A d \in dates[k] : d.id = e.id => d = e /\ k \notin f.todo
    /\ \A k \in Key \ f.todo : \A d \in f.base[k] : d.exp > now => d \in C

Tallied(f) ==
    f.pc = "keys" =>
        /\ f.baseId <= nextId
        /\ IsFiniteSet(AllOf(f.base))
        /\ \A k \in Key : \A d \in dates[k] : d.exp > now => d \in f.base[k] \/ d.id >= f.baseId
        /\ \E C \in SUBSET Entry : CountedBy(f, C)

TallyInv == UniqueIds /\ \A t \in Thread : Tallied(frame[t])

(* Entries with different ids are at most as many as the ids.              *)
LEMMA ByIds ==
    ASSUME NEW S \in SUBSET Entry, NEW a \in Nat, NEW b \in Nat, a <= b,
           \A e \in S : a <= e.id /\ e.id < b, \A d, e \in S : d.id = e.id => d = e
    PROVE  IsFiniteSet(S) /\ Cardinality(S) \in Nat /\ Cardinality(S) <= b - a
<1> DEFINE T == a .. (b - 1)
           g == [e \in S |-> e.id]
<1>1. \A e \in S : e.id \in T
  BY DEF Entry
<1>2. g \in Injection(S, T)
  BY <1>1 DEF Injection, IsInjective
<1>3. IsFiniteSet(T) /\ Cardinality(T) = b - a
  <2>1. a \in Int /\ b - 1 \in Int
    OBVIOUS
  <2>2. IsFiniteSet(T) /\ Cardinality(T) = IF a > b - 1 THEN 0 ELSE (b - 1) - a + 1
    BY <2>1, FS_Interval
  <2> QED
    BY <2>2
<1> HIDE DEF T, g
<1>4. IsFiniteSet(S) /\ Cardinality(S) <= Cardinality(T)
  BY <1>2, <1>3, FS_Injection
<1> QED
  BY <1>3, <1>4, FS_CardinalityType

LEMMA AllOfIs == ASSUME NEW lists, NEW e PROVE e \in AllOf(lists) <=> \E k \in Key : e \in lists[k]
BY DEF AllOf

(* An entry that comes has a new id, and at most one, z, comes.            *)
OneComes(y, z) ==
    \A k \in Key : \A e \in dates'[k] : e \in dates[k] \/ (k = y /\ e = z /\ e.id >= nextId)

LEMMA EntriesCome ==
    ASSUME TypeOK, Stored, [Next]_vars
    PROVE  nextId <= nextId' /\ \E y, z : OneComes(y, z)
<1>1. nextId \in Nat /\ now \in Nat /\ dates \in [Key -> SUBSET Entry]
  BY DEF TypeOK
<1>2. ASSUME NEW t \in Thread, NEW k \in Key, DoCount(t, k) PROVE nextId' = nextId /\ OneComes(0, 0)
  BY <1>1, <1>2 DEF DoCount, CountDates, removeExpired, OneComes
<1>3. ASSUME NEW t \in Thread, NEW k \in Key, NEW secs \in {now, now + 1}, PutAt(t, k, secs)
      PROVE  nextId' = nextId + 1 /\ \E y, z : OneComes(y, z)
  <2>1. PICK z : z = [id |-> nextId, exp |-> secs + TTL]
    OBVIOUS
  <2>2. z.id >= nextId /\ dates' = [dates EXCEPT ![k] = removeExpired(dates[k], now) \cup {z}]
    BY <1>1, <1>3, <2>1 DEF PutAt, PutDates
  <2>3. ASSUME NEW j \in Key, NEW e \in dates'[j] PROVE e \in dates[j] \/ (j = k /\ e = z /\ e.id >= nextId)
    <3>1. CASE j = k
      BY <1>1, <2>2, <3>1 DEF removeExpired
    <3>2. CASE j # k
      BY <1>1, <2>2, <3>2
    <3> QED
      BY <3>1, <3>2
  <2>4. OneComes(k, z)
    BY <2>3 DEF OneComes
  <2> QED
    BY <1>3, <2>4 DEF PutAt
<1>4. CASE UNCHANGED <<nextId, dates>>
  <2>1. OneComes(0, 0)
    BY <1>4 DEF OneComes
  <2> QED
    BY <1>1, <1>4, <2>1
<1>5. ASSUME NEW t \in Thread, NEW k \in Key, DoCount(t, k)
      PROVE  nextId <= nextId' /\ \E y, z : OneComes(y, z)
  BY <1>1, <1>2, <1>5
<1>6. ASSUME NEW t \in Thread, NEW k \in Key, Put(t, k)
      PROVE  nextId <= nextId' /\ \E y, z : OneComes(y, z)
  BY <1>1, <1>3, <1>6 DEF Put
<1> QED
  BY <1>4, <1>5, <1>6, CallsOnlyCount DEF Next, Count, Tick, vars

LEMMA EntriesNew ==
    ASSUME TypeOK, Stored, [Next]_vars, NEW k \in Key, NEW e \in dates'[k]
    PROVE  e \in dates[k] \/ e.id >= nextId
<1>1. PICK y, z : OneComes(y, z)
  BY EntriesCome
<1> QED
  BY <1>1 DEF OneComes

LEMMA StoredId ==
    ASSUME TypeOK, Stored, NEW k \in Key, NEW e, e \in dates[k]
    PROVE  e \in Entry /\ e.id \in Nat /\ e.id < nextId
<1>1. e \in Entry /\ e.id < nextId
  BY DEF TypeOK, Stored
<1> QED
  BY <1>1 DEF Entry

LEMMA UniqueStep == ASSUME TypeOK, Stored, [Next]_vars, UniqueIds PROVE UniqueIds'
<1> SUFFICES ASSUME NEW k \in Key, NEW j \in Key, NEW d \in dates'[k], NEW e \in dates'[j], d.id = e.id
             PROVE  k = j /\ d = e
  BY DEF UniqueIds
<1>1. PICK y, z : OneComes(y, z)
  BY EntriesCome
<1>2. d \in dates[k] \/ (k = y /\ d = z /\ d.id >= nextId)
  BY <1>1 DEF OneComes
<1>3. e \in dates[j] \/ (j = y /\ e = z /\ e.id >= nextId)
  BY <1>1 DEF OneComes
<1>4. d \in dates[k] => d.id \in Nat /\ d.id < nextId
  BY StoredId
<1>5. e \in dates[j] => e.id \in Nat /\ e.id < nextId
  BY StoredId
<1>6. CASE d \in dates[k] /\ e \in dates[j]
  BY <1>6 DEF UniqueIds
<1>7. CASE ~(d \in dates[k] /\ e \in dates[j])
  <2>1. nextId \in Nat
    BY DEF TypeOK
  <2> QED
    BY <1>2, <1>3, <1>4, <1>5, <1>7, <2>1
<1> QED
  BY <1>6, <1>7

(* What other goroutines do to a call of Keys.                             *)
LEMMA TalliedKept ==
    ASSUME TypeOK, TypeOK', Stored, [Next]_vars, NEW f \in Frame, Tallied(f)
    PROVE  Tallied(f)'
<1> SUFFICES ASSUME f.pc = "keys" PROVE Tallied(f)'
  BY DEF Tallied
<1>1. /\ nextId \in Nat /\ nextId' \in Nat /\ now \in Nat /\ now' \in Nat /\ f.baseId \in Nat
      /\ f.base \in [Key -> SUBSET Entry] /\ nextId <= nextId' /\ now <= now' /\ f.baseId <= nextId
  BY EntriesCome, EntriesSurvive DEF TypeOK, Frame, Tallied
<1>2. ASSUME NEW k \in Key, NEW d \in dates'[k], d.exp > now' PROVE d \in f.base[k] \/ d.id >= f.baseId
  <2>1. d \in Entry
    BY DEF TypeOK
  <2>2. d.exp \in Nat /\ d.id \in Nat
    BY <2>1 DEF Entry
  <2>3. d \in dates[k] \/ d.id >= nextId
    BY EntriesNew
  <2>4. d.exp > now
    BY <1>1, <1>2, <2>2
  <2> QED
    BY <1>1, <2>2, <2>3, <2>4 DEF Tallied
<1>3. PICK C \in SUBSET Entry : CountedBy(f, C)
  BY DEF Tallied
<1>4. \A e \in C : e.id \in Nat /\ e.id < nextId /\ e.id < nextId'
  BY <1>1, <1>3 DEF CountedBy, Entry
<1>5. ASSUME NEW e \in C, NEW k \in Key, NEW d \in dates'[k], d.id = e.id PROVE d = e /\ k \notin f.todo
  <2>1. d \in dates[k]
    <3>1. d \in dates[k] \/ d.id >= nextId
      BY EntriesNew
    <3> QED
      BY <1>1, <1>4, <1>5, <3>1
  <2> QED
    BY <1>3, <1>5, <2>1 DEF CountedBy
<1>6. ASSUME NEW k \in Key \ f.todo, NEW d \in f.base[k], d.exp > now' PROVE d \in C
  <2>1. d.exp \in Nat
    BY <1>1, ExpTypes
  <2>2. d.exp > now
    BY <1>1, <1>6, <2>1
  <2> QED
    BY <1>3, <2>2 DEF CountedBy
<1>7. IsFiniteSet(C) /\ Cardinality(C) = f.outCount /\ \A d, e \in C : d.id = e.id => d = e
  BY <1>3 DEF CountedBy
<1>8. \A e \in C : e \in AllOf(f.base) \/ e.id >= f.baseId
  BY <1>3 DEF CountedBy
<1>9. CountedBy(f, C)'
  BY <1>4, <1>5, <1>6, <1>7, <1>8 DEF CountedBy, AllOf
<1>10. f.baseId <= nextId' /\ IsFiniteSet(AllOf(f.base))
  BY <1>1 DEF Tallied
<1> QED
  BY <1>2, <1>9, <1>10 DEF Tallied, AllOf

(* The call's own steps.                                                   *)
OwnTally(t) == \E g \in Frame : frame'[t] = g /\ Tallied(g)

LEMMA ListTally ==
    ASSUME TypeOK, Stored, TallyInv, NEW t \in Thread, KeysList(t)
    PROVE  OwnTally(t)
<1>1. frame \in [Thread -> Frame] /\ dates \in [Key -> SUBSET Entry] /\ nextId \in Nat /\ nodes \subseteq Key
  BY DEF TypeOK
<1>2. PICK g \in Frame :
        /\ g.pc = "keys" /\ g.todo = nodes /\ g.base = Live(dates, now) /\ g.baseId = nextId
        /\ g.outCount = 0 /\ frame'[t] = g
  <2> DEFINE f == NewFrame("keys", Live(dates, now), nextId)
             g == [f EXCEPT !.todo = nodes]
  <2>1. Live(dates, now) \in [Key -> SUBSET Entry]
    BY <1>1, LiveType
  <2>2. f \in Frame
    BY <1>1, <2>1, FrameTypes
  <2>3. f.pc = "keys" /\ f.base = Live(dates, now) /\ f.baseId = nextId /\ f.outCount = 0
    BY DEF NewFrame
  <2>4. frame'[t] = g
    BY <1>1 DEF KeysList
  <2> HIDE DEF f
  <2>5. g \in Frame
    BY <1>1, <2>2 DEF Frame
  <2>6. /\ g.pc = "keys" /\ g.todo = nodes /\ g.base = Live(dates, now) /\ g.baseId = nextId
        /\ g.outCount = 0
    BY <2>2, <2>3 DEF Frame
  <2> QED
    BY <2>4, <2>5, <2>6
<1>3. \A k \in Key : \A d : d \in g.base[k] <=> d \in dates[k] /\ d.exp > now
  BY <1>2 DEF Live, removeExpired
<1>4. IsFiniteSet(AllOf(g.base))
  <2> DEFINE S == AllOf(g.base)
  <2>1. ASSUME NEW e \in S PROVE \E k \in Key : e \in dates[k]
    BY <1>3, AllOfIs
  <2>2. ASSUME NEW e \in S PROVE e \in Entry /\ 0 <= e.id /\ e.id < nextId
    <3>1. PICK k \in Key : e \in dates[k]
      BY <2>1
    <3>2. e \in Entry /\ e.id \in Nat /\ e.id < nextId
      BY <3>1, StoredId
    <3> QED
      BY <3>2
  <2>3. ASSUME NEW d \in S, NEW e \in S, d.id = e.id PROVE d = e
    <3>1. PICK k \in Key, j \in Key : d \in dates[k] /\ e \in dates[j]
      BY <2>1
    <3> QED
      BY <2>3, <3>1 DEF TallyInv, UniqueIds
  <2>4. S \in SUBSET Entry /\ 0 \in Nat /\ 0 <= nextId
    BY <1>1, <2>2
  <2> HIDE DEF S
  <2>5. IsFiniteSet(S)
    BY <1>1, <2>2, <2>3, <2>4, ByIds
  <2> QED
    BY <2>5 DEF S
<1>5. \A k \in Key \ nodes : \A d : d \notin g.base[k]
  BY <1>3 DEF Stored
<1>6. CountedBy(g, {})
  BY <1>2, <1>5, FS_EmptySet DEF CountedBy
<1>7. Tallied(g)
  BY <1>1, <1>2, <1>3, <1>4, <1>6 DEF Tallied
<1> QED
  BY <1>2, <1>7 DEF OwnTally

LEMMA CountTally ==
    ASSUME TypeOK, Stored, TallyInv, NEW t \in Thread, Kept(t), KeysCount(t)
    PROVE  OwnTally(t)
<1>1. frame \in [Thread -> Frame] /\ dates \in [Key -> SUBSET Entry] /\ nextId \in Nat
  BY DEF TypeOK
<1>2. PICK f \in Frame : f = frame[t]
  BY <1>1
<1>3. f.pc = "keys" /\ Tallied(f) /\ UniqueIds
  BY <1>2 DEF KeysCount, TallyInv
<1>4. PICK k \in Least(f.todo) :
        frame' = [frame EXCEPT ![t] =
          [f EXCEPT !.todo = f.todo \ {k},
                    !.outCount = AddUp(f.outCount, CountResult(dates, k, now)),
                    !.outKeys = IF KeyCounts(CountResult(dates, k, now)) THEN f.outKeys \cup {k} ELSE f.outKeys]]
  BY <1>2 DEF KeysCount
<1>5. k \in f.todo /\ k \in Key /\ f.todo \subseteq Key
  BY <1>4, LeastIn DEF Frame
<1> DEFINE R == removeExpired(dates[k], now)
<1>6. IsFiniteSet(R) /\ Cardinality(R) \in Nat /\ CountResult(dates, k, now) = Cardinality(R)
  BY <1>5, RemoveExpiredFinite DEF Stored, CountResult
<1>7. PICK g \in Frame :
        /\ g.pc = "keys" /\ g.todo = f.todo \ {k} /\ g.base = f.base /\ g.baseId = f.baseId
        /\ g.outCount = f.outCount + Cardinality(R) /\ frame'[t] = g
  <2> DEFINE s == f.outCount + Cardinality(R)
             o == IF KeyCounts(CountResult(dates, k, now)) THEN f.outKeys \cup {k} ELSE f.outKeys
             g == [f EXCEPT !.todo = f.todo \ {k}, !.outCount = s, !.outKeys = o]
  <2>1. s \in Nat /\ o \subseteq Key
    BY <1>5, <1>6 DEF Frame
  <2>2. frame'[t] = g
    BY <1>1, <1>4, <1>6 DEF AddUp
  <2>3. s = f.outCount + Cardinality(R)
    OBVIOUS
  <2> HIDE DEF s, o
  <2>4. g \in Frame
    BY <1>5, <2>1 DEF Frame
  <2>5. g.pc = "keys" /\ g.todo = f.todo \ {k} /\ g.base = f.base /\ g.baseId = f.baseId /\ g.outCount = s
    BY <1>3 DEF Frame
  <2> QED
    BY <2>2, <2>3, <2>4, <2>5
<1>8. PICK C \in SUBSET Entry : CountedBy(f, C)
  BY <1>3 DEF Tallied
<1>9. /\ \A e \in R : e \in dates[k] /\ e.exp > now
      /\ \A e \in dates[k] : e.exp > now => e \in R
  BY DEF removeExpired
<1>10. \A e \in R : e \in Entry /\ e.id \in Nat /\ e.id < nextId
  BY <1>5, <1>9, StoredId
<1> HIDE DEF R
<1> DEFINE B == C \cup R
<1>11. C \cap R = {}
  <2> SUFFICES ASSUME NEW e \in C, e \in R PROVE FALSE
    OBVIOUS
  <2>1. e \in dates[k]
    BY <1>9
  <2> QED
    BY <1>5, <1>8, <2>1 DEF CountedBy
<1>12. IsFiniteSet(B) /\ Cardinality(B) = g.outCount
  <2>1. IsFiniteSet(C) /\ Cardinality(C) = f.outCount /\ f.outCount \in Nat
    BY <1>8 DEF CountedBy, Frame
  <2>2. Cardinality(C \cap R) = 0
    BY <1>11, FS_EmptySet
  <2>3. IsFiniteSet(B) /\ Cardinality(B) = Cardinality(C) + Cardinality(R) - Cardinality(C \cap R)
    BY <1>6, <2>1, FS_Union
  <2> QED
    BY <1>6, <1>7, <2>1, <2>2, <2>3
<1>13. \A e \in B : e.id < nextId /\ (e \in AllOf(g.base) \/ e.id >= g.baseId)
  <2>1. ASSUME NEW e \in R PROVE e \in AllOf(g.base) \/ e.id >= g.baseId
    <3>1. e \in f.base[k] \/ e.id >= f.baseId
      BY <1>3, <1>5, <1>9 DEF Tallied
    <3> QED
      BY <1>5, <1>7, <3>1, AllOfIs
  <2>2. ASSUME NEW e \in C PROVE e.id < nextId /\ (e \in AllOf(g.base) \/ e.id >= g.baseId)
    BY <1>7, <1>8 DEF CountedBy
  <2> QED
    BY <1>10, <2>1, <2>2
<1>14. \A e \in B : \A j \in Key : \A d \in dates[j] : d.id = e.id => d = e /\ j \notin g.todo
  <2>1. ASSUME NEW e \in R, NEW j \in Key, NEW d \in dates[j], d.id = e.id PROVE d = e /\ j \notin g.todo
    <3>1. e \in dates[k]
      BY <1>9
    <3>2. j = k /\ d = e
      BY <1>3, <1>5, <2>1, <3>1 DEF UniqueIds
    <3> QED
      BY <1>7, <3>2
  <2>2. ASSUME NEW e \in C, NEW j \in Key, NEW d \in dates[j], d.id = e.id PROVE d = e /\ j \notin g.todo
    BY <1>7, <1>8, <2>2 DEF CountedBy
  <2> QED
    BY <2>1, <2>2
<1>15. \A d, e \in B : d.id = e.id => d = e
  <2> SUFFICES ASSUME NEW d \in B, NEW e \in B, d.id = e.id PROVE d = e
    OBVIOUS
  <2>1. CASE d \in R
    BY <1>5, <1>9, <1>14, <2>1
  <2>2. CASE e \in R
    BY <1>5, <1>9, <1>14, <2>2
  <2>3. CASE d \in C /\ e \in C
    BY <1>8, <2>3 DEF CountedBy
  <2> QED
    BY <2>1, <2>2, <2>3
<1>16. ASSUME NEW j \in Key \ g.todo, NEW d \in g.base[j], d.exp > now PROVE d \in B
  <2>1. CASE j = k
    <3>1. d \in dates[k]
      BY <1>2, <1>3, <1>5, <1>7, <1>16, <2>1 DEF Kept
    <3> QED
      BY <1>9, <1>16, <3>1
  <2>2. CASE j # k
    BY <1>7, <1>8, <1>16, <2>2 DEF CountedBy
  <2> QED
    BY <2>1, <2>2
<1>17. B \in SUBSET Entry
  BY <1>10
<1> HIDE DEF B
<1>18. CountedBy(g, B)
  BY <1>12, <1>13, <1>14, <1>15, <1>16 DEF CountedBy
<1>19. Tallied(g)
  BY <1>3, <1>7, <1>17, <1>18 DEF Tallied
<1> QED
  BY <1>7, <1>19 DEF OwnTally

LEMMA OwnStepTally ==
    ASSUME TypeOK, TypeOK', Stored, TallyInv, NEW t \in Thread, Kept(t), Keys(t) \/ KeyMatch(t)
    PROVE  OwnTally(t)
<1>0. frame[t] \in Frame /\ frame \in [Thread -> Frame] /\ frame'[t] \in Frame
  BY DEF TypeOK
<1>1. ASSUME frame'[t].pc # "keys" PROVE OwnTally(t)
  BY <1>0, <1>1 DEF OwnTally, Tallied
<1>2. ASSUME NEW p \in Pattern, KeyMatchCall(t, p) PROVE frame'[t].pc # "keys"
  BY <1>0, <1>2 DEF KeyMatchCall, NewFrame
<1>3. CASE KeyMatchFirst(t)
  <2>1. frame'[t].pc # "keys"
    BY <1>0, <1>3 DEF KeyMatchFirst, Frame
  <2> QED
    BY <1>1, <2>1
<1>4. CASE KeyMatchStep(t)
  <2>1. frame'[t].pc # "keys"
    BY <1>0, <1>4 DEF KeyMatchStep, Frame
  <2> QED
    BY <1>1, <2>1
<1>5. CASE KeyMatchCount(t)
  <2>1. frame'[t].pc # "keys"
    BY <1>0, <1>5 DEF KeyMatchCount, Frame
  <2> QED
    BY <1>1, <2>1
<1>6. CASE Return(t)
  <2>1. frame'[t].pc # "keys"
    BY <1>0, <1>6 DEF Return, IdleFrame, NewFrame
  <2> QED
    BY <1>1, <2>1
<1>7. CASE KeyMatchPanic(t)
  <2>1. frame'[t].pc # "keys"
    BY <1>7 DEF KeyMatchPanic
  <2> QED
    BY <1>1, <2>1
<1> QED
  BY <1>1, <1>2, <1>3, <1>4, <1>5, <1>6, <1>7, ListTally, CountTally
     DEF Keys, KeyMatch, KeysReturn, KeyMatchReturn

LEMMA TallyStep ==
    ASSUME TypeOK, TypeOK', Stored, CallsKept, [Next]_vars, TallyInv PROVE TallyInv'
<1>1. frame \in [Thread -> Frame]
  BY DEF TypeOK
<1>2. ASSUME NEW t \in Thread, NEW g \in Frame, frame'[t] = g, Tallied(g) PROVE Tallied(frame[t])'
  <2>1. Tallied(g)'
    BY <1>2, TalliedKept
  <2> QED
    BY <1>2, <2>1 DEF Tallied, CountedBy, AllOf
<1>3. ASSUME NEW t \in Thread PROVE Tallied(frame[t])'
  <2>1. CASE frame'[t] = frame[t]
    <3>1. frame[t] \in Frame /\ Tallied(frame[t])
      BY <1>1 DEF TallyInv
    <3>2. PICK g \in Frame : g = frame[t]
      BY <3>1
    <3> QED
      BY <1>2, <2>1, <3>1, <3>2
  <2>2. CASE Keys(t) \/ KeyMatch(t)
    <3>1. OwnTally(t)
      BY <2>2, OwnStepTally DEF CallsKept
    <3> QED
      BY <1>2, <3>1 DEF OwnTally
  <2>3. ASSUME NEW u \in Thread, NEW k \in Key, Put(u, k) \/ Count(u, k) PROVE frame'[t] = frame[t]
    BY <2>3 DEF Put, PutAt, Count
  <2>4. ASSUME Tick \/ UNCHANGED vars PROVE frame'[t] = frame[t]
    BY <2>4 DEF Tick, vars
  <2> QED
    BY <2>1, <2>2, <2>3, <2>4, OwnFrameOnly DEF Next
<1> QED
  BY <1>3, UniqueStep DEF TallyInv

(* At the return nothing is left to be counted.                            *)
LEMMA TallyAtEnd ==
    ASSUME TypeOK, NEW f \in Frame, Tallied(f), f.pc = "keys", f.todo = {}
    PROVE  /\ Cardinality(AllOf(Live(f.base, now))) <= f.outCount
           /\ f.outCount <= Cardinality(AllOf(f.base)) + nextId - f.baseId
<1>1. PICK C \in SUBSET Entry : CountedBy(f, C)
  BY DEF Tallied
<1>2. /\ IsFiniteSet(C) /\ Cardinality(C) = f.outCount /\ Cardinality(C) \in Nat
      /\ f.baseId \in Nat /\ nextId \in Nat /\ f.baseId <= nextId /\ IsFiniteSet(AllOf(f.base))
  BY <1>1, FS_CardinalityType DEF CountedBy, Tallied, Frame, TypeOK
<1>3. AllOf(Live(f.base, now)) \in SUBSET C
  <2> SUFFICES ASSUME NEW e \in AllOf(Live(f.base, now)) PROVE e \in C
    OBVIOUS
  <2>1. PICK k \in Key : e \in Live(f.base, now)[k]
    BY AllOfIs
  <2>2. e \in f.base[k] /\ e.exp > now
    BY <2>1 DEF Live, removeExpired
  <2> QED
    BY <1>1, <2>2 DEF CountedBy
<1>4. Cardinality(AllOf(Live(f.base, now))) <= f.outCount
  BY <1>2, <1>3, FS_Subset
<1> DEFINE A == AllOf(f.base)
           O == C \cap A
           N == C \ A
<1>5. /\ IsFiniteSet(O) /\ Cardinality(O) <= Cardinality(A)
      /\ Cardinality(O) \in Nat /\ Cardinality(A) \in Nat
  <2>1. O \in SUBSET A
    OBVIOUS
  <2> HIDE DEF A, O
  <2>2. IsFiniteSet(A)
    BY <1>2 DEF A
  <2> QED
    BY <2>1, <2>2, FS_Subset, FS_CardinalityType
<1>6. IsFiniteSet(N) /\ Cardinality(N) \in Nat /\ Cardinality(N) <= nextId - f.baseId
  <2>1. N \in SUBSET Entry
    OBVIOUS
  <2>2. \A e \in N : f.baseId <= e.id /\ e.id < nextId
    BY <1>1, <1>2 DEF CountedBy, Entry
  <2>3. \A d, e \in N : d.id = e.id => d = e
    BY <1>1 DEF CountedBy
  <2> HIDE DEF N
  <2> QED
    BY <1>2, <2>1, <2>2, <2>3, ByIds
<1>7. C = O \cup N /\ O \cap N = {}
  OBVIOUS
<1> HIDE DEF A, O, N
<1>8. Cardinality(C) = Cardinality(O) + Cardinality(N)
  <2>1. Cardinality(O \cap N) = 0
    BY <1>7, FS_EmptySet
  <2>2. Cardinality(O \cup N) = Cardinality(O) + Cardinality(N) - Cardinality(O \cap N)
    BY <1>5, <1>6, FS_Union
  <2> QED
    BY <1>5, <1>6, <1>7, <2>1, <2>2
<1>9. f.outCount <= Cardinality(A) + nextId - f.baseId
  BY <1>2, <1>5, <1>6, <1>8
<1> QED
  BY <1>4, <1>9 DEF A

(* The sum that Keys returns lies between the number of the entries that   *)
(* were unexpired during the whole call and the number of those that were  *)
(* at some point of it, whatever other goroutines do (tree.go, Keys).      *)
THEOREM KeysSums == Spec => []KeysSumBounds
<1>1. Init => TallyInv
  BY DEF Init, TallyInv, UniqueIds, Tallied, IdleFrame, NewFrame, NoDates
<1>2. TypeOK /\ TypeOK' /\ Stored /\ CallsKept /\ [Next]_vars /\ TallyInv => TallyInv'
  BY TallyStep
<1>3. Spec => []TallyInv
  BY <1>1, <1>2, StoredAlways, KeptAlways, PTL DEF Spec
<1>4. TypeOK /\ TallyInv => KeysSumBounds
  <2> SUFFICES ASSUME TypeOK, TallyInv, NEW t \in Thread, frame[t].pc = "keys", frame[t].todo = {}
               PROVE  /\ Cardinality(AllOf(Live(frame[t].base, now))) <= frame[t].outCount
                      /\ frame[t].outCount <= Cardinality(AllOf(frame[t].base)) + nextId - frame[t].baseId
    BY DEF KeysSumBounds
  <2>1. frame[t] \in Frame /\ Tallied(frame[t])
    BY DEF TypeOK, TallyInv
  <2> QED
    BY <2>1, TallyAtEnd
<1> QED
  BY <1>3, <1>4, StoredAlways, PTL

-----------------------------------------------------------------------------
(* Tree.Count, whoever calls it, is the abstract Count: filtering a list   *)
(* that is already expired changes nothing a caller can see.               *)
LEMMA CountRefines ==
    ASSUME TypeOK, NEW t \in Thread, NEW k \in Key, DoCount(t, k)
    PROVE  Counter!Count(t, k)
<1>1. /\ dates' = [dates EXCEPT ![k] = removeExpired(dates[k], now)]
      /\ keyCount' = [keyCount EXCEPT ![t] = CountResult(dates, k, now)]
      /\ now' = now /\ nextId' = nextId
  BY DEF DoCount, CountDates
<1>2. Live(dates, now)[k] = removeExpired(dates[k], now)
  BY DEF Live
<1>3. Live(dates', now') = Live(dates, now)
  BY <1>1 DEF Live, removeExpired, TypeOK
<1>4. keyCount' = [keyCount EXCEPT ![t] = Cardinality(Live(dates, now)[k])]
  BY <1>1, <1>2 DEF CountResult
<1> QED
  BY <1>1, <1>3, <1>4 DEF Counter!Count, Counter!Cardinality, Cardinality

(* Tree.Put is the abstract Put.                                           *)
LEMMA PutRefines ==
    ASSUME TypeOK, NEW t \in Thread, NEW k \in Key, Put(t, k)
    PROVE  Counter!Put(t, k)
<1>1. PICK secs \in {now, now + 1} : PutAt(t, k, secs)
  BY DEF Put
<1> DEFINE e == [id |-> nextId, exp |-> secs + TTL]
<1>2. /\ nextId < MaxPuts /\ secs <= MaxNow
      /\ secs \in Nat /\ now \in Nat /\ now <= secs
      /\ now' = secs /\ nextId' = nextId + 1
      /\ dates' = [dates EXCEPT ![k] = removeExpired(dates[k], now) \cup {e}]
      /\ keyCount' = keyCount
  BY <1>1 DEF PutAt, PutDates, TypeOK
<1>3. e.exp = secs + TTL /\ e.exp > secs
  BY <1>2
<1>4. \A j \in Key : \A d \in dates[j] : d.exp \in Nat
  BY ExpTypes DEF TypeOK
<1> HIDE DEF e
<1>5. Live(dates', now') =
        [Counter!Unexpired(Live(dates, now), secs) EXCEPT
           ![k] = Counter!Unexpired(Live(dates, now), secs)[k] \cup {e}]
  <2>1. \A j \in Key : Counter!Unexpired(Live(dates, now), secs)[j]
                          = {d \in dates[j] : d.exp > secs}
    BY <1>2, <1>4 DEF Counter!Unexpired, Live, removeExpired
  <2>2. \A j \in Key : Live(dates', now')[j] = {d \in dates'[j] : d.exp > secs}
    BY <1>2 DEF Live, removeExpired
  <2>3. \A j \in Key : dates'[j] = IF j = k THEN removeExpired(dates[k], now) \cup {e}
                                             ELSE dates[j]
    BY <1>2 DEF TypeOK
  <2>4. {d \in removeExpired(dates[k], now) \cup {e} : d.exp > secs}
          = {d \in dates[k] : d.exp > secs} \cup {e}
    BY <1>2, <1>3, <1>4 DEF removeExpired
  <2>5. \A j \in Key : Live(dates', now')[j] =
          IF j = k THEN Counter!Unexpired(Live(dates, now), secs)[k] \cup {e}
                   ELSE Counter!Unexpired(Live(dates, now), secs)[j]
    BY <2>1, <2>2, <2>3, <2>4
  <2>6. /\ Live(dates', now') = [j \in Key |-> Live(dates', now')[j]]
        /\ DOMAIN Counter!Unexpired(Live(dates, now), secs) = Key
    BY DEF Live, Counter!Unexpired
  <2> QED
    BY <2>5, <2>6
<1> QED
  BY <1>2, <1>5 DEF Counter!Put, e

LEMMA CounterStep ==
    ASSUME TypeOK, [Next]_vars PROVE [Counter!Next]_(Counter!vars)
<1>1. CASE Tick
  <2>1. now \in Nat /\ now < MaxNow /\ now' = now + 1 /\ UNCHANGED <<nextId, dates, keyCount>>
    BY <1>1 DEF Tick, TypeOK
  <2>2. \A j \in Key : \A d \in dates[j] : d.exp \in Nat
    BY ExpTypes DEF TypeOK
  <2>3. Live(dates', now') = Counter!Unexpired(Live(dates, now), now + 1)
    BY <2>1, <2>2 DEF Live, removeExpired, Counter!Unexpired
  <2> QED
    BY <2>1, <2>3 DEF Counter!Next, Counter!Tick
<1>2. ASSUME NEW t \in Thread, NEW k \in Key, Put(t, k) PROVE Counter!Next
  BY <1>2, PutRefines DEF Counter!Next
<1>3. ASSUME NEW t \in Thread, NEW k \in Key, DoCount(t, k) PROVE Counter!Next
  BY <1>3, CountRefines DEF Counter!Next
<1>4. ASSUME UNCHANGED <<now, nextId, dates, keyCount>> PROVE UNCHANGED Counter!vars
  BY <1>4 DEF Counter!vars, Live
<1>5. ASSUME NEW t \in Thread, Keys(t) \/ KeyMatch(t)
      PROVE  (\E k \in Key : DoCount(t, k)) \/ UNCHANGED <<now, nextId, dates, keyCount>>
  BY <1>5, CallsOnlyCount
<1> QED
  BY <1>1, <1>2, <1>3, <1>4, <1>5 DEF Next, Count, vars

(* A subtree is an expiring counter: lazy expiry, the nodes and the        *)
(* cleanup that Count and Put do are invisible to its callers (tree.go).   *)
THEOREM Refinement == Spec => ImplementsCounter
<1>1. Init => Counter!Init
  BY DEF Init, Counter!Init, Live, NoDates, removeExpired
<1>2. TypeOK /\ [Next]_vars => [Counter!Next]_(Counter!vars)
  BY CounterStep
<1> QED
  BY <1>1, <1>2, Typing, PTL DEF Spec, ImplementsCounter, Counter!Spec
=============================================================================
