---------------------------- MODULE ClientProofs ----------------------------
(***************************************************************************)
(* Proofs about module Client, for every number of requests, every size of *)
(* the id space, every time-out and every mixture of replies, failures,    *)
(* restarts and Close.                                                     *)
(***************************************************************************)
EXTENDS Client, FiniteSetTheorems, TLAPS

USE ClientAssumption

Pc == {"idle", "add", "write", "undo", "wait", "done"}

(* What each change of a request leaves alone.                             *)
SameBut(R, Q, r, pc, calls, wrote, dropped) ==
    /\ Q \in [Req -> Request]
    /\ \A s \in Req : s # r => Q[s] = R[s]
    /\ Q[r].id = R[r].id
    /\ Q[r].pc = pc /\ Q[r].calls = calls /\ Q[r].wrote = wrote /\ Q[r].dropped = dropped

(* Calling a callback counts the call and changes nothing else of note.    *)
LEMMA CalledFacts ==
    ASSUME NEW R \in [Req -> Request], NEW r \in Req,
           NEW result \in {"data", "error", "timeout"}, NEW from \in Callback
    PROVE  SameBut(R, Called(R, r, result, from), r,
                   R[r].pc, R[r].calls + 1, R[r].wrote, R[r].dropped)
<1>1. ASSUME NEW q \in Request, NEW n \in Nat
      PROVE  LET g == [q EXCEPT !.calls = n, !.result = result, !.from = from] IN
             /\ g \in Request
             /\ g.id = q.id /\ g.pc = q.pc /\ g.calls = n
             /\ g.wrote = q.wrote /\ g.dropped = q.dropped
  BY DEF Request
<1> DEFINE g == [R[r] EXCEPT !.calls = R[r].calls + 1, !.result = result, !.from = from]
<1>2. /\ g \in Request
      /\ g.id = R[r].id /\ g.pc = R[r].pc /\ g.calls = R[r].calls + 1
      /\ g.wrote = R[r].wrote /\ g.dropped = R[r].dropped
  <2>1. R[r] \in Request /\ R[r].calls + 1 \in Nat
    BY DEF Request
  <2> QED
    BY <1>1, <2>1
<1>3. Called(R, r, result, from) = [R EXCEPT ![r] = g]
  BY DEF Called
<1> HIDE DEF g
<1> QED
  BY <1>2, <1>3 DEF SameBut

LEMMA PcFacts ==
    ASSUME NEW R \in [Req -> Request], NEW r \in Req, NEW pc \in Pc
    PROVE  SameBut(R, [R EXCEPT ![r].pc = pc], r,
                   pc, R[r].calls, R[r].wrote, R[r].dropped)
<1>1. R[r] \in Request
  OBVIOUS
<1> DEFINE g == [R[r] EXCEPT !.pc = pc]
<1>2. /\ g \in Request
      /\ g.id = R[r].id /\ g.pc = pc /\ g.calls = R[r].calls
      /\ g.wrote = R[r].wrote /\ g.dropped = R[r].dropped
  BY <1>1 DEF Request, Pc
<1>3. [R EXCEPT ![r].pc = pc] = [R EXCEPT ![r] = g]
  OBVIOUS
<1> HIDE DEF g
<1> QED
  BY <1>2, <1>3 DEF SameBut

LEMMA WroteFacts ==
    ASSUME NEW R \in [Req -> Request], NEW r \in Req, NEW pc \in Pc,
           NEW wrote \in {"no", "ok", "failed"}
    PROVE  SameBut(R, [R EXCEPT ![r] = [R[r] EXCEPT !.pc = pc, !.wrote = wrote]], r,
                   pc, R[r].calls, wrote, R[r].dropped)
<1>1. R[r] \in Request
  OBVIOUS
<1> DEFINE g == [R[r] EXCEPT !.pc = pc, !.wrote = wrote]
<1>2. /\ g \in Request
      /\ g.id = R[r].id /\ g.pc = pc /\ g.calls = R[r].calls
      /\ g.wrote = wrote /\ g.dropped = R[r].dropped
  BY <1>1 DEF Request, Pc
<1> HIDE DEF g
<1>3. SameBut(R, [R EXCEPT ![r] = g], r, pc, R[r].calls, wrote, R[r].dropped)
  BY <1>2 DEF SameBut
<1> QED
  BY <1>3 DEF g

LEMMA DroppedFacts ==
    ASSUME NEW R \in [Req -> Request], NEW r \in Req
    PROVE  SameBut(R, [R EXCEPT ![r].dropped = TRUE], r,
                   R[r].pc, R[r].calls, R[r].wrote, TRUE)
<1>1. R[r] \in Request
  OBVIOUS
<1> DEFINE g == [R[r] EXCEPT !.dropped = TRUE]
<1>2. /\ g \in Request
      /\ g.id = R[r].id /\ g.pc = R[r].pc /\ g.calls = R[r].calls
      /\ g.wrote = R[r].wrote /\ g.dropped = TRUE
  BY <1>1 DEF Request
<1>3. [R EXCEPT ![r].dropped = TRUE] = [R EXCEPT ![r] = g]
  OBVIOUS
<1> HIDE DEF g
<1> QED
  BY <1>2, <1>3 DEF SameBut

LEMMA NextIdType == ASSUME NEW c \in Ids PROVE nextID(c) \in Ids
BY DEF nextID, Ids

-----------------------------------------------------------------------------
(* Only a sweeper that sends and a receiver that calls hold a callback, and*)
(* they never hold the same one.                                           *)
Hands ==
    /\ gc.cb # NoReq => gc.cb # ht.cb
    /\ gc.pc # "send" => gc.cb = NoReq
    /\ ht.pc # "call" => ht.cb = NoReq

(* A callback in the cache is at its request's id, has not been called and *)
(* is in nobody's hand.                                                    *)
InCache(r) ==
    \A i \in Ids : waiting[i] = r =>
        /\ reqs[r].id = i /\ reqs[r].calls = 0
        /\ reqs[r].pc \in {"write", "undo", "wait"}
        /\ gc.cb # r /\ ht.cb # r

(* One in a hand belongs to a request that has registered it, and is still *)
(* to be called or belongs to a write that failed.                         *)
InHand(r) ==
    gc.cb = r \/ ht.cb = r =>
        /\ reqs[r].pc \notin {"idle", "add"}
        /\ reqs[r].calls = 0 \/ reqs[r].wrote = "failed"

(* What the progress of a request says about its callback.                 *)
Progress(r) ==
    /\ reqs[r].pc \in {"idle", "add"} => reqs[r].calls = 0
    /\ reqs[r].pc \in {"idle", "add", "write"} => reqs[r].wrote = "no"
    /\ reqs[r].pc = "undo" => reqs[r].wrote = "failed"
    /\ reqs[r].calls > 1 => reqs[r].wrote = "failed"
    /\ reqs[r].pc \in {"write", "undo", "wait"} /\ reqs[r].calls = 0 =>
         waiting[reqs[r].id] = r \/ gc.cb = r \/ ht.cb = r \/ reqs[r].dropped

Sound(r) == InCache(r) /\ InHand(r) /\ Progress(r)

IInv == TypeOK /\ Hands /\ \A r \in Req : Sound(r)

LEMMA InitInv == Init => IInv
<1> SUFFICES ASSUME Init PROVE IInv
  OBVIOUS
<1>1. Unsent \in Request
  BY DEF Unsent, Request, Ids, Callback
<1>2. /\ reqs \in [Req -> Request]
      /\ \A r \in Req : reqs[r].pc = "idle" /\ reqs[r].calls = 0 /\ reqs[r].wrote = "no"
  BY <1>1 DEF Init, Unsent
<1>3. TypeOK
  <2>1. /\ counter \in Ids /\ closing \in 0 .. 4 /\ restarts \in Nat /\ net \subseteq Packet
        /\ waiting \in [Ids -> Callback] /\ age \in [Ids -> Nat]
    BY DEF Init, NoneWaiting, NoAges, Ids, Callback
  <2>2. gc \in [pc : {"sleep", "sweep", "send", "dead"}, doomed : SUBSET Ids, cb : Callback]
    BY DEF Init, Asleep, Callback
  <2>3. ht \in [pc : {"recv", "call", "exit"}, cb : Callback]
    BY DEF Init, Receiving, Callback
  <2>4. reading \in BOOLEAN /\ crashed \in BOOLEAN
    BY DEF Init
  <2> QED
    BY <1>2, <2>1, <2>2, <2>3, <2>4 DEF TypeOK
<1>4. gc.cb = NoReq /\ ht.cb = NoReq /\ \A i \in Ids : waiting[i] = NoReq
  BY DEF Init, Asleep, Receiving, NoneWaiting
<1> QED
  BY <1>2, <1>3, <1>4 DEF IInv, Hands, Sound, InCache, InHand, Progress

(* A request that a step does not touch, in the cache or in a hand.        *)
Untouched(s) ==
    /\ reqs'[s] = reqs[s]
    /\ \A i \in Ids : waiting'[i] = s <=> waiting[i] = s
    /\ gc'.cb = s <=> gc.cb = s
    /\ ht'.cb = s <=> ht.cb = s

LEMMA UntouchedSound ==
    ASSUME IInv, NEW s \in Req, Untouched(s) PROVE Sound(s)'
<1>1. reqs[s].id \in Ids /\ Sound(s)
  BY DEF IInv, TypeOK, Request
<1> QED
  BY <1>1 DEF Untouched, Sound, InCache, InHand, Progress

(* A request that moves on while its callback stays where it is.           *)
LEMMA MovedSound ==
    ASSUME IInv, NEW r \in Req, NEW pc, NEW wrote,
           SameBut(reqs, reqs', r, pc, reqs[r].calls, wrote, reqs[r].dropped),
           UNCHANGED <<waiting, gc, ht>>,
           \/ reqs[r].pc = "write" /\ pc = "wait" /\ wrote = "ok"
           \/ reqs[r].pc = "write" /\ pc = "undo" /\ wrote = "failed"
           \/ reqs[r].pc = "wait" /\ pc = "done" /\ wrote = reqs[r].wrote /\ reqs[r].calls > 0
    PROVE  \A s \in Req : Sound(s)'
<1>1. ASSUME NEW s \in Req, s # r PROVE Sound(s)'
  BY <1>1, UntouchedSound DEF Untouched, SameBut
<1>2. Sound(r)'
  BY DEF IInv, SameBut, Sound, InCache, InHand, Progress
<1> QED
  BY <1>1, <1>2

(* A request whose callback is called, and is no longer in the cache.      *)
LEMMA CalledSound ==
    ASSUME IInv, NEW r \in Req,
           reqs'[r].calls = reqs[r].calls + 1,
           reqs'[r].wrote = reqs[r].wrote,
           reqs[r].calls = 0 \/ reqs[r].wrote = "failed",
           \/ reqs'[r].pc = reqs[r].pc /\ reqs[r].pc \notin {"idle", "add"}
           \/ reqs'[r].pc = "wait",
           \A i \in Ids : waiting'[i] # r,
           reqs[r].wrote = "failed" \/ (gc'.cb # r /\ ht'.cb # r)
    PROVE  Sound(r)'
<1>1. reqs[r].calls \in Nat
  BY DEF IInv, TypeOK, Request
<1> QED
  BY <1>1 DEF IInv, Sound, InCache, InHand, Progress

(* A request whose callback is taken out of the cache without being called.*)
LEMMA DroppedSound ==
    ASSUME IInv, NEW r \in Req,
           reqs'[r].calls = reqs[r].calls,
           reqs'[r].wrote = reqs[r].wrote,
           reqs'[r].pc = reqs[r].pc,
           reqs'[r].dropped,
           \A i \in Ids : waiting'[i] # r,
           gc'.cb = r => gc.cb = r, ht'.cb = r => ht.cb = r
    PROVE  Sound(r)'
BY DEF IInv, Sound, InCache, InHand, Progress

(* Taking the callback at i out of the cache takes one request's only.     *)
LEMMA WithoutOne ==
    ASSUME IInv, NEW i \in Ids, waiting' = Without(i)
    PROVE  /\ waiting' \in [Ids -> Callback]
           /\ \A s \in Req : \A j \in Ids : waiting[i] # s => (waiting'[j] = s <=> waiting[j] = s)
           /\ \A s \in Req : \A j \in Ids : waiting[i] = s => waiting'[j] # s
<1>1. waiting \in [Ids -> Callback] /\ waiting' = [waiting EXCEPT ![i] = NoReq]
  BY DEF IInv, TypeOK, Without
<1>2. \A s \in Req : \A j \in Ids : waiting[i] = s /\ waiting[j] = s => i = j
  BY DEF IInv, Sound, InCache
<1> QED
  BY <1>1, <1>2 DEF Callback

-----------------------------------------------------------------------------
(* The steps of a request (client.go, makeMessageID to wg.Wait).           *)
LEMMA BeginKeeps ==
    ASSUME IInv, NEW r \in Req, Begin(r) PROVE IInv'
<1>1. reqs[r] \in Request /\ reqs \in [Req -> Request] /\ counter \in Ids
  BY DEF IInv, TypeOK
<1>2. nextID(counter) \in Ids
  BY <1>1, NextIdType
<1> DEFINE g == [reqs[r] EXCEPT !.pc = "add", !.id = nextID(counter)]
<1>3. /\ g \in Request /\ g.pc = "add" /\ g.calls = reqs[r].calls
      /\ g.wrote = reqs[r].wrote
  BY <1>1, <1>2 DEF Request
<1>4. reqs' = [reqs EXCEPT ![r] = g]
  BY DEF Begin
<1> HIDE DEF g
<1>5. TypeOK'
  BY <1>1, <1>2, <1>3, <1>4 DEF Begin, IInv, TypeOK
<1>6. Hands'
  BY DEF Begin, IInv, Hands
<1>7. ASSUME NEW s \in Req, s # r PROVE Sound(s)'
  BY <1>1, <1>4, <1>7, UntouchedSound DEF Untouched, Begin
<1>8. Sound(r)'
  BY <1>1, <1>3, <1>4 DEF Begin, IInv, Sound, InCache, InHand, Progress
<1> QED
  BY <1>5, <1>6, <1>7, <1>8 DEF IInv

LEMMA RefusedKeeps ==
    ASSUME IInv, NEW r \in Req, Refused(r) \/ AddExists(r) PROVE IInv'
<1> DEFINE Q == [reqs EXCEPT ![r].pc = "wait"]
<1>1. reqs \in [Req -> Request] /\ reqs[r].pc = "add" /\ reqs[r].calls = 0
  BY DEF IInv, TypeOK, Refused, AddExists, Sound, Progress
<1>2. SameBut(reqs, Q, r, "wait", reqs[r].calls, reqs[r].wrote, reqs[r].dropped)
  BY <1>1, PcFacts DEF Pc
<1>3. reqs' = Called(Q, r, "error", NoReq)
  BY DEF Refused, AddExists
<1> HIDE DEF Q
<1>4. SameBut(Q, reqs', r, Q[r].pc, Q[r].calls + 1, Q[r].wrote, Q[r].dropped)
  BY <1>2, <1>3, CalledFacts DEF SameBut, Callback
<1>5. SameBut(reqs, reqs', r, "wait", reqs[r].calls + 1, reqs[r].wrote, reqs[r].dropped)
  BY <1>2, <1>4 DEF SameBut
<1>6. UNCHANGED <<counter, waiting, age, net, gc, ht, reading, closing, restarts, crashed>>
  BY DEF Refused, AddExists
<1>7. TypeOK'
  BY <1>5, <1>6 DEF IInv, TypeOK, SameBut
<1>8. Hands'
  BY <1>6 DEF IInv, Hands
<1>9. ASSUME NEW s \in Req, s # r PROVE Sound(s)'
  BY <1>5, <1>6, <1>9, UntouchedSound DEF Untouched, SameBut
<1>10. Sound(r)'
  <2>1. gc.cb # r /\ ht.cb # r /\ \A i \in Ids : waiting[i] # r
    BY <1>1 DEF IInv, Sound, InCache, InHand
  <2> QED
    BY <1>1, <1>5, <1>6, <2>1, CalledSound DEF SameBut
<1> QED
  BY <1>7, <1>8, <1>9, <1>10 DEF IInv

LEMMA AddKeeps ==
    ASSUME IInv, NEW r \in Req, Add(r) PROVE IInv'
<1>1. /\ reqs \in [Req -> Request] /\ reqs[r].pc = "add" /\ reqs[r].calls = 0
      /\ reqs[r].id \in Ids /\ waiting \in [Ids -> Callback] /\ age \in [Ids -> Nat]
  BY DEF IInv, TypeOK, Add, Sound, Progress, Request
<1>2. SameBut(reqs, reqs', r, "write", reqs[r].calls, reqs[r].wrote, reqs[r].dropped)
  BY <1>1, PcFacts DEF Pc, Add
<1>3. /\ waiting[reqs[r].id] = NoReq
      /\ waiting' = [waiting EXCEPT ![reqs[r].id] = r]
      /\ age' = [age EXCEPT ![reqs[r].id] = 0]
      /\ UNCHANGED <<counter, net, gc, ht, reading, closing, restarts, crashed>>
  BY DEF Add, Exists
<1>4. TypeOK'
  BY <1>1, <1>2, <1>3 DEF IInv, TypeOK, SameBut, Callback
<1>5. Hands'
  BY <1>3 DEF IInv, Hands
<1>6. ASSUME NEW s \in Req, s # r PROVE Sound(s)'
  <2>1. \A i \in Ids : waiting'[i] = s <=> waiting[i] = s
    BY <1>1, <1>3, <1>6
  <2> QED
    BY <1>2, <1>3, <1>6, <2>1, UntouchedSound DEF Untouched, SameBut
<1>7. Sound(r)'
  <2>1. gc.cb # r /\ ht.cb # r /\ \A i \in Ids : waiting[i] # r
    BY <1>1 DEF IInv, Sound, InCache, InHand
  <2>2. \A i \in Ids : waiting'[i] = r <=> i = reqs[r].id
    BY <1>1, <1>3, <2>1
  <2> QED
    BY <1>1, <1>2, <1>3, <2>1, <2>2 DEF IInv, SameBut, Sound, InCache, InHand, Progress
<1> QED
  BY <1>4, <1>5, <1>6, <1>7 DEF IInv

LEMMA WriteKeeps ==
    ASSUME IInv, NEW r \in Req, Write(r) \/ WriteFails(r) \/ Return(r) PROVE IInv'
<1>1. reqs \in [Req -> Request]
  BY DEF IInv, TypeOK
<1>2. UNCHANGED <<counter, waiting, age, net, gc, ht, reading, closing, restarts, crashed>>
  BY DEF Write, WriteFails, Return
<1>3. Hands'
  BY <1>2 DEF IInv, Hands
<1>4. reqs' \in [Req -> Request] => TypeOK'
  BY <1>2 DEF IInv, TypeOK
<1>5. CASE Write(r)
  <2>1. SameBut(reqs, reqs', r, "wait", reqs[r].calls, "ok", reqs[r].dropped)
    BY <1>1, <1>5, WroteFacts DEF Pc, Write
  <2> QED
    BY <1>2, <1>3, <1>4, <1>5, <2>1, MovedSound DEF IInv, SameBut, Write
<1>6. CASE WriteFails(r)
  <2>1. SameBut(reqs, reqs', r, "undo", reqs[r].calls, "failed", reqs[r].dropped)
    BY <1>1, <1>6, WroteFacts DEF Pc, WriteFails
  <2> QED
    BY <1>2, <1>3, <1>4, <1>6, <2>1, MovedSound DEF IInv, SameBut, WriteFails
<1>7. CASE Return(r)
  <2>1. SameBut(reqs, reqs', r, "done", reqs[r].calls, reqs[r].wrote, reqs[r].dropped)
    BY <1>1, <1>7, PcFacts DEF Pc, Return
  <2> QED
    BY <1>2, <1>3, <1>4, <1>7, <2>1, MovedSound DEF IInv, SameBut, Return
<1> QED
  BY <1>5, <1>6, <1>7

LEMMA WriteUndoKeeps ==
    ASSUME IInv, NEW r \in Req, WriteUndo(r) PROVE IInv'
<1>0. reqs[r].id \in Ids /\ waiting[reqs[r].id] \in Callback
  BY DEF IInv, TypeOK, Request
<1> PICK i \in Ids : i = reqs[r].id
  BY <1>0
<1> PICK w \in Callback : w = waiting[i]
  BY <1>0
<1> DEFINE back == [reqs EXCEPT ![r].pc = "wait"]
           lost == [back EXCEPT ![w].dropped = TRUE]
<1>1. reqs \in [Req -> Request] /\ reqs[r].pc = "undo" /\ reqs[r].wrote = "failed"
  BY DEF IInv, TypeOK, WriteUndo, Sound, Progress
<1>2. waiting' = Without(i) /\ UNCHANGED <<counter, age, net, gc, ht, reading, closing, restarts>>
  BY DEF WriteUndo
<1>3. \/ w \in {NoReq, r} /\ reqs' = Called(back, r, "error", NoReq)
      \/ w \in Req \ {r} /\ reqs' = Called(back, w, "error", NoReq)
      \/ w \in Req \ {r} /\ reqs' = Called(lost, r, "error", NoReq)
  <2>1. w = NoReq \/ w = r \/ w \in Req \ {r}
    BY <1>1 DEF Callback
  <2>2. CASE w = NoReq
    BY <2>2 DEF WriteUndo, Exists
  <2>3. CASE w = r
    BY <2>3 DEF WriteUndo
  <2>4. CASE w \in Req \ {r}
    BY <2>4 DEF WriteUndo, Exists
  <2> QED
    BY <2>1, <2>2, <2>3, <2>4
<1>4. crashed' \in BOOLEAN
  BY DEF WriteUndo, PanicsIfAgain
<1>5. SameBut(reqs, back, r, "wait", reqs[r].calls, reqs[r].wrote, reqs[r].dropped)
  BY <1>1, PcFacts DEF Pc
<1>6. /\ waiting' \in [Ids -> Callback]
      /\ \A s \in Req : \A j \in Ids : w # s => (waiting'[j] = s <=> waiting[j] = s)
      /\ \A s \in Req : \A j \in Ids : w = s => waiting'[j] # s
  BY <1>1, <1>2, WithoutOne
<1>7. \A j \in Ids : waiting'[j] # r
  BY <1>1, <1>6 DEF IInv, Sound, InCache
<1>8. Hands'
  BY <1>2 DEF IInv, Hands
<1>9. reqs' \in [Req -> Request] => TypeOK'
  BY <1>2, <1>4, <1>6 DEF IInv, TypeOK
<1> HIDE DEF back
<1>10. CASE w \in {NoReq, r} /\ reqs' = Called(back, r, "error", NoReq)
  <2>1. SameBut(back, reqs', r, back[r].pc, back[r].calls + 1, back[r].wrote, back[r].dropped)
    BY <1>5, <1>10, CalledFacts DEF SameBut, Callback
  <2>2. SameBut(reqs, reqs', r, "wait", reqs[r].calls + 1, reqs[r].wrote, reqs[r].dropped)
    BY <1>5, <2>1 DEF SameBut
  <2>3. ASSUME NEW s \in Req, s # r PROVE Sound(s)'
    BY <1>2, <1>6, <1>10, <2>2, <2>3, UntouchedSound DEF Untouched, SameBut
  <2>4. Sound(r)'
    BY <1>1, <1>7, <2>2, CalledSound DEF SameBut
  <2> QED
    BY <1>8, <1>9, <2>2, <2>3, <2>4 DEF IInv, SameBut
<1>11. CASE w \in Req \ {r} /\ reqs' = Called(back, w, "error", NoReq)
  <2>1. SameBut(back, reqs', w, back[w].pc, back[w].calls + 1, back[w].wrote, back[w].dropped)
    BY <1>5, <1>11, CalledFacts DEF SameBut, Callback
  <2>2. /\ reqs' \in [Req -> Request]
        /\ \A s \in Req \ {r, w} : reqs'[s] = reqs[s]
        /\ reqs'[w].calls = reqs[w].calls + 1 /\ reqs'[w].wrote = reqs[w].wrote
        /\ reqs'[w].pc = reqs[w].pc
        /\ reqs'[r].calls = reqs[r].calls /\ reqs'[r].wrote = reqs[r].wrote
        /\ reqs'[r].pc = "wait" /\ reqs'[r].dropped = reqs[r].dropped
    BY <1>5, <1>11, <2>1 DEF SameBut
  <2>3. ASSUME NEW s \in Req \ {r, w} PROVE Sound(s)'
    BY <1>2, <1>6, <2>2, <2>3, UntouchedSound DEF Untouched
  <2>4. /\ reqs[w].calls = 0 /\ reqs[w].pc \in {"write", "undo", "wait"}
        /\ gc.cb # w /\ ht.cb # w
    BY <1>1, <1>11 DEF IInv, Sound, InCache
  <2>5. Sound(w)'
    BY <1>2, <1>6, <1>11, <2>2, <2>4, CalledSound
  <2>6. Sound(r)'
    <3>1. InCache(r)' /\ InHand(r)'
      BY <1>1, <1>2, <1>7, <2>2 DEF IInv, Sound, InCache, InHand
    <3>2. reqs[r].calls = 0 => gc.cb = r \/ ht.cb = r \/ reqs[r].dropped
      BY <1>1, <1>11 DEF IInv, Sound, Progress
    <3>3. Progress(r)'
      BY <1>1, <1>2, <2>2, <3>2 DEF IInv, Sound, Progress
    <3> QED
      BY <3>1, <3>3 DEF Sound
  <2> QED
    BY <1>8, <1>9, <2>2, <2>3, <2>5, <2>6 DEF IInv
<1>12. CASE w \in Req \ {r} /\ reqs' = Called(lost, r, "error", NoReq)
  <2>1. SameBut(back, lost, w, back[w].pc, back[w].calls, back[w].wrote, TRUE)
    <3>1. back \in [Req -> Request] /\ w \in Req
      BY <1>5, <1>12 DEF SameBut
    <3> QED
      BY <3>1, DroppedFacts
  <2> HIDE DEF lost
  <2>2. SameBut(lost, reqs', r, lost[r].pc, lost[r].calls + 1, lost[r].wrote, lost[r].dropped)
    BY <1>12, <2>1, CalledFacts DEF SameBut, Callback
  <2>3. /\ reqs' \in [Req -> Request]
        /\ \A s \in Req \ {r, w} : reqs'[s] = reqs[s]
        /\ reqs'[w].calls = reqs[w].calls /\ reqs'[w].wrote = reqs[w].wrote
        /\ reqs'[w].pc = reqs[w].pc /\ reqs'[w].dropped
        /\ reqs'[r].calls = reqs[r].calls + 1 /\ reqs'[r].wrote = reqs[r].wrote
        /\ reqs'[r].pc = "wait"
    BY <1>5, <1>12, <2>1, <2>2 DEF SameBut
  <2>4. ASSUME NEW s \in Req \ {r, w} PROVE Sound(s)'
    BY <1>2, <1>6, <2>3, <2>4, UntouchedSound DEF Untouched
  <2>5. Sound(w)'
    BY <1>2, <1>6, <1>12, <2>3, DroppedSound
  <2>6. Sound(r)'
    BY <1>1, <1>7, <2>3, CalledSound
  <2> QED
    BY <1>8, <1>9, <2>3, <2>4, <2>5, <2>6 DEF IInv
<1> QED
  BY <1>3, <1>10, <1>11, <1>12

-----------------------------------------------------------------------------
(* The response handler (client.go, handleResponsesForever).               *)
LEMMA DeliverKeeps ==
    ASSUME IInv, NEW m \in net, Deliver(m) PROVE IInv'
<1>0. m.id \in Ids /\ waiting[m.id] \in Callback
  BY DEF IInv, TypeOK, Packet
<1> PICK w \in Callback : w = waiting[m.id]
  BY <1>0
<1>1. /\ reqs \in [Req -> Request] /\ net \subseteq Packet
      /\ m.id \in Ids /\ m.to \in Callback
      /\ m.kind \in {"data", "error", "other"}
  BY DEF IInv, TypeOK, Packet, Callback
<1>2. /\ waiting' = Without(m.id) /\ net' \subseteq net
      /\ UNCHANGED <<counter, age, gc, ht, closing, restarts>>
  BY DEF Deliver
<1>3. crashed' \in BOOLEAN /\ reading' \in BOOLEAN
  BY DEF Deliver
<1>4. \/ w = NoReq /\ reqs' = reqs
      \/ w \in Req /\ m.kind \in {"data", "error"} /\ reqs' = Called(reqs, w, m.kind, m.to)
      \/ w \in Req /\ reqs' = [reqs EXCEPT ![w].dropped = TRUE]
  BY <1>1 DEF Deliver, Exists, Callback
<1>5. /\ waiting' \in [Ids -> Callback]
      /\ \A s \in Req : \A j \in Ids : w # s => (waiting'[j] = s <=> waiting[j] = s)
      /\ \A s \in Req : \A j \in Ids : w = s => waiting'[j] # s
  BY <1>1, <1>2, WithoutOne
<1>6. Hands'
  BY <1>2 DEF IInv, Hands
<1>7. reqs' \in [Req -> Request] => TypeOK'
  BY <1>1, <1>2, <1>3, <1>5 DEF IInv, TypeOK
<1>8. ASSUME NEW s \in Req, s # w, reqs'[s] = reqs[s] PROVE Sound(s)'
  BY <1>2, <1>5, <1>8, UntouchedSound DEF Untouched
<1>9. CASE w = NoReq /\ reqs' = reqs
  BY <1>1, <1>6, <1>7, <1>8, <1>9 DEF IInv
<1>10. CASE w \in Req /\ m.kind \in {"data", "error"} /\ reqs' = Called(reqs, w, m.kind, m.to)
  <2>1. SameBut(reqs, reqs', w, reqs[w].pc, reqs[w].calls + 1, reqs[w].wrote, reqs[w].dropped)
    BY <1>1, <1>10, CalledFacts
  <2>2. /\ reqs[w].calls = 0 /\ reqs[w].pc \in {"write", "undo", "wait"}
        /\ gc.cb # w /\ ht.cb # w
    BY <1>1, <1>10 DEF IInv, Sound, InCache
  <2>3. Sound(w)'
    BY <1>2, <1>5, <1>10, <2>1, <2>2, CalledSound DEF SameBut
  <2> QED
    BY <1>6, <1>7, <1>8, <2>1, <2>3 DEF IInv, SameBut
<1>11. CASE w \in Req /\ reqs' = [reqs EXCEPT ![w].dropped = TRUE]
  <2>1. SameBut(reqs, reqs', w, reqs[w].pc, reqs[w].calls, reqs[w].wrote, TRUE)
    BY <1>1, <1>11, DroppedFacts
  <2>2. Sound(w)'
    BY <1>2, <1>5, <1>11, <2>1, DroppedSound DEF SameBut
  <2> QED
    BY <1>6, <1>7, <1>8, <2>1, <2>2 DEF IInv, SameBut
<1> QED
  BY <1>4, <1>9, <1>10, <1>11

-----------------------------------------------------------------------------
(* The sweeper (checkCleanup) and handleTimeouts.  A step that changes no  *)
(* request, no cache entry and no hand:                                    *)
LEMMA QuietSound ==
    ASSUME IInv, UNCHANGED <<waiting, reqs>>, gc'.cb = gc.cb, ht'.cb = ht.cb
    PROVE  \A s \in Req : Sound(s)'
<1> SUFFICES ASSUME NEW s \in Req PROVE Sound(s)'
  OBVIOUS
<1> QED
  BY UntouchedSound DEF Untouched

GcType == [pc : {"sleep", "sweep", "send", "dead"}, doomed : SUBSET Ids, cb : Callback]
HtType == [pc : {"recv", "call", "exit"}, cb : Callback]

LEMMA SweepKeeps ==
    ASSUME IInv,
           \/ \E seen \in SUBSET Cached : Sweep(seen)
           \/ SweepEnd \/ SweepStops
    PROVE  IInv'
<1>1. gc \in GcType /\ gc.pc # "send"
  BY DEF IInv, TypeOK, GcType, Sweep, SweepEnd, SweepStops
<1>2. PICK pc \in {"sleep", "sweep", "dead"}, D \in SUBSET Ids :
          gc' = [gc EXCEPT !.pc = pc, !.doomed = D]
  <2>1. CASE \E seen \in SUBSET Cached : Sweep(seen)
    <3>1. PICK seen \in SUBSET Cached : Sweep(seen)
      BY <2>1
    <3>2. {i \in seen : Expired(i)} \in SUBSET Ids
      BY DEF Cached
    <3> QED
      BY <3>1, <3>2 DEF Sweep
  <2>2. CASE SweepEnd \/ SweepStops
    <3>1. gc.doomed \in SUBSET Ids
      BY <1>1 DEF GcType
    <3>2. \A pc : [gc EXCEPT !.pc = pc] = [gc EXCEPT !.pc = pc, !.doomed = gc.doomed]
      BY <1>1 DEF GcType
    <3> QED
      BY <2>2, <3>1, <3>2 DEF SweepEnd, SweepStops
  <2> QED
    BY <2>1, <2>2
<1>3. gc' \in GcType /\ gc'.cb = gc.cb
  BY <1>1, <1>2 DEF GcType
<1>4. UNCHANGED <<counter, waiting, age, reqs, net, ht, reading, closing, restarts, crashed>>
  BY DEF Sweep, SweepEnd, SweepStops
<1>5. TypeOK'
  BY <1>3, <1>4 DEF IInv, TypeOK, GcType
<1>6. Hands'
  BY <1>1, <1>3, <1>4 DEF IInv, Hands
<1> QED
  BY <1>3, <1>4, <1>5, <1>6, QuietSound DEF IInv

LEMMA HandOverKeeps ==
    ASSUME IInv, HandOver PROVE IInv'
<1>1. gc \in GcType /\ gc.cb \in Callback /\ ht.cb = NoReq
  BY DEF IInv, TypeOK, Hands, HandOver, GcType
<1>2. /\ gc' = [gc EXCEPT !.pc = "sweep", !.cb = NoReq] /\ ht' = [pc |-> "call", cb |-> gc.cb]
      /\ UNCHANGED <<counter, waiting, age, reqs, net, reading, closing, restarts, crashed>>
  BY DEF HandOver
<1>3. gc' \in GcType /\ gc'.cb = NoReq /\ ht' \in HtType /\ ht'.cb = gc.cb /\ ht'.pc = "call"
  BY <1>1, <1>2 DEF GcType, HtType, Callback
<1>4. TypeOK'
  BY <1>2, <1>3 DEF IInv, TypeOK, GcType, HtType
<1>5. Hands'
  BY <1>3 DEF Hands
<1>6. ASSUME NEW s \in Req PROVE Sound(s)'
  BY <1>1, <1>2, <1>3 DEF IInv, Sound, InCache, InHand, Progress
<1> QED
  BY <1>4, <1>5, <1>6 DEF IInv

LEMMA SweepTakeKeeps ==
    ASSUME IInv, SweepTake PROVE IInv'
<1> PICK i \in gc.doomed :
      /\ gc.pc = "sweep" /\ waiting' = Without(i)
      /\ IF CacheDisposed
         THEN /\ gc' = [gc EXCEPT !.doomed = gc.doomed \ {i}]
              /\ reqs' = [reqs EXCEPT ![waiting[i]].dropped = TRUE]
         ELSE /\ gc' = [gc EXCEPT !.pc = "send", !.doomed = gc.doomed \ {i}, !.cb = waiting[i]]
              /\ reqs' = reqs
      /\ UNCHANGED <<counter, age, net, ht, reading, closing, restarts, crashed>>
  BY DEF SweepTake
<1>0. i \in Ids /\ waiting[i] \in Callback
  BY DEF IInv, TypeOK
<1> PICK w \in Callback : w = waiting[i]
  BY <1>0
<1>1. reqs \in [Req -> Request] /\ gc \in GcType /\ gc.doomed \ {i} \in SUBSET Ids
  BY DEF IInv, TypeOK, GcType
<1>2. gc.cb = NoReq
  BY DEF IInv, Hands
<1>3. /\ waiting' \in [Ids -> Callback]
      /\ \A s \in Req : \A j \in Ids : w # s => (waiting'[j] = s <=> waiting[j] = s)
      /\ \A s \in Req : \A j \in Ids : w = s => waiting'[j] # s
  BY <1>0, WithoutOne
<1>4. reqs' \in [Req -> Request] /\ gc' \in GcType => TypeOK'
  BY <1>3 DEF IInv, TypeOK, GcType
<1>5. ASSUME NEW s \in Req, s # w, reqs'[s] = reqs[s], gc'.cb \in {NoReq, w} PROVE Sound(s)'
  BY <1>2, <1>3, <1>5, UntouchedSound DEF Untouched
<1>6. CASE CacheDisposed
  <2>1. gc' \in GcType /\ gc'.cb = NoReq /\ gc'.pc = "sweep"
    BY <1>1, <1>2, <1>6 DEF GcType
  <2>2. Hands'
    BY <2>1 DEF IInv, Hands
  <2>3. CASE w = NoReq
    <3>1. reqs' = reqs
      BY <1>1, <1>6, <2>3
    <3> QED
      BY <1>1, <1>4, <1>5, <2>1, <2>2, <2>3, <3>1 DEF IInv
  <2>4. CASE w \in Req
    <3>0. reqs' = [reqs EXCEPT ![w].dropped = TRUE]
      BY <1>6
    <3>1. SameBut(reqs, reqs', w, reqs[w].pc, reqs[w].calls, reqs[w].wrote, TRUE)
      BY <1>1, <2>4, <3>0, DroppedFacts
    <3>2. Sound(w)'
      BY <1>3, <2>1, <2>4, <3>1, DroppedSound DEF SameBut
    <3> QED
      BY <1>4, <1>5, <2>1, <2>2, <3>1, <3>2 DEF IInv, SameBut
  <2> QED
    BY <2>3, <2>4 DEF Callback
<1>7. CASE ~CacheDisposed
  <2>1. gc' \in GcType /\ gc'.cb = w /\ gc'.pc = "send" /\ reqs' = reqs
    BY <1>1, <1>7 DEF GcType
  <2>2. w \in Req => /\ ht.cb # w /\ reqs[w].pc \in {"write", "undo", "wait"}
                     /\ reqs[w].calls = 0
    BY <1>0 DEF IInv, Sound, InCache
  <2>3. Hands'
    BY <2>1, <2>2 DEF IInv, Hands, Callback
  <2>4. w \in Req => Sound(w)'
    <3> SUFFICES ASSUME w \in Req PROVE Sound(w)'
      OBVIOUS
    <3> QED
      BY <1>3, <2>1, <2>2 DEF IInv, Sound, InCache, InHand, Progress
  <2> QED
    BY <1>1, <1>4, <1>5, <2>1, <2>3, <2>4 DEF IInv
<1> QED
  BY <1>6, <1>7

LEMMA TimeoutCallKeeps ==
    ASSUME IInv, TimeoutCall PROVE IInv'
<1>0. ht.cb \in Callback
  BY DEF IInv, TypeOK
<1> PICK w \in Callback : w = ht.cb
  BY <1>0
<1>1. reqs \in [Req -> Request] /\ reqs' = Called(reqs, w, "timeout", NoReq)
  BY DEF IInv, TypeOK, TimeoutCall
<1>2. /\ ht' \in HtType /\ ht'.cb = NoReq /\ ht'.pc # "call" /\ crashed' \in BOOLEAN
      /\ UNCHANGED <<counter, waiting, age, net, gc, reading, closing, restarts>>
  BY DEF TimeoutCall, PanicsIfAgain, HtType, Callback
<1>3. Hands'
  BY <1>2 DEF IInv, Hands
<1>4. reqs' \in [Req -> Request] => TypeOK'
  BY <1>2 DEF IInv, TypeOK, HtType
<1>5. ASSUME NEW s \in Req, s # w, reqs'[s] = reqs[s] PROVE Sound(s)'
  BY <1>2, <1>5, UntouchedSound DEF Untouched
<1>6. CASE w = NoReq
  <2>1. reqs' = reqs
    BY <1>1, <1>6 DEF Called
  <2> QED
    BY <1>1, <1>3, <1>4, <1>5, <1>6, <2>1 DEF IInv
<1>7. CASE w \in Req
  <2>1. SameBut(reqs, reqs', w, reqs[w].pc, reqs[w].calls + 1, reqs[w].wrote, reqs[w].dropped)
    BY <1>1, <1>7, CalledFacts DEF Callback
  <2>2. /\ reqs[w].pc \notin {"idle", "add"}
        /\ reqs[w].calls = 0 \/ reqs[w].wrote = "failed"
    BY <1>7 DEF IInv, Sound, InHand
  <2>3. gc.cb # w /\ \A j \in Ids : waiting[j] # w
    BY <1>7 DEF IInv, Hands, Sound, InCache
  <2>4. Sound(w)'
    BY <1>2, <1>7, <2>1, <2>2, <2>3, CalledSound DEF SameBut
  <2> QED
    BY <1>3, <1>4, <1>5, <2>1, <2>4 DEF IInv, SameBut
<1> QED
  BY <1>6, <1>7 DEF Callback

-----------------------------------------------------------------------------
(* The server, the clock, Close and the ends of the goroutines.            *)
LEMMA OtherKeeps ==
    ASSUME IInv,
           \/ \E r \in Req : \E kind \in Kind : Answer(r, kind)
           \/ SendPanics \/ TimeoutsEnd \/ ReadFails \/ Close \/ Tick
    PROVE  IInv'
<1>1. UNCHANGED <<waiting, reqs, gc, counter, restarts>>
  BY DEF Answer, SendPanics, TimeoutsEnd, ReadFails, Close, Tick
<1>2. ht' \in HtType /\ ht'.cb = ht.cb /\ (ht'.pc = "call" <=> ht.pc = "call")
  <2>1. ht \in HtType
    BY DEF IInv, TypeOK, HtType
  <2> QED
    BY <2>1 DEF HtType, Answer, SendPanics, TimeoutsEnd, ReadFails, Close, Tick
<1>3. net' \subseteq Packet
  <2>1. ASSUME NEW r \in Req, NEW kind \in Kind, Answer(r, kind) PROVE net' \subseteq Packet
    <3>1. reqs[r].id \in Ids /\ kind \in {"data", "error", "other"} /\ net \subseteq Packet
      BY DEF IInv, TypeOK, Request
    <3> QED
      BY <2>1, <3>1 DEF Answer, Packet
  <2>2. CASE UNCHANGED net
    BY <2>2 DEF IInv, TypeOK
  <2> QED
    BY <2>1, <2>2 DEF SendPanics, TimeoutsEnd, ReadFails, Close, Tick
<1>4. age' \in [Ids -> Nat]
  <2>1. age \in [Ids -> Nat]
    BY DEF IInv, TypeOK
  <2>2. CASE Tick
    BY <2>1, <2>2 DEF Tick
  <2> QED
    BY <2>1, <2>2 DEF Answer, SendPanics, TimeoutsEnd, ReadFails, Close
<1>5. closing' \in 0 .. 4
  BY DEF IInv, TypeOK, Answer, SendPanics, TimeoutsEnd, ReadFails, Close, Tick
<1>6. reading' \in BOOLEAN /\ crashed' \in BOOLEAN
  BY DEF IInv, TypeOK, Answer, SendPanics, TimeoutsEnd, ReadFails, Close, Tick
<1>7. TypeOK'
  BY <1>1, <1>2, <1>3, <1>4, <1>5, <1>6 DEF IInv, TypeOK, HtType
<1>8. Hands'
  BY <1>1, <1>2 DEF IInv, Hands
<1> QED
  BY <1>1, <1>2, <1>7, <1>8, QuietSound DEF IInv

(* A restart: requests under way are over, and their callbacks gone.       *)
LEMMA RestartKeeps ==
    ASSUME IInv, Restart PROVE IInv'
<1> DEFINE Ended(r) == [reqs[r] EXCEPT !.pc = "done", !.dropped = TRUE]
<1>1. Unsent \in Request
  BY DEF Unsent, Request, Ids, Callback
<1>2. ASSUME NEW r \in Req
      PROVE  /\ Ended(r) \in Request /\ Ended(r).pc = "done"
             /\ Ended(r).calls = reqs[r].calls /\ Ended(r).wrote = reqs[r].wrote
  <2>1. reqs[r] \in Request
    BY DEF IInv, TypeOK
  <2> QED
    BY <2>1 DEF Request
<1>3. reqs' = [r \in Req |-> IF reqs[r].pc = "idle" THEN Unsent ELSE Ended(r)]
  BY DEF Restart
<1> HIDE DEF Ended
<1>4. reqs' \in [Req -> Request]
  BY <1>1, <1>2, <1>3
<1>5. ASSUME NEW r \in Req
      PROVE  \/ reqs'[r].pc = "idle" /\ reqs'[r].calls = 0 /\ reqs'[r].wrote = "no"
             \/ /\ reqs'[r].pc = "done"
                /\ reqs'[r].calls = reqs[r].calls /\ reqs'[r].wrote = reqs[r].wrote
  BY <1>2, <1>3 DEF Unsent
<1>6. /\ counter' \in Ids /\ closing' \in 0 .. 4 /\ restarts' \in Nat
      /\ waiting' \in [Ids -> Callback] /\ age' \in [Ids -> Nat]
  <2>0. counter' = 0 /\ closing' = 0 /\ restarts' = restarts + 1
    BY Zenon DEF Restart
  <2>1. counter' \in Ids /\ closing' \in 0 .. 4
    BY <2>0 DEF Ids
  <2>2. restarts' \in Nat
    BY <2>0 DEF IInv, TypeOK
  <2>3. waiting' \in [Ids -> Callback] /\ age' \in [Ids -> Nat]
    BY DEF Restart, NoneWaiting, NoAges, Callback
  <2> QED
    BY <2>1, <2>2, <2>3
<1>7. gc' \in GcType /\ ht' \in HtType
  BY DEF Restart, Asleep, Receiving, GcType, HtType, Callback
<1>8. reading' \in BOOLEAN /\ UNCHANGED <<net, crashed>>
  BY DEF Restart
<1>9. TypeOK'
  BY <1>4, <1>6, <1>7, <1>8 DEF IInv, TypeOK, GcType, HtType
<1>10. gc'.cb = NoReq /\ ht'.cb = NoReq /\ \A i \in Ids : waiting'[i] = NoReq
  BY DEF Restart, Asleep, Receiving, NoneWaiting
<1>11. ASSUME NEW r \in Req PROVE Sound(r)'
  BY <1>5, <1>10 DEF IInv, Sound, InCache, InHand, Progress
<1> QED
  BY <1>9, <1>10, <1>11 DEF IInv, Hands

LEMMA NextKeeps == IInv /\ [Next]_vars => IInv'
<1> SUFFICES ASSUME IInv, [Next]_vars PROVE IInv'
  OBVIOUS
<1>1. CASE UNCHANGED vars
  BY <1>1 DEF vars, IInv, TypeOK, Hands, Sound, InCache, InHand, Progress
<1>2. ASSUME NEW r \in Req,
             \/ Begin(r) \/ Refused(r) \/ Add(r) \/ AddExists(r) \/ Write(r)
             \/ WriteFails(r) \/ WriteUndo(r) \/ Return(r)
      PROVE  IInv'
  BY <1>2, BeginKeeps, RefusedKeeps, AddKeeps, WriteKeeps, WriteUndoKeeps
<1>3. ASSUME NEW m \in net, Deliver(m) PROVE IInv'
  BY <1>3, DeliverKeeps
<1>4. ASSUME \/ \E seen \in SUBSET Cached : Sweep(seen)
             \/ SweepTake \/ HandOver \/ SweepEnd \/ SweepStops \/ TimeoutCall
      PROVE  IInv'
  BY <1>4, SweepKeeps, SweepTakeKeeps, HandOverKeeps, TimeoutCallKeeps
<1>5. ASSUME \/ \E r \in Req : \E kind \in Kind : Answer(r, kind)
             \/ SendPanics \/ TimeoutsEnd \/ ReadFails \/ Close \/ Tick
      PROVE  IInv'
  BY <1>5, OtherKeeps
<1>6. CASE Restart
  BY <1>6, RestartKeeps
<1> QED
  BY <1>1, <1>2, <1>3, <1>4, <1>5, <1>6 DEF Next

-----------------------------------------------------------------------------
LEMMA Inductive == Spec => []IInv
BY InitInv, NextKeeps, PTL DEF Spec

(* Typing of the client's and the cache's state, and of what the sweeper   *)
(* and handleTimeouts hold: ids stay within the id space when the message  *)
(* id counter (client.go, makeMessageID) wraps.                            *)
THEOREM ClientTyping == Spec => []TypeOK
<1>1. IInv => TypeOK
  BY DEF IInv
<1> QED
  BY <1>1, Inductive, PTL

(* A callback is called at most once unless the write of its request       *)
(* failed (Pull, checkCleanup, handleTimeouts and handleResponsesForever), *)
(* whatever the size of the id space: also when ids wrap and collide.      *)
THEOREM CalledAtMostOnce == Spec => []AtMostOnce
<1>1. IInv => AtMostOnce
  BY DEF IInv, Sound, Progress, AtMostOnce
<1> QED
  BY <1>1, Inductive, PTL

(* The sweeper and handleTimeouts end only once Close has begun.           *)
Running ==
    /\ gc.pc = "dead" => Disposed
    /\ ht.pc = "exit" => Disposed

LEMMA NextRunning == ASSUME IInv, Running, [Next]_vars PROVE Running'
<1>1. closing \in 0 .. 4
  BY DEF IInv, TypeOK
<1>2. CASE UNCHANGED vars
  BY <1>2 DEF vars, Running, Disposed
<1>3. ASSUME NEW r \in Req,
             \/ Begin(r) \/ Refused(r) \/ Add(r) \/ AddExists(r) \/ Write(r)
             \/ WriteFails(r) \/ WriteUndo(r) \/ Return(r)
             \/ \E kind \in Kind : Answer(r, kind)
      PROVE  Running'
  <2>1. UNCHANGED <<gc, ht, closing>>
    BY <1>3 DEF Begin, Refused, Add, AddExists, Write, WriteFails, WriteUndo, Return, Answer
  <2> QED
    BY <2>1 DEF Running, Disposed
<1>4. ASSUME \/ \E m \in net : Deliver(m)
             \/ SendPanics \/ ReadFails \/ Tick
      PROVE  Running'
  <2>1. UNCHANGED <<gc, ht, closing>>
    BY <1>4 DEF Deliver, SendPanics, ReadFails, Tick
  <2> QED
    BY <2>1 DEF Running, Disposed
<1>5. ASSUME (\E seen \in SUBSET Cached : Sweep(seen)) \/ SweepTake \/ SweepEnd
      PROVE  Running'
  <2>1. gc \in GcType
    BY DEF IInv, TypeOK, GcType
  <2>2. UNCHANGED <<ht, closing>> /\ (gc'.pc = "dead" => gc.pc = "dead")
    BY <1>5, <2>1 DEF Sweep, SweepTake, SweepEnd, GcType
  <2> QED
    BY <2>2 DEF Running, Disposed
<1>6. CASE HandOver
  <2>1. gc \in GcType
    BY DEF IInv, TypeOK, GcType
  <2>2. UNCHANGED closing /\ gc'.pc # "dead" /\ ht'.pc # "exit"
    BY <1>6, <2>1 DEF HandOver, GcType
  <2> QED
    BY <2>2 DEF Running
<1>7. CASE SweepStops
  <2>1. UNCHANGED <<ht, closing>> /\ Disposed
    BY <1>1, <1>7 DEF SweepStops, CacheDisposed, Disposed
  <2> QED
    BY <2>1 DEF Running, Disposed
<1>8. CASE TimeoutCall
  <2>1. UNCHANGED <<gc, closing>> /\ (ht'.pc = "exit" => Disposed)
    BY <1>8 DEF TimeoutCall
  <2> QED
    BY <2>1 DEF Running, Disposed
<1>9. CASE TimeoutsEnd
  <2>1. UNCHANGED <<gc, closing>> /\ Disposed
    BY <1>1, <1>9 DEF TimeoutsEnd, ChannelClosed, Disposed
  <2> QED
    BY <2>1 DEF Running, Disposed
<1>10. CASE Close
  <2>1. UNCHANGED <<gc, ht>> /\ closing' = closing + 1
    BY <1>10 DEF Close
  <2> QED
    BY <1>1, <2>1 DEF Running, Disposed
<1>11. CASE Restart
  BY <1>11 DEF Restart, Asleep, Receiving, Running
<1> QED
  BY <1>2, <1>3, <1>4, <1>5, <1>6, <1>7, <1>8, <1>9, <1>10, <1>11 DEF Next

(* Until Close is called, the callback of a request that waits is in the   *)
(* cache, with the sweeper or with handleTimeouts, and the goroutines that *)
(* will call it run, or it was dropped by a late or unexpected reply,      *)
(* another request's failed write or a restart.                            *)
THEOREM CallbackNeverLost == Spec => []CallbackAccounted
<1>1. Init => Running
  BY DEF Init, Asleep, Receiving, Running
<1>2. IInv /\ Running => CallbackAccounted
  <2> SUFFICES ASSUME IInv, Running, NEW r \in Req,
                      reqs[r].pc \in {"write", "wait"}, reqs[r].calls = 0
               PROVE  WillBeCalled(r) \/ reqs[r].dropped \/ LeftByClose(r)
    BY DEF CallbackAccounted
  <2>1. waiting[reqs[r].id] = r \/ gc.cb = r \/ ht.cb = r \/ reqs[r].dropped
    BY DEF IInv, Sound, Progress
  <2> QED
    BY <2>1 DEF Running, WillBeCalled, LeftByClose
<1>3. IInv /\ Running /\ [Next]_vars => Running'
  BY NextRunning
<1> QED
  BY <1>1, <1>2, <1>3, Inductive, PTL DEF Spec

-----------------------------------------------------------------------------
(* While the sweeper holds the mutex nobody takes from the cache what it   *)
(* is about to send, so that it sends, and handleTimeouts calls, the       *)
(* callback of some request.                                               *)
Full ==
    /\ ~LockFree => \A i \in gc.doomed : waiting[i] # NoReq
    /\ gc.pc = "send" => gc.cb # NoReq
    /\ ht.pc = "call" => ht.cb # NoReq

LEMMA InitFull == Init => Full
BY DEF Init, Full, LockFree, Asleep, Receiving

LEMMA NextFull == ASSUME IInv, Full, [Next]_vars PROVE Full'
<1>1. CASE UNCHANGED <<waiting, gc, ht>>
  BY <1>1 DEF Full, LockFree
<1>2. ASSUME LockFree, UNCHANGED <<gc, ht>> PROVE Full'
  BY <1>2 DEF Full, LockFree
<1>3. ASSUME NEW seen \in SUBSET Cached, Sweep(seen) PROVE Full'
  BY <1>3 DEF Sweep, Full, IInv, TypeOK, Cached, Exists
<1>4. CASE SweepTake
  <2>1. PICK i \in gc.doomed :
            /\ gc.pc = "sweep" /\ waiting' = Without(i) /\ UNCHANGED ht
            /\ \/ gc' = [gc EXCEPT !.doomed = gc.doomed \ {i}]
               \/ gc' = [gc EXCEPT !.pc = "send", !.doomed = gc.doomed \ {i}, !.cb = waiting[i]]
    BY <1>4 DEF SweepTake
  <2>2. gc \in GcType /\ waiting \in [Ids -> Callback]
    BY DEF IInv, TypeOK, GcType
  <2>3. waiting[i] # NoReq /\ gc.doomed \subseteq Ids
    BY <2>1, <2>2 DEF Full, LockFree, GcType
  <2>4. /\ gc'.doomed = gc.doomed \ {i}
        /\ gc'.pc = "send" => gc'.cb # NoReq
    BY <2>1, <2>2, <2>3 DEF GcType
  <2>5. \A j \in gc.doomed \ {i} : waiting'[j] = waiting[j]
    BY <2>1, <2>2, <2>3 DEF Without
  <2> QED
    BY <2>1, <2>4, <2>5 DEF Full, LockFree
<1>5. CASE HandOver
  <2>1. gc \in GcType
    BY DEF IInv, TypeOK, GcType
  <2> QED
    BY <1>5, <2>1 DEF HandOver, Full, LockFree, GcType
<1>6. CASE SweepEnd \/ SweepStops
  <2>1. gc \in GcType
    BY DEF IInv, TypeOK, GcType
  <2> QED
    BY <1>6, <2>1 DEF SweepEnd, SweepStops, Full, LockFree, GcType
<1>7. CASE TimeoutCall \/ TimeoutsEnd
  <2>1. ht \in HtType
    BY DEF IInv, TypeOK, HtType
  <2> QED
    BY <1>7, <2>1 DEF TimeoutCall, TimeoutsEnd, Full, LockFree, HtType
<1>8. CASE Restart
  BY <1>8 DEF Restart, Full, LockFree, Asleep, Receiving
<1>9. ASSUME NEW r \in Req, Add(r) \/ WriteUndo(r) PROVE Full'
  BY <1>2, <1>9 DEF Add, WriteUndo
<1>10. ASSUME NEW m \in net, Deliver(m) PROVE Full'
  BY <1>2, <1>10 DEF Deliver
<1>11. ASSUME NEW r \in Req,
              \/ Begin(r) \/ Refused(r) \/ AddExists(r) \/ Write(r) \/ WriteFails(r) \/ Return(r)
              \/ \E kind \in Kind : Answer(r, kind)
       PROVE  Full'
  BY <1>1, <1>11 DEF Begin, Refused, AddExists, Write, WriteFails, Return, Answer
<1>12. CASE SendPanics \/ ReadFails \/ Close \/ Tick \/ UNCHANGED vars
  BY <1>1, <1>12 DEF SendPanics, ReadFails, Close, Tick, vars
<1> QED
  BY <1>3, <1>4, <1>5, <1>6, <1>7, <1>8, <1>9, <1>10, <1>11, <1>12 DEF Next

(* A callback that is called again has been called twice.                  *)
LEMMA CalledAgain ==
    ASSUME NEW R \in [Req -> Request], NEW r \in Req, R[r].calls > 0,
           NEW result \in {"data", "error", "timeout"}, NEW from \in Callback
    PROVE  Called(R, r, result, from)[r].calls > 1
<1>1. Called(R, r, result, from)[r].calls = R[r].calls + 1
  BY CalledFacts DEF SameBut
<1>2. R[r].calls \in Nat
  BY DEF Request
<1> QED
  BY <1>1, <1>2

(* The steps that call a callback: only one called before panics.          *)
LEMMA WriteUndoPanics ==
    ASSUME IInv, NEW r \in Req, WriteUndo(r), crashed'
    PROVE  \E s \in Req : reqs'[s].calls > 1
<1>1. reqs \in [Req -> Request] /\ reqs[r].id \in Ids /\ waiting[reqs[r].id] \in Callback
  BY DEF IInv, TypeOK, Request
<1> PICK i \in Ids : i = reqs[r].id
  BY <1>1
<1> PICK w \in Callback : w = waiting[i]
  BY <1>1
<1> DEFINE cb == IF Exists(i) /\ ~Expired(i) THEN w ELSE r
           back == [reqs EXCEPT ![r].pc = "wait"]
           lost == IF w \notin {NoReq, cb} THEN [back EXCEPT ![w].dropped = TRUE] ELSE back
<1>2. cb \in Req
  BY DEF Exists, Callback
<1>3. reqs[cb].calls > 0 /\ reqs' = Called(lost, cb, "error", NoReq)
  BY DEF WriteUndo, PanicsIfAgain
<1>4. SameBut(reqs, back, r, "wait", reqs[r].calls, reqs[r].wrote, reqs[r].dropped)
  BY <1>1, PcFacts DEF Pc
<1>5. back \in [Req -> Request] /\ back[cb].calls = reqs[cb].calls
  BY <1>2, <1>4 DEF SameBut
<1> HIDE DEF back
<1>6. lost \in [Req -> Request] /\ lost[cb].calls = reqs[cb].calls
  <2>1. CASE w \in {NoReq, cb}
    BY <1>5, <2>1
  <2>2. CASE w \notin {NoReq, cb}
    <3>1. w \in Req
      BY <2>2 DEF Callback
    <3>2. SameBut(back, [back EXCEPT ![w].dropped = TRUE], w,
                  back[w].pc, back[w].calls, back[w].wrote, TRUE)
      BY <1>5, <3>1, DroppedFacts
    <3> QED
      BY <1>2, <1>5, <2>2, <3>2 DEF SameBut
  <2> QED
    BY <2>1, <2>2
<1> HIDE DEF lost, cb
<1> QED
  BY <1>2, <1>3, <1>6, CalledAgain DEF Callback

LEMMA TimeoutCallPanics ==
    ASSUME IInv, Full, TimeoutCall, crashed'
    PROVE  \E s \in Req : reqs'[s].calls > 1
<1>1. reqs \in [Req -> Request] /\ ht.cb \in Req
  BY DEF IInv, TypeOK, Full, TimeoutCall, Callback
<1>2. reqs[ht.cb].calls > 0 /\ reqs' = Called(reqs, ht.cb, "timeout", NoReq)
  BY DEF TimeoutCall, PanicsIfAgain
<1> QED
  BY <1>1, <1>2, CalledAgain DEF Callback

LEMMA DeliverNeverPanics == ASSUME IInv, NEW m \in net, Deliver(m) PROVE ~crashed'
<1>1. m.id \in Ids /\ waiting[m.id] \in Callback
  BY DEF IInv, TypeOK, Packet
<1>2. waiting[m.id] # NoReq => reqs[waiting[m.id]].calls = 0
  BY <1>1 DEF IInv, Sound, InCache, Callback
<1>3. ~(Exists(m.id) /\ reqs[waiting[m.id]].calls > 0)
  BY <1>2 DEF Exists
<1> QED
  BY <1>3, Zenon DEF Deliver

(* A step that ends in a panic is one of the three.                        *)
LEMMA NextPanics == ASSUME IInv, IInv', Full, PanicKnown, [Next]_vars PROVE PanicKnown'
<1>1. (\E s \in Req : reqs'[s].calls > 1) => PanicKnown'
  BY DEF IInv, Sound, Progress, PanicKnown
<1>2. CASE UNCHANGED vars
  BY <1>2 DEF vars, PanicKnown, ChannelClosed
<1>3. CASE Next /\ UNCHANGED crashed
  BY <1>3 DEF Next, PanicKnown
<1>4. CASE Next /\ SendPanics
  BY <1>4 DEF SendPanics, PanicKnown, ChannelClosed
<1>5. ASSUME NEW r \in Req, WriteUndo(r) PROVE PanicKnown'
  BY <1>1, <1>5, WriteUndoPanics DEF PanicKnown
<1>6. CASE TimeoutCall
  BY <1>1, <1>6, TimeoutCallPanics DEF PanicKnown
<1>7. ASSUME NEW m \in net, Deliver(m) PROVE PanicKnown'
  BY <1>7, DeliverNeverPanics DEF PanicKnown
<1>8. Next => \/ UNCHANGED crashed \/ SendPanics \/ TimeoutCall
              \/ \E r \in Req : WriteUndo(r)
              \/ \E m \in net : Deliver(m)
  BY Zenon DEF Next, Begin, Refused, Add, AddExists, Write, WriteFails, Return, Answer, Sweep,
         SweepTake, HandOver, SweepEnd, SweepStops, TimeoutsEnd, ReadFails, Close, Tick, Restart
<1> QED
  BY <1>2, <1>3, <1>4, <1>5, <1>6, <1>7, <1>8

(* The client panics on two paths only (waitingmessage.go, Dispose closing *)
(* the channel on which checkCleanup sends; client.go, _sendUDP calling a  *)
(* callback that the sweeper has taken), for any number of requests.       *)
THEOREM PanicsAreKnown == Spec => []PanicKnown
<1>1. Init => PanicKnown
  BY DEF Init, PanicKnown
<1>2. Spec => []Full
  BY Inductive, InitFull, NextFull, PTL DEF Spec
<1> QED
  BY <1>1, <1>2, Inductive, NextPanics, PTL DEF Spec

-----------------------------------------------------------------------------
(* Requests have different ids while there are fewer of them than ids and  *)
(* the program is not started again: the counter is the number of requests *)
(* begun.  A packet under way carries the id of the request it answers.    *)
NoWrap == IsFiniteSet(Req) /\ Cardinality(Req) < IdSpace /\ MaxRestarts = 0

Begun == {r \in Req : reqs[r].pc # "idle"}

Numbered ==
    /\ counter = Cardinality(Begun)
    /\ \A r \in Begun : reqs[r].id <= counter
    /\ \A r, s \in Begun : reqs[r].id = reqs[s].id => r = s

Addressed == \A m \in net : m.to \in Begun /\ reqs[m.to].id = m.id

Matched == Numbered /\ Addressed /\ ReplyMatches

(* Changes of the requests that begin none and give none a reply.          *)
Mute(R, Q) ==
    \A s \in Req : /\ Q[s].id = R[s].id /\ (Q[s].pc = "idle" <=> R[s].pc = "idle")
                   /\ Q[s].result = "data" => R[s].result = "data" /\ Q[s].from = R[s].from

LEMMA MuteTwice ==
    ASSUME NEW P, NEW Q, NEW R, Mute(P, Q), Mute(Q, R) PROVE Mute(P, R)
BY DEF Mute

LEMMA OneMute ==
    ASSUME NEW R \in [Req -> Request], NEW r \in Req, NEW g,
           g.id = R[r].id, g.pc = "idle" <=> R[r].pc = "idle",
           g.result = "data" => R[r].result = "data" /\ g.from = R[r].from
    PROVE  Mute(R, [R EXCEPT ![r] = g])
BY DEF Mute

LEMMA CalledMute ==
    ASSUME NEW R \in [Req -> Request], NEW r \in Req, NEW result \in {"error", "timeout"},
           NEW from \in Callback
    PROVE  Mute(R, Called(R, r, result, from))
<1> DEFINE g == [R[r] EXCEPT !.calls = R[r].calls + 1, !.result = result, !.from = from]
<1>1. ASSUME NEW q \in Request, NEW n
      PROVE  LET h == [q EXCEPT !.calls = n, !.result = result, !.from = from] IN
             h.id = q.id /\ h.pc = q.pc /\ h.result = result
  BY DEF Request
<1>2. R[r] \in Request
  OBVIOUS
<1>3. g.id = R[r].id /\ g.pc = R[r].pc /\ g.result = result
  BY <1>1, <1>2
<1>4. Called(R, r, result, from) = [R EXCEPT ![r] = g]
  BY DEF Called
<1> HIDE DEF g
<1>5. (g.pc = "idle" <=> R[r].pc = "idle") /\ ~(g.result = "data")
  BY <1>3
<1>6. Mute(R, [R EXCEPT ![r] = g])
  BY <1>3, <1>5, OneMute
<1> QED
  BY <1>4, <1>6

LEMMA PcMute ==
    ASSUME NEW R \in [Req -> Request], NEW r \in Req, NEW pc \in Pc,
           pc = "idle" <=> R[r].pc = "idle"
    PROVE  Mute(R, [R EXCEPT ![r].pc = pc])
<1> DEFINE g == [R[r] EXCEPT !.pc = pc]
<1>1. /\ g.id = R[r].id /\ g.pc = pc
      /\ g.result = R[r].result /\ g.from = R[r].from
  BY DEF Request
<1>2. [R EXCEPT ![r].pc = pc] = [R EXCEPT ![r] = g]
  OBVIOUS
<1> HIDE DEF g
<1> QED
  BY <1>1, <1>2, OneMute

LEMMA WroteMute ==
    ASSUME NEW R \in [Req -> Request], NEW r \in Req, NEW pc \in Pc, NEW wrote,
           pc = "idle" <=> R[r].pc = "idle"
    PROVE  Mute(R, [R EXCEPT ![r] = [R[r] EXCEPT !.pc = pc, !.wrote = wrote]])
<1> DEFINE g == [R[r] EXCEPT !.pc = pc, !.wrote = wrote]
<1>1. /\ g.id = R[r].id /\ g.pc = pc
      /\ g.result = R[r].result /\ g.from = R[r].from
  BY DEF Request
<1> HIDE DEF g
<1>2. Mute(R, [R EXCEPT ![r] = g])
  BY <1>1, OneMute
<1> QED
  BY <1>2 DEF g

LEMMA DroppedMute ==
    ASSUME NEW R \in [Req -> Request], NEW r \in Req
    PROVE  Mute(R, [R EXCEPT ![r].dropped = TRUE])
<1> DEFINE g == [R[r] EXCEPT !.dropped = TRUE]
<1>1. /\ g.id = R[r].id /\ g.pc = R[r].pc
      /\ g.result = R[r].result /\ g.from = R[r].from
  BY DEF Request
<1>2. [R EXCEPT ![r].dropped = TRUE] = [R EXCEPT ![r] = g]
  OBVIOUS
<1> HIDE DEF g
<1> QED
  BY <1>1, <1>2, OneMute

LEMMA MuteKeeps ==
    ASSUME IInv, Matched, Mute(reqs, reqs'), UNCHANGED counter,
           \A m \in net' : m \in net \/ (m.to \in Begun /\ reqs[m.to].id = m.id)
    PROVE  Matched'
<1>1. Begun' = Begun /\ \A r \in Req : reqs'[r].id = reqs[r].id
  BY DEF Mute, Begun
<1>2. Numbered'
  BY <1>1 DEF Matched, Numbered, Begun
<1>3. Addressed'
  BY <1>1 DEF Matched, Addressed, Begun
<1>4. ReplyMatches'
  BY DEF Mute, Matched, ReplyMatches
<1> QED
  BY <1>2, <1>3, <1>4 DEF Matched

(* A new request is given an id that no other request has.                 *)
LEMMA BeginMatched ==
    ASSUME NoWrap, IInv, Matched, NEW r \in Req, Begin(r) PROVE Matched'
<1>1. reqs \in [Req -> Request] /\ reqs[r] \in Request /\ reqs[r].pc = "idle" /\ counter \in Ids
  BY DEF IInv, TypeOK, Begin
<1> DEFINE n == nextID(counter)
           g == [reqs[r] EXCEPT !.pc = "add", !.id = n]
<1>2. /\ g.pc = "add" /\ g.id = n
      /\ g.result = reqs[r].result /\ g.from = reqs[r].from
  BY <1>1 DEF Request
<1>3. counter' = n /\ net' = net /\ reqs' = [reqs EXCEPT ![r] = g]
  BY DEF Begin
<1>4. reqs'[r] = g /\ \A s \in Req : s # r => reqs'[s] = reqs[s]
  BY <1>1, <1>3
<1> HIDE DEF g
<1>5. Begun' = Begun \cup {r} /\ r \notin Begun
  BY <1>1, <1>2, <1>4 DEF Begun
<1>6. IsFiniteSet(Begun) /\ Cardinality(Begun) \in Nat /\ Cardinality(Begun') = Cardinality(Begun) + 1
  <2>1. Begun \subseteq Req /\ IsFiniteSet(Req)
    BY DEF Begun, NoWrap
  <2>2. IsFiniteSet(Begun)
    BY <2>1, FS_Subset
  <2> QED
    BY <1>5, <2>2, FS_AddElement, FS_CardinalityType
<1>7. Cardinality(Begun') < IdSpace /\ Cardinality(Req) \in Nat
  <2>1. Begun' \subseteq Req /\ IsFiniteSet(Req) /\ Cardinality(Req) < IdSpace
    BY <1>5 DEF Begun, NoWrap
  <2>2. Cardinality(Begun') <= Cardinality(Req) /\ Cardinality(Req) \in Nat
    BY <2>1, FS_Subset, FS_CardinalityType
  <2> QED
    BY <1>6, <2>1, <2>2
<1>8. n = counter + 1
  BY <1>6, <1>7 DEF Matched, Numbered, nextID
<1> HIDE DEF n
<1>9. \A s \in Begun : reqs[s].id \in Nat /\ reqs[s].id <= counter
  BY DEF IInv, TypeOK, Request, Ids, Begun, Matched, Numbered
<1>10. Numbered'
  <2>1. counter' = Cardinality(Begun')
    BY <1>3, <1>6, <1>8 DEF Matched, Numbered
  <2>2. ASSUME NEW s \in Begun' PROVE reqs'[s].id <= counter'
    BY <1>1, <1>2, <1>3, <1>4, <1>5, <1>8, <1>9 DEF Begun, Ids
  <2>3. ASSUME NEW s \in Begun', NEW t \in Begun', reqs'[s].id = reqs'[t].id PROVE s = t
    BY <1>1, <1>2, <1>4, <1>5, <1>8, <1>9, <2>3 DEF Begun, Ids, Matched, Numbered
  <2> QED
    BY <2>1, <2>2, <2>3 DEF Numbered
<1>11. Addressed'
  BY <1>3, <1>4, <1>5 DEF Addressed, Matched, Begun
<1>12. ReplyMatches'
  BY <1>2, <1>4 DEF ReplyMatches, Matched
<1> QED
  BY <1>10, <1>11, <1>12 DEF Matched

LEMMA WriteUndoMute ==
    ASSUME IInv, NEW r \in Req, WriteUndo(r) PROVE Mute(reqs, reqs')
<1>1. reqs \in [Req -> Request] /\ reqs[r].id \in Ids /\ waiting[reqs[r].id] \in Callback
  BY DEF IInv, TypeOK, Request
<1> PICK i \in Ids : i = reqs[r].id
  BY <1>1
<1> PICK w \in Callback : w = waiting[i]
  BY <1>1
<1> DEFINE cb == IF Exists(i) /\ ~Expired(i) THEN w ELSE r
           back == [reqs EXCEPT ![r].pc = "wait"]
           lost == IF w \notin {NoReq, cb} THEN [back EXCEPT ![w].dropped = TRUE] ELSE back
<1>2. cb \in Req
  BY DEF Exists, Callback
<1>3. reqs[r].pc = "undo" /\ reqs' = Called(lost, cb, "error", NoReq)
  BY DEF WriteUndo
<1>4. Mute(reqs, back)
  BY <1>1, <1>3, PcMute DEF Pc
<1>5. back \in [Req -> Request]
  <2>1. SameBut(reqs, back, r, "wait", reqs[r].calls, reqs[r].wrote, reqs[r].dropped)
    BY <1>1, PcFacts DEF Pc
  <2> QED
    BY <2>1 DEF SameBut
<1> HIDE DEF back
<1>6. lost \in [Req -> Request] /\ Mute(reqs, lost)
  <2>1. CASE w \in {NoReq, cb}
    BY <1>4, <1>5, <2>1
  <2>2. CASE w \notin {NoReq, cb}
    <3>1. w \in Req
      BY <2>2 DEF Callback
    <3>2. [back EXCEPT ![w].dropped = TRUE] \in [Req -> Request]
      BY <1>5, <3>1, DroppedFacts DEF SameBut
    <3>3. Mute(back, [back EXCEPT ![w].dropped = TRUE])
      BY <1>5, <3>1, DroppedMute
    <3> QED
      BY <1>4, <2>2, <3>2, <3>3, MuteTwice
  <2> QED
    BY <2>1, <2>2
<1> HIDE DEF lost, cb
<1>7. Mute(lost, Called(lost, cb, "error", NoReq))
  BY <1>2, <1>6, CalledMute DEF Callback
<1> QED
  BY <1>3, <1>6, <1>7, MuteTwice

LEMMA RequestMatched ==
    ASSUME IInv, Matched, NEW r \in Req,
           \/ Refused(r) \/ Add(r) \/ AddExists(r) \/ Write(r)
           \/ WriteFails(r) \/ WriteUndo(r) \/ Return(r)
    PROVE  Matched'
<1>1. reqs \in [Req -> Request] /\ NoReq \in Callback
  BY DEF IInv, TypeOK, Callback
<1>2. Mute(reqs, reqs')
  <2>1. CASE Refused(r) \/ AddExists(r)
    <3> DEFINE back == [reqs EXCEPT ![r].pc = "wait"]
    <3>1. reqs[r].pc = "add" /\ reqs' = Called(back, r, "error", NoReq)
      BY <2>1 DEF Refused, AddExists
    <3>2. Mute(reqs, back)
      BY <1>1, <3>1, PcMute DEF Pc
    <3>3. back \in [Req -> Request]
      <4>1. SameBut(reqs, back, r, "wait", reqs[r].calls, reqs[r].wrote, reqs[r].dropped)
        BY <1>1, PcFacts DEF Pc
      <4> QED
        BY <4>1 DEF SameBut
    <3> HIDE DEF back
    <3>4. Mute(back, reqs')
      BY <1>1, <3>1, <3>3, CalledMute
    <3> QED
      BY <3>2, <3>4, MuteTwice
  <2>2. CASE Add(r) \/ Return(r)
    <3>1. PICK pc \in Pc : pc # "idle" /\ reqs' = [reqs EXCEPT ![r].pc = pc]
      BY <2>2 DEF Add, Return, Pc
    <3>2. reqs[r].pc # "idle"
      BY <2>2 DEF Add, Return
    <3> QED
      BY <1>1, <3>1, <3>2, PcMute
  <2>3. CASE Write(r) \/ WriteFails(r)
    <3>1. PICK pc \in Pc, wrote \in {"ok", "failed"} :
              pc # "idle" /\ reqs' = [reqs EXCEPT ![r] = [reqs[r] EXCEPT !.pc = pc, !.wrote = wrote]]
      BY <2>3 DEF Write, WriteFails, Pc
    <3>2. reqs[r].pc # "idle"
      BY <2>3 DEF Write, WriteFails
    <3> QED
      BY <1>1, <3>1, <3>2, WroteMute
  <2> QED
    BY <2>1, <2>2, <2>3, WriteUndoMute
<1>3. counter' = counter /\ net' = net
  BY DEF Refused, Add, AddExists, Write, WriteFails, WriteUndo, Return
<1> QED
  BY <1>2, <1>3, MuteKeeps

(* The callback that a reply finds in the cache is that of the request     *)
(* which the reply answers.                                                *)
LEMMA DeliverMatched ==
    ASSUME IInv, Matched, NEW m \in net, Deliver(m) PROVE Matched'
<1>0. m.id \in Ids /\ waiting[m.id] \in Callback
  BY DEF IInv, TypeOK, Packet
<1> PICK w \in Callback : w = waiting[m.id]
  BY <1>0
<1>1. /\ reqs \in [Req -> Request] /\ m.to \in Callback
      /\ m.kind \in {"data", "error", "other"}
  BY DEF IInv, TypeOK, Packet, Callback
<1>2. counter' = counter /\ \A p \in net' : p \in net
  BY DEF Deliver
<1>3. \/ w = NoReq /\ reqs' = reqs
      \/ w \in Req /\ m.kind \in {"data", "error"} /\ reqs' = Called(reqs, w, m.kind, m.to)
      \/ w \in Req /\ reqs' = [reqs EXCEPT ![w].dropped = TRUE]
  BY <1>1 DEF Deliver, Exists, Callback
<1>4. CASE Mute(reqs, reqs')
  BY <1>2, <1>4, MuteKeeps
<1>5. CASE w \in Req /\ m.kind = "data" /\ reqs' = Called(reqs, w, "data", m.to)
  <2>1. reqs[w].id = m.id /\ w \in Begun
    BY <1>0, <1>5 DEF IInv, Sound, InCache, Begun
  <2>2. m.to \in Begun /\ reqs[m.to].id = m.id
    BY DEF Matched, Addressed
  <2>3. w = m.to
    BY <2>1, <2>2 DEF Matched, Numbered
  <2> DEFINE g == [reqs[w] EXCEPT !.calls = reqs[w].calls + 1, !.result = "data", !.from = w]
  <2>4. ASSUME NEW q \in Request, NEW n
        PROVE  LET h == [q EXCEPT !.calls = n, !.result = "data", !.from = w] IN
               h.id = q.id /\ h.pc = q.pc /\ h.from = w
    BY DEF Request
  <2>5. g.id = reqs[w].id /\ g.pc = reqs[w].pc /\ g.from = w
    BY <1>1, <1>5, <2>4
  <2>6. reqs' = [reqs EXCEPT ![w] = g]
    BY <1>5, <2>3 DEF Called
  <2> HIDE DEF g
  <2>7. \A s \in Req : reqs'[s].id = reqs[s].id /\ reqs'[s].pc = reqs[s].pc
    BY <1>1, <1>5, <2>5, <2>6
  <2>8. Begun' = Begun
    BY <2>7 DEF Begun
  <2>9. Numbered'
    BY <1>2, <2>7, <2>8 DEF Matched, Numbered, Begun
  <2>10. Addressed'
    BY <1>2, <2>7, <2>8 DEF Matched, Addressed, Begun
  <2>11. ReplyMatches'
    BY <1>1, <1>5, <2>5, <2>6 DEF Matched, ReplyMatches
  <2> QED
    BY <2>9, <2>10, <2>11 DEF Matched
<1>6. CASE w = NoReq /\ reqs' = reqs
  BY <1>4, <1>6 DEF Mute
<1>7. CASE w \in Req /\ m.kind = "error" /\ reqs' = Called(reqs, w, "error", m.to)
  BY <1>1, <1>4, <1>7, CalledMute
<1>8. CASE w \in Req /\ reqs' = [reqs EXCEPT ![w].dropped = TRUE]
  BY <1>1, <1>4, <1>8, DroppedMute
<1> QED
  BY <1>3, <1>5, <1>6, <1>7, <1>8

LEMMA AnswerMatched ==
    ASSUME IInv, Matched, NEW r \in Req, NEW kind \in Kind, Answer(r, kind) PROVE Matched'
<1> DEFINE m == [id |-> reqs[r].id, to |-> r, kind |-> kind]
<1>1. m.to = r /\ m.id = reqs[r].id
  OBVIOUS
<1>2. r \in Begun
  BY DEF Answer, IInv, Sound, Progress, Begun
<1>3. counter' = counter /\ reqs' = reqs /\ net' = net \cup {m}
  BY DEF Answer
<1> HIDE DEF m
<1>4. Mute(reqs, reqs')
  BY <1>3 DEF Mute
<1> QED
  BY <1>1, <1>2, <1>3, <1>4, MuteKeeps

LEMMA TimerMatched ==
    ASSUME IInv, Full, Matched, SweepTake \/ TimeoutCall PROVE Matched'
<1>1. reqs \in [Req -> Request] /\ NoReq \in Callback
  BY DEF IInv, TypeOK, Callback
<1>2. CASE TimeoutCall
  <2>1. ht.cb \in Req
    BY <1>2 DEF IInv, TypeOK, Full, TimeoutCall, Callback
  <2>2. reqs' = Called(reqs, ht.cb, "timeout", NoReq) /\ counter' = counter /\ net' = net
    BY <1>2 DEF TimeoutCall
  <2>3. PICK c \in Req : c = ht.cb
    BY <2>1
  <2>4. Mute(reqs, reqs')
    BY <1>1, <2>2, <2>3, CalledMute
  <2> QED
    BY <2>2, <2>4, MuteKeeps
<1>3. CASE SweepTake
  <2>1. PICK i \in gc.doomed :
            /\ gc.pc = "sweep"
            /\ reqs' = [reqs EXCEPT ![waiting[i]].dropped = TRUE] \/ reqs' = reqs
    BY <1>3 DEF SweepTake
  <2>2. counter' = counter /\ net' = net
    BY <1>3 DEF SweepTake
  <2>3. waiting[i] \in Req
    <3>1. gc.doomed \subseteq Ids /\ waiting \in [Ids -> Callback]
      BY DEF IInv, TypeOK
    <3>2. waiting[i] # NoReq
      BY <2>1 DEF Full, LockFree
    <3> QED
      BY <3>1, <3>2 DEF Callback
  <2>4. PICK w \in Req : w = waiting[i]
    BY <2>3
  <2>5. Mute(reqs, reqs')
    <3>1. CASE reqs' = [reqs EXCEPT ![w].dropped = TRUE]
      BY <1>1, <3>1, DroppedMute
    <3>2. CASE reqs' = reqs
      BY <3>2 DEF Mute
    <3> QED
      BY <2>1, <2>4, <3>1, <3>2
  <2> QED
    BY <2>2, <2>5, MuteKeeps
<1> QED
  BY <1>2, <1>3

LEMMA NextMatched ==
    ASSUME NoWrap, IInv, Full, Matched, [Next]_vars PROVE Matched'
<1>1. CASE UNCHANGED <<counter, reqs, net>>
  BY <1>1, MuteKeeps DEF Mute
<1>2. ASSUME NEW r \in Req,
             \/ Begin(r) \/ Refused(r) \/ Add(r) \/ AddExists(r) \/ Write(r)
             \/ WriteFails(r) \/ WriteUndo(r) \/ Return(r)
      PROVE  Matched'
  BY <1>2, BeginMatched, RequestMatched
<1>3. ASSUME NEW m \in net, Deliver(m) PROVE Matched'
  BY <1>3, DeliverMatched
<1>4. ASSUME NEW r \in Req, NEW kind \in Kind, Answer(r, kind) PROVE Matched'
  BY <1>4, AnswerMatched
<1>5. CASE SweepTake \/ TimeoutCall
  BY <1>5, TimerMatched
<1>6. ~Restart
  <2>1. restarts \in Nat /\ ~(restarts < MaxRestarts)
    BY DEF NoWrap, IInv, TypeOK
  <2> QED
    BY <2>1 DEF Restart
<1>7. CASE \/ \E seen \in SUBSET Cached : Sweep(seen)
           \/ HandOver \/ SendPanics \/ SweepEnd \/ SweepStops
           \/ TimeoutsEnd \/ ReadFails \/ Close \/ Tick \/ UNCHANGED vars
  BY <1>1, <1>7 DEF Sweep, HandOver, SendPanics, SweepEnd, SweepStops, TimeoutsEnd, ReadFails,
                    Close, Tick, vars
<1> QED
  BY <1>2, <1>3, <1>4, <1>5, <1>6, <1>7 DEF Next

(* With fewer requests than message ids (2^32, client.go, makeMessageID)   *)
(* and no restart on the same port, a request that is given data is given  *)
(* the data of the reply to itself (client.go, handleResponsesForever):    *)
(* however late, often and out of order replies come.                      *)
THEOREM RepliesMatch == NoWrap => (Spec => []ReplyMatches)
<1> SUFFICES ASSUME NoWrap PROVE Spec => []ReplyMatches
  OBVIOUS
<1>1. Init => Matched
  <2> SUFFICES ASSUME Init PROVE Matched
    OBVIOUS
  <2>1. \A r \in Req : reqs[r].pc = "idle" /\ reqs[r].result = "none"
    BY DEF Init, Unsent
  <2>2. Begun = {}
    BY <2>1 DEF Begun
  <2>3. Cardinality(Begun) = 0
    BY <2>2, FS_EmptySet
  <2> QED
    BY <2>1, <2>2, <2>3 DEF Init, Matched, Numbered, Addressed, ReplyMatches
<1>2. Spec => []Full
  BY Inductive, InitFull, NextFull, PTL DEF Spec
<1>3. IInv /\ Full /\ Matched /\ [Next]_vars => Matched'
  BY NextMatched
<1>4. Matched => ReplyMatches
  BY DEF Matched
<1> QED
  BY <1>1, <1>2, <1>3, <1>4, Inductive, PTL DEF Spec
=============================================================================
