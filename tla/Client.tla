------------------------------- MODULE Client -------------------------------
(***************************************************************************)
(* client/client.go (the UDP requests) with client/waitingmessage: how the *)
(* callback of a request travels, and which goroutine calls it.            *)
(*                                                                         *)
(* A request registers its callback in the ResponseCache under its message *)
(* id, writes its packet and waits.  Three goroutines can end the wait:    *)
(* the response handler pulls the callback when a reply comes; the sweeper *)
(* (checkCleanup) takes callbacks that are too old out of the cache and    *)
(* hands them over an unbuffered channel to handleTimeouts; and the caller *)
(* itself pulls it when its write fails.  Close tears all of it down in    *)
(* steps of its own.                                                       *)
(*                                                                         *)
(* A step is a critical section of the cache's mutex, a channel operation, *)
(* a system call or one assignment of Close.  Time is the age in seconds   *)
(* of each cache entry; `Timeout' is timeoutSecs, and an age greater than  *)
(* it is all the code ever asks about.                                     *)
(***************************************************************************)
EXTENDS Integers, FiniteSets

CONSTANTS Req,          \* requests made by the program, each at most once
          NoReq,        \* no request
          IdSpace,      \* message ids are 0 .. IdSpace - 1 (2^32 in the code)
          Timeout,      \* ResponseCache.timeoutSecs
          Kind,         \* the kinds of replies in an instance
          WriteMayFail, \* WriteToUDP may return an error on an open socket
          MayClose,     \* Client.Close may be called
          MaxRestarts   \* times the program may be restarted on the same port

ASSUME ClientAssumption ==
    /\ NoReq \notin Req
    /\ IdSpace \in Nat \ {0} /\ Timeout \in Nat /\ MaxRestarts \in Nat
    /\ Kind \subseteq {"data", "error", "other"}
    /\ WriteMayFail \in BOOLEAN /\ MayClose \in BOOLEAN

Ids == 0 .. IdSpace - 1
Callback == Req \cup {NoReq}

VARIABLES
    counter,   \* Client.messageIDCounter
    waiting,   \* ResponseCache.cache: whose callback is at each id
    age,       \* seconds since the entry was added
    reqs,      \* the requests
    net,       \* reply packets under way
    gc,        \* checkCleanup: program counter, removeTheseKeys, callback being sent
    ht,        \* handleTimeouts: program counter, callback received
    reading,   \* handleResponsesForever is in its loop
    closing,   \* how far Close has got
    restarts,  \* restarts so far
    crashed    \* the process has panicked

vars == <<counter, waiting, age, reqs, net, gc, ht, reading, closing, restarts, crashed>>

(* Close sets Client.disposed, ResponseCache.disposed, closes the channel  *)
(* and the socket, in this order.                                          *)
Disposed == closing >= 1
CacheDisposed == closing >= 2
ChannelClosed == closing >= 3
SocketClosed == closing = 4

(* calls: how often the callback ran; from: whose packet it was given;     *)
(* wrote: what became of the write; dropped: the callback left the cache   *)
(* without being called or handed on (history).                            *)
Request == [pc : {"idle", "add", "write", "undo", "wait", "done"}, id : Ids, calls : Nat,
            result : {"none", "data", "error", "timeout"}, from : Callback,
            wrote : {"no", "ok", "failed"}, dropped : BOOLEAN]

Packet == [id : Ids, to : Req, kind : {"data", "error", "other"}]

Unsent == [pc |-> "idle", id |-> 0, calls |-> 0, result |-> "none", from |-> NoReq,
           wrote |-> "no", dropped |-> FALSE]

NoneWaiting == [i \in Ids |-> NoReq]
NoAges == [i \in Ids |-> 0]
Asleep == [pc |-> "sleep", doomed |-> {}, cb |-> NoReq]
Receiving == [pc |-> "recv", cb |-> NoReq]

(* NewClient and Listen.                                                   *)
Init ==
    /\ counter = 0 /\ waiting = NoneWaiting /\ age = NoAges
    /\ gc = Asleep /\ ht = Receiving /\ reading = TRUE /\ closing = 0
    /\ reqs = [r \in Req |-> Unsent]
    /\ net = {}
    /\ restarts = 0 /\ crashed = FALSE

(* checkCleanup holds the mutex from beginning to end, sends included.     *)
LockFree == gc.pc \notin {"sweep", "send"}

Expired(i) == age[i] > Timeout

ExistsNever(i) == FALSE
Exists(i) == waiting[i] # NoReq

(* The cache after delete(rc.cache, i).                                    *)
WithoutNone(i) == waiting
Without(i) == [waiting EXCEPT ![i] = NoReq]

(* The requests R after the callback of r was called.                      *)
Called(R, r, result, from) ==
    [R EXCEPT ![r] = [R[r] EXCEPT !.calls = R[r].calls + 1, !.result = result, !.from = from]]

(* wg.Done takes the WaitGroup below zero when a callback runs again.      *)
PanicsIfAgain(r) == crashed' = (reqs[r].calls > 0)

-----------------------------------------------------------------------------
(* makeMessageID.                                                          *)
nextIDWide(c) == c + 1
nextIDStuck(c) == 1 % IdSpace
nextID(c) == (c + 1) % IdSpace

(* A request takes a message id ...                                        *)
Begin(r) ==
    /\ reqs[r].pc = "idle"
    /\ counter' = nextID(counter)
    /\ reqs' = [reqs EXCEPT ![r] = [reqs[r] EXCEPT !.pc = "add", !.id = nextID(counter)]]
    /\ UNCHANGED <<waiting, age, net, gc, ht, reading, closing, restarts, crashed>>

(* ... and is refused if no server is healthy or the packet is malformed ..*)
Refused(r) ==
    /\ reqs[r].pc = "add"
    /\ reqs' = Called([reqs EXCEPT ![r].pc = "wait"], r, "error", NoReq)
    /\ UNCHANGED <<counter, waiting, age, net, gc, ht, reading, closing, restarts, crashed>>

(* ... or registers its callback, unless the id is taken (Add) ...         *)
Add(r) == LET i == reqs[r].id IN
    /\ reqs[r].pc = "add"
    /\ LockFree
    /\ ~Exists(i)
    /\ waiting' = [waiting EXCEPT ![i] = r]
    /\ age' = [age EXCEPT ![i] = 0]
    /\ reqs' = [reqs EXCEPT ![r].pc = "write"]
    /\ UNCHANGED <<counter, net, gc, ht, reading, closing, restarts, crashed>>

AddExists(r) ==
    /\ reqs[r].pc = "add"
    /\ LockFree
    /\ Exists(reqs[r].id)
    /\ reqs' = Called([reqs EXCEPT ![r].pc = "wait"], r, "error", NoReq)
    /\ UNCHANGED <<counter, waiting, age, net, gc, ht, reading, closing, restarts, crashed>>

(* ... writes the packet ...                                               *)
Write(r) ==
    /\ reqs[r].pc = "write"
    /\ ~SocketClosed
    /\ reqs' = [reqs EXCEPT ![r] = [reqs[r] EXCEPT !.pc = "wait", !.wrote = "ok"]]
    /\ UNCHANGED <<counter, waiting, age, net, gc, ht, reading, closing, restarts, crashed>>

WriteFails(r) ==
    /\ reqs[r].pc = "write"
    /\ WriteMayFail \/ SocketClosed
    /\ reqs' = [reqs EXCEPT ![r] = [reqs[r] EXCEPT !.pc = "undo", !.wrote = "failed"]]
    /\ UNCHANGED <<counter, waiting, age, net, gc, ht, reading, closing, restarts, crashed>>

(* ... and after a failure pulls a callback and calls it, or its own if    *)
(* there was none to pull ...                                              *)
WriteUndo(r) ==
    LET i == reqs[r].id
        w == waiting[i]
        cb == IF Exists(i) /\ ~Expired(i) THEN w ELSE r
        back == [reqs EXCEPT ![r].pc = "wait"]
        lost == IF w \notin {NoReq, cb} THEN [back EXCEPT ![w].dropped = TRUE] ELSE back
    IN
    /\ reqs[r].pc = "undo"
    /\ LockFree
    /\ waiting' = Without(i)
    /\ reqs' = Called(lost, cb, "error", NoReq)
    /\ PanicsIfAgain(cb)
    /\ UNCHANGED <<counter, age, net, gc, ht, reading, closing, restarts>>

(* ... then waits until its callback was called.                           *)
Return(r) ==
    /\ reqs[r].pc = "wait"
    /\ reqs[r].calls > 0
    /\ reqs' = [reqs EXCEPT ![r].pc = "done"]
    /\ UNCHANGED <<counter, waiting, age, net, gc, ht, reading, closing, restarts, crashed>>

(* External: the server answers a request it received.  Replies may be     *)
(* lost (this or Deliver never happens), late, duplicated and reordered.   *)
Answer(r, kind) ==
    /\ reqs[r].wrote = "ok"
    /\ net' = net \cup {[id |-> reqs[r].id, to |-> r, kind |-> kind]}
    /\ UNCHANGED <<counter, waiting, age, reqs, gc, ht, reading, closing, restarts, crashed>>

(* handleResponsesForever: one packet, which may arrive again.  A packet   *)
(* of an unexpected kind, or too late, still removes the callback.  The    *)
(* packet read last may still be handled after Close.                      *)
Deliver(m) ==
    LET w == waiting[m.id]
        called == Exists(m.id) /\ ~Expired(m.id) /\ m.kind \in {"data", "error"}
    IN
    /\ reading
    /\ LockFree
    /\ net' \in {net, net \ {m}}
    /\ waiting' = Without(m.id)
    /\ reqs' = IF called THEN Called(reqs, w, m.kind, m.to)
               ELSE IF Exists(m.id) THEN [reqs EXCEPT ![w].dropped = TRUE] ELSE reqs
    /\ crashed' = (called /\ reqs[w].calls > 0)
    /\ reading' = ~Disposed
    /\ UNCHANGED <<counter, age, gc, ht, closing, restarts>>

(* The read fails once the socket is closed, and the loop ends.            *)
ReadFails ==
    /\ reading /\ SocketClosed
    /\ reading' = FALSE
    /\ UNCHANGED <<counter, waiting, age, reqs, net, gc, ht, closing, restarts, crashed>>

-----------------------------------------------------------------------------
Cached == {i \in Ids : Exists(i)}

(* The loop of checkCleanup stops once i > entryCount / 3.                 *)
crawlNone(n) == n \div 3
crawl(n) == IF n = 0 THEN 0 ELSE n \div 3 + 1

(* checkCleanup: take the mutex, look at some entries in the random order  *)
(* of a Go map and note the expired ones ...                               *)
Sweep(seen) ==
    /\ gc.pc = "sleep"
    /\ ~CacheDisposed
    /\ Cardinality(seen) = crawl(Cardinality(Cached))
    /\ gc' = [gc EXCEPT !.pc = "sweep", !.doomed = {i \in seen : Expired(i)}]
    /\ UNCHANGED <<counter, waiting, age, reqs, net, ht, reading, closing, restarts, crashed>>

(* ... take each out of the cache, to send it unless Dispose was called ...*)
SweepTake == \E i \in gc.doomed :
    /\ gc.pc = "sweep"
    /\ waiting' = Without(i)
    /\ IF CacheDisposed
       THEN /\ gc' = [gc EXCEPT !.doomed = gc.doomed \ {i}]
            /\ reqs' = [reqs EXCEPT ![waiting[i]].dropped = TRUE]
       ELSE /\ gc' = [gc EXCEPT !.pc = "send", !.doomed = gc.doomed \ {i}, !.cb = waiting[i]]
            /\ reqs' = reqs
    /\ UNCHANGED <<counter, age, net, ht, reading, closing, restarts, crashed>>

(* ... which waits for the receiver of the unbuffered channel ...          *)
HandOver ==
    /\ gc.pc = "send" /\ ht.pc = "recv"
    /\ ~ChannelClosed
    /\ gc' = [gc EXCEPT !.pc = "sweep", !.cb = NoReq]
    /\ ht' = [pc |-> "call", cb |-> gc.cb]
    /\ UNCHANGED <<counter, waiting, age, reqs, net, reading, closing, restarts, crashed>>

(* ... or panics if the channel is closed meanwhile ...                    *)
SendPanics ==
    /\ gc.pc = "send"
    /\ ChannelClosed
    /\ crashed' = TRUE
    /\ UNCHANGED <<counter, waiting, age, reqs, net, gc, ht, reading, closing, restarts>>

(* ... and at the end schedules the next sweep, which does nothing, and    *)
(* schedules no further one, after Dispose.                                *)
SweepEnd ==
    /\ gc.pc = "sweep"
    /\ gc.doomed = {}
    /\ gc' = [gc EXCEPT !.pc = "sleep"]
    /\ UNCHANGED <<counter, waiting, age, reqs, net, ht, reading, closing, restarts, crashed>>

SweepStops ==
    /\ gc.pc = "sleep"
    /\ CacheDisposed
    /\ gc' = [gc EXCEPT !.pc = "dead"]
    /\ UNCHANGED <<counter, waiting, age, reqs, net, ht, reading, closing, restarts, crashed>>

(* handleTimeouts calls what it received, and leaves its loop if the       *)
(* client is closed by then or the channel is.                             *)
TimeoutCall ==
    /\ ht.pc = "call"
    /\ reqs' = Called(reqs, ht.cb, "timeout", NoReq)
    /\ PanicsIfAgain(ht.cb)
    /\ ht' = [pc |-> IF Disposed THEN "exit" ELSE "recv", cb |-> NoReq]
    /\ UNCHANGED <<counter, waiting, age, net, gc, reading, closing, restarts>>

TimeoutsEnd ==
    /\ ht.pc = "recv"
    /\ ChannelClosed
    /\ ht' = [ht EXCEPT !.pc = "exit"]
    /\ UNCHANGED <<counter, waiting, age, reqs, net, gc, reading, closing, restarts, crashed>>

(* The next step of Client.Close.                                          *)
Close ==
    /\ MayClose
    /\ closing < 4
    /\ closing' = closing + 1
    /\ UNCHANGED <<counter, waiting, age, reqs, net, gc, ht, reading, restarts, crashed>>

(* A second passes.  Ages beyond Timeout + 1 are all alike.                *)
Tick ==
    /\ age' = [i \in Ids |-> IF waiting[i] = NoReq THEN 0
                             ELSE IF Expired(i) THEN age[i] ELSE age[i] + 1]
    /\ UNCHANGED <<counter, waiting, reqs, net, gc, ht, reading, closing, restarts, crashed>>

(* The program is started again with the same local port, and packets sent *)
(* to its predecessor may still arrive.  Its calls are gone.               *)
Restart ==
    /\ restarts < MaxRestarts
    /\ restarts' = restarts + 1
    /\ counter' = 0 /\ waiting' = NoneWaiting /\ age' = NoAges
    /\ gc' = Asleep /\ ht' = Receiving /\ reading' = TRUE /\ closing' = 0
    /\ reqs' = [r \in Req |-> IF reqs[r].pc = "idle" THEN Unsent
                              ELSE [reqs[r] EXCEPT !.pc = "done", !.dropped = TRUE]]
    /\ UNCHANGED <<net, crashed>>

Next ==
    /\ ~crashed
    /\ \/ \E r \in Req :
            \/ Begin(r) \/ Refused(r) \/ Add(r) \/ AddExists(r) \/ Write(r)
            \/ WriteFails(r) \/ WriteUndo(r) \/ Return(r)
            \/ \E kind \in Kind : Answer(r, kind)
       \/ \E m \in net : Deliver(m)
       \/ \E seen \in SUBSET Cached : Sweep(seen)
       \/ SweepTake \/ HandOver \/ SendPanics \/ SweepEnd \/ SweepStops
       \/ TimeoutCall \/ TimeoutsEnd \/ ReadFails
       \/ Close \/ Tick \/ Restart

Spec == Init /\ [][Next]_vars

(* Fairness: goroutines run, timers fire, the clock runs, a goroutine that *)
(* waits for the mutex gets it some time although the sweeper comes back   *)
(* for it (Go's mutexes have a starvation mode), and the random order of   *)
(* the Go map does not pass over an entry forever.  The network promises   *)
(* nothing.                                                                *)
Fairness ==
    /\ \A r \in Req : /\ SF_vars(Add(r) \/ AddExists(r))
                      /\ WF_vars(Write(r))
                      /\ SF_vars(WriteUndo(r))
                      /\ WF_vars(Return(r))
    /\ WF_vars(SweepTake \/ SweepEnd)
    /\ WF_vars(HandOver)
    /\ WF_vars(TimeoutCall)
    /\ WF_vars(Tick)
    /\ \A i \in Ids : SF_vars(\E seen \in SUBSET Cached : i \in seen /\ Sweep(seen))

FairSpec == Spec /\ Fairness

-----------------------------------------------------------------------------
TypeOK ==
    /\ counter \in Ids
    /\ waiting \in [Ids -> Callback]
    /\ age \in [Ids -> Nat]
    /\ reqs \in [Req -> Request]
    /\ net \subseteq Packet
    /\ gc \in [pc : {"sleep", "sweep", "send", "dead"}, doomed : SUBSET Ids, cb : Callback]
    /\ ht \in [pc : {"recv", "call", "exit"}, cb : Callback]
    /\ reading \in BOOLEAN
    /\ closing \in 0 .. 4
    /\ restarts \in Nat
    /\ crashed \in BOOLEAN

(* A callback runs at most once ("can only pull a message once",           *)
(* waitingmessage.go:84), however replies, timeouts, retransmitted packets *)
(* and Close race, unless the request's own write failed: then the caller  *)
(* calls it even when there was nothing left to pull.                      *)
AtMostOnce == \A r \in Req : reqs[r].calls > 1 => reqs[r].wrote = "failed"

(* The process panics for two reasons only: Dispose closed the channel on  *)
(* which the sweeper is sending, or a request whose write failed has its   *)
(* callback called a second time (wg.Done below zero): the sweeper, or a   *)
(* stray reply, had taken it before.  No race of replies, time-outs and    *)
(* Close does it otherwise.                                                *)
PanicKnown ==
    crashed => \/ gc.pc = "send" /\ ChannelClosed
               \/ \E r \in Req : reqs[r].calls > 1 /\ reqs[r].wrote = "failed"

(* The sweeper, or handleTimeouts, will still call the callback of r: one  *)
(* of them has it, or it is in the cache, and the goroutines it has to     *)
(* pass through have not ended.                                            *)
WillBeCalled(r) ==
    \/ ht.cb = r
    \/ gc.cb = r /\ ht.pc # "exit"
    \/ waiting[reqs[r].id] = r /\ gc.pc # "dead" /\ ht.pc # "exit"

(* Close has begun with the callback in the cache or with the sweeper.  It *)
(* calls none of them (client.go:191-217), and the goroutines that would   *)
(* end: unless a reply comes in time, the request hangs.                   *)
LeftByClose(r) == Disposed /\ (waiting[reqs[r].id] = r \/ gc.cb = r)

(* Until Close is called, the callback of a request that waits is where a  *)
(* goroutine that still runs will call it, or it was dropped by one of the *)
(* paths known to drop it: a late or unexpected reply, another request     *)
(* that undid its write on the same id, a restart.  Once Close has begun   *)
(* there is no such promise: Dispose drops what the sweeper has marked,    *)
(* and Close leaves the rest where it was.                                 *)
CallbackAccounted ==
    \A r \in Req :
        reqs[r].pc \in {"write", "wait"} /\ reqs[r].calls = 0 =>
            WillBeCalled(r) \/ reqs[r].dropped \/ LeftByClose(r)

(* A request is given the reply to itself, as long as ids do not wrap      *)
(* around and the program is not restarted.                                *)
ReplyMatches == \A r \in Req : reqs[r].result = "data" => reqs[r].from = r

(* Every request returns unless its reply came after the deadline or was   *)
(* of a kind the client does not handle: the sweeper gets to all others    *)
(* (if a second call of a callback, see AtMostOnce, does not end it all).  *)
ReturnsUnlessDropped ==
    \A r \in Req :
        (reqs[r].pc = "add") ~> (reqs[r].pc = "done" \/ reqs[r].dropped \/ crashed)
=============================================================================
