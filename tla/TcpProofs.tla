------------------------------ MODULE TcpProofs ------------------------------
(***************************************************************************)
(* Proofs about module TcpClient, for any number of requests and           *)
(* connections.                                                            *)
(***************************************************************************)
EXTENDS TcpClient, TLAPS

USE TcpClientAssumption

-----------------------------------------------------------------------------
(* The inductive invariant.                                                *)
(*                                                                         *)
(* From a connection on which a read failed no reply will come, ever.      *)
EndedLink(l) == l.st = "closed" \/ (l.st = "broken" /\ l.in = <<>> /\ ~l.stub)

Owning == {"write", "wait", "release", "put"}
Active == {"loop", "read", "rest", "forget"} \cup Sending

(* What request r may read on a connection: its reply, or anything at all  *)
(* once a reply was split.                                                 *)
Own(l, r) == l.split \/ (l.in # <<>> /\ Head(l.in) = r)

(* Nothing is outstanding, or none of it will be read.                     *)
Drained(l) == \/ l.split \/ l.st = "closed"
              \/ l.in = <<>> /\ (l.st = "open" => l.asked = {})

(* The reader d of r in the middle of a message, and with one to send.     *)
OnLink(d, l, r) == (d = "rest" => Own(l, r)) /\ (d = "send" => Drained(l))

(* A request q of r and its reader d, the connections being L.  A reader   *)
(* runs on after its request has its answer only if a read failed, or to   *)
(* set conn to nil after it closed the connection.                         *)
LocalInv(r, q, d, L) ==
    /\ q.pc \in {"idle", "nil"} => q.key = Nil
    /\ q.pc \in {"idle", "nil", "write"} => d = "none"
    /\ q.pc \in Owning => q.key \in Conn
    /\ q.pc = "write" => q.conn = q.key
    /\ q.pc = "wait" => d \in {"loop", "read", "rest"} \cup Sending
    /\ d \in Active => q.key \in Conn /\ q.conn = q.key
    /\ q.conn \in {q.key, Nil}
    /\ q.key \in Conn => L[q.key].st # "unused"
    /\ q.failed => q.key \in Conn /\ EndedLink(L[q.key])
    /\ d = "sendError" => q.failed
    /\ d \in {"sendTimeout", "forget"} => L[q.key].st = "closed"
    /\ d \in {"loop", "read", "sendError", "sendTimeout"} /\ q.pc # "wait" => q.failed
    /\ d \in {"rest", "send"} => q.pc = "wait"
    /\ OnLink(d, L[q.key], r)
    /\ d = "send" => q.from = r \/ L[q.key].split
    /\ q.conn = Nil /\ q.pc \in {"wait", "release", "put"} => L[q.key].st = "closed"
    /\ q.result = "reply" => q.key \in Conn /\ (q.from = r \/ L[q.key].split)

Waits(q, c) == q.key = c /\ q.pc = "wait"

(* On a connection where no reply was split, a packet that the server has, *)
(* or a reply that has not been taken, belongs to a request that waits     *)
(* there; there is one reply at most.                                      *)
LinkInv(c, l, Q) ==
    /\ l.st = "unused" => l.asked = {} /\ l.in = <<>>
    /\ ~l.split => ~l.stub /\ Len(l.in) < 2
    /\ ~l.split /\ l.st = "open" => \A s \in l.asked : Waits(Q[s], c)
    /\ ~l.split /\ l.st # "closed" /\ l.in # <<>> => Waits(Q[Head(l.in)], c)
    /\ ~l.split /\ l.st = "open" /\ l.in # <<>> => l.asked = {}

Owns(q, c) == q.key = c /\ q.pc \in Owning

Locals == \A r \in Req : LocalInv(r, calls[r], rdr[r], link)
Links == \A c \in Conn : LinkInv(c, link[c], calls)

(* A connection is in one place: with one request, or in the pool.         *)
Owners == \A c \in Conn : \A r, s \in Req : Owns(calls[r], c) /\ Owns(calls[s], c) => r = s
Pools == \A c \in pool : link[c].st # "unused" /\ \A r \in Req : ~Owns(calls[r], c)
Tracks == \A c \in Conn : c \in tracked \cup closing.keys => link[c].st # "unused"

Inv ==
    /\ TypeOK /\ Locals /\ Links /\ Owners /\ Pools
    /\ Tracks /\ OpenTracked /\ CloseCloses /\ PanicKnown

-----------------------------------------------------------------------------
(* What changes when one request, reader or connection does.               *)
CallSet(r, q) ==
    /\ calls' \in [Req -> Call] /\ calls'[r] = q
    /\ \A s \in Req : s # r => calls'[s] = calls[s]

RdrSet(r, d) ==
    /\ rdr' \in [Req -> {"none", "loop", "read", "rest", "forget", "exit"} \cup Sending]
    /\ rdr'[r] = d
    /\ \A s \in Req : s # r => rdr'[s] = rdr[s]

LinkSet(c, l) ==
    /\ link' \in [Conn -> Link] /\ link'[c] = l
    /\ \A e \in Conn : e # c => link'[e] = link[e]

LEMMA CallMoves ==
    ASSUME TypeOK, NEW r \in Req, NEW q \in Call, Set(r, q)
    PROVE  CallSet(r, q)
BY DEF TypeOK, Set, CallSet

LEMMA RdrMoves ==
    ASSUME TypeOK, NEW r \in Req, NEW d \in {"none", "loop", "read", "rest", "forget", "exit"} \cup Sending,
           Reader(r, d)
    PROVE  RdrSet(r, d)
BY DEF TypeOK, Reader, RdrSet

LEMMA RdrStays == ASSUME TypeOK, NEW r \in Req, UNCHANGED rdr PROVE RdrSet(r, rdr[r])
BY DEF TypeOK, RdrSet

LEMMA CallStays == ASSUME TypeOK, NEW r \in Req, UNCHANGED calls PROVE CallSet(r, calls[r])
BY DEF TypeOK, CallSet

LEMMA LinkMoves ==
    ASSUME TypeOK, NEW c \in Conn, NEW l \in Link, link' = [link EXCEPT ![c] = l]
    PROVE  LinkSet(c, l)
BY DEF TypeOK, LinkSet

(* Connections only end.                                                   *)
Grows(l, m) ==
    /\ l.st # "unused" => m.st # "unused"
    /\ EndedLink(l) => EndedLink(m)
    /\ l.split => m.split
    /\ l.st = "closed" => m.st = "closed"

LinkGrows == \A c \in Conn : Grows(link[c], link'[c])

LEMMA SameGrows == UNCHANGED link => LinkGrows
BY DEF LinkGrows, Grows

(* The other requests.                                                     *)
LEMMA LocalKept ==
    ASSUME LinkGrows, NEW s, NEW q \in Call, NEW d, LocalInv(s, q, d, link),
           OnLink(d, link'[q.key], s)
    PROVE  LocalInv(s, q, d, link')
<1>1. CASE q.key \in Conn
  <2>1. Grows(link[q.key], link'[q.key])
    BY <1>1 DEF LinkGrows
  <2>2. d \in {"sendTimeout", "forget"} => link'[q.key].st = "closed"
    BY <2>1 DEF LocalInv, Grows
  <2>3. q.failed => q.key \in Conn /\ EndedLink(link'[q.key])
    BY <2>1 DEF LocalInv, Grows
  <2>4. q.conn = Nil /\ q.pc \in {"wait", "release", "put"} => link'[q.key].st = "closed"
    BY <2>1 DEF LocalInv, Grows
  <2>5. q.key \in Conn => link'[q.key].st # "unused"
    BY <2>1 DEF LocalInv, Grows
  <2>6. link[q.key].split => link'[q.key].split
    BY <2>1 DEF Grows
  <2> QED
    BY <2>2, <2>3, <2>4, <2>5, <2>6 DEF LocalInv
<1>2. CASE q.key \notin Conn
  BY <1>2 DEF LocalInv, Owning, Active, Sending
<1> QED
  BY <1>1, <1>2

LEMMA LocalsKept ==
    ASSUME Inv, LinkGrows, NEW r \in Req, NEW q, NEW d, CallSet(r, q), RdrSet(r, d),
           LocalInv(r, q, d, link'),
           \A s \in Req : s # r => OnLink(rdr[s], link'[calls[s].key], s)
    PROVE  Locals'
<1> SUFFICES ASSUME NEW s \in Req, s # r PROVE LocalInv(s, calls'[s], rdr'[s], link')
  BY DEF Locals, CallSet, RdrSet
<1>1. calls'[s] = calls[s] /\ rdr'[s] = rdr[s] /\ calls[s] \in Call
  BY DEF CallSet, RdrSet, Inv, TypeOK
<1>2. LocalInv(s, calls[s], rdr[s], link)
  BY DEF Inv, Locals
<1> QED
  BY <1>1, <1>2, LocalKept

LEMMA LocalsStay ==
    ASSUME Inv, LinkGrows, UNCHANGED <<calls, rdr>>,
           \A s \in Req : OnLink(rdr[s], link'[calls[s].key], s)
    PROVE  Locals'
<1> SUFFICES ASSUME NEW s \in Req PROVE LocalInv(s, calls[s], rdr[s], link')
  BY DEF Locals
<1>1. calls[s] \in Call /\ LocalInv(s, calls[s], rdr[s], link)
  BY DEF Inv, Locals, TypeOK
<1> QED
  BY <1>1, LocalKept

(* What a reader in the middle of a message knows.                         *)
LEMMA RestOwn == ASSUME Inv, NEW s \in Req PROVE OnLink(rdr[s], link[calls[s].key], s)
BY DEF Inv, Locals, LocalInv

LEMMA HeadIn == ASSUME NEW l \in Link, l.in # <<>> PROVE Head(l.in) \in Req
BY DEF Link

(* A request moves on without one of its connection's packets or replies   *)
(* being left behind.                                                      *)
LEMMA LinksKept ==
    ASSUME Inv, NEW r \in Req, NEW q, CallSet(r, q), UNCHANGED link,
           \/ calls[r].pc # "wait"
           \/ q.pc = "wait" /\ q.key = calls[r].key
    PROVE  Links'
<1> SUFFICES ASSUME NEW c \in Conn PROVE LinkInv(c, link[c], calls')
  BY DEF Links
<1>1. LinkInv(c, link[c], calls) /\ link[c] \in Link
  BY DEF Inv, Links, TypeOK
<1>2. ASSUME NEW s \in Req, Waits(calls[s], c) PROVE Waits(calls'[s], c)
  BY <1>2 DEF CallSet, Waits
<1>3. link[c].in # <<>> => Head(link[c].in) \in Req
  BY <1>1, HeadIn
<1> QED
  BY <1>1, <1>2, <1>3 DEF LinkInv, Link

(* The same with a change of the connection that the request has.          *)
LEMMA LinksSet ==
    ASSUME Inv, NEW r \in Req, NEW q, CallSet(r, q), NEW c \in Conn, NEW l, LinkSet(c, l),
           calls[r].pc = "wait" => calls[r].key = c,
           LinkInv(c, l, calls')
    PROVE  Links'
<1> SUFFICES ASSUME NEW e \in Conn, e # c PROVE LinkInv(e, link[e], calls')
  BY DEF Links, LinkSet
<1>1. LinkInv(e, link[e], calls) /\ link[e] \in Link
  BY DEF Inv, Links, TypeOK
<1>2. ASSUME NEW s \in Req, Waits(calls[s], e) PROVE Waits(calls'[s], e)
  BY <1>2 DEF CallSet, Waits
<1>3. link[e].in # <<>> => Head(link[e].in) \in Req
  BY <1>1, HeadIn
<1> QED
  BY <1>1, <1>2, <1>3 DEF LinkInv, Link

LEMMA LinksOnly ==
    ASSUME Inv, UNCHANGED calls, NEW c \in Conn, NEW l, LinkSet(c, l), LinkInv(c, l, calls)
    PROVE  Links'
BY DEF Inv, Links, LinkSet

LEMMA SetGrows ==
    ASSUME NEW c \in Conn, NEW l, LinkSet(c, l), Grows(link[c], l)
    PROVE  LinkGrows
<1> SUFFICES ASSUME NEW e \in Conn PROVE Grows(link[e], link'[e])
  BY DEF LinkGrows
<1>1. CASE e = c
  BY <1>1 DEF LinkSet
<1>2. CASE e # c
  BY <1>2 DEF LinkSet, Grows
<1> QED
  BY <1>1, <1>2

(* A step by which a request takes no connection, and none is opened, put  *)
(* into the pool or forgotten.                                             *)
NoNewOwner(q, p) == \A c \in Conn : Owns(p, c) => Owns(q, c)

LEMMA OwnersKept ==
    ASSUME Inv, NEW r \in Req, NEW q, CallSet(r, q), NoNewOwner(calls[r], q)
    PROVE  Owners'
<1>1. ASSUME NEW c \in Conn, NEW s \in Req, Owns(calls'[s], c)
      PROVE  Owns(calls[s], c)
  BY <1>1 DEF CallSet, NoNewOwner
<1> QED
  BY <1>1 DEF Inv, Owners

LEMMA PoolsKept ==
    ASSUME Inv, LinkGrows, NEW r \in Req, NEW q, CallSet(r, q), NoNewOwner(calls[r], q),
           pool' \subseteq pool
    PROVE  Pools'
<1> SUFFICES ASSUME NEW c \in pool PROVE link'[c].st # "unused" /\ \A s \in Req : ~Owns(calls'[s], c)
  BY DEF Pools
<1>1. c \in Conn /\ link[c].st # "unused" /\ \A s \in Req : ~Owns(calls[s], c)
  BY DEF Inv, Pools, TypeOK
<1>2. link'[c].st # "unused"
  BY <1>1 DEF LinkGrows, Grows
<1>3. ASSUME NEW s \in Req PROVE ~Owns(calls'[s], c)
  BY <1>1 DEF CallSet, NoNewOwner
<1> QED
  BY <1>2, <1>3

LEMMA TracksKept ==
    ASSUME Inv, LinkGrows, UNCHANGED closing, tracked' \subseteq tracked
    PROVE  Tracks'
<1> SUFFICES ASSUME NEW c \in Conn, c \in tracked \cup closing.keys PROVE link'[c].st # "unused"
  BY DEF Tracks
<1>1. link[c].st # "unused"
  BY DEF Inv, Tracks
<1> QED
  BY <1>1 DEF LinkGrows, Grows

Openers == \A c \in Conn : link'[c].st \in {"open", "broken"} =>
               link[c].st \in {"open", "broken"} /\ (c \in tracked => c \in tracked' \cup given')

LEMMA OpenKept ==
    ASSUME Inv, Openers, UNCHANGED closing, given \subseteq given'
    PROVE  OpenTracked' /\ CloseCloses'
<1>1. OpenTracked /\ CloseCloses
  BY DEF Inv
<1>2. OpenTracked'
  BY <1>1 DEF OpenTracked, IsOpen, Openers
<1>3. CloseCloses'
  BY <1>1 DEF CloseCloses, IsOpen, Openers
<1> QED
  BY <1>2, <1>3

LEMMA PanicKept == ASSUME ~crashed, UNCHANGED crashed PROVE PanicKnown'
BY DEF PanicKnown

LEMMA RestKept ==
    ASSUME Inv, ~crashed, LinkGrows, NEW r \in Req, NEW q, CallSet(r, q), NoNewOwner(calls[r], q),
           pool' \subseteq pool, tracked' \subseteq tracked, given \subseteq given', Openers,
           UNCHANGED <<listed, closing, crashed>>
    PROVE  Owners' /\ Pools' /\ Tracks' /\ OpenTracked' /\ CloseCloses' /\ PanicKnown'
<1>1. UNCHANGED closing /\ UNCHANGED <<listed, crashed>>
  OBVIOUS
<1>2. Owners'
  BY OwnersKept
<1>3. Pools'
  BY PoolsKept
<1>4. Tracks'
  BY <1>1, TracksKept
<1>5. OpenTracked' /\ CloseCloses'
  BY <1>1, OpenKept
<1>6. PanicKnown'
  BY <1>1, PanicKept
<1> QED
  BY <1>2, <1>3, <1>4, <1>5, <1>6

(* A step of a request or its reader that changes no connection.           *)
LEMMA CallStep ==
    ASSUME Inv, ~crashed, NEW r \in Req, NEW q \in Call, NEW d, CallSet(r, q), RdrSet(r, d),
           LocalInv(r, q, d, link),
           \/ calls[r].pc # "wait"
           \/ q.pc = "wait" /\ q.key = calls[r].key,
           NoNewOwner(calls[r], q),
           pool' \subseteq pool, tracked' \subseteq tracked, Openers,
           given \subseteq given', given' \subseteq Conn,
           UNCHANGED link, UNCHANGED <<listed, closing, crashed>>
    PROVE  Inv'
<1>1. LinkGrows
  BY SameGrows
<1>2. TypeOK'
  BY DEF Inv, TypeOK, CallSet, RdrSet
<1>3. Locals'
  <2>1. \A s \in Req : s # r => OnLink(rdr[s], link'[calls[s].key], s)
    BY RestOwn
  <2>2. LocalInv(r, q, d, link')
    OBVIOUS
  <2> QED
    BY <1>1, <2>1, <2>2, LocalsKept
<1>4. Links'
  BY LinksKept
<1>5. Owners' /\ Pools' /\ Tracks' /\ OpenTracked' /\ CloseCloses' /\ PanicKnown'
  BY <1>1, RestKept
<1> QED
  BY <1>2, <1>3, <1>4, <1>5 DEF Inv

(* What is known of a request.                                             *)
LEMMA Known ==
    ASSUME Inv, NEW r \in Req
    PROVE  /\ TypeOK /\ calls[r] \in Call
           /\ rdr[r] \in {"none", "loop", "read", "rest", "forget", "exit"} \cup Sending
           /\ LocalInv(r, calls[r], rdr[r], link)
BY DEF Inv, TypeOK, Locals

-----------------------------------------------------------------------------
(* Every action keeps the invariant.                                       *)
LEMMA DialFailsInv == ASSUME Inv, ~crashed, NEW r \in Req, DialFails(r) PROVE Inv'
<1> DEFINE q == [calls[r] EXCEPT !.pc = "nil"]
<1>1. TypeOK /\ calls[r] \in Call /\ LocalInv(r, calls[r], rdr[r], link)
  BY Known
<1>2. /\ q \in Call /\ q.pc = "nil" /\ q.key = calls[r].key /\ q.conn = calls[r].conn
      /\ q.failed = calls[r].failed /\ q.result = calls[r].result /\ q.from = calls[r].from
  BY <1>1 DEF Call
<1>3. Set(r, q) /\ calls[r].pc = "idle" /\ UNCHANGED rdr
  BY DEF DialFails
<1> HIDE DEF q
<1>4. CallSet(r, q) /\ RdrSet(r, rdr[r])
  BY <1>1, <1>2, <1>3, CallMoves, RdrStays
<1>5. LocalInv(r, q, rdr[r], link)
  BY <1>1, <1>2, <1>3 DEF LocalInv, Owning
<1>6. NoNewOwner(calls[r], q)
  BY <1>2 DEF NoNewOwner, Owns, Owning
<1>7. /\ tracked' = tracked \cup {Nil} /\ UNCHANGED link
      /\ UNCHANGED <<listed, closing, crashed>> /\ UNCHANGED <<pool, given>>
  BY DEF DialFails
<1>8. LinkGrows /\ Openers
  BY <1>7, SameGrows DEF Openers
<1>9. TypeOK'
  BY <1>1, <1>4, <1>7 DEF TypeOK, CallSet, RdrSet
<1>10. Locals'
  <2>1. \A s \in Req : s # r => OnLink(rdr[s], link'[calls[s].key], s)
    BY <1>7, RestOwn
  <2>2. LocalInv(r, q, rdr[r], link')
    BY <1>5, <1>7
  <2> QED
    BY <1>4, <1>8, <2>1, <2>2, LocalsKept
<1>11. Links'
  BY <1>3, <1>4, <1>7, LinksKept
<1>12. Owners' /\ Pools'
  BY <1>4, <1>6, <1>7, <1>8, OwnersKept, PoolsKept
<1>13. Tracks'
  BY <1>7 DEF Inv, Tracks
<1>14. OpenTracked' /\ CloseCloses'
  BY <1>7, <1>8, OpenKept
<1>15. PanicKnown'
  BY <1>2, <1>4, <1>7, PanicKept
<1> QED
  BY <1>9, <1>10, <1>11, <1>12, <1>13, <1>14, <1>15 DEF Inv

LEMMA NoServerInv == ASSUME Inv, ~crashed, NEW r \in Req, NoServer(r) PROVE Inv'
<1> DEFINE q == [calls[r] EXCEPT !.pc = "done", !.result = "error"]
<1>1. TypeOK /\ calls[r] \in Call /\ LocalInv(r, calls[r], rdr[r], link)
  BY Known
<1>2. /\ q \in Call /\ q.pc = "done" /\ q.key = calls[r].key /\ q.conn = calls[r].conn
      /\ q.failed = calls[r].failed /\ q.result = "error"
  BY <1>1 DEF Call
<1>3. Set(r, q) /\ calls[r].pc = "nil" /\ UNCHANGED rdr
  BY DEF NoServer
<1> HIDE DEF q
<1>4. CallSet(r, q) /\ RdrSet(r, rdr[r])
  BY <1>1, <1>2, <1>3, CallMoves, RdrStays
<1>5. LocalInv(r, q, rdr[r], link)
  BY <1>1, <1>2, <1>3 DEF LocalInv, Owning, Active, Sending
<1>6. NoNewOwner(calls[r], q)
  BY <1>2 DEF NoNewOwner, Owns, Owning
<1>7. /\ tracked' = tracked \ {Nil} /\ UNCHANGED link
      /\ UNCHANGED <<listed, closing, crashed>> /\ UNCHANGED <<pool, given>>
  BY DEF NoServer
<1>8. Openers
  BY <1>7 DEF Openers
<1>9. given' \subseteq Conn /\ given \subseteq given' /\ pool' \subseteq pool /\ tracked' \subseteq tracked
  BY <1>1, <1>7 DEF TypeOK
<1> QED
  BY <1>2, <1>3, <1>4, <1>5, <1>6, <1>7, <1>8, <1>9, CallStep

LEMMA WriteFailsInv == ASSUME Inv, ~crashed, NEW r \in Req, WriteFails(r) PROVE Inv'
<1> DEFINE q == [calls[r] EXCEPT !.pc = "done", !.conn = Nil, !.result = "error"]
<1>1. TypeOK /\ calls[r] \in Call /\ LocalInv(r, calls[r], rdr[r], link)
  BY Known
<1>2. /\ q \in Call /\ q.pc = "done" /\ q.key = calls[r].key /\ q.conn = Nil
      /\ q.failed = calls[r].failed /\ q.result = "error"
  BY <1>1 DEF Call
<1>3. Set(r, q) /\ calls[r].pc = "write" /\ UNCHANGED rdr
  BY DEF WriteFails
<1> HIDE DEF q
<1>4. CallSet(r, q) /\ RdrSet(r, rdr[r])
  BY <1>1, <1>2, <1>3, CallMoves, RdrStays
<1>5. LocalInv(r, q, rdr[r], link)
  BY <1>1, <1>2, <1>3 DEF LocalInv, Owning, Active, Sending
<1>6. NoNewOwner(calls[r], q)
  BY <1>2 DEF NoNewOwner, Owns, Owning
<1>7. /\ tracked' = tracked \ {calls[r].key} /\ given' = given \cup {calls[r].key}
      /\ UNCHANGED link /\ UNCHANGED <<listed, closing, crashed>> /\ UNCHANGED pool
  BY DEF WriteFails
<1>8. Openers
  BY <1>7 DEF Openers
<1>9. calls[r].key \in Conn
  BY <1>1, <1>3 DEF LocalInv, Owning
<1>10. given' \subseteq Conn /\ given \subseteq given' /\ pool' \subseteq pool /\ tracked' \subseteq tracked
  BY <1>1, <1>7, <1>9 DEF TypeOK
<1> QED
  BY <1>2, <1>3, <1>4, <1>5, <1>6, <1>7, <1>8, <1>10, CallStep

LEMMA ExpireInv == ASSUME Inv, ~crashed, NEW r \in Req, Expire(r) PROVE Inv'
<1> DEFINE q == [calls[r] EXCEPT !.expired = TRUE]
<1>1. TypeOK /\ calls[r] \in Call /\ LocalInv(r, calls[r], rdr[r], link)
  BY Known
<1>2. /\ q \in Call /\ q.pc = calls[r].pc /\ q.key = calls[r].key /\ q.conn = calls[r].conn
      /\ q.failed = calls[r].failed /\ q.result = calls[r].result /\ q.from = calls[r].from
  BY <1>1 DEF Call
<1>3. Set(r, q) /\ UNCHANGED rdr
  BY DEF Expire
<1> HIDE DEF q
<1>4. CallSet(r, q) /\ RdrSet(r, rdr[r])
  BY <1>1, <1>2, <1>3, CallMoves, RdrStays
<1>5. LocalInv(r, q, rdr[r], link)
  BY <1>1, <1>2 DEF LocalInv
<1>6. NoNewOwner(calls[r], q)
  BY <1>2 DEF NoNewOwner, Owns
<1>7. UNCHANGED link /\ UNCHANGED <<listed, closing, crashed>> /\ UNCHANGED <<pool, given, tracked>>
  BY DEF Expire
<1>8. Openers
  BY <1>7 DEF Openers
<1>9. given' \subseteq Conn /\ given \subseteq given' /\ pool' \subseteq pool /\ tracked' \subseteq tracked
  BY <1>1, <1>7 DEF TypeOK
<1> QED
  BY <1>2, <1>4, <1>5, <1>6, <1>7, <1>8, <1>9, CallStep

LEMMA ReleaseInv == ASSUME Inv, ~crashed, NEW r \in Req, Release(r) PROVE Inv'
<1> DEFINE q == [calls[r] EXCEPT !.pc = "put", !.expired = TRUE]
<1>1. TypeOK /\ calls[r] \in Call /\ LocalInv(r, calls[r], rdr[r], link)
  BY Known
<1>2. /\ q \in Call /\ q.pc = "put" /\ q.key = calls[r].key /\ q.conn = calls[r].conn
      /\ q.failed = calls[r].failed /\ q.result = calls[r].result /\ q.from = calls[r].from
  BY <1>1 DEF Call
<1>3. Set(r, q) /\ calls[r].pc = "release" /\ UNCHANGED rdr
  BY DEF Release
<1> HIDE DEF q
<1>4. CallSet(r, q) /\ RdrSet(r, rdr[r])
  BY <1>1, <1>2, <1>3, CallMoves, RdrStays
<1>5. LocalInv(r, q, rdr[r], link)
  BY <1>1, <1>2, <1>3 DEF LocalInv, Owning, Active, Sending
<1>6. NoNewOwner(calls[r], q)
  BY <1>2, <1>3 DEF NoNewOwner, Owns, Owning
<1>7. UNCHANGED link /\ UNCHANGED <<listed, closing, crashed>> /\ UNCHANGED <<pool, given, tracked>>
  BY DEF Release
<1>8. Openers
  BY <1>7 DEF Openers
<1>9. given' \subseteq Conn /\ given \subseteq given' /\ pool' \subseteq pool /\ tracked' \subseteq tracked
  BY <1>1, <1>7 DEF TypeOK
<1> QED
  BY <1>2, <1>3, <1>4, <1>5, <1>6, <1>7, <1>8, <1>9, CallStep

LEMMA LoopReadInv == ASSUME Inv, ~crashed, NEW r \in Req, LoopRead(r) PROVE Inv'
<1>1. TypeOK /\ calls[r] \in Call /\ LocalInv(r, calls[r], rdr[r], link)
  BY Known
<1>2. Reader(r, "read") /\ rdr[r] = "loop" /\ UNCHANGED calls
  BY DEF LoopRead
<1>3. CallSet(r, calls[r]) /\ RdrSet(r, "read")
  BY <1>1, <1>2, RdrMoves, CallStays
<1>4. LocalInv(r, calls[r], "read", link)
  BY <1>1, <1>2 DEF LocalInv, Active, OnLink
<1>5. NoNewOwner(calls[r], calls[r])
  BY DEF NoNewOwner
<1>6. UNCHANGED link /\ UNCHANGED <<listed, closing, crashed>> /\ UNCHANGED <<pool, given, tracked>>
  BY DEF LoopRead
<1>7. Openers
  BY <1>6 DEF Openers
<1>8. given' \subseteq Conn /\ given \subseteq given' /\ pool' \subseteq pool /\ tracked' \subseteq tracked
  BY <1>1, <1>6 DEF TypeOK
<1>9. calls[r].pc # "wait" \/ (calls[r].pc = "wait" /\ calls[r].key = calls[r].key)
  OBVIOUS
<1> QED
  BY <1>1, <1>3, <1>4, <1>5, <1>6, <1>7, <1>8, <1>9, CallStep

(* What a reader finds, unless a reply was split, is its own reply: that   *)
(* belongs to the one request that waits on this connection.               *)
LEMMA ReadOwn ==
    ASSUME Inv, NEW r \in Req, ReadLine(r)
    PROVE  calls[r].pc = "wait" /\ Own(link[calls[r].key], r)
<1> DEFINE c == calls[r].key
           s == Head(link[c].in)
<1>1. LocalInv(r, calls[r], rdr[r], link) /\ rdr[r] = "read" /\ calls[r] \in Call
  BY Known DEF ReadLine
<1>2. c \in Conn /\ calls[r].conn = c
  BY <1>1 DEF LocalInv, Active
<1>3. link[c].st # "closed" /\ (link[c].in # <<>> \/ link[c].stub)
  BY <1>2 DEF ReadLine
<1>4. calls[r].pc = "wait"
  <2>1. ~calls[r].failed
    BY <1>1, <1>3 DEF LocalInv, EndedLink
  <2> QED
    BY <1>1, <2>1 DEF LocalInv
<1>5. CASE link[c].split
  BY <1>4, <1>5 DEF Own
<1>6. CASE ~link[c].split
  <2>1. link[c] \in Link /\ LinkInv(c, link[c], calls)
    BY <1>2 DEF Inv, TypeOK, Links
  <2>2. link[c].in # <<>>
    BY <1>3, <1>6, <2>1 DEF LinkInv
  <2>3. s \in Req
    BY <2>1, <2>2, HeadIn
  <2>4. Waits(calls[s], c)
    BY <1>3, <1>6, <2>1, <2>2 DEF LinkInv
  <2>5. Owns(calls[r], c) /\ Owns(calls[s], c)
    BY <1>4, <2>4 DEF Owns, Owning, Waits
  <2>6. s = r
    BY <1>2, <2>3, <2>5 DEF Inv, Owners
  <2> QED
    BY <1>4, <2>2, <2>6 DEF Own
<1> QED
  BY <1>5, <1>6

LEMMA ReadLineInv == ASSUME Inv, ~crashed, NEW r \in Req, ReadLine(r) PROVE Inv'
<1>1. TypeOK /\ calls[r] \in Call /\ LocalInv(r, calls[r], rdr[r], link)
  BY Known
<1>2. Reader(r, "rest") /\ rdr[r] = "read" /\ UNCHANGED calls
  BY DEF ReadLine
<1>3. CallSet(r, calls[r]) /\ RdrSet(r, "rest")
  BY <1>1, <1>2, RdrMoves, CallStays
<1>4. LocalInv(r, calls[r], "rest", link)
  <2>1. calls[r].pc = "wait" /\ Own(link[calls[r].key], r)
    BY ReadOwn
  <2> QED
    BY <1>1, <1>2, <2>1 DEF LocalInv, Active, Sending, OnLink
<1>5. NoNewOwner(calls[r], calls[r])
  BY DEF NoNewOwner
<1>6. UNCHANGED link /\ UNCHANGED <<listed, closing, crashed>> /\ UNCHANGED <<pool, given, tracked>>
  BY DEF ReadLine
<1>7. Openers
  BY <1>6 DEF Openers
<1>8. given' \subseteq Conn /\ given \subseteq given' /\ pool' \subseteq pool /\ tracked' \subseteq tracked
  BY <1>1, <1>6 DEF TypeOK
<1>9. calls[r].pc # "wait" \/ (calls[r].pc = "wait" /\ calls[r].key = calls[r].key)
  OBVIOUS
<1> QED
  BY <1>1, <1>3, <1>4, <1>5, <1>6, <1>7, <1>8, <1>9, CallStep

LEMMA ReadFailsInv == ASSUME Inv, ~crashed, NEW r \in Req, ReadFails(r) PROVE Inv'
<1> DEFINE q == [calls[r] EXCEPT !.failed = TRUE]
<1>1. TypeOK /\ calls[r] \in Call /\ LocalInv(r, calls[r], rdr[r], link)
  BY Known
<1>2. /\ q \in Call /\ q.pc = calls[r].pc /\ q.key = calls[r].key /\ q.conn = calls[r].conn
      /\ q.failed = TRUE /\ q.result = calls[r].result /\ q.from = calls[r].from
  BY <1>1 DEF Call
<1>3. Set(r, q) /\ Reader(r, "sendError") /\ rdr[r] = "read"
  BY DEF ReadFails
<1> HIDE DEF q
<1>4. CallSet(r, q) /\ RdrSet(r, "sendError")
  <2>1. "sendError" \in {"none", "loop", "read", "rest", "forget", "exit"} \cup Sending
    BY DEF Sending
  <2> QED
    BY <1>1, <1>2, <1>3, <2>1, CallMoves, RdrMoves
<1>5. calls[r].key \in Conn /\ EndedLink(link[calls[r].key])
  BY <1>1, <1>3 DEF ReadFails, LocalInv, Active, Ended, EndedLink
<1>6. LocalInv(r, q, "sendError", link)
  BY <1>1, <1>2, <1>3, <1>5 DEF LocalInv, Active, Sending, OnLink
<1>7. NoNewOwner(calls[r], q)
  BY <1>2 DEF NoNewOwner, Owns
<1>8. UNCHANGED link /\ UNCHANGED <<listed, closing, crashed>> /\ UNCHANGED <<pool, given, tracked>>
  BY DEF ReadFails
<1>9. Openers
  BY <1>8 DEF Openers
<1>10. given' \subseteq Conn /\ given \subseteq given' /\ pool' \subseteq pool /\ tracked' \subseteq tracked
  BY <1>1, <1>8 DEF TypeOK
<1> QED
  BY <1>2, <1>4, <1>6, <1>7, <1>8, <1>9, <1>10, CallStep

LEMMA ForgetInv == ASSUME Inv, ~crashed, NEW r \in Req, Forget(r) PROVE Inv'
<1> DEFINE q == [calls[r] EXCEPT !.conn = Nil]
<1>1. TypeOK /\ calls[r] \in Call /\ LocalInv(r, calls[r], rdr[r], link)
  BY Known
<1>2. /\ q \in Call /\ q.pc = calls[r].pc /\ q.key = calls[r].key /\ q.conn = Nil
      /\ q.failed = calls[r].failed /\ q.result = calls[r].result /\ q.from = calls[r].from
  BY <1>1 DEF Call
<1>3. Set(r, q) /\ Reader(r, "exit") /\ rdr[r] = "forget"
  BY DEF Forget
<1> HIDE DEF q
<1>4. CallSet(r, q) /\ RdrSet(r, "exit")
  BY <1>1, <1>2, <1>3, CallMoves, RdrMoves
<1>5. LocalInv(r, q, "exit", link) /\ calls[r].pc # "wait"
  BY <1>1, <1>2, <1>3 DEF LocalInv, Active, Sending, OnLink
<1>6. NoNewOwner(calls[r], q)
  BY <1>2 DEF NoNewOwner, Owns
<1>7. UNCHANGED link /\ UNCHANGED <<listed, closing, crashed>> /\ UNCHANGED <<pool, given, tracked>>
  BY DEF Forget
<1>8. Openers
  BY <1>7 DEF Openers
<1>9. given' \subseteq Conn /\ given \subseteq given' /\ pool' \subseteq pool /\ tracked' \subseteq tracked
  BY <1>1, <1>7 DEF TypeOK
<1> QED
  BY <1>2, <1>4, <1>5, <1>6, <1>7, <1>8, <1>9, CallStep

(* A step of a request or its reader on its connection.                    *)
LEMMA LinkStep ==
    ASSUME Inv, ~crashed, NEW r \in Req, NEW q, NEW d, CallSet(r, q), RdrSet(r, d),
           NEW c \in Conn, NEW l, LinkSet(c, l), Grows(link[c], l),
           l.st \in {"open", "broken"} => link[c].st \in {"open", "broken"},
           Owns(calls[r], c) \/ (l.st = "closed" /\ l.in = link[c].in /\ l.split = link[c].split),
           calls[r].pc = "wait" => calls[r].key = c,
           LocalInv(r, q, d, link'), LinkInv(c, l, calls'),
           NoNewOwner(calls[r], q),
           UNCHANGED <<listed, closing, crashed>>, UNCHANGED <<pool, given, tracked>>
    PROVE  Inv'
<1>1. LinkGrows
  BY SetGrows
<1>2. TypeOK'
  BY DEF Inv, TypeOK, CallSet, RdrSet, LinkSet
<1>3. \A s \in Req : s # r => OnLink(rdr[s], link'[calls[s].key], s)
  <2> SUFFICES ASSUME NEW s \in Req, s # r, rdr[s] \in {"rest", "send"}
               PROVE  OnLink(rdr[s], link'[calls[s].key], s)
    BY DEF OnLink
  <2>1. OnLink(rdr[s], link[calls[s].key], s) /\ calls[s].key \in Conn /\ calls[s].pc = "wait"
    BY Known DEF LocalInv, Active, Sending
  <2>2. calls[s].key = c => ~Owns(calls[r], c)
    BY <2>1 DEF Inv, Owners, Owns, Owning
  <2> QED
    BY <2>1, <2>2 DEF LinkSet, OnLink, Own, Drained
<1>4. Locals'
  BY <1>1, <1>3, LocalsKept
<1>5. Links'
  BY LinksSet
<1>6. Openers
  BY DEF Openers, LinkSet
<1>7. Owners' /\ Pools' /\ Tracks' /\ OpenTracked' /\ CloseCloses' /\ PanicKnown'
  BY <1>1, <1>6, RestKept
<1> QED
  BY <1>2, <1>4, <1>5, <1>7 DEF Inv

(* No reply is outstanding on a connection that a request is about to use, *)
(* unless one was split there.                                             *)
LEMMA NoOther ==
    ASSUME Inv, NEW r \in Req, NEW c \in Conn, Owns(calls[r], c), calls[r].pc # "wait",
           link[c].st # "closed", ~link[c].split
    PROVE  link[c].in = <<>> /\ (link[c].st = "open" => link[c].asked = {})
<1>1. link[c] \in Link /\ LinkInv(c, link[c], calls)
  BY DEF Inv, TypeOK, Links
<1>2. ASSUME NEW s \in Req, Waits(calls[s], c) PROVE FALSE
  <2>1. Owns(calls[s], c)
    BY <1>2 DEF Owns, Owning, Waits
  <2> QED
    BY <1>2, <2>1 DEF Inv, Owners, Waits
<1>3. link[c].in = <<>>
  BY <1>1, <1>2, HeadIn DEF LinkInv
<1>4. link[c].st = "open" => link[c].asked = {}
  BY <1>1, <1>2 DEF LinkInv, Link
<1> QED
  BY <1>3, <1>4

LEMMA WriteInv == ASSUME Inv, ~crashed, NEW r \in Req, Write(r) PROVE Inv'
<1> DEFINE q == [calls[r] EXCEPT !.pc = "wait"]
           c == calls[r].conn
           l == [link[c] EXCEPT !.asked = @ \cup {r}]
<1>1. TypeOK /\ calls[r] \in Call /\ LocalInv(r, calls[r], rdr[r], link)
  BY Known
<1>2. /\ q \in Call /\ q.pc = "wait" /\ q.key = calls[r].key /\ q.conn = calls[r].conn
      /\ q.failed = calls[r].failed /\ q.result = calls[r].result /\ q.from = calls[r].from
  BY <1>1 DEF Call
<1>3. /\ Set(r, q) /\ Reader(r, "loop") /\ calls[r].pc = "write"
      /\ link[c].st # "closed"
      /\ link' = IF link[c].st = "open" THEN [link EXCEPT ![c] = l] ELSE link
  BY DEF Write
<1>4. /\ UNCHANGED <<listed, closing, crashed>> /\ UNCHANGED <<pool, given, tracked>>
  BY DEF Write
<1>5. c \in Conn /\ c = calls[r].key
  BY <1>1, <1>3 DEF LocalInv, Owning
<1>6. link[c] \in Link /\ link[c].st # "unused"
  BY <1>1, <1>5 DEF TypeOK, LocalInv
<1>7. /\ l \in Link /\ l.st = link[c].st /\ l.asked = link[c].asked \cup {r}
      /\ l.in = link[c].in /\ l.stub = link[c].stub /\ l.split = link[c].split
  BY <1>6 DEF Link
<1>8. PICK m \in Link : /\ m.st = link[c].st /\ m.in = link[c].in
                        /\ m.stub = link[c].stub /\ m.split = link[c].split
                        /\ m.st = "open" => m.asked = link[c].asked \cup {r}
                        /\ LinkSet(c, m)
  <2> HIDE DEF q, l, c
  <2>1. CASE link[c].st = "open"
    BY <1>1, <1>3, <1>5, <1>7, <2>1, LinkMoves
  <2>2. CASE link[c].st # "open"
    <3>1. LinkSet(c, link[c])
      BY <1>1, <1>3, <1>5, <2>2 DEF LinkSet, TypeOK
    <3> QED
      BY <1>6, <2>2, <3>1
  <2> QED
    BY <2>1, <2>2
<1> HIDE DEF q, l, c
<1>9. CallSet(r, q) /\ RdrSet(r, "loop")
  BY <1>1, <1>2, <1>3, CallMoves, RdrMoves
<1>10. Owns(calls[r], c)
  BY <1>3, <1>5 DEF Owns, Owning
<1>11. ~link[c].split => link[c].in = <<>> /\ (link[c].st = "open" => link[c].asked = {})
  BY <1>3, <1>5, <1>10, NoOther
<1>12. Grows(link[c], m)
  BY <1>8 DEF Grows, EndedLink
<1>13. link'[c] = m
  BY <1>8 DEF LinkSet
<1>14. LocalInv(r, q, "loop", link')
  <2>1. ~q.failed \/ EndedLink(m)
    BY <1>1, <1>2, <1>5, <1>8 DEF LocalInv, EndedLink
  <2> QED
    BY <1>1, <1>2, <1>3, <1>5, <1>6, <1>8, <1>13, <2>1 DEF LocalInv, Owning, Active, Sending, OnLink
<1>15. LinkInv(c, m, calls')
  <2>1. Waits(calls'[r], c)
    BY <1>2, <1>5, <1>9 DEF CallSet, Waits
  <2>2. LinkInv(c, link[c], calls)
    BY <1>5 DEF Inv, Links
  <2>3. ~m.split => ~m.stub /\ m.in = <<>> /\ Len(m.in) < 2
    BY <1>8, <1>11, <2>2 DEF LinkInv
  <2>4. ~m.split /\ m.st = "open" => m.asked = {r}
    BY <1>8, <1>11
  <2> QED
    BY <1>6, <1>8, <2>1, <2>3, <2>4 DEF LinkInv
<1>16. NoNewOwner(calls[r], q)
  BY <1>2, <1>3 DEF NoNewOwner, Owns, Owning
<1>17. m.st \in {"open", "broken"} => link[c].st \in {"open", "broken"}
  BY <1>8
<1>18. calls[r].pc = "wait" => calls[r].key = c
  BY <1>3
<1> QED
  BY <1>2, <1>4, <1>5, <1>8, <1>9, <1>10, <1>12, <1>14, <1>15, <1>16, <1>17, <1>18, LinkStep

LEMMA LoopDoneInv == ASSUME Inv, ~crashed, NEW r \in Req, LoopDone(r) PROVE Inv'
<1> DEFINE c == calls[r].conn
           l == Closed(link[c])
<1>1. TypeOK /\ calls[r] \in Call /\ LocalInv(r, calls[r], rdr[r], link)
  BY Known
<1>2. /\ UNCHANGED calls /\ Reader(r, "sendTimeout") /\ rdr[r] = "loop"
      /\ link' = [link EXCEPT ![c] = l]
  BY DEF LoopDone
<1>3. /\ UNCHANGED <<listed, closing, crashed>> /\ UNCHANGED <<pool, given, tracked>>
  BY DEF LoopDone
<1>4. c \in Conn /\ c = calls[r].key
  BY <1>1, <1>2 DEF LocalInv, Active
<1>5. /\ l \in Link /\ l.st = "closed" /\ l.in = link[c].in
      /\ l.split = link[c].split /\ l.stub = link[c].stub
  <2>1. link[c] \in Link
    BY <1>1, <1>4 DEF TypeOK
  <2> HIDE DEF c
  <2> QED
    BY <2>1 DEF Link, Closed
<1> HIDE DEF l, c
<1>6. LinkSet(c, l)
  BY <1>1, <1>2, <1>4, <1>5, LinkMoves
<1>7. CallSet(r, calls[r]) /\ RdrSet(r, "sendTimeout")
  <2>1. "sendTimeout" \in {"none", "loop", "read", "rest", "forget", "exit"} \cup Sending
    BY DEF Sending
  <2> QED
    BY <1>1, <1>2, <2>1, CallStays, RdrMoves
<1>8. Grows(link[c], l) /\ link'[c] = l
  BY <1>5, <1>6 DEF Grows, EndedLink, LinkSet
<1>9. LocalInv(r, calls[r], "sendTimeout", link')
  BY <1>1, <1>2, <1>4, <1>5, <1>8 DEF LocalInv, Active, Sending, EndedLink, OnLink
<1>10. LinkInv(c, l, calls')
  <2>1. LinkInv(c, link[c], calls)
    BY <1>4 DEF Inv, Links
  <2> QED
    BY <1>5, <2>1 DEF LinkInv
<1>11. NoNewOwner(calls[r], calls[r])
  BY DEF NoNewOwner
<1>12. l.st \in {"open", "broken"} => link[c].st \in {"open", "broken"}
  BY <1>5
<1>13. calls[r].pc = "wait" => calls[r].key = c
  BY <1>4
<1>14. calls[r].failed => calls[r].failed
  OBVIOUS
<1> QED
  BY <1>3, <1>4, <1>5, <1>6, <1>7, <1>8, <1>9, <1>10, <1>11, <1>12, <1>13, <1>14, LinkStep

(* A reader takes a reply, and on a connection without a split one leaves  *)
(* nothing behind.                                                         *)
LEMMA ReadReplyInv == ASSUME Inv, ~crashed, NEW r \in Req, ReadReply(r) PROVE Inv'
<1> DEFINE c == calls[r].conn
           q == [calls[r] EXCEPT !.from = Head(link[c].in)]
<1>1. TypeOK /\ calls[r] \in Call /\ LocalInv(r, calls[r], rdr[r], link)
  BY Known
<1>2. /\ UNCHANGED <<listed, closing, crashed>> /\ UNCHANGED <<pool, given, tracked>>
      /\ rdr[r] = "rest" /\ link[c].in # <<>> /\ Reader(r, "send") /\ Set(r, q)
  BY DEF ReadReply
<1>3. calls[r].pc = "wait" /\ c \in Conn /\ c = calls[r].key /\ Own(link[c], r)
  BY <1>1, <1>2 DEF LocalInv, Active, OnLink
<1>4. Owns(calls[r], c)
  BY <1>3 DEF Owns, Owning
<1>5. link[c] \in Link /\ link[c].st # "unused" /\ LinkInv(c, link[c], calls)
  BY <1>1, <1>3 DEF TypeOK, LocalInv, Inv, Links
<1>6. Head(link[c].in) \in Req
  BY <1>2, <1>5, HeadIn
<1>7. /\ q \in Call /\ q.pc = "wait" /\ q.key = c /\ q.conn = c
      /\ q.failed = calls[r].failed /\ q.result = calls[r].result /\ q.from = Head(link[c].in)
  BY <1>1, <1>3, <1>6 DEF Call
<1>8. PICK k \in 2..(Len(link[c].in) + 1), left \in BOOLEAN :
        /\ left => k > 2
        /\ link' = [link EXCEPT ![c] = [link[c] EXCEPT !.in = SubSeq(@, k, Len(@)), !.stub = left]]
  BY DEF ReadReply
<1> DEFINE l == [link[c] EXCEPT !.in = SubSeq(@, k, Len(@)), !.stub = left]
<1>9. SubSeq(link[c].in, k, Len(link[c].in)) \in Seq(Req)
  BY <1>5 DEF Link
<1>10. /\ l \in Link /\ l.st = link[c].st /\ l.asked = link[c].asked /\ l.split = link[c].split
       /\ l.in = SubSeq(link[c].in, k, Len(link[c].in)) /\ l.stub = left
  BY <1>5, <1>9 DEF Link
<1>11. ~l.split => l.in = <<>> /\ Len(l.in) < 2 /\ ~l.stub
  <2> SUFFICES ASSUME ~link[c].split PROVE l.in = <<>> /\ Len(l.in) < 2 /\ ~l.stub
    BY <1>10
  <2>1. link[c].in \in Seq(Req) /\ Len(link[c].in) < 2
    BY <1>5 DEF Link, LinkInv
  <2>2. Len(link[c].in) = 1 /\ k = 2
    <3>1. Len(link[c].in) \in Nat /\ Len(link[c].in) # 0
      BY <1>2, <2>1
    <3>2. PICK n \in Nat : n = Len(link[c].in)
      BY <3>1
    <3>3. n # 0 /\ n < 2 /\ k \in 2..(n + 1)
      BY <1>8, <2>1, <3>1, <3>2
    <3>4. n = 1 /\ k = 2
      BY <3>3
    <3> QED
      BY <3>2, <3>4
  <2>3. SubSeq(link[c].in, 2, 1) = <<>>
    BY <2>1
  <2> QED
    BY <1>8, <1>10, <2>2, <2>3
<1>12. link' = [link EXCEPT ![c] = l]
  BY <1>8
<1> HIDE DEF q, l, c
<1>13. CallSet(r, q) /\ RdrSet(r, "send") /\ LinkSet(c, l)
  <2>1. "send" \in {"none", "loop", "read", "rest", "forget", "exit"} \cup Sending
    BY DEF Sending
  <2> QED
    BY <1>1, <1>2, <1>3, <1>7, <1>10, <1>12, <2>1, CallMoves, RdrMoves, LinkMoves
<1>14. Grows(link[c], l) /\ link'[c] = l
  BY <1>2, <1>10, <1>13 DEF Grows, EndedLink, LinkSet
<1>15. LinkInv(c, l, calls')
  <2>1. \A s \in l.asked : Waits(calls[s], c) => Waits(calls'[s], c)
    BY <1>5, <1>7, <1>10, <1>13 DEF CallSet, Waits, Link
  <2> QED
    BY <1>5, <1>10, <1>11, <2>1 DEF LinkInv
<1>16. LocalInv(r, q, "send", link')
  <2>1. Drained(l)
    BY <1>2, <1>5, <1>10, <1>11 DEF Drained, LinkInv
  <2>2. q.from = r \/ l.split
    BY <1>3, <1>7, <1>10 DEF Own
  <2>3. q.failed => EndedLink(l)
    BY <1>1, <1>3, <1>7, <1>14 DEF LocalInv, Grows
  <2> QED
    BY <1>1, <1>2, <1>3, <1>5, <1>7, <1>10, <1>14, <2>1, <2>2, <2>3
       DEF LocalInv, OnLink, Active, Sending, Owning
<1>17. NoNewOwner(calls[r], q)
  BY <1>3, <1>7 DEF NoNewOwner, Owns, Owning
<1>18. l.st \in {"open", "broken"} => link[c].st \in {"open", "broken"}
  BY <1>10
<1>19. calls[r].pc = "wait" => calls[r].key = c
  BY <1>3
<1> QED
  BY <1>2, <1>3, <1>4, <1>13, <1>14, <1>15, <1>16, <1>17, <1>18, <1>19, LinkStep

(* The caller goes on; nothing that is outstanding is its own.             *)
LEMMA HandOverInv ==
    ASSUME Inv, ~crashed, NEW r \in Req, NEW parses \in BOOLEAN, HandOver(r, parses)
    PROVE  Inv'
<1> DEFINE c == calls[r].conn
           res == IF rdr[r] # "send" THEN "text" ELSE IF parses THEN "reply" ELSE "error"
           q == [calls[r] EXCEPT !.pc = "release", !.result = res]
           d == AfterSend(r)
<1>1. TypeOK /\ calls[r] \in Call /\ LocalInv(r, calls[r], rdr[r], link)
  BY Known
<1>2. /\ UNCHANGED <<listed, closing, crashed>> /\ UNCHANGED <<pool, given, tracked>>
      /\ calls[r].pc = "wait" /\ rdr[r] \in Sending /\ Reader(r, d) /\ Set(r, q) /\ link' = link
  BY DEF HandOver
<1>3. c \in Conn /\ c = calls[r].key /\ Owns(calls[r], c)
  BY <1>1, <1>2 DEF LocalInv, Active, Owns, Owning
<1>4. link[c] \in Link /\ link[c].st # "unused" /\ LinkInv(c, link[c], calls)
  BY <1>1, <1>3 DEF TypeOK, LocalInv, Inv, Links
<1>5. res \in {"text", "reply", "error"} /\ (res = "reply" => rdr[r] = "send")
  OBVIOUS
<1>6. /\ q \in Call /\ q.pc = "release" /\ q.key = calls[r].key /\ q.conn = calls[r].conn
      /\ q.failed = calls[r].failed /\ q.result = res /\ q.from = calls[r].from
  BY <1>1, <1>5 DEF Call
<1>7. d = IF rdr[r] = "send" THEN "exit" ELSE IF rdr[r] = "sendTimeout" THEN "forget" ELSE "loop"
  BY <1>2 DEF AfterSend, Sending
<1>8. d \in {"none", "loop", "read", "rest", "forget", "exit"} \cup Sending
  BY <1>7
<1> HIDE DEF q, d, c, res
<1>9. CallSet(r, q) /\ RdrSet(r, d)
  BY <1>1, <1>2, <1>6, <1>8, CallMoves, RdrMoves
<1>10. LinkSet(c, link[c])
  BY <1>1, <1>2, <1>3 DEF LinkSet, TypeOK
<1>11. Grows(link[c], link[c])
  BY DEF Grows
<1>12. /\ rdr[r] = "sendTimeout" => link[c].st = "closed"
       /\ rdr[r] = "sendError" => q.failed /\ EndedLink(link[c])
       /\ rdr[r] = "send" => Drained(link[c]) /\ (q.from = r \/ link[c].split)
  BY <1>1, <1>3, <1>6 DEF LocalInv, OnLink
<1>13. LocalInv(r, q, d, link')
  <2>1. q.key = c /\ q.conn = c
    BY <1>3, <1>6 DEF c
  <2>2. d \in {"exit", "forget", "loop"} /\ (d = "loop" => q.failed) /\ (d = "forget" => link[c].st = "closed")
    BY <1>2, <1>7, <1>12 DEF Sending
  <2>3. q.failed => EndedLink(link[c])
    BY <1>1, <1>3, <1>6 DEF LocalInv
  <2>4. q.result = "reply" => q.from = r \/ link[c].split
    BY <1>5, <1>6, <1>12
  <2> QED
    BY <1>2, <1>3, <1>4, <1>6, <2>1, <2>2, <2>3, <2>4 DEF LocalInv, OnLink, Active, Sending
<1>14. Drained(link[c])
  BY <1>2, <1>4, <1>12 DEF Sending, EndedLink, Drained
<1>15. LinkInv(c, link[c], calls')
  BY <1>4, <1>14 DEF LinkInv, Drained
<1>16. NoNewOwner(calls[r], q)
  BY <1>2, <1>6 DEF NoNewOwner, Owns, Owning
<1>17. calls[r].pc = "wait" => calls[r].key = c
  BY <1>3
<1> QED
  BY <1>2, <1>3, <1>9, <1>10, <1>11, <1>13, <1>15, <1>16, <1>17, LinkStep

(* The connection goes back to the pool: nobody else has it.               *)
LEMMA PutBackInv == ASSUME Inv, ~crashed, NEW r \in Req, PutBack(r) PROVE Inv'
<1> DEFINE q == [calls[r] EXCEPT !.pc = "done"]
<1>1. TypeOK /\ calls[r] \in Call /\ LocalInv(r, calls[r], rdr[r], link)
  BY Known
<1>2. /\ q \in Call /\ q.pc = "done" /\ q.key = calls[r].key /\ q.conn = calls[r].conn
      /\ q.failed = calls[r].failed /\ q.result = calls[r].result /\ q.from = calls[r].from
  BY <1>1 DEF Call
<1>3. Set(r, q) /\ calls[r].pc = "put" /\ UNCHANGED rdr
  BY DEF PutBack
<1> HIDE DEF q
<1>4. CallSet(r, q) /\ RdrSet(r, rdr[r])
  BY <1>1, <1>2, <1>3, CallMoves, RdrStays
<1>5. LocalInv(r, q, rdr[r], link)
  BY <1>1, <1>2, <1>3 DEF LocalInv, Owning, Active, Sending
<1>6. NoNewOwner(calls[r], q)
  BY <1>2 DEF NoNewOwner, Owns, Owning
<1>7. UNCHANGED link /\ UNCHANGED <<listed, closing, crashed>> /\ UNCHANGED given
  BY DEF PutBack
<1>8. calls[r].key \in Conn /\ link[calls[r].key].st # "unused"
  BY <1>1, <1>3 DEF LocalInv, Owning
<1>9. CASE calls[r].conn = Nil
  <2>1. pool' = pool /\ tracked' = tracked \ {calls[r].key}
    BY <1>9 DEF PutBack
  <2>2. link[calls[r].key].st = "closed"
    BY <1>1, <1>3, <1>9 DEF LocalInv
  <2>3. Openers
    BY <1>7, <2>1, <2>2 DEF Openers
  <2>4. given' \subseteq Conn /\ given \subseteq given' /\ pool' \subseteq pool /\ tracked' \subseteq tracked
    BY <1>1, <1>7, <2>1 DEF TypeOK
  <2> QED
    BY <1>2, <1>3, <1>4, <1>5, <1>6, <1>7, <2>3, <2>4, CallStep
<1>10. CASE calls[r].conn # Nil
  <2>1. calls[r].conn = calls[r].key
    BY <1>1, <1>10 DEF LocalInv
  <2>2. pool' = pool \cup {calls[r].key} /\ tracked' = tracked
    BY <1>10, <2>1 DEF PutBack
  <2>3. LinkGrows /\ Openers
    BY <1>7, <2>2, SameGrows DEF Openers
  <2>4. TypeOK'
    BY <1>1, <1>4, <1>7, <1>8, <2>2 DEF TypeOK, CallSet, RdrSet
  <2>5. Locals'
    <3>1. \A s \in Req : s # r => OnLink(rdr[s], link'[calls[s].key], s)
      BY <1>7, RestOwn
    <3>2. LocalInv(r, q, rdr[r], link')
      BY <1>5, <1>7
    <3> QED
      BY <1>4, <2>3, <3>1, <3>2, LocalsKept
  <2>6. Links'
    BY <1>3, <1>4, <1>7, LinksKept
  <2>7. Owners'
    BY <1>4, <1>6, OwnersKept
  <2>8. Pools'
    <3> SUFFICES ASSUME NEW c \in pool'
                 PROVE  link[c].st # "unused" /\ \A s \in Req : ~Owns(calls'[s], c)
      BY <1>7 DEF Pools
    <3>1. CASE c \in pool
      <4>1. c \in Conn /\ link[c].st # "unused" /\ \A s \in Req : ~Owns(calls[s], c)
        BY <3>1 DEF Inv, Pools, TypeOK
      <4>2. ASSUME NEW s \in Req PROVE ~Owns(calls'[s], c)
        BY <1>4, <1>6, <4>1 DEF CallSet, NoNewOwner
      <4> QED
        BY <4>1, <4>2
    <3>2. CASE c = calls[r].key
      <4>1. Owns(calls[r], c)
        BY <1>3, <3>2 DEF Owns, Owning
      <4>2. ASSUME NEW s \in Req PROVE ~Owns(calls'[s], c)
        <5>1. CASE s = r
          BY <1>2, <1>4, <5>1 DEF CallSet, Owns, Owning
        <5>2. CASE s # r
          BY <1>4, <1>8, <3>2, <4>1, <5>2 DEF CallSet, Inv, Owners
        <5> QED
          BY <5>1, <5>2
      <4> QED
        BY <1>8, <3>2, <4>2
    <3> QED
      BY <2>2, <3>1, <3>2
  <2>9. Tracks' /\ OpenTracked' /\ CloseCloses'
    BY <1>7, <2>2, <2>3, TracksKept, OpenKept
  <2>10. PanicKnown'
    BY <1>2, <1>4, <1>7, PanicKept
  <2> QED
    BY <2>4, <2>5, <2>6, <2>7, <2>8, <2>9, <2>10 DEF Inv
<1> QED
  BY <1>9, <1>10

(* A request takes a connection that nobody has.                           *)
LEMMA OwnersTaken ==
    ASSUME Inv, NEW r \in Req, NEW q, CallSet(r, q), NEW c \in Conn, q.key = c,
           \A s \in Req : ~Owns(calls[s], c)
    PROVE  Owners'
<1> SUFFICES ASSUME NEW e \in Conn, NEW s \in Req, NEW u \in Req,
                    Owns(calls'[s], e), Owns(calls'[u], e)
             PROVE  s = u
  BY DEF Owners
<1>1. ASSUME NEW v \in Req, Owns(calls'[v], e) PROVE (v = r /\ e = c) \/ (v # r /\ e # c /\ Owns(calls[v], e))
  BY <1>1 DEF CallSet, Owns
<1>2. ((s = r /\ e = c) \/ (s # r /\ e # c /\ Owns(calls[s], e))) /\ ((u = r /\ e = c) \/ (u # r /\ e # c /\ Owns(calls[u], e)))
  BY <1>1
<1> QED
  BY <1>2 DEF Inv, Owners

LEMMA PoolsTaken ==
    ASSUME Inv, LinkGrows, NEW r \in Req, NEW q, CallSet(r, q), NEW c \in Conn, q.key = c,
           pool' = pool \ {c}
    PROVE  Pools'
<1> SUFFICES ASSUME NEW e \in pool, e # c
             PROVE  link'[e].st # "unused" /\ \A s \in Req : ~Owns(calls'[s], e)
  BY DEF Pools
<1>1. e \in Conn /\ link[e].st # "unused" /\ \A s \in Req : ~Owns(calls[s], e)
  BY DEF Inv, Pools, TypeOK
<1>2. link'[e].st # "unused"
  BY <1>1 DEF LinkGrows, Grows
<1>3. ASSUME NEW s \in Req PROVE ~Owns(calls'[s], e)
  BY <1>1 DEF CallSet, Owns
<1> QED
  BY <1>2, <1>3

LEMMA GetInv == ASSUME Inv, ~crashed, NEW r \in Req, NEW c \in Conn, Get(r, c) PROVE Inv'
<1> DEFINE q == [calls[r] EXCEPT !.pc = "write", !.key = c, !.conn = c]
<1>1. TypeOK /\ calls[r] \in Call /\ LocalInv(r, calls[r], rdr[r], link)
  BY Known
<1>2. /\ q \in Call /\ q.pc = "write" /\ q.key = c /\ q.conn = c
      /\ q.failed = calls[r].failed /\ q.result = calls[r].result /\ q.from = calls[r].from
  BY <1>1 DEF Call
<1>3. Set(r, q) /\ calls[r].pc = "idle" /\ UNCHANGED rdr /\ c \in pool
  BY DEF Get
<1> HIDE DEF q
<1>4. CallSet(r, q) /\ RdrSet(r, rdr[r])
  BY <1>1, <1>2, <1>3, CallMoves, RdrStays
<1>5. link[c].st # "unused" /\ \A s \in Req : ~Owns(calls[s], c)
  BY <1>3 DEF Inv, Pools
<1>6. ~calls[r].failed /\ rdr[r] = "none"
  BY <1>1, <1>3 DEF LocalInv
<1>7. LocalInv(r, q, rdr[r], link)
  BY <1>1, <1>2, <1>3, <1>5, <1>6 DEF LocalInv, Owning, Active, Sending, OnLink
<1>8. /\ UNCHANGED link /\ UNCHANGED <<listed, closing, crashed>> /\ UNCHANGED <<tracked, given>>
      /\ pool' = pool \ {c}
  BY DEF Get
<1>9. LinkGrows /\ Openers
  BY <1>8, SameGrows DEF Openers
<1>10. TypeOK'
  BY <1>1, <1>4, <1>8 DEF TypeOK, CallSet, RdrSet
<1>11. Locals'
  <2>1. \A s \in Req : s # r => OnLink(rdr[s], link'[calls[s].key], s)
    BY <1>8, RestOwn
  <2>2. LocalInv(r, q, rdr[r], link')
    BY <1>7, <1>8
  <2> QED
    BY <1>4, <1>9, <2>1, <2>2, LocalsKept
<1>12. Links'
  BY <1>3, <1>4, <1>8, LinksKept
<1>13. Owners' /\ Pools'
  BY <1>2, <1>4, <1>5, <1>8, <1>9, OwnersTaken, PoolsTaken
<1>14. Tracks' /\ OpenTracked' /\ CloseCloses'
  BY <1>8, <1>9, TracksKept, OpenKept
<1>15. PanicKnown'
  BY <1>2, <1>4, <1>8, PanicKept
<1> QED
  BY <1>10, <1>11, <1>12, <1>13, <1>14, <1>15 DEF Inv

LEMMA DialOkInv == ASSUME Inv, ~crashed, NEW r \in Req, NEW c \in Conn, DialOk(r, c) PROVE Inv'
<1> DEFINE q == [calls[r] EXCEPT !.pc = "write", !.key = c, !.conn = c]
           l == [link[c] EXCEPT !.st = "open"]
<1>1. TypeOK /\ calls[r] \in Call /\ LocalInv(r, calls[r], rdr[r], link)
  BY Known
<1>2. /\ q \in Call /\ q.pc = "write" /\ q.key = c /\ q.conn = c
      /\ q.failed = calls[r].failed /\ q.result = calls[r].result /\ q.from = calls[r].from
  BY <1>1 DEF Call
<1>3. /\ Set(r, q) /\ calls[r].pc = "idle" /\ UNCHANGED rdr
      /\ link[c].st = "unused" /\ link' = [link EXCEPT ![c] = l]
  BY DEF DialOk
<1>4. /\ l \in Link /\ l.st = "open" /\ l.asked = link[c].asked /\ l.in = link[c].in
      /\ l.stub = link[c].stub /\ l.split = link[c].split
  <2>1. link[c] \in Link
    BY <1>1 DEF TypeOK
  <2> QED
    BY <2>1 DEF Link
<1> HIDE DEF q, l
<1>5. CallSet(r, q) /\ RdrSet(r, rdr[r]) /\ LinkSet(c, l)
  BY <1>1, <1>2, <1>3, <1>4, CallMoves, RdrStays, LinkMoves
<1>6. \A s \in Req : calls[s].key # c
  BY <1>3 DEF Inv, Locals, LocalInv
<1>7. ~calls[r].failed /\ rdr[r] = "none"
  BY <1>1, <1>3 DEF LocalInv
<1>8. link'[c].st = "open"
  BY <1>4, <1>5 DEF LinkSet
<1>9. LocalInv(r, q, rdr[r], link')
  BY <1>1, <1>2, <1>3, <1>7, <1>8 DEF LocalInv, Owning, Active, Sending, OnLink
<1>10. /\ UNCHANGED <<listed, closing, crashed>> /\ UNCHANGED <<pool, given>>
       /\ tracked' = tracked \cup {c}
  BY DEF DialOk, Noted
<1>11. LinkGrows
  <2>1. Grows(link[c], l)
    BY <1>3, <1>4 DEF Grows, EndedLink
  <2> QED
    BY <1>5, <2>1, SetGrows
<1>12. TypeOK'
  BY <1>1, <1>5, <1>10 DEF TypeOK, CallSet, RdrSet, LinkSet
<1>13. Locals'
  <2>1. \A s \in Req : s # r => OnLink(rdr[s], link'[calls[s].key], s)
    <3> SUFFICES ASSUME NEW s \in Req, rdr[s] \in {"rest", "send"}
                 PROVE  OnLink(rdr[s], link'[calls[s].key], s)
      BY DEF OnLink
    <3>1. OnLink(rdr[s], link[calls[s].key], s) /\ calls[s].key \in Conn /\ calls[s].key # c
      BY <1>6, Known DEF LocalInv, Active, Sending
    <3> QED
      BY <1>5, <3>1 DEF LinkSet
  <2> QED
    BY <1>5, <1>9, <1>11, <2>1, LocalsKept
<1>14. Links'
  <2>1. LinkInv(c, link[c], calls)
    BY DEF Inv, Links
  <2>2. LinkInv(c, l, calls')
    BY <1>3, <1>4, <2>1 DEF LinkInv
  <2>3. calls[r].pc = "wait" => calls[r].key = c
    BY <1>3
  <2> QED
    BY <1>5, <2>2, <2>3, LinksSet
<1>15. Owners'
  <2>1. \A s \in Req : ~Owns(calls[s], c)
    BY <1>6 DEF Owns
  <2> QED
    BY <1>2, <1>5, <2>1, OwnersTaken
<1>16. Pools'
  <2> SUFFICES ASSUME NEW e \in pool PROVE link'[e].st # "unused" /\ \A s \in Req : ~Owns(calls'[s], e)
    BY <1>10 DEF Pools
  <2>1. e \in Conn /\ link[e].st # "unused" /\ \A s \in Req : ~Owns(calls[s], e)
    BY DEF Inv, Pools, TypeOK
  <2>2. e # c
    BY <1>3, <2>1
  <2> QED
    BY <1>2, <1>5, <1>11, <2>1, <2>2 DEF CallSet, Owns, LinkGrows, Grows
<1>17. Tracks'
  <2> SUFFICES ASSUME NEW e \in Conn, e \in tracked \cup {c} \cup closing.keys PROVE link'[e].st # "unused"
    BY <1>10 DEF Tracks
  <2>1. CASE e = c
    BY <1>8, <2>1
  <2>2. CASE e # c
    BY <1>5, <2>2 DEF Inv, Tracks, LinkSet
  <2> QED
    BY <2>1, <2>2
<1>18. \A e \in Conn : e # c => link'[e] = link[e]
  BY <1>5 DEF LinkSet
<1>19. OpenTracked'
  BY <1>10, <1>18 DEF Inv, OpenTracked, IsOpen
<1>20. CloseCloses'
  <2>1. c \notin closing.keys
    BY <1>3 DEF Inv, Tracks
  <2> QED
    BY <1>10, <1>18, <2>1 DEF Inv, CloseCloses, IsOpen
<1>21. PanicKnown'
  BY <1>2, <1>5, <1>10, PanicKept
<1> QED
  BY <1>12, <1>13, <1>14, <1>15, <1>16, <1>17, <1>19, <1>20, <1>21 DEF Inv

(* A step that changes a connection and no request.                        *)
LEMMA WorldStep ==
    ASSUME Inv, ~crashed, NEW c \in Conn, NEW l, LinkSet(c, l), Grows(link[c], l), LinkInv(c, l, calls),
           \A s \in Req : calls[s].key = c /\ OnLink(rdr[s], link[c], s) => OnLink(rdr[s], l, s),
           l.st \in {"open", "broken"} => link[c].st \in {"open", "broken"} /\ tracked' = tracked,
           tracked' \subseteq tracked, tracked \subseteq tracked' \cup {c},
           UNCHANGED <<listed, pool, calls, rdr, closing, crashed, given>>
    PROVE  Inv'
<1>1. LinkGrows
  BY SetGrows
<1>2. TypeOK'
  BY DEF Inv, TypeOK, LinkSet
<1>3. Locals'
  <2>1. \A s \in Req : OnLink(rdr[s], link'[calls[s].key], s)
    <3> SUFFICES ASSUME NEW s \in Req, rdr[s] \in {"rest", "send"}
                 PROVE  OnLink(rdr[s], link'[calls[s].key], s)
      BY DEF OnLink
    <3>1. OnLink(rdr[s], link[calls[s].key], s) /\ calls[s].key \in Conn
      BY Known DEF LocalInv, Active, Sending
    <3> QED
      BY <3>1 DEF LinkSet
  <2>2. UNCHANGED <<calls, rdr>>
    OBVIOUS
  <2> QED
    BY <1>1, <2>1, <2>2, LocalsStay
<1>4. Links'
  BY LinksOnly
<1>5. Owners'
  BY DEF Inv, Owners
<1>6. Pools'
  <2> SUFFICES ASSUME NEW e \in pool PROVE link'[e].st # "unused"
    BY DEF Inv, Pools
  <2>1. e \in Conn /\ link[e].st # "unused"
    BY DEF Inv, TypeOK, Pools
  <2> QED
    BY <1>1, <2>1 DEF LinkGrows, Grows
<1>7. Openers
  BY DEF Openers, LinkSet
<1>8. Tracks' /\ OpenTracked' /\ CloseCloses'
  BY <1>1, <1>7, TracksKept, OpenKept
<1>9. PanicKnown'
  BY DEF Inv, PanicKnown
<1> QED
  BY <1>2, <1>3, <1>4, <1>5, <1>6, <1>8, <1>9 DEF Inv

LEMMA AnswerInv ==
    ASSUME Inv, ~crashed, NEW c \in Conn, NEW r \in Req, NEW splits \in BOOLEAN, Answer(c, r, splits)
    PROVE  Inv'
<1> DEFINE new == IF splits THEN Append(Append(link[c].in, r), r) ELSE Append(link[c].in, r)
           l == [link[c] EXCEPT !.in = IF splits THEN Append(Append(@, r), r) ELSE Append(@, r),
                                !.asked = @ \ {r}, !.split = @ \/ splits]
<1>1. TypeOK /\ link[c] \in Link /\ LinkInv(c, link[c], calls)
  BY DEF Inv, TypeOK, Links
<1>2. link[c].st = "open" /\ r \in link[c].asked /\ link' = [link EXCEPT ![c] = l]
  BY DEF Answer
<1>3. new \in Seq(Req) /\ (~splits => new = Append(link[c].in, r))
  BY <1>1 DEF Link
<1>4. /\ l \in Link /\ l.st = "open" /\ l.asked = link[c].asked \ {r} /\ l.in = new
      /\ l.stub = link[c].stub /\ l.split = (link[c].split \/ splits)
  BY <1>1, <1>2, <1>3 DEF Link
<1>5. ~l.split => ~splits /\ ~link[c].split
  BY <1>4
<1> HIDE DEF l, new
<1>6. LinkSet(c, l)
  BY <1>1, <1>2, <1>4, LinkMoves
<1>7. ~link[c].split => link[c].in = <<>> /\ ~link[c].stub
  BY <1>1, <1>2 DEF LinkInv
<1>8. ~link[c].split => Waits(calls[r], c) /\ link[c].asked \subseteq {r}
  <2> SUFFICES ASSUME ~link[c].split, NEW s \in link[c].asked PROVE Waits(calls[r], c) /\ s = r
    BY <1>2
  <2>1. s \in Req
    BY <1>1 DEF Link
  <2>2. Waits(calls[s], c) /\ Waits(calls[r], c)
    BY <1>1, <1>2 DEF LinkInv
  <2>3. Owns(calls[s], c) /\ Owns(calls[r], c)
    BY <2>2 DEF Waits, Owns, Owning
  <2> QED
    BY <2>1, <2>2, <2>3 DEF Inv, Owners
<1>9. ~l.split => l.in # <<>> /\ Len(l.in) < 2 /\ Head(l.in) = r
  <2> SUFFICES ASSUME ~l.split PROVE l.in # <<>> /\ Len(l.in) < 2 /\ Head(l.in) = r
    OBVIOUS
  <2>1. l.in = Append(<<>>, r)
    BY <1>3, <1>4, <1>5, <1>7
  <2>2. Append(<<>>, r) # <<>> /\ Len(Append(<<>>, r)) = 1 /\ Head(Append(<<>>, r)) = r
    OBVIOUS
  <2> QED
    BY <2>1, <2>2
<1>10. LinkInv(c, l, calls)
  <2>1. ~l.split => ~l.stub /\ l.asked = {} /\ Waits(calls[r], c)
    BY <1>4, <1>5, <1>7, <1>8
  <2> QED
    BY <1>4, <1>9, <2>1 DEF LinkInv
<1>11. \A s \in Req : calls[s].key = c /\ OnLink(rdr[s], link[c], s) => OnLink(rdr[s], l, s)
  <2> SUFFICES ASSUME NEW s \in Req, OnLink(rdr[s], link[c], s), ~l.split PROVE OnLink(rdr[s], l, s)
    BY DEF OnLink, Own, Drained
  <2>1. ~Own(link[c], s) /\ ~Drained(link[c])
    BY <1>2, <1>5, <1>7 DEF Own, Drained
  <2> QED
    BY <2>1 DEF OnLink
<1>12. Grows(link[c], l)
  BY <1>2, <1>4 DEF Grows, EndedLink
<1>13. UNCHANGED <<listed, pool, calls, rdr, closing, crashed, given>> /\ tracked' = tracked
  BY DEF Answer
<1> QED
  BY <1>2, <1>4, <1>6, <1>10, <1>11, <1>12, <1>13, WorldStep

LEMMA BreakInv == ASSUME Inv, ~crashed, NEW c \in Conn, Break(c) PROVE Inv'
<1> DEFINE l == [link[c] EXCEPT !.st = "broken", !.asked = {}]
<1>1. TypeOK /\ link[c] \in Link /\ LinkInv(c, link[c], calls)
  BY DEF Inv, TypeOK, Links
<1>2. link[c].st = "open" /\ link' = [link EXCEPT ![c] = l]
  BY DEF Break
<1>3. /\ l \in Link /\ l.st = "broken" /\ l.in = link[c].in
      /\ l.stub = link[c].stub /\ l.split = link[c].split
  BY <1>1, <1>2 DEF Link
<1> HIDE DEF l
<1>4. LinkSet(c, l)
  BY <1>1, <1>2, <1>3, LinkMoves
<1>5. LinkInv(c, l, calls)
  BY <1>1, <1>2, <1>3 DEF LinkInv
<1>6. Grows(link[c], l)
  BY <1>2, <1>3 DEF Grows, EndedLink
<1>7. \A s \in Req : calls[s].key = c /\ OnLink(rdr[s], link[c], s) => OnLink(rdr[s], l, s)
  BY <1>2, <1>3 DEF OnLink, Own, Drained
<1>8. UNCHANGED <<listed, pool, calls, rdr, closing, crashed, given>> /\ tracked' = tracked
  BY DEF Break
<1> QED
  BY <1>2, <1>3, <1>4, <1>5, <1>6, <1>7, <1>8, WorldStep

LEMMA EvictInv == ASSUME Inv, ~crashed, NEW c \in Conn, Evict(c) PROVE Inv'
<1>1. /\ pool' \subseteq pool /\ UNCHANGED <<calls, rdr>> /\ UNCHANGED link
      /\ UNCHANGED <<listed, tracked, closing, crashed, given>>
  BY DEF Evict
<1>2. TypeOK'
  BY <1>1 DEF Inv, TypeOK
<1>3. Locals' /\ Links' /\ Owners' /\ Pools'
  BY <1>1 DEF Inv, Locals, Links, Owners, Pools
<1>4. Tracks' /\ OpenTracked' /\ CloseCloses' /\ PanicKnown'
  BY <1>1 DEF Inv, Tracks, OpenTracked, CloseCloses, PanicKnown, IsOpen
<1> QED
  BY <1>2, <1>3, <1>4 DEF Inv

LEMMA CloseOneInv == ASSUME Inv, ~crashed, NEW k \in Conn \cup {Nil}, CloseOne(k) PROVE Inv'
<1>1. /\ tracked' = tracked \ {k}
      /\ UNCHANGED <<listed, pool, calls, rdr, closing, crashed, given>>
  BY DEF CloseOne
<1>2. CASE k = Nil
  <2>1. UNCHANGED link
    BY <1>2 DEF CloseOne
  <2>2. TypeOK'
    BY <1>1, <2>1 DEF Inv, TypeOK
  <2>3. Locals' /\ Links' /\ Owners' /\ Pools'
    BY <1>1, <2>1 DEF Inv, Locals, Links, Owners, Pools
  <2>4. Tracks' /\ OpenTracked' /\ CloseCloses' /\ PanicKnown'
    BY <1>1, <1>2, <2>1 DEF Inv, Tracks, OpenTracked, CloseCloses, PanicKnown, IsOpen
  <2> QED
    BY <2>2, <2>3, <2>4 DEF Inv
<1>3. CASE k \in Conn
  <2> DEFINE l == Closed(link[k])
  <2>1. TypeOK /\ link[k] \in Link
    BY <1>3 DEF Inv, TypeOK
  <2>2. link' = [link EXCEPT ![k] = l]
    BY <1>3 DEF CloseOne
  <2>3. /\ l \in Link /\ l.st = "closed" /\ l.in = link[k].in
        /\ l.stub = link[k].stub /\ l.split = link[k].split
    BY <2>1 DEF Link, Closed
  <2> HIDE DEF l
  <2>4. LinkSet(k, l)
    BY <1>3, <2>1, <2>2, <2>3, LinkMoves
  <2>5. LinkInv(k, link[k], calls)
    BY <1>3 DEF Inv, Links
  <2>6. LinkInv(k, l, calls) /\ Grows(link[k], l)
    BY <2>3, <2>5 DEF LinkInv, Grows, EndedLink
  <2>7. \A s \in Req : calls[s].key = k /\ OnLink(rdr[s], link[k], s) => OnLink(rdr[s], l, s)
    BY <2>3 DEF OnLink, Own, Drained
  <2> QED
    BY <1>1, <1>3, <2>3, <2>4, <2>6, <2>7, WorldStep
<1> QED
  BY <1>2, <1>3

(* Close takes the keys, and ends once none of them is in the map.         *)
LEMMA CloseInv == ASSUME Inv, ~crashed, Close \/ CloseEnd PROVE Inv'
<1>1. UNCHANGED <<listed, pool, tracked, link, calls, rdr, crashed, given>>
  BY DEF Close, CloseEnd
<1>2. Locals' /\ Links' /\ Owners' /\ Pools' /\ OpenTracked' /\ PanicKnown'
  BY <1>1 DEF Inv, Locals, Links, Owners, Pools, OpenTracked, IsOpen, PanicKnown
<1>3. TypeOK /\ Tracks /\ OpenTracked
  BY DEF Inv
<1>4. CASE Close
  <2>1. closing'.pc = "range" /\ closing'.keys = tracked \ {Nil}
    BY <1>4 DEF Close
  <2>2. TypeOK'
    BY <1>1, <1>3, <1>4 DEF TypeOK, Close
  <2>3. Tracks'
    BY <1>1, <1>3, <2>1 DEF Tracks
  <2>4. CloseCloses'
    BY <2>1 DEF CloseCloses
  <2> QED
    BY <1>2, <2>2, <2>3, <2>4 DEF Inv
<1>5. CASE CloseEnd
  <2>1. closing'.keys = closing.keys /\ closing.keys \cap tracked = {}
    BY <1>3, <1>5 DEF CloseEnd, TypeOK
  <2>2. TypeOK'
    BY <1>1, <1>3, <1>5 DEF TypeOK, CloseEnd
  <2>3. Tracks'
    BY <1>1, <1>3, <2>1 DEF Tracks
  <2>4. CloseCloses'
    BY <1>1, <1>3, <2>1 DEF CloseCloses, OpenTracked, IsOpen
  <2> QED
    BY <1>2, <2>2, <2>3, <2>4 DEF Inv
<1> QED
  BY <1>4, <1>5

(* A panic: no server is listed, a reader goes on after a failed read, or  *)
(* it has less than a stop symbol.                                         *)
LEMMA PanicInv ==
    ASSUME Inv, ~crashed, NEW r \in Req, GetPanics(r) \/ SendPanics(r) \/ ReadPanics(r)
    PROVE  Inv'
<1>1. UNCHANGED <<listed, pool, tracked, link, calls, rdr, closing, given>> /\ crashed' = TRUE
  BY DEF GetPanics, SendPanics, ReadPanics
<1>2. TypeOK'
  BY <1>1 DEF Inv, TypeOK
<1>3. Locals' /\ Links' /\ Owners' /\ Pools'
  BY <1>1 DEF Inv, Locals, Links, Owners, Pools
<1>4. Tracks' /\ OpenTracked' /\ CloseCloses'
  BY <1>1 DEF Inv, Tracks, OpenTracked, CloseCloses, IsOpen
<1>5. ~listed \/ calls[r].failed \/ (rdr[r] = "rest" /\ link[calls[r].conn].stub)
  <2>1. CASE GetPanics(r)
    BY <2>1 DEF GetPanics
  <2>2. CASE SendPanics(r)
    BY <2>2, Known DEF SendPanics, LocalInv, Sending
  <2>3. CASE ReadPanics(r)
    BY <2>3 DEF ReadPanics
  <2> QED
    BY <2>1, <2>2, <2>3
<1>6. PanicKnown'
  BY <1>1, <1>5 DEF PanicKnown
<1> QED
  BY <1>2, <1>3, <1>4, <1>6 DEF Inv

-----------------------------------------------------------------------------
LEMMA InitInv == Init => Inv
<1> SUFFICES ASSUME Init PROVE Inv
  OBVIOUS
<1>1. TypeOK
  <2>1. Unused \in Link
    BY DEF Unused, Link
  <2>2. Unmade \in Call
    BY DEF Unmade, Call
  <2> QED
    BY <2>1, <2>2 DEF Init, TypeOK, Sending
<1>2. /\ \A c \in Conn : link[c] = Unused
      /\ \A r \in Req : calls[r] = Unmade /\ rdr[r] = "none"
  BY DEF Init
<1>3. Locals
  BY <1>2 DEF Locals, LocalInv, OnLink, Unmade, Owning, Active, Sending
<1>4. Links
  BY <1>2 DEF Links, LinkInv, Unused
<1>5. Owners
  BY <1>2 DEF Owners, Owns, Owning, Unmade
<1>6. Pools /\ Tracks
  BY DEF Init, Pools, Tracks
<1>7. OpenTracked /\ CloseCloses
  BY <1>2 DEF Init, OpenTracked, CloseCloses, IsOpen, Unused
<1>8. PanicKnown
  BY DEF Init, PanicKnown
<1> QED
  BY <1>1, <1>3, <1>4, <1>5, <1>6, <1>7, <1>8 DEF Inv

LEMMA StepInv == Inv /\ [Next]_vars => Inv'
<1> SUFFICES ASSUME Inv, [Next]_vars PROVE Inv'
  OBVIOUS
<1>1. CASE UNCHANGED vars
  <2>1. TypeOK' /\ Locals' /\ Links' /\ Owners' /\ Pools'
    BY <1>1 DEF vars, Inv, TypeOK, Locals, Links, Owners, Pools
  <2>2. Tracks' /\ OpenTracked' /\ CloseCloses' /\ PanicKnown'
    BY <1>1 DEF vars, Inv, Tracks, OpenTracked, CloseCloses, PanicKnown, IsOpen
  <2> QED
    BY <2>1, <2>2 DEF Inv
<1>2. ASSUME ~crashed, NEW r \in Req, Reads(r) PROVE Inv'
  BY <1>2, LoopDoneInv, LoopReadInv, ReadLineInv, ReadReplyInv, ReadFailsInv, PanicInv, ForgetInv,
     HandOverInv DEF Reads
<1>3. ASSUME ~crashed, NEW r \in Req, Calls(r) PROVE Inv'
  BY <1>3, PanicInv, DialFailsInv, NoServerInv, WriteInv, WriteFailsInv, ReleaseInv, PutBackInv,
     GetInv, DialOkInv DEF Calls
<1>4. ASSUME ~crashed, NEW c \in Conn, Evict(c) \/ Break(c) PROVE Inv'
  BY <1>4, EvictInv, BreakInv
<1> QED
  BY <1>1, <1>2, <1>3, <1>4, AnswerInv, ExpireInv, CloseInv, CloseOneInv DEF Next

LEMMA Always == Spec => []Inv
BY InitInv, StepInv, PTL DEF Spec

(* Every variable has its type, for any number of requests and             *)
(* connections.                                                            *)
THEOREM TcpTyping == Spec => []TypeOK
<1>1. Inv => TypeOK
  BY DEF Inv
<1> QED
  BY <1>1, Always, PTL

(* KeyMatch and ListNamespaces never return the reply to another request,  *)
(* although _sendTCP looks at no message id, unless a reply with the stop  *)
(* symbol in it came on the same connection: a connection of tcpPool has   *)
(* one request at a time, and without such a reply none is put back with   *)
(* anything outstanding.                                                   *)
THEOREM RepliesOwn == Spec => []ReplyOwn
<1>1. Inv => ReplyOwn
  BY DEF Inv, Locals, LocalInv, ReplyOwn
<1> QED
  BY <1>1, Always, PTL

(* A connection that the client has not closed is in tcpPoolMap, or was    *)
(* given up after a failed write.                                          *)
THEOREM OpenIsTracked == Spec => []OpenTracked
<1>1. Inv => OpenTracked
  BY DEF Inv
<1> QED
  BY <1>1, Always, PTL

(* When Close returns, the connections that were in tcpPoolMap when it     *)
(* began are closed, those given up after a failed write excepted, while   *)
(* requests dial, time out and put connections back in the meantime.       *)
THEOREM CloseClosesAll == Spec => []CloseCloses
<1>1. Inv => CloseCloses
  BY DEF Inv
<1> QED
  BY <1>1, Always, PTL

(* The process panics only without a TCP server, or after a failed read:   *)
(* never because of a time-out alone.                                      *)
THEOREM PanicsKnown == Spec => []PanicKnown
<1>1. Inv => PanicKnown
  BY DEF Inv
<1> QED
  BY <1>1, Always, PTL

-----------------------------------------------------------------------------
(* A request, or a reader that outlived it, writes to or reads from c.     *)
Uses(r, c) ==
    calls[r].conn = c /\ (calls[r].pc \in {"write", "wait"} \/ rdr[r] \in {"loop", "read", "rest"} \cup Sending)

(* A connection that can still bring a reply is used by one request at a   *)
(* time, and not while it is in the pool: not even by the reader of an     *)
(* earlier request, which goes round again after a failed read.            *)
UsedByOne ==
    \A c \in Conn, r \in Req :
        Uses(r, c) => Ended(c) \/ (c \notin pool /\ \A s \in Req : Uses(s, c) => s = r)

LEMMA UseAlone == Inv => UsedByOne
<1> SUFFICES ASSUME Inv, NEW c \in Conn, NEW r \in Req, Uses(r, c), ~Ended(c)
             PROVE  c \notin pool /\ \A s \in Req : Uses(s, c) => s = r
  BY DEF UsedByOne
<1>1. ASSUME NEW s \in Req, Uses(s, c) PROVE Owns(calls[s], c)
  <2>1. PICK q, d : q = calls[s] /\ d = rdr[s]
    OBVIOUS
  <2>2. LocalInv(s, q, d, link) /\ c # Nil /\ q.conn = c
    BY <1>1, <2>1 DEF Inv, Locals, Uses
  <2>3. q.key = c
    BY <2>2 DEF LocalInv
  <2>4. ~q.failed
    BY <2>2, <2>3 DEF LocalInv, EndedLink, Ended
  <2>5. q.pc \in {"write", "wait"}
    <3>1. CASE d \in {"loop", "read", "rest"} \cup Sending
      BY <2>2, <2>4, <3>1 DEF LocalInv, Sending
    <3>2. CASE q.pc \in {"write", "wait"}
      BY <3>2
    <3> QED
      BY <1>1, <2>1, <3>1, <3>2 DEF Uses
  <2> QED
    BY <2>1, <2>3, <2>5 DEF Owns, Owning
<1> QED
  BY <1>1 DEF Inv, Owners, Pools

(* No two requests, and no reader left behind by one, use a connection     *)
(* that can still bring a reply, nor one that is in the pool: the reason   *)
(* why replies need not say whose they are, as long as a read takes them   *)
(* whole (_sendTCP and its reader).                                        *)
THEOREM OneUser == Spec => []UsedByOne
BY UseAlone, Always, PTL
=============================================================================
