-------------------------- MODULE ReplicationProofs --------------------------
(***************************************************************************)
(* Proofs of what module Server says about Puts: which of them a server    *)
(* may apply, how often, and what becomes of their replicas.               *)
(***************************************************************************)
EXTENDS ServerProofs, SequenceTheorems, FiniteSetTheorems

USE ServerAssumption

-----------------------------------------------------------------------------
(* Part 1: no Put with a wrong hash is applied.                            *)
(*                                                                         *)
(* A Put that is read at server n was sent to n with the hash it has; a    *)
(* replicated one goes back to a Put with the right hash.                  *)
(* Replicas and error packets go between servers, one of which is the one  *)
(* that the request was sent to: Sender.                                   *)
Sender(snt, n, pkt) ==
    /\ pkt.cmd \notin {"R", "E"} => pkt.from = NoNode
    /\ pkt.cmd \in {"R", "E"} =>
            pkt.from \in Node /\ pkt.from # n /\ snt[pkt.req].at \in {n, pkt.from}
    /\ pkt.cmd = "R" => snt[pkt.req].at = pkt.from

Origin(snt, n, pkt) ==
    /\ Sender(snt, n, pkt)
    /\ pkt.cmd \in {"P", "R"} => snt[pkt.req].at # NoNode
    /\ pkt.cmd = "P" => snt[pkt.req].at = n /\ pkt.hash = snt[pkt.req].hash
    /\ pkt.cmd = "R" => snt[pkt.req].hash = pkt.req

(* The same of a worker, until it checks the hash, and what it knows then. *)
(* The bytes behind the key are those of some request while a worker that  *)
(* hashed its packet has not compared it yet, if perhaps not of its own.   *)
Answering == PreAct \cup {"sign", "answer"}
WorkerSender(snt, n, x) ==
    /\ x.pc \in Answering => Sender(snt, n, x.pkt)
    /\ x.pc \in {"resign", "copy", "publish"} \/ x.todo # {} => x.pkt.cmd = "P"
    /\ n \notin x.todo

WorkerOrigin(snt, behind, n, x) ==
    /\ WorkerSender(snt, n, x)
    /\ x.pc \in {"hash", "check"} => Origin(snt, n, x.pkt)
    /\ x.pc = "check" /\ SpareKey => behind # NoReq
    /\ x.pc = "act" /\ x.pkt.cmd \in {"P", "R"} =>
            snt[x.pkt.req].at # NoNode /\ snt[x.pkt.req].hash = x.pkt.req
    /\ x.pc = "act" /\ x.pkt.cmd = "P" => snt[x.pkt.req].at = n
    /\ x.todo # {} => snt[x.pkt.req].at = n /\ snt[x.pkt.req].hash = x.pkt.req
    /\ x.pc \in {"sign", "answer"} /\ x.pkt.cmd = "P" /\ x.res = "ok" =>
            x.todo = Peers(n) /\ snt[x.pkt.req].at = n

SentOrigin == \A r \in Req : sent[r].hash \in {r, NoReq}
NetOrigin == \A m \in net : Origin(sent, m.to, m.pkt)
ReadersOrigin == \A n \in Node : \A s \in Reader : Origin(sent, n, rd[n][s].pkt)
QueueOrigin == \A n \in Node : \A i \in 1 .. Len(queue[n]) : Origin(sent, n, queue[n][i])
WorkersOrigin == \A n \in Node : \A w \in Worker : WorkerOrigin(sent, spare[n], n, wk[n][w])
StoreOrigin ==
    \A n \in Node : \A r \in Req : store[n][r] > 0 => sent[r].at # NoNode /\ sent[r].hash = r

KeyInv ==
    SentOrigin /\ NetOrigin /\ ReadersOrigin /\ QueueOrigin /\ WorkersOrigin /\ StoreOrigin

(* What was sent stays, and so does a request's id behind the key.         *)
SentGrows == \A r \in Req : sent[r].at # NoNode => sent'[r] = sent[r]
SpareGrows == \A n \in Node : SpareKey /\ spare[n] # NoReq => spare'[n] # NoReq

LEMMA SenderKept ==
    ASSUME SentGrows, NEW n \in Node, NEW pkt \in Packet, Sender(sent, n, pkt)
    PROVE  Sender(sent', n, pkt)
<1>1. pkt.req \in Req
  BY DEF Packet
<1>2. CASE pkt.cmd \in {"R", "E"}
  <2>1. sent[pkt.req].at # NoNode
    BY <1>2 DEF Sender
  <2>2. sent'[pkt.req] = sent[pkt.req]
    BY <1>1, <2>1 DEF SentGrows
  <2> QED
    BY <2>2 DEF Sender
<1>3. CASE pkt.cmd \notin {"R", "E"}
  BY <1>3 DEF Sender
<1> QED
  BY <1>2, <1>3

LEMMA OriginKept ==
    ASSUME SentGrows, NEW n \in Node, NEW pkt \in Packet \cup {NoPacket}, Origin(sent, n, pkt)
    PROVE  Origin(sent', n, pkt)
<1>1. CASE pkt = NoPacket
  BY <1>1 DEF NoPacket, Origin, Sender
<1>2. CASE pkt \in Packet
  <2>1. Sender(sent', n, pkt)
    BY <1>2, SenderKept DEF Origin
  <2> QED
    BY <1>2, <2>1 DEF Packet, Origin, SentGrows
<1> QED
  BY <1>1, <1>2

LEMMA WorkerOriginKept ==
    ASSUME SentGrows, NEW n \in Node, NEW x, WorkerOK(x), NEW old, NEW behind,
           WorkerOrigin(sent, old, n, x), SpareKey /\ old # NoReq => behind # NoReq
    PROVE  WorkerOrigin(sent', behind, n, x)
<1>1. x.pc \in {"hash", "check"} => Origin(sent', n, x.pkt)
  BY OriginKept DEF WorkerOrigin, WorkerOK, WorkerState
<1>2. CASE x.pkt \in Packet
  <2>1. x.pkt.req \in Req
    BY <1>2 DEF Packet
  <2>2. sent[x.pkt.req].at # NoNode => sent'[x.pkt.req] = sent[x.pkt.req]
    BY <2>1 DEF SentGrows
  <2>3. x.pc = "check" /\ SpareKey => behind # NoReq
    BY DEF WorkerOrigin
  <2>4. /\ x.pc = "act" /\ x.pkt.cmd \in {"P", "R"} =>
              sent'[x.pkt.req].at # NoNode /\ sent'[x.pkt.req].hash = x.pkt.req
        /\ x.pc = "act" /\ x.pkt.cmd = "P" => sent'[x.pkt.req].at = n
    BY <2>2 DEF WorkerOrigin
  <2>5. x.todo # {} => sent'[x.pkt.req].at = n /\ sent'[x.pkt.req].hash = x.pkt.req
    BY <2>2 DEF WorkerOrigin
  <2>6. x.pc \in {"sign", "answer"} /\ x.pkt.cmd = "P" /\ x.res = "ok" =>
            x.todo = Peers(n) /\ sent'[x.pkt.req].at = n
    BY <2>2 DEF WorkerOrigin
  <2>7. WorkerSender(sent', n, x)
    <3>1. WorkerSender(sent, n, x)
      BY DEF WorkerOrigin
    <3> QED
      BY <1>2, <3>1, SenderKept DEF WorkerSender
  <2> QED
    BY <1>1, <2>3, <2>4, <2>5, <2>6, <2>7, Zenon DEF WorkerOrigin
<1>3. CASE x.pkt \notin Packet
  BY <1>1, <1>3 DEF WorkerOrigin, WorkerSender, Answering, WorkerOK, PreAct
<1> QED
  BY <1>2, <1>3

(* What every step that keeps a part of the state keeps of KeyInv.         *)
LEMMA Kept ==
    ASSUME TypeInv, KeyInv, SentGrows
    PROVE  /\ \A m \in net : Origin(sent', m.to, m.pkt)
           /\ \A n \in Node : \A s \in Reader : Origin(sent', n, rd[n][s].pkt)
           /\ \A n \in Node : \A i \in 1 .. Len(queue[n]) : Origin(sent', n, queue[n][i])
           /\ SpareGrows => \A n \in Node : \A w \in Worker : WorkerOrigin(sent', spare'[n], n, wk[n][w])
           /\ \A n \in Node : \A r \in Req :
                store[n][r] > 0 => sent'[r].at # NoNode /\ sent'[r].hash = r
<1>1. ASSUME NEW m \in net PROVE Origin(sent', m.to, m.pkt)
  <2>1. m.to \in Node /\ m.pkt \in Packet \cup {NoPacket}
    BY DEF TypeInv, TypeOK
  <2> QED
    BY <2>1, OriginKept DEF KeyInv, NetOrigin
<1>2. ASSUME NEW n \in Node, NEW s \in Reader PROVE Origin(sent', n, rd[n][s].pkt)
  <2>1. rd[n][s].pkt \in Packet \cup {NoPacket}
    BY DEF TypeInv, ReaderOK, ReaderState
  <2> QED
    BY <2>1, OriginKept DEF KeyInv, ReadersOrigin
<1>3. ASSUME NEW n \in Node, NEW i \in 1 .. Len(queue[n]) PROVE Origin(sent', n, queue[n][i])
  <2>1. queue[n][i] \in Packet \cup {NoPacket}
    BY DEF TypeInv, TypeOK
  <2> QED
    BY <2>1, OriginKept DEF KeyInv, QueueOrigin
<1>4. ASSUME SpareGrows, NEW n \in Node, NEW w \in Worker
      PROVE  WorkerOrigin(sent', spare'[n], n, wk[n][w])
  <2>1. WorkerOK(wk[n][w]) /\ WorkerOrigin(sent, spare[n], n, wk[n][w])
    BY DEF TypeInv, KeyInv, WorkersOrigin
  <2>2. SpareKey /\ spare[n] # NoReq => spare'[n] # NoReq
    BY <1>4 DEF SpareGrows
  <2> QED
    BY <2>1, <2>2, WorkerOriginKept
<1>5. ASSUME NEW n \in Node, NEW r \in Req, store[n][r] > 0
      PROVE  sent'[r].at # NoNode /\ sent'[r].hash = r
  BY <1>5 DEF KeyInv, StoreOrigin, SentGrows
<1> QED
  BY <1>1, <1>2, <1>3, <1>4, <1>5

(* A request is made.                                                      *)
LEMMA SendsOrigin ==
    ASSUME TypeInv, KeyInv, NEW r \in Req, NEW n \in Node, NEW cmd, NEW hash \in {r, NoReq},
           Sends(r, n, cmd, hash)
    PROVE  /\ SentGrows /\ SentOrigin'
           /\ sent'[r].at = n /\ sent'[r].hash = hash
           /\ \A q \in Req : q # r => sent'[q] = sent[q]
           /\ sent[r].at = NoNode
<1> DEFINE new == [at |-> n, cmd |-> cmd, hash |-> hash]
<1>1. sent' = [sent EXCEPT ![r] = new] /\ sent[r].at = NoNode
  BY DEF Sends
<1>2. new.hash \in {r, NoReq} /\ new.at = n /\ new.hash = hash
  OBVIOUS
<1> HIDE DEF new
<1>3. DOMAIN sent = Req
  BY DEF TypeInv, TypeOK
<1>4. sent'[r] = new /\ \A q \in Req : q # r => sent'[q] = sent[q]
  BY <1>1, <1>3
<1>5. SentOrigin'
  BY <1>2, <1>4 DEF SentOrigin, KeyInv
<1> QED
  BY <1>1, <1>2, <1>4, <1>5 DEF SentGrows

LEMMA ClientKey ==
    ASSUME TypeInv, KeyInv, NEW n \in Node, NEW r \in Req,
           \/ HttpPut(n, r)
           \/ \E cmd \in Cmd, hash \in {r, NoReq} :
                \/ SendUDP(r, n, cmd, hash)
                \/ \E c \in Conn : ReadTCP(n, c, r, cmd, hash)
    PROVE  KeyInv'
<1>1. CASE HttpPut(n, r)
  <2>1. SentGrows /\ SentOrigin' /\ sent'[r].at = n /\ sent'[r].hash = r
    <3>1. r \in {r, NoReq} /\ Sends(r, n, "http", r)
      BY <1>1 DEF HttpPut
    <3> QED
      BY <3>1, SendsOrigin
  <2>2. /\ UNCHANGED <<net, queue, rd, wk, spare>> /\ SpareGrows
        /\ store' = [store EXCEPT ![n][r] = store[n][r] + 1]
        /\ store \in [Node -> [Req -> Nat]]
    BY <1>1 DEF HttpPut, SpareGrows, TypeInv, TypeOK
  <2>3. sent'[r].at # NoNode /\ sent'[r].hash = r
    BY <2>1
  <2>4. ASSUME NEW m \in Node, NEW q \in Req, m # n \/ q # r PROVE store'[m][q] = store[m][q]
    BY <2>2, <2>4
  <2>5. StoreOrigin'
    BY <2>1, <2>3, <2>4, Kept DEF StoreOrigin
  <2> QED
    BY <2>1, <2>2, <2>5, Kept DEF KeyInv, NetOrigin, ReadersOrigin, QueueOrigin, WorkersOrigin
<1>2. ASSUME NEW cmd \in Cmd, NEW hash \in {r, NoReq}, Sends(r, n, cmd, hash), NEW via
      PROVE  Origin(sent', n, [req |-> r, cmd |-> cmd, hash |-> hash, from |-> NoNode, via |-> via])
  <2>1. sent'[r].at = n /\ sent'[r].hash = hash
    BY <1>2, SendsOrigin
  <2>2. cmd \notin {"R", "E"}
    OBVIOUS
  <2> QED
    BY <2>1, <2>2 DEF Origin, Sender
<1>3. ASSUME NEW cmd \in Cmd, NEW hash \in {r, NoReq}, SendUDP(r, n, cmd, hash) PROVE KeyInv'
  <2> DEFINE pkt == [req |-> r, cmd |-> cmd, hash |-> hash, from |-> NoNode, via |-> Udp]
  <2>1. /\ Sends(r, n, cmd, hash) /\ UNCHANGED <<queue, rd, wk, spare, store>> /\ SpareGrows
        /\ net' = net \cup {[to |-> n, pkt |-> pkt]}
    BY <1>3 DEF SendUDP, SpareGrows
  <2>2. Origin(sent', n, pkt) /\ SentGrows /\ SentOrigin'
    BY <1>2, <2>1, SendsOrigin
  <2> HIDE DEF pkt
  <2>3. NetOrigin'
    BY <2>1, <2>2, Kept DEF NetOrigin
  <2> QED
    BY <2>1, <2>2, <2>3, Kept DEF KeyInv, ReadersOrigin, QueueOrigin, WorkersOrigin, StoreOrigin
<1>4. ASSUME NEW cmd \in Cmd, NEW hash \in {r, NoReq}, NEW c \in Conn, ReadTCP(n, c, r, cmd, hash)
      PROVE  KeyInv'
  <2> DEFINE pkt == [req |-> r, cmd |-> cmd, hash |-> hash, from |-> NoNode, via |-> c]
             new == [pc |-> "send", pkt |-> pkt]
  <2>1. /\ Sends(r, n, cmd, hash) /\ UNCHANGED <<net, queue, wk, spare, store>> /\ SpareGrows
        /\ rd' = [rd EXCEPT ![n][c] = new]
    BY <1>4 DEF ReadTCP, SpareGrows
  <2>2. Origin(sent', n, pkt) /\ SentGrows /\ SentOrigin'
    BY <1>2, <2>1, SendsOrigin
  <2>3. pkt \in Packet /\ c \in Reader /\ new.pkt = pkt
    <3>1. cmd \in Commands /\ hash \in Id /\ NoNode \in Node \cup {NoNode} /\ c \in Reader
      BY DEF Id, Reader, Commands
    <3>2. pkt \in Packet
      BY <3>1, PacketTyped
    <3> QED
      BY <3>1, <3>2
  <2> HIDE DEF pkt
  <2>4. ReaderOK(new)
    BY <2>3, ReaderNew
  <2> HIDE DEF new
  <2>5. ReaderSet(n, c, new)
    BY <2>1, <2>3, <2>4, ReaderMoves
  <2>6. ReadersOrigin'
    BY <2>2, <2>3, <2>5, Kept DEF ReadersOrigin, ReaderSet
  <2> QED
    BY <2>1, <2>2, <2>6, Kept DEF KeyInv, NetOrigin, QueueOrigin, WorkersOrigin, StoreOrigin
<1> QED
  BY <1>1, <1>3, <1>4

(* Packets go from the network through a reader to the channel.            *)
LEMMA ReadKey ==
    ASSUME TypeInv, KeyInv, NEW n \in Node,
           \/ \E m \in net : ReadUDP(n, m)
           \/ ReadFails(n)
           \/ \E c \in Conn : Accept(n, c) \/ HangUp(n, c)
           \/ \E s \in Reader : Reads(n, s)
    PROVE  KeyInv'
<1>1. UNCHANGED <<sent, wk, spare, store>> /\ SentGrows /\ SpareGrows /\ SentOrigin'
  BY DEF ReadUDP, ReadFails, Accept, HangUp, Reads, Enqueue, EnqueuePanics, netVars,
         SentGrows, SpareGrows, SentOrigin, KeyInv
<1>2. WorkersOrigin' /\ StoreOrigin'
  BY <1>1, Kept DEF WorkersOrigin, StoreOrigin
<1>3. ASSUME NEW s \in Reader, NEW new, ReaderOK(new), Origin(sent', n, new.pkt),
             rd' = [rd EXCEPT ![n][s] = new]
      PROVE  ReadersOrigin'
  <2>1. ReaderSet(n, s, new)
    BY <1>3, ReaderMoves
  <2> QED
    BY <1>1, <1>3, <2>1, Kept DEF ReadersOrigin, ReaderSet
<1>4. Origin(sent', n, NoPacket)
  BY DEF Origin, Sender, NoPacket
<1>5. ASSUME NEW m \in net, ReadUDP(n, m) PROVE KeyInv'
  <2> DEFINE new == [pc |-> "send", pkt |-> m.pkt]
  <2>1. m.pkt \in Packet /\ Udp \in Reader /\ m.to = n
    BY <1>5 DEF TypeInv, TypeOK, Reader, ReadUDP
  <2>2. ReaderOK(new) /\ Origin(sent', n, new.pkt)
    BY <1>1, <2>1, ReaderNew, Kept
  <2>3. rd' = [rd EXCEPT ![n][Udp] = new]
    BY <1>5 DEF ReadUDP
  <2> HIDE DEF new
  <2>4. ReadersOrigin'
    BY <1>3, <2>1, <2>2, <2>3
  <2>5. NetOrigin' /\ QueueOrigin'
    BY <1>1, <1>5, Kept DEF ReadUDP, NetOrigin, QueueOrigin
  <2> QED
    BY <1>1, <1>2, <2>4, <2>5 DEF KeyInv
<1>6. ASSUME NEW s \in Reader, NEW pc \in {"read", "exit"}, rd[n][s].pc # "send",
             rd' = [rd EXCEPT ![n][s].pc = pc]
      PROVE  ReadersOrigin'
  <2> DEFINE new == [pc |-> pc, pkt |-> NoPacket]
  <2>1. rd[n][s] \in ReaderState /\ rd[n][s].pkt = NoPacket
    BY <1>6 DEF TypeInv, ReaderOK
  <2>2. [rd[n][s] EXCEPT !.pc = pc] = new
    BY <2>1 DEF ReaderState
  <2>3. rd' = [rd EXCEPT ![n][s] = new]
    BY <1>6, <2>2
  <2>4. ReaderOK(new) /\ Origin(sent', n, new.pkt)
    BY <1>4, ReaderNew
  <2> HIDE DEF new
  <2> QED
    BY <1>3, <2>3, <2>4
<1>7. CASE ReadFails(n) \/ \E c \in Conn : Accept(n, c) \/ HangUp(n, c)
  <2>1. ReadersOrigin'
    BY <1>6, <1>7 DEF ReadFails, Accept, HangUp, Reader
  <2>2. NetOrigin' /\ QueueOrigin'
    BY <1>1, <1>7, Kept DEF ReadFails, Accept, HangUp, netVars, NetOrigin, QueueOrigin
  <2> QED
    BY <1>1, <1>2, <2>1, <2>2 DEF KeyInv
<1>8. ASSUME NEW s \in Reader, Enqueue(n, s) PROVE KeyInv'
  <2> DEFINE new == AfterEnqueue(n, s)
             pkt == rd[n][s].pkt
  <2>1. ReaderOK(new) /\ new.pkt = NoPacket
    BY ReaderNew DEF AfterEnqueue
  <2>2. rd' = [rd EXCEPT ![n][s] = new] /\ queue' = [queue EXCEPT ![n] = Append(queue[n], pkt)]
    BY <1>8 DEF Enqueue
  <2>3. ReadersOrigin'
    BY <1>3, <1>4, <2>1, <2>2
  <2>4. queue \in [Node -> Seq(Packet)] /\ pkt \in Packet
    BY <1>8 DEF TypeInv, TypeOK, ReaderOK, Enqueue
  <2>5. Origin(sent', n, pkt) /\ \A i \in 1 .. Len(queue[n]) : Origin(sent', n, queue[n][i])
    BY <1>1, Kept
  <2> HIDE DEF pkt, new
  <2>6. \A i \in 1 .. Len(queue'[n]) : Origin(sent', n, queue'[n][i])
    <3>1. queue'[n] = Append(queue[n], pkt) /\ queue[n] \in Seq(Packet)
      BY <2>2, <2>4
    <3> QED
      BY <2>4, <2>5, <3>1
  <2>7. \A m \in Node : m # n => queue'[m] = queue[m]
    BY <2>2, <2>4
  <2>8. QueueOrigin'
    BY <1>1, <2>6, <2>7, Kept DEF QueueOrigin
  <2>9. NetOrigin'
    BY <1>1, <1>8, Kept DEF Enqueue, netVars, NetOrigin
  <2> QED
    BY <1>1, <1>2, <2>3, <2>8, <2>9 DEF KeyInv
<1>9. ASSUME NEW s \in Reader, EnqueuePanics(n, s) PROVE KeyInv'
  BY <1>1, <1>2, <1>9, Kept DEF EnqueuePanics, netVars, KeyInv, NetOrigin, QueueOrigin, ReadersOrigin
<1> QED
  BY <1>5, <1>7, <1>8, <1>9 DEF Reads

LEMMA NodeKey ==
    ASSUME TypeInv, KeyInv, NEW n \in Node,
           AcceptFails(n) \/ Close(n) \/ Clear(n) \/ UNCHANGED vars
    PROVE  KeyInv'
<1>1. UNCHANGED <<sent, net, queue, rd, wk, spare>> /\ SentGrows /\ SpareGrows /\ SentOrigin'
  BY DEF AcceptFails, Close, Clear, vars, netVars, SentGrows, SpareGrows, SentOrigin, KeyInv
<1>2. store \in [Node -> [Req -> Nat]]
  BY DEF TypeInv, TypeOK
<1>3. \A m \in Node : \A r \in Req : store'[m][r] > 0 => store[m][r] > 0
  BY <1>2 DEF AcceptFails, Close, Clear, vars
<1>4. StoreOrigin'
  BY <1>1, <1>3, Kept DEF StoreOrigin
<1> QED
  BY <1>1, <1>4, Kept DEF KeyInv, NetOrigin, ReadersOrigin, QueueOrigin, WorkersOrigin

(* A worker's step: its own part of KeyInv and what it adds elsewhere.     *)
LEMMA WorkKey ==
    ASSUME TypeInv, KeyInv, UNCHANGED <<sent, rd>>, SpareGrows,
           NEW n \in Node, NEW w \in Worker, NEW new, WorkerOK(new),
           wk' = [wk EXCEPT ![n][w] = new], WorkerOrigin(sent, spare'[n], n, new),
           NetOrigin', QueueOrigin', StoreOrigin'
    PROVE  KeyInv'
<1>1. WorkerSet(n, w, new)
  BY WorkerMoves
<1>2. SentGrows /\ SentOrigin'
  BY DEF SentGrows, SentOrigin, KeyInv
<1>3. WorkersOrigin' /\ ReadersOrigin'
  BY <1>1, <1>2, Kept DEF WorkerSet, WorkersOrigin, ReadersOrigin
<1> QED
  BY <1>2, <1>3 DEF KeyInv

(* What a worker's step that leaves them alone keeps elsewhere.            *)
LEMMA WorkFrame ==
    ASSUME TypeInv, KeyInv, UNCHANGED sent
    PROVE  /\ UNCHANGED net => NetOrigin'
           /\ UNCHANGED queue => QueueOrigin'
           /\ UNCHANGED store => StoreOrigin'
           /\ UNCHANGED spare => SpareGrows
BY DEF KeyInv, NetOrigin, QueueOrigin, StoreOrigin, SpareGrows

LEMMA TailShifts ==
    ASSUME NEW S, NEW q \in Seq(S), q # <<>>
    PROVE  \A i \in 1 .. Len(Tail(q)) : i + 1 \in 1 .. Len(q) /\ Tail(q)[i] = q[i + 1]
<1>1. Len(q) \in Nat /\ Len(q) # 0
  OBVIOUS
<1>2. Len(Tail(q)) = Len(q) - 1 /\ \A i \in 1 .. Len(Tail(q)) : Tail(q)[i] = q[i + 1]
  BY HeadTailProperties
<1> QED
  BY <1>1, <1>2

LEMMA IdleOrigin ==
    ASSUME NEW snt, NEW behind, NEW n PROVE WorkerOrigin(snt, behind, n, Idle)
BY DEF WorkerOrigin, WorkerSender, Answering, PreAct, Idle, NoPacket

(* What a worker that answers puts on the network.                         *)
Reply(n, pkt) ==
    [req |-> pkt.req, cmd |-> "E", hash |-> Hash(n, pkt.req), from |-> n, via |-> Udp]

LEMMA AnswerSends ==
    ASSUME NEW n \in Node, NEW w \in Worker, Answer(n, w) \/ AnswerFails(n, w),
           NEW m \in net', m \notin net
    PROVE  /\ m.to = wk[n][w].pkt.from /\ m.pkt = Reply(n, wk[n][w].pkt)
           /\ wk[n][w].pkt.from # NoNode
BY DEF Answer, AnswerFails, netVars, Reply

LEMMA WorkerKey ==
    ASSUME TypeInv, KeyInv, NEW n \in Node, NEW w \in Worker, Works(n, w)
    PROVE  KeyInv'
<1> DEFINE me == wk[n][w]
<1>0. WorkerOK(me) /\ WorkerOrigin(sent, spare[n], n, me) /\ WorkerSender(sent, n, me)
  BY DEF TypeInv, KeyInv, WorkersOrigin, WorkerOrigin
<1>1. CASE Receive(n, w)
  <2> DEFINE pkt == Head(queue[n])
             new == St(IF pkt.cmd = "bad" THEN "sign" ELSE "hash", pkt,
                       IF pkt.cmd = "bad" THEN "error" ELSE "none", {})
  <2>1. pkt \in Packet /\ WorkerOK(new) /\ wk' = [wk EXCEPT ![n][w] = new]
    BY <1>1, ReceiveStep
  <2>2. UNCHANGED <<sent, net, rd, spare, store>> /\ queue' = [queue EXCEPT ![n] = Tail(queue[n])]
        /\ queue[n] # <<>>
    BY <1>1 DEF Receive, netVars
  <2>3. queue \in [Node -> Seq(Packet)]
    BY DEF TypeInv, TypeOK
  <2>4. QueueOrigin
    BY DEF KeyInv
  <2>5. 1 \in 1 .. Len(queue[n]) /\ pkt = queue[n][1]
    BY <2>2, <2>3
  <2>6. Origin(sent, n, pkt)
    BY <2>4, <2>5 DEF QueueOrigin
  <2> HIDE DEF pkt
  <2>7. WorkerOrigin(sent, spare'[n], n, new)
    BY <2>6 DEF WorkerOrigin, WorkerSender, Origin, St
  <2>8. \A i \in 1 .. Len(queue'[n]) : i + 1 \in 1 .. Len(queue[n]) /\ queue'[n][i] = queue[n][i + 1]
    <3>1. queue[n] \in Seq(Packet) /\ queue'[n] = Tail(queue[n])
      BY <2>2, <2>3
    <3> QED
      BY <2>2, <3>1, TailShifts
  <2>9. \A m \in Node : m # n => queue'[m] = queue[m]
    BY <2>2, <2>3
  <2>10. QueueOrigin'
    BY <2>2, <2>4, <2>8, <2>9 DEF QueueOrigin
  <2> HIDE DEF new
  <2> QED
    BY <2>1, <2>2, <2>7, <2>10, WorkFrame, WorkKey
<1>2. CASE ValidateHash(n, w) \/ Sign(n, w) \/ Resign(n, w) \/ WorkerExits(n, w)
  <2> DEFINE pc == CASE me.pc = "hash" -> "check"
                     [] me.pc = "sign" -> "answer"
                     [] me.pc = "resign" -> "copy"
                     [] me.pc = "recv" -> "exit"
             new == St(pc, me.pkt, me.res, me.todo)
  <2>1. /\ me.pc \in {"hash", "sign", "resign", "recv"}
        /\ WorkerOK(new) /\ wk' = [wk EXCEPT ![n][w] = new]
    BY <1>2, PcStep
  <2>2. UNCHANGED <<sent, net, rd, queue, store>>
    BY <1>2 DEF ValidateHash, Sign, Resign, WorkerExits, netVars
  <2>3. SpareGrows /\ (me.pc = "hash" /\ SpareKey => spare'[n] # NoReq)
    <3>1. CASE WorkerExits(n, w)
      BY <3>1 DEF WorkerExits, SpareGrows
    <3>2. CASE ~WorkerExits(n, w)
      <4>1. me.pc \in {"hash", "sign", "resign"} /\ AppendId(n, me.pkt.req)
        BY <1>2, <3>2 DEF ValidateHash, Sign, Resign
      <4>2. me.pkt.req \in Req /\ spare \in [Node -> Id]
        BY <1>0, <4>1 DEF WorkerOK, Packet, TypeInv, TypeOK
      <4> QED
        BY <4>1, <4>2 DEF AppendId, SpareGrows
    <3> QED
      BY <3>1, <3>2
  <2>4. WorkerOrigin(sent, spare'[n], n, new)
    <3>0. WorkerSender(sent, n, new)
      BY <1>0, <2>1 DEF WorkerSender, Answering, St, PreAct
    <3>1. CASE me.pc = "hash"
      BY <1>0, <2>3, <3>0, <3>1 DEF WorkerOrigin, St, WorkerOK, PreAct
    <3>2. CASE me.pc \in {"sign", "resign", "recv"}
      BY <1>0, <3>0, <3>2 DEF WorkerOrigin, St
    <3> QED
      BY <2>1, <3>1, <3>2
  <2> HIDE DEF new
  <2> QED
    BY <2>1, <2>2, <2>3, <2>4, WorkFrame, WorkKey
<1>3. CASE ValidateCheck(n, w)
  <2> DEFINE ok == Accepts(n, me.pkt)
             new == St(IF ok THEN "act" ELSE "sign", me.pkt, IF ok THEN "none" ELSE "auth", {})
  <2>1. me.pc = "check" /\ WorkerOK(new) /\ wk' = [wk EXCEPT ![n][w] = new]
    BY <1>3, CheckStep
  <2>2. UNCHANGED <<sent, net, rd, queue, store, spare>>
    BY <1>3 DEF ValidateCheck
  <2>3. Origin(sent, n, me.pkt) /\ (SpareKey => spare[n] # NoReq) /\ me.pkt \in Packet
    BY <1>0, <2>1 DEF WorkerOrigin, WorkerOK
  <2>4. me.pkt.req \in Req /\ sent[me.pkt.req].hash \in {me.pkt.req, NoReq}
    BY <2>3 DEF Packet, KeyInv, SentOrigin
  <2>5. ok /\ me.pkt.cmd \in {"P", "R"} => sent[me.pkt.req].hash = me.pkt.req
    <3>1. Hash(n, me.pkt.req) # NoReq
      BY <2>3, <2>4 DEF Hash
    <3> QED
      BY <2>3, <2>4, <3>1 DEF Accepts, Origin
  <2> HIDE DEF ok
  <2>6. WorkerOrigin(sent, spare'[n], n, new)
    <3>0. WorkerSender(sent, n, new)
      BY <2>3 DEF WorkerSender, Origin, St
    <3>1. CASE ok
      BY <2>3, <2>5, <3>0, <3>1 DEF WorkerOrigin, St, Origin
    <3>2. CASE ~ok
      BY <3>0, <3>2 DEF WorkerOrigin, St
    <3> QED
      BY <3>1, <3>2
  <2> HIDE DEF new
  <2> QED
    BY <2>1, <2>2, <2>6, WorkFrame, WorkKey
<1>4. CASE Act(n, w)
  <2> DEFINE pkt == me.pkt
             new == IF pkt.cmd = "R" THEN Idle
                    ELSE St("sign", pkt, IF pkt.cmd = "E" THEN "error" ELSE "ok",
                            IF pkt.cmd = "P" THEN Peers(n) ELSE {})
  <2>1. me.pc = "act" /\ pkt \in Packet /\ WorkerOK(new) /\ wk' = [wk EXCEPT ![n][w] = new]
    BY <1>4, ActStep
  <2>2. UNCHANGED <<sent, net, rd, queue, spare>>
    BY <1>4 DEF Act, netVars
  <2>3. /\ pkt.cmd \in {"P", "R"} => sent[pkt.req].at # NoNode /\ sent[pkt.req].hash = pkt.req
        /\ pkt.cmd = "P" => sent[pkt.req].at = n
    BY <1>0, <2>1 DEF WorkerOrigin
  <2>4. StoreOrigin'
    <3>1. store \in [Node -> [Req -> Nat]] /\ StoreOrigin /\ pkt.req \in Req
      BY <2>1 DEF TypeInv, TypeOK, KeyInv, Packet
    <3>2. CASE pkt.cmd \in {"P", "R"}
      <4>1. store' = [store EXCEPT ![n][pkt.req] = store[n][pkt.req] + 1]
        BY <1>4, <3>2 DEF Act
      <4>2. \A m \in Node : \A r \in Req : m # n \/ r # pkt.req => store'[m][r] = store[m][r]
        BY <3>1, <4>1
      <4> QED
        BY <2>2, <2>3, <3>1, <3>2, <4>2 DEF StoreOrigin
    <3>3. CASE pkt.cmd \notin {"P", "R"}
      BY <1>4, <2>2, <3>1, <3>3 DEF Act, StoreOrigin
    <3> QED
      BY <3>2, <3>3
  <2> HIDE DEF pkt
  <2>5. WorkerOrigin(sent, spare'[n], n, new)
    <3>0. Sender(sent, n, pkt)
      BY <1>0, <2>1 DEF WorkerSender, Answering, PreAct, pkt
    <3>1. CASE pkt.cmd = "P"
      BY <2>3, <3>0, <3>1 DEF WorkerOrigin, WorkerSender, St, Peers
    <3>2. CASE pkt.cmd = "R"
      BY <3>2, IdleOrigin
    <3>3. CASE pkt.cmd \notin {"P", "R"}
      BY <3>0, <3>3 DEF WorkerOrigin, WorkerSender, St
    <3> QED
      BY <3>1, <3>2, <3>3
  <2> HIDE DEF new
  <2> QED
    BY <2>1, <2>2, <2>4, <2>5, WorkFrame, WorkKey
<1>5. CASE Answer(n, w) \/ AnswerFails(n, w)
  <2> DEFINE new == IF me.todo = {} THEN Idle ELSE St("resign", me.pkt, me.res, me.todo)
  <2>1. me.pc = "answer" /\ WorkerOK(new) /\ wk' = [wk EXCEPT ![n][w] = new]
    BY <1>5, AnswerStep
  <2>2. UNCHANGED <<sent, rd, queue, store, spare>>
    BY <1>5 DEF Answer, AnswerFails, netVars
  <2>3. WorkerOrigin(sent, spare'[n], n, new)
    <3>1. CASE me.todo = {}
      BY <3>1, IdleOrigin
    <3>2. CASE me.todo # {}
      <4>1. WorkerSender(sent, n, new)
        BY <1>0, <3>2 DEF WorkerSender, Answering, PreAct, St
      <4> QED
        BY <1>0, <3>2, <4>1 DEF WorkerOrigin, St
    <3> QED
      BY <3>1, <3>2
  <2>4. ASSUME NEW m \in net', m \notin net PROVE Origin(sent, m.to, m.pkt)
    <3>1. m.to = me.pkt.from /\ m.pkt = Reply(n, me.pkt) /\ me.pkt.from # NoNode
      BY <1>5, <2>4, AnswerSends
    <3>2. Sender(sent, n, me.pkt)
      BY <1>0, <2>1 DEF WorkerSender, Answering
    <3>3. Origin(sent, me.pkt.from, Reply(n, me.pkt))
      BY <3>1, <3>2 DEF Origin, Sender, Reply
    <3> QED
      BY <3>1, <3>3
  <2>5. NetOrigin'
    BY <2>2, <2>4 DEF KeyInv, NetOrigin
  <2> HIDE DEF new
  <2> QED
    BY <2>1, <2>2, <2>3, <2>5, WorkFrame, WorkKey
<1>6. CASE ResignCopy(n, w)
  <2> DEFINE pkt == [me.pkt EXCEPT !.hash = Hash(n, me.pkt.req)]
             new == St("publish", pkt, me.res, me.todo)
  <2>1. /\ me.pc = "copy" /\ pkt.req = me.pkt.req /\ pkt.cmd = me.pkt.cmd
        /\ WorkerOK(new) /\ wk' = [wk EXCEPT ![n][w] = new]
    BY <1>6, CopyStep
  <2> HIDE DEF pkt
  <2>2. UNCHANGED <<sent, net, rd, queue, store, spare>>
    BY <1>6 DEF ResignCopy, netVars
  <2>3. WorkerOrigin(sent, spare'[n], n, new)
    <3>1. WorkerSender(sent, n, new)
      BY <1>0, <2>1 DEF WorkerSender, Answering, PreAct, St
    <3> QED
      BY <1>0, <2>1, <3>1 DEF WorkerOrigin, St
  <2> HIDE DEF new
  <2> QED
    BY <2>1, <2>2, <2>3, WorkFrame, WorkKey
<1>7. ASSUME NEW p \in Node, Publish(n, w, p) PROVE KeyInv'
  <2> DEFINE new == IF me.todo = {p} THEN Idle ELSE St("publish", me.pkt, me.res, me.todo \ {p})
             rep == Replica(n, me.pkt)
  <2>1. me.pc = "publish" /\ p \in me.todo /\ me.pkt \in Packet /\ WorkerOK(new) /\ Move(n, w, new)
    BY <1>7, PublishStep
  <2>2. UNCHANGED <<sent, rd, queue, store, spare>> /\ net' = net \cup {[to |-> p, pkt |-> rep]}
    BY <1>7 DEF Publish
  <2>3. sent[me.pkt.req].at = n /\ sent[me.pkt.req].hash = me.pkt.req
    BY <1>0, <2>1 DEF WorkerOrigin
  <2>4. WorkerOrigin(sent, spare'[n], n, new)
    <3>1. CASE me.todo = {p}
      BY <3>1, IdleOrigin
    <3>2. CASE me.todo # {p}
      <4>1. WorkerSender(sent, n, new)
        BY <1>0, <2>1, <3>2 DEF WorkerSender, Answering, PreAct, St
      <4> QED
        BY <2>3, <3>2, <4>1 DEF WorkerOrigin, St
    <3> QED
      BY <3>1, <3>2
  <2>5. Origin(sent, p, rep)
    <3>1. p # n
      BY <1>0, <2>1 DEF WorkerSender
    <3> QED
      BY <2>3, <3>1 DEF Origin, Sender, Replica
  <2> HIDE DEF rep
  <2>6. NetOrigin'
    BY <2>2, <2>5 DEF KeyInv, NetOrigin
  <2> HIDE DEF new
  <2> QED
    BY <2>1, <2>2, <2>4, <2>6, WorkFrame, WorkKey DEF Move
<1>8. CASE PublishFails(n, w)
  <2>1. wk' = [wk EXCEPT ![n][w] = Idle] /\ WorkerOK(Idle)
    BY <1>8, PublishFailsStep, Distinct
  <2>2. UNCHANGED <<sent, net, rd, queue, store, spare>>
    BY <1>8 DEF PublishFails
  <2>3. WorkerOrigin(sent, spare'[n], n, Idle)
    BY IdleOrigin
  <2> QED
    BY <2>1, <2>2, <2>3, WorkFrame, WorkKey
<1> QED
  BY <1>1, <1>2, <1>3, <1>4, <1>5, <1>6, <1>7, <1>8 DEF Works

LEMMA InitKey == Init => KeyInv
<1> SUFFICES ASSUME Init PROVE KeyInv
  OBVIOUS
<1>1. SentOrigin /\ NetOrigin /\ QueueOrigin /\ StoreOrigin
  BY DEF Init, SentOrigin, NetOrigin, QueueOrigin, StoreOrigin
<1>2. ReadersOrigin
  BY DEF Init, ReadersOrigin, Origin, Sender, NoPacket
<1>3. WorkersOrigin
  BY IdleOrigin DEF Init, WorkersOrigin
<1> QED
  BY <1>1, <1>2, <1>3 DEF KeyInv

LEMMA StepKey == TypeInv /\ KeyInv /\ [Next]_vars => KeyInv'
<1> SUFFICES ASSUME TypeInv, KeyInv, [Next]_vars PROVE KeyInv'
  OBVIOUS
<1>1. CASE UNCHANGED vars
  BY <1>1 DEF vars, KeyInv, SentOrigin, NetOrigin, ReadersOrigin, QueueOrigin, WorkersOrigin, StoreOrigin
<1>2. ASSUME NEW n \in Node \ crashed, Step(n) PROVE KeyInv'
  BY <1>2, ClientKey, ReadKey, NodeKey, WorkerKey DEF Step
<1> QED
  BY <1>1, <1>2 DEF Next, Step

LEMMA Keyed == Spec => [](TypeInv /\ KeyInv)
<1>1. TypeInv /\ KeyInv /\ [Next]_vars => (TypeInv /\ KeyInv)'
  BY StepTyping, StepKey
<1> QED
  BY <1>1, InitTyping, InitKey, PTL DEF Spec

(* A Put with a hash that the servers' key does not give it is applied by  *)
(* no server, for any number of servers and workers and although Validate  *)
(* (protocol.go:241) compares with bytes that other workers overwrite:     *)
(* those bytes are the id of some request, and such a hash matches none.   *)
(* Of the key itself nothing is said: two keys with the same first 8 bytes *)
(* make the same hash.                                                     *)
THEOREM WrongHash == Spec => []WrongHashNeverStored
<1>1. KeyInv => WrongHashNeverStored
  BY DEF KeyInv, StoreOrigin, WrongHashNeverStored
<1> QED
  BY <1>1, Keyed, PTL

-----------------------------------------------------------------------------
(* Part 2: no server applies a Put twice, and error packets between two    *)
(* servers do not become more.                                             *)
(*                                                                         *)
(* A packet at server n can make p apply the Put of r, which was sent to   *)
(* server o: a client's Put can, at n and by the replicas it leads to, a   *)
(* replica only where it is.  An error packet between o and p is what is   *)
(* left of a replica that p refused.                                       *)
Carries(o, n, pkt, r, p) ==
    /\ pkt.req = r
    /\ \/ pkt.cmd = "P"
       \/ pkt.cmd = "R" /\ n = p
       \/ pkt.cmd = "E" /\ p # o /\ p \in {n, pkt.from}

(* A worker that refuses a replica, or handles an error packet, is about   *)
(* to answer with an error packet.                                         *)
Passes(x) == x.pc \in PreAct \/ (x.pc \in {"sign", "answer"} /\ x.pkt.cmd \in {"R", "E"})

WorkerCarries(o, n, x, r, p) ==
    \/ Passes(x) /\ Carries(o, n, x.pkt, r, p)
    \/ x.pkt.req = r /\ p \in x.todo

(* The places where such a packet can be: on the network, in a reader, in  *)
(* a channel and in a worker.                                              *)
InNet(o, nt, y, r, p) ==
    \E m \in nt : y = <<"net", m.to, m.pkt>> /\ Carries(o, m.to, m.pkt, r, p)
InReader(o, rds, y, r, p) ==
    \E n \in Node : \E s \in Reader : y = <<"rd", n, s>> /\ Carries(o, n, rds[n][s].pkt, r, p)
InQueue(o, qs, y, r, p) ==
    \E n \in Node : \E i \in 1 .. Len(qs[n]) :
        y = <<"queue", n, i>> /\ Carries(o, n, qs[n][i], r, p)
InWorker(o, ws, y, r, p) ==
    \E n \in Node : \E w \in Worker : y = <<"wk", n, w>> /\ WorkerCarries(o, n, ws[n][w], r, p)

Holds(o, y, r, p) ==
    \/ InNet(o, net, y, r, p) \/ InReader(o, rd, y, r, p)
    \/ InQueue(o, queue, y, r, p) \/ InWorker(o, wk, y, r, p)

(* For each request and server there is one such place at most, and none   *)
(* once the server applied the Put.                                        *)
PutAt(o, r, p) ==
    /\ \A y, z : Holds(o, y, r, p) /\ Holds(o, z, r, p) => y = z
    /\ \A y : Holds(o, y, r, p) => store[p][r] = 0
    /\ store[p][r] \in {0, 1}
PutInv == \A o : \A r \in Req : \A p \in Node : sent[r].at = o => PutAt(o, r, p)

LEMMA HoldsSent ==
    ASSUME TypeInv, KeyInv, NEW r \in Req, NEW p \in Node, NEW o, NEW y, Holds(o, y, r, p)
    PROVE  sent[r].at # NoNode
<1>1. ASSUME NEW n \in Node, NEW pkt, Carries(o, n, pkt, r, p), Sender(sent, n, pkt),
             pkt.cmd = "P" => sent[pkt.req].at # NoNode
      PROVE  sent[r].at # NoNode
  BY <1>1 DEF Carries, Sender
<1>2. CASE InNet(o, net, y, r, p)
  BY <1>1, <1>2 DEF InNet, KeyInv, NetOrigin, Origin, TypeInv, TypeOK
<1>3. CASE InReader(o, rd, y, r, p)
  BY <1>1, <1>3 DEF InReader, KeyInv, ReadersOrigin, Origin
<1>4. CASE InQueue(o, queue, y, r, p)
  BY <1>1, <1>4 DEF InQueue, KeyInv, QueueOrigin, Origin
<1>5. CASE InWorker(o, wk, y, r, p)
  <2>1. PICK n \in Node, w \in Worker : WorkerCarries(o, n, wk[n][w], r, p)
    BY <1>5 DEF InWorker
  <2>2. PICK x : x = wk[n][w]
    OBVIOUS
  <2>3. WorkerOrigin(sent, spare[n], n, x) /\ WorkerSender(sent, n, x)
    BY <2>2 DEF KeyInv, WorkersOrigin, WorkerOrigin
  <2>4. CASE x.pkt.req = r /\ p \in x.todo
    BY <2>3, <2>4 DEF WorkerOrigin
  <2>5. CASE Passes(x) /\ Carries(o, n, x.pkt, r, p)
    <3>1. Sender(sent, n, x.pkt)
      BY <2>3, <2>5 DEF WorkerSender, Passes, Answering
    <3>2. x.pkt.cmd = "P" => sent[x.pkt.req].at # NoNode
      BY <2>3, <2>5 DEF WorkerOrigin, Origin, Passes, PreAct
    <3> QED
      BY <1>1, <2>5, <3>1, <3>2
  <2> QED
    BY <2>1, <2>2, <2>4, <2>5 DEF WorkerCarries
<1> QED
  BY <1>2, <1>3, <1>4, <1>5 DEF Holds

(* What a step of one reader or worker changes.                            *)
LEMMA ReaderHolds ==
    ASSUME NEW n \in Node, NEW s \in Reader, NEW new, ReaderSet(n, s, new),
           NEW o, NEW r, NEW p, NEW y, InReader(o, rd', y, r, p)
    PROVE  \/ InReader(o, rd, y, r, p) /\ y # <<"rd", n, s>>
           \/ y = <<"rd", n, s>> /\ Carries(o, n, new.pkt, r, p)
BY DEF InReader, ReaderSet

LEMMA WorkerHolds ==
    ASSUME NEW n \in Node, NEW w \in Worker, NEW new, WorkerSet(n, w, new),
           NEW o, NEW r, NEW p, NEW y, InWorker(o, wk', y, r, p)
    PROVE  \/ InWorker(o, wk, y, r, p) /\ y # <<"wk", n, w>>
           \/ y = <<"wk", n, w>> /\ WorkerCarries(o, n, new, r, p)
BY DEF InWorker, WorkerSet

(* A step that moves a packet, or drops it, and applies no Put.            *)
Keeps(o, r, p) ==
    \/ \A y : Holds(o, y, r, p)' => Holds(o, y, r, p)
    \/ \E a, b : \A y : Holds(o, y, r, p)' =>
                          (Holds(o, y, r, p) /\ y # a) \/ (y = b /\ Holds(o, a, r, p))

KeepsAll == \A o : \A r \in Req : \A p \in Node : sent[r].at = o => Keeps(o, r, p)

LEMMA KeepsPut == ASSUME PutInv, UNCHANGED <<sent, store>>, KeepsAll PROVE PutInv'
<1> SUFFICES ASSUME NEW o, NEW r \in Req, NEW p \in Node, sent[r].at = o
             PROVE  /\ \A y, z : Holds(o, y, r, p)' /\ Holds(o, z, r, p)' => y = z
                    /\ \A y : Holds(o, y, r, p)' => store'[p][r] = 0
                    /\ store'[p][r] \in {0, 1}
  BY DEF PutInv, PutAt
<1>1. /\ \A y, z : Holds(o, y, r, p) /\ Holds(o, z, r, p) => y = z
      /\ \A y : Holds(o, y, r, p) => store[p][r] = 0
      /\ store[p][r] \in {0, 1}
  BY DEF PutInv, PutAt
<1>2. CASE \A y : Holds(o, y, r, p)' => Holds(o, y, r, p)
  BY <1>1, <1>2
<1>3. CASE \E a, b : \A y : Holds(o, y, r, p)' => \/ Holds(o, y, r, p) /\ y # a
                                                  \/ y = b /\ Holds(o, a, r, p)
  BY <1>1, <1>3
<1> QED
  BY <1>2, <1>3 DEF KeepsAll, Keeps

(* A request is made: until then there was no packet of it anywhere.       *)
LEMMA FreshPut ==
    ASSUME TypeInv, KeyInv, PutInv, NEW q \in Req, sent[q].at = NoNode, UNCHANGED store, NEW b,
           \A r \in Req : r # q => sent'[r] = sent[r],
           \A o : \A r \in Req : \A p \in Node : \A y :
               Holds(o, y, r, p)' => Holds(o, y, r, p) \/ (r = q /\ y = b)
    PROVE  PutInv'
<1> SUFFICES ASSUME NEW o, NEW r \in Req, NEW p \in Node, sent'[r].at = o
             PROVE  /\ \A y, z : Holds(o, y, r, p)' /\ Holds(o, z, r, p)' => y = z
                    /\ \A y : Holds(o, y, r, p)' => store'[p][r] = 0
                    /\ store'[p][r] \in {0, 1}
  BY DEF PutInv, PutAt
<1>1. CASE r # q
  <2>1. sent[r].at = o
    BY <1>1
  <2>2. /\ \A y, z : Holds(o, y, r, p) /\ Holds(o, z, r, p) => y = z
        /\ \A y : Holds(o, y, r, p) => store[p][r] = 0
        /\ store[p][r] \in {0, 1}
    BY <2>1 DEF PutInv, PutAt
  <2> QED
    BY <1>1, <2>2
<1>2. CASE r = q
  <2>1. \A y : ~Holds(o, y, r, p)
    BY <1>2, HoldsSent
  <2>2. store[p][r] = 0
    BY <1>2 DEF PutInv, PutAt, KeyInv, StoreOrigin
  <2> QED
    BY <1>2, <2>1, <2>2
<1> QED
  BY <1>1, <1>2

LEMMA ClientPut ==
    ASSUME TypeInv, KeyInv, PutInv, NEW n \in Node, NEW q \in Req,
           \/ HttpPut(n, q)
           \/ \E cmd \in Cmd, hash \in {q, NoReq} :
                \/ SendUDP(q, n, cmd, hash)
                \/ \E c \in Conn : ReadTCP(n, c, q, cmd, hash)
    PROVE  PutInv'
<1>0. ASSUME NEW cmd, NEW hash, Sends(q, n, cmd, hash)
      PROVE  sent[q].at = NoNode /\ \A r \in Req : r # q => sent'[r] = sent[r]
  BY <1>0 DEF Sends, TypeInv, TypeOK
<1>1. CASE HttpPut(n, q)
  <2>1. /\ sent[q].at = NoNode /\ UNCHANGED <<net, rd, queue, wk>>
        /\ store' = [store EXCEPT ![n][q] = store[n][q] + 1]
        /\ store \in [Node -> [Req -> Nat]]
        /\ \A r \in Req : r # q => sent'[r] = sent[r]
    BY <1>0, <1>1 DEF HttpPut, Sends, TypeInv, TypeOK
  <2>2. ASSUME NEW o, NEW r \in Req, NEW p \in Node, NEW y PROVE Holds(o, y, r, p)' <=> Holds(o, y, r, p)
    BY <2>1 DEF Holds
  <2>3. ASSUME NEW o, NEW r \in Req, NEW p \in Node, p # n \/ r # q PROVE store'[p][r] = store[p][r]
    BY <2>1, <2>3
  <2>4. \A o : \A p \in Node : \A y : ~Holds(o, y, q, p)
    BY <2>1, HoldsSent
  <2>5. store'[n][q] = 1
    <3>1. store[n][q] = 0
      BY <2>1 DEF KeyInv, StoreOrigin
    <3> QED
      BY <2>1, <3>1
  <2>6. ASSUME NEW o, NEW r \in Req, NEW p \in Node, sent'[r].at = o
        PROVE  /\ \A y, z : Holds(o, y, r, p)' /\ Holds(o, z, r, p)' => y = z
               /\ \A y : Holds(o, y, r, p)' => store'[p][r] = 0
               /\ store'[p][r] \in {0, 1}
    <3>1. CASE r = q
      <4>1. store[p][q] = 0
        BY <2>1 DEF KeyInv, StoreOrigin
      <4> QED
        BY <2>2, <2>3, <2>4, <2>5, <3>1, <4>1
    <3>2. CASE r # q
      <4>1. sent[r].at = o
        BY <2>1, <2>6, <3>2
      <4>2. /\ \A y, z : Holds(o, y, r, p) /\ Holds(o, z, r, p) => y = z
            /\ \A y : Holds(o, y, r, p) => store[p][r] = 0
            /\ store[p][r] \in {0, 1}
        BY <4>1 DEF PutInv, PutAt
      <4> QED
        BY <2>2, <2>3, <3>2, <4>2
    <3> QED
      BY <3>1, <3>2
  <2> QED
    BY <2>6 DEF PutInv, PutAt
<1>2. ASSUME NEW cmd \in Cmd, NEW hash \in {q, NoReq}, SendUDP(q, n, cmd, hash) PROVE PutInv'
  <2> DEFINE pkt == [req |-> q, cmd |-> cmd, hash |-> hash, from |-> NoNode, via |-> Udp]
             b == <<"net", n, pkt>>
  <2>1. /\ sent[q].at = NoNode /\ UNCHANGED <<rd, queue, wk, store>>
        /\ \A r \in Req : r # q => sent'[r] = sent[r]
        /\ net' = net \cup {[to |-> n, pkt |-> pkt]}
    BY <1>0, <1>2 DEF SendUDP
  <2>2. pkt.req = q
    OBVIOUS
  <2> HIDE DEF pkt
  <2>3. ASSUME NEW o, NEW r \in Req, NEW p \in Node, NEW y, Holds(o, y, r, p)'
        PROVE  Holds(o, y, r, p) \/ (r = q /\ y = b)
    BY <2>1, <2>2, <2>3 DEF Holds, InNet, Carries
  <2> HIDE DEF b
  <2> QED
    BY <2>1, <2>3, FreshPut
<1>3. ASSUME NEW cmd \in Cmd, NEW hash \in {q, NoReq}, NEW c \in Conn, ReadTCP(n, c, q, cmd, hash)
      PROVE  PutInv'
  <2> DEFINE pkt == [req |-> q, cmd |-> cmd, hash |-> hash, from |-> NoNode, via |-> c]
             new == [pc |-> "send", pkt |-> pkt]
             b == <<"rd", n, c>>
  <2>1. /\ sent[q].at = NoNode /\ UNCHANGED <<net, queue, wk, store>>
        /\ \A r \in Req : r # q => sent'[r] = sent[r]
        /\ rd' = [rd EXCEPT ![n][c] = new]
    BY <1>0, <1>3 DEF ReadTCP
  <2>2. cmd \in Commands /\ hash \in Id /\ NoNode \in Node \cup {NoNode} /\ c \in Reader
    BY DEF Id, Reader, Commands
  <2>3. pkt \in Packet /\ pkt.req = q /\ new.pkt = pkt
    BY <2>2, PacketTyped
  <2> HIDE DEF pkt
  <2>4. ReaderOK(new)
    BY <2>3, ReaderNew
  <2> HIDE DEF new
  <2>5. ReaderSet(n, c, new)
    BY <2>1, <2>2, <2>4, ReaderMoves
  <2>6. ASSUME NEW o, NEW r \in Req, NEW p \in Node, NEW y, Holds(o, y, r, p)'
        PROVE  Holds(o, y, r, p) \/ (r = q /\ y = b)
    <3>1. CASE InReader(o, rd', y, r, p)
      BY <2>2, <2>3, <2>5, <3>1, ReaderHolds DEF Holds, Carries
    <3>2. CASE ~InReader(o, rd', y, r, p)
      BY <2>1, <2>6, <3>2 DEF Holds
    <3> QED
      BY <3>1, <3>2
  <2> HIDE DEF b
  <2> QED
    BY <2>1, <2>6, FreshPut
<1> QED
  BY <1>1, <1>2, <1>3

(* Packets go from the network through a reader to the channel.            *)
LEMMA ReadPut ==
    ASSUME TypeInv, PutInv, NEW n \in Node,
           \/ \E m \in net : ReadUDP(n, m)
           \/ ReadFails(n)
           \/ \E c \in Conn : Accept(n, c) \/ HangUp(n, c)
           \/ \E s \in Reader : Reads(n, s)
    PROVE  PutInv'
<1>1. UNCHANGED <<sent, wk, store>>
  BY DEF ReadUDP, ReadFails, Accept, HangUp, Reads, Enqueue, EnqueuePanics, netVars
<1>2. ASSUME NEW m \in net, ReadUDP(n, m) PROVE PutInv'
  <2> DEFINE new == [pc |-> "send", pkt |-> m.pkt]
             a == <<"net", n, m.pkt>>
             b == <<"rd", n, Udp>>
  <2>1. m.pkt \in Packet /\ Udp \in Reader /\ m.to = n /\ m = [to |-> n, pkt |-> m.pkt]
    BY <1>2 DEF TypeInv, TypeOK, Reader, ReadUDP
  <2>2. /\ ReaderOK(new) /\ new.pkt = m.pkt /\ rd' = [rd EXCEPT ![n][Udp] = new]
        /\ net' = net \ {m} /\ UNCHANGED queue
    BY <1>2, <2>1, ReaderNew DEF ReadUDP
  <2> HIDE DEF new
  <2>3. ReaderSet(n, Udp, new)
    BY <2>1, <2>2, ReaderMoves
  <2>4. ASSUME NEW o, NEW r \in Req, NEW p \in Node, NEW y, Holds(o, y, r, p)'
        PROVE  (Holds(o, y, r, p) /\ y # a) \/ (y = b /\ Holds(o, a, r, p))
    <3>1. CASE InReader(o, rd', y, r, p)
      <4>1. CASE InReader(o, rd, y, r, p)
        BY <4>1 DEF Holds, InReader
      <4>2. CASE y = b /\ Carries(o, n, m.pkt, r, p)
        BY <2>1, <4>2 DEF Holds, InNet
      <4>3. InReader(o, rd, y, r, p) \/ (y = b /\ Carries(o, n, new.pkt, r, p))
        BY <2>1, <2>3, <3>1, ReaderHolds
      <4> QED
        BY <2>2, <4>1, <4>2, <4>3
    <3>2. CASE InNet(o, net', y, r, p)
      <4>1. PICK k \in net' : y = <<"net", k.to, k.pkt>> /\ Carries(o, k.to, k.pkt, r, p)
        BY <3>2 DEF InNet
      <4>2. k \in net /\ k # m /\ k = [to |-> k.to, pkt |-> k.pkt]
        BY <2>2 DEF TypeInv, TypeOK
      <4>3. y # a
        BY <2>1, <4>1, <4>2
      <4> QED
        BY <4>1, <4>2, <4>3 DEF Holds, InNet
    <3>3. CASE InQueue(o, queue', y, r, p) \/ InWorker(o, wk', y, r, p)
      BY <1>1, <2>2, <3>3 DEF Holds, InQueue, InWorker
    <3> QED
      BY <2>4, <3>1, <3>2, <3>3 DEF Holds
  <2> HIDE DEF a, b
  <2> QED
    BY <1>1, <2>4, KeepsPut DEF KeepsAll, Keeps
<1>3. ASSUME NEW s \in Reader, NEW new, ReaderOK(new), new.pkt = NoPacket,
             rd' = [rd EXCEPT ![n][s] = new]
      PROVE  \A o : \A r \in Req : \A p \in Node : \A y :
                InReader(o, rd', y, r, p) => InReader(o, rd, y, r, p) /\ y # <<"rd", n, s>>
  <2>1. ReaderSet(n, s, new)
    BY <1>3, ReaderMoves
  <2>2. ASSUME NEW o, NEW r \in Req, NEW p \in Node PROVE ~Carries(o, n, new.pkt, r, p)
    BY <1>3 DEF Carries, NoPacket
  <2> QED
    BY <2>1, <2>2, ReaderHolds
<1>4. ASSUME NEW s \in Reader, NEW pc \in {"read", "exit"}, rd[n][s].pc # "send",
             rd' = [rd EXCEPT ![n][s].pc = pc], UNCHANGED <<net, queue>>
      PROVE  PutInv'
  <2> DEFINE new == [pc |-> pc, pkt |-> NoPacket]
  <2>1. rd[n][s] \in ReaderState /\ rd[n][s].pkt = NoPacket
    BY <1>4 DEF TypeInv, ReaderOK
  <2>2. [rd[n][s] EXCEPT !.pc = pc] = new
    BY <2>1 DEF ReaderState
  <2>3. rd' = [rd EXCEPT ![n][s] = new]
    BY <1>4, <2>2
  <2>4. ReaderOK(new) /\ new.pkt = NoPacket
    BY ReaderNew
  <2> HIDE DEF new
  <2>5. ASSUME NEW o, NEW r \in Req, NEW p \in Node, NEW y, Holds(o, y, r, p)' PROVE Holds(o, y, r, p)
    BY <1>1, <1>3, <1>4, <2>3, <2>4, <2>5 DEF Holds
  <2> QED
    BY <1>1, <2>5, KeepsPut DEF KeepsAll, Keeps
<1>5. CASE ReadFails(n) \/ \E c \in Conn : Accept(n, c) \/ HangUp(n, c)
  BY <1>4, <1>5 DEF ReadFails, Accept, HangUp, Reader, netVars
<1>6. ASSUME NEW s \in Reader, Enqueue(n, s) PROVE PutInv'
  <2> DEFINE new == AfterEnqueue(n, s)
             pkt == rd[n][s].pkt
             a == <<"rd", n, s>>
             b == <<"queue", n, Len(queue[n]) + 1>>
  <2>1. ReaderOK(new) /\ new.pkt = NoPacket
    BY ReaderNew DEF AfterEnqueue
  <2>2. /\ rd' = [rd EXCEPT ![n][s] = new] /\ queue' = [queue EXCEPT ![n] = Append(queue[n], pkt)]
        /\ UNCHANGED net
    BY <1>6 DEF Enqueue, netVars
  <2>3. queue \in [Node -> Seq(Packet)] /\ pkt \in Packet
    BY <1>6 DEF TypeInv, TypeOK, ReaderOK, Enqueue
  <2> HIDE DEF new
  <2>4. ASSUME NEW o, NEW r \in Req, NEW p \in Node, NEW y, Holds(o, y, r, p)'
        PROVE  (Holds(o, y, r, p) /\ y # a) \/ (y = b /\ Holds(o, a, r, p))
    <3>1. CASE InReader(o, rd', y, r, p)
      BY <1>3, <2>1, <2>2, <3>1 DEF Holds
    <3>2. CASE InQueue(o, queue', y, r, p)
      <4>0. PICK m \in Node : \E i \in 1 .. Len(queue'[m]) :
                y = <<"queue", m, i>> /\ Carries(o, m, queue'[m][i], r, p)
        BY <3>2 DEF InQueue
      <4>1. PICK i \in 1 .. Len(queue'[m]) :
                y = <<"queue", m, i>> /\ Carries(o, m, queue'[m][i], r, p)
        BY <4>0
      <4>2. CASE m # n
        <5>1. queue'[m] = queue[m]
          BY <2>2, <2>3, <4>2
        <5> QED
          BY <4>1, <5>1 DEF Holds, InQueue
      <4>3. CASE m = n
        <5>1. queue'[n] = Append(queue[n], pkt) /\ queue[n] \in Seq(Packet)
          BY <2>2, <2>3
        <5>2. CASE i \in 1 .. Len(queue[n])
          <6>1. queue'[n][i] = queue[n][i]
            BY <2>3, <5>1, <5>2
          <6> QED
            BY <4>1, <4>3, <5>2, <6>1 DEF Holds, InQueue
        <5>3. CASE i \notin 1 .. Len(queue[n])
          <6>1. i = Len(queue[n]) + 1 /\ queue'[n][i] = pkt
            BY <2>3, <4>3, <5>1, <5>3
          <6> QED
            BY <4>1, <4>3, <6>1 DEF Holds, InReader
        <5> QED
          BY <5>2, <5>3
      <4> QED
        BY <4>2, <4>3
    <3>3. CASE InNet(o, net', y, r, p) \/ InWorker(o, wk', y, r, p)
      BY <1>1, <2>2, <3>3 DEF Holds, InNet, InWorker
    <3> QED
      BY <2>4, <3>1, <3>2, <3>3 DEF Holds
  <2> HIDE DEF a, b
  <2> QED
    BY <1>1, <2>4, KeepsPut DEF KeepsAll, Keeps
<1>7. ASSUME NEW s \in Reader, EnqueuePanics(n, s) PROVE PutInv'
  <2>1. UNCHANGED <<net, queue, rd>>
    BY <1>7 DEF EnqueuePanics, netVars
  <2>2. ASSUME NEW o, NEW r \in Req, NEW p \in Node, NEW y, Holds(o, y, r, p)' PROVE Holds(o, y, r, p)
    BY <1>1, <2>1, <2>2 DEF Holds
  <2> QED
    BY <1>1, <2>2, KeepsPut DEF KeepsAll, Keeps
<1> QED
  BY <1>2, <1>5, <1>6, <1>7 DEF Reads

LEMMA NodePut ==
    ASSUME TypeInv, PutInv, NEW n \in Node,
           AcceptFails(n) \/ Close(n) \/ Clear(n) \/ UNCHANGED vars
    PROVE  PutInv'
<1>1. UNCHANGED <<sent, net, queue, rd, wk>>
  BY DEF AcceptFails, Close, Clear, vars, netVars
<1>2. ASSUME NEW o, NEW r \in Req, NEW p \in Node, NEW y PROVE Holds(o, y, r, p)' <=> Holds(o, y, r, p)
  BY <1>1 DEF Holds
<1>3. store \in [Node -> [Req -> Nat]]
  BY DEF TypeInv, TypeOK
<1>4. \A m \in Node : \A r \in Req : store'[m][r] \in {0, store[m][r]}
  BY <1>3 DEF AcceptFails, Close, Clear, vars
<1>5. ASSUME NEW o, NEW r \in Req, NEW p \in Node, sent[r].at = o
      PROVE  /\ \A y, z : Holds(o, y, r, p)' /\ Holds(o, z, r, p)' => y = z
             /\ \A y : Holds(o, y, r, p)' => store'[p][r] = 0
             /\ store'[p][r] \in {0, 1}
  <2>1. /\ \A y, z : Holds(o, y, r, p) /\ Holds(o, z, r, p) => y = z
        /\ \A y : Holds(o, y, r, p) => store[p][r] = 0
        /\ store[p][r] \in {0, 1}
    BY <1>5 DEF PutInv, PutAt
  <2> QED
    BY <1>2, <1>4, <2>1
<1> QED
  BY <1>1, <1>5 DEF PutInv, PutAt

(* A worker takes a packet from the channel: the others there move up.     *)
LEMMA ReceivePut ==
    ASSUME TypeInv, PutInv, NEW n \in Node, NEW w \in Worker, Receive(n, w)
    PROVE  PutInv'
<1> DEFINE pkt == Head(queue[n])
           new == St(IF pkt.cmd = "bad" THEN "sign" ELSE "hash", pkt,
                     IF pkt.cmd = "bad" THEN "error" ELSE "none", {})
           b == <<"wk", n, w>>
           At(i) == <<"queue", n, i>>
<1>1. pkt \in Packet /\ WorkerOK(new) /\ wk' = [wk EXCEPT ![n][w] = new]
  BY ReceiveStep
<1>2. /\ UNCHANGED <<sent, net, rd, store>> /\ queue' = [queue EXCEPT ![n] = Tail(queue[n])]
      /\ queue[n] # <<>> /\ queue \in [Node -> Seq(Packet)]
  BY DEF Receive, netVars, TypeInv, TypeOK
<1>3. 1 \in 1 .. Len(queue[n]) /\ pkt = queue[n][1]
  BY <1>2
<1>4. \A i \in 1 .. Len(queue'[n]) : i + 1 \in 1 .. Len(queue[n]) /\ queue'[n][i] = queue[n][i + 1]
  <2>1. queue[n] \in Seq(Packet) /\ queue'[n] = Tail(queue[n])
    BY <1>2
  <2> QED
    BY <1>2, <2>1, TailShifts
<1>5. \A m \in Node : m # n => queue'[m] = queue[m]
  BY <1>2
<1>6. ASSUME NEW o, NEW r \in Req, NEW p \in Node PROVE WorkerCarries(o, n, new, r, p) => Carries(o, n, pkt, r, p)
  BY DEF WorkerCarries, Passes, Carries, St
<1> HIDE DEF new, pkt
<1>7. WorkerSet(n, w, new)
  BY <1>1, WorkerMoves
<1>8. ASSUME NEW o, NEW r \in Req, NEW p \in Node, NEW y, Holds(o, y, r, p)'
      PROVE  \/ Holds(o, y, r, p) /\ y # b /\ \A i \in Nat : y # At(i)
             \/ y = b /\ Holds(o, At(1), r, p)
             \/ \E i \in 1 .. Len(queue'[n]) : y = At(i) /\ Holds(o, At(i + 1), r, p)
  <2>1. CASE InWorker(o, wk', y, r, p)
    <3>1. CASE InWorker(o, wk, y, r, p) /\ y # b
      BY <3>1 DEF Holds, InWorker
    <3>2. CASE y = b /\ WorkerCarries(o, n, new, r, p)
      BY <1>3, <1>6, <3>2 DEF Holds, InQueue
    <3>3. (InWorker(o, wk, y, r, p) /\ y # b) \/ (y = b /\ WorkerCarries(o, n, new, r, p))
      BY <1>7, <2>1, WorkerHolds
    <3> QED
      BY <3>1, <3>2, <3>3
  <2>2. CASE InQueue(o, queue', y, r, p)
    <3>0. PICK m \in Node : \E i \in 1 .. Len(queue'[m]) :
              y = <<"queue", m, i>> /\ Carries(o, m, queue'[m][i], r, p)
      BY <2>2 DEF InQueue
    <3>1. PICK i \in 1 .. Len(queue'[m]) : y = <<"queue", m, i>> /\ Carries(o, m, queue'[m][i], r, p)
      BY <3>0
    <3>2. CASE m # n
      BY <1>5, <3>1, <3>2 DEF Holds, InQueue
    <3>3. CASE m = n
      <4>1. i + 1 \in 1 .. Len(queue[n]) /\ queue'[n][i] = queue[n][i + 1]
        BY <1>4, <3>3
      <4>2. Holds(o, At(i + 1), r, p)
        BY <3>1, <3>3, <4>1 DEF Holds, InQueue
      <4> QED
        BY <3>1, <3>3, <4>2
    <3> QED
      BY <3>2, <3>3
  <2>3. CASE InNet(o, net', y, r, p) \/ InReader(o, rd', y, r, p)
    <3>1. Holds(o, y, r, p)
      BY <1>2, <2>3 DEF Holds
    <3>2. y # b /\ \A i \in Nat : y # At(i)
      BY <2>3 DEF InNet, InReader
    <3> QED
      BY <3>1, <3>2
  <2> QED
    BY <1>8, <2>1, <2>2, <2>3 DEF Holds
<1>9. \A i, j \in Nat : At(i) = At(j) => i = j
  OBVIOUS
<1>10. Len(queue[n]) \in Nat /\ Len(queue'[n]) \in Nat
  <2>1. queue[n] \in Seq(Packet) /\ queue'[n] = Tail(queue[n])
    BY <1>2
  <2> QED
    BY <1>2, <2>1
<1> HIDE DEF At, b
<1> SUFFICES ASSUME NEW o, NEW r \in Req, NEW p \in Node, sent[r].at = o
             PROVE  /\ \A y, z : Holds(o, y, r, p)' /\ Holds(o, z, r, p)' => y = z
                    /\ \A y : Holds(o, y, r, p)' => store'[p][r] = 0
                    /\ store'[p][r] \in {0, 1}
  BY <1>2 DEF PutInv, PutAt
<1>11. /\ \A y, z : Holds(o, y, r, p) /\ Holds(o, z, r, p) => y = z
       /\ \A y : Holds(o, y, r, p) => store[p][r] = 0
       /\ store[p][r] \in {0, 1}
  BY DEF PutInv, PutAt
<1>12. ASSUME NEW y, NEW z, Holds(o, y, r, p)', Holds(o, z, r, p)' PROVE y = z
  <2>1. \/ Holds(o, y, r, p) /\ y # b /\ \A i \in Nat : y # At(i)
        \/ y = b /\ Holds(o, At(1), r, p)
        \/ \E i \in 1 .. Len(queue'[n]) : y = At(i) /\ Holds(o, At(i + 1), r, p)
    BY <1>8, <1>12
  <2>2. \/ Holds(o, z, r, p) /\ z # b /\ \A i \in Nat : z # At(i)
        \/ z = b /\ Holds(o, At(1), r, p)
        \/ \E i \in 1 .. Len(queue'[n]) : z = At(i) /\ Holds(o, At(i + 1), r, p)
    BY <1>8, <1>12
  <2> QED
    BY <1>9, <1>10, <1>11, <2>1, <2>2
<1> QED
  BY <1>2, <1>8, <1>11, <1>12

(* A worker goes on with its packet, or drops it.                          *)
LEMMA WorkPut ==
    ASSUME TypeInv, PutInv, NEW n \in Node, NEW w \in Worker, NEW new, WorkerOK(new),
           wk' = [wk EXCEPT ![n][w] = new], UNCHANGED <<sent, net, rd, queue, store>>,
           \A o : \A r \in Req : \A p \in Node :
               WorkerCarries(o, n, new, r, p) => WorkerCarries(o, n, wk[n][w], r, p)
    PROVE  PutInv'
<1>1. WorkerSet(n, w, new)
  BY WorkerMoves
<1>2. ASSUME NEW o, NEW r \in Req, NEW p \in Node, NEW y, Holds(o, y, r, p)' PROVE Holds(o, y, r, p)
  <2>1. CASE InWorker(o, wk', y, r, p)
    <3>1. InWorker(o, wk, y, r, p) \/ (y = <<"wk", n, w>> /\ WorkerCarries(o, n, new, r, p))
      BY <1>1, <2>1, WorkerHolds
    <3> QED
      BY <3>1 DEF Holds, InWorker
  <2>2. CASE InNet(o, net', y, r, p) \/ InQueue(o, queue', y, r, p) \/ InReader(o, rd', y, r, p)
    BY <2>2 DEF Holds
  <2> QED
    BY <1>2, <2>1, <2>2 DEF Holds
<1> QED
  BY <1>2, KeepsPut DEF KeepsAll, Keeps

(* A worker applies a Put: here none of it remains.                        *)
LEMMA ActPut ==
    ASSUME TypeInv, PutInv, NEW n \in Node, NEW w \in Worker, Act(n, w)
    PROVE  PutInv'
<1> DEFINE me == wk[n][w]
           pkt == me.pkt
           new == IF pkt.cmd = "R" THEN Idle
                  ELSE St("sign", pkt, IF pkt.cmd = "E" THEN "error" ELSE "ok",
                          IF pkt.cmd = "P" THEN Peers(n) ELSE {})
           a == <<"wk", n, w>>
<1>1. me.pc = "act" /\ pkt \in Packet /\ WorkerOK(new) /\ wk' = [wk EXCEPT ![n][w] = new]
  BY ActStep
<1>2. UNCHANGED <<sent, net, rd, queue>>
  BY DEF Act, netVars
<1>3. ASSUME NEW o, NEW r \in Req, NEW p \in Node, WorkerCarries(o, n, new, r, p)
      PROVE  Carries(o, n, pkt, r, p) /\ (pkt.cmd \in {"P", "R"} => p # n)
  <2>1. CASE pkt.cmd = "R"
    BY <1>3, <2>1 DEF WorkerCarries, Passes, Idle, NoPacket, PreAct
  <2>2. CASE pkt.cmd # "R"
    BY <1>3, <2>2 DEF WorkerCarries, Passes, St, PreAct, Carries, Peers
  <2> QED
    BY <2>1, <2>2
<1>4. ASSUME NEW o, NEW r \in Req, NEW p \in Node, Carries(o, n, pkt, r, p) PROVE Holds(o, a, r, p)
  BY <1>1, <1>4 DEF Holds, InWorker, WorkerCarries, Passes, PreAct
<1> HIDE DEF new
<1>5. WorkerSet(n, w, new)
  BY <1>1, WorkerMoves
<1>6. ASSUME NEW o, NEW r \in Req, NEW p \in Node, NEW y, Holds(o, y, r, p)'
      PROVE  /\ Holds(o, y, r, p)
             /\ pkt.cmd \in {"P", "R"} /\ Carries(o, n, pkt, r, p) /\ p = n => y # a
  <2>1. CASE InWorker(o, wk', y, r, p)
    <3>1. (InWorker(o, wk, y, r, p) /\ y # a) \/ (y = a /\ WorkerCarries(o, n, new, r, p))
      BY <1>5, <2>1, WorkerHolds
    <3> QED
      BY <1>3, <1>4, <3>1 DEF Holds
  <2>2. CASE InNet(o, net', y, r, p) \/ InQueue(o, queue', y, r, p) \/ InReader(o, rd', y, r, p)
    BY <1>2, <2>2 DEF Holds, InNet, InQueue, InReader
  <2> QED
    BY <1>6, <2>1, <2>2 DEF Holds
<1>7. store \in [Node -> [Req -> Nat]] /\ pkt.req \in Req
  BY <1>1 DEF TypeInv, TypeOK, Packet
<1>8. CASE pkt.cmd \in {"P", "R"}
  <2>0. PICK q \in Req : q = pkt.req
    BY <1>7
  <2>1. store' = [store EXCEPT ![n][q] = store[n][q] + 1]
    BY <1>8, <2>0 DEF Act
  <2>2. \A o : Carries(o, n, pkt, q, n)
    BY <1>8, <2>0 DEF Carries
  <2>3. \A o : Holds(o, a, q, n)
    BY <1>4, <2>2
  <2>4. store[n][q] = 0 /\ \A o : sent[q].at = o => \A y : ~Holds(o, y, q, n)'
    <3>1. PICK o : sent[q].at = o
      OBVIOUS
    <3>2. PutAt(o, q, n)
      BY <3>1 DEF PutInv
    <3>3. store[n][q] = 0 /\ \A y : Holds(o, y, q, n) => y = a
      BY <2>3, <3>2 DEF PutAt
    <3>4. ASSUME NEW y, Holds(o, y, q, n)' PROVE FALSE
      <4>1. Holds(o, y, q, n) /\ y # a
        BY <1>6, <1>8, <2>2, <3>4
      <4> QED
        BY <3>3, <4>1
    <3> QED
      BY <3>1, <3>3, <3>4
  <2>5. store'[n][q] = 1
    BY <1>7, <2>1, <2>4
  <2>6. \A m \in Node : \A r \in Req : m # n \/ r # q => store'[m][r] = store[m][r]
    BY <1>7, <2>1
  <2>7. ASSUME NEW o, NEW r \in Req, NEW p \in Node, sent[r].at = o
        PROVE  /\ \A y, z : Holds(o, y, r, p)' /\ Holds(o, z, r, p)' => y = z
               /\ \A y : Holds(o, y, r, p)' => store'[p][r] = 0
               /\ store'[p][r] \in {0, 1}
    <3>1. /\ \A y, z : Holds(o, y, r, p) /\ Holds(o, z, r, p) => y = z
          /\ \A y : Holds(o, y, r, p) => store[p][r] = 0
          /\ store[p][r] \in {0, 1}
      BY <2>7 DEF PutInv, PutAt
    <3> QED
      BY <1>6, <2>4, <2>5, <2>6, <2>7, <3>1
  <2> QED
    BY <1>2, <2>7 DEF PutInv, PutAt
<1>9. CASE pkt.cmd \notin {"P", "R"}
  <2>1. UNCHANGED store
    BY <1>9 DEF Act
  <2> QED
    BY <1>2, <1>6, <2>1, KeepsPut DEF KeepsAll, Keeps
<1> QED
  BY <1>8, <1>9

(* A worker hands a peer's part to the network.                            *)
LEMMA PublishPut ==
    ASSUME TypeInv, PutInv, NEW n \in Node, NEW w \in Worker, NEW q \in Node, Publish(n, w, q)
    PROVE  PutInv'
<1> DEFINE me == wk[n][w]
           new == IF me.todo = {q} THEN Idle ELSE St("publish", me.pkt, me.res, me.todo \ {q})
           rep == Replica(n, me.pkt)
           a == <<"wk", n, w>>
           b == <<"net", q, rep>>
<1>1. me.pc = "publish" /\ q \in me.todo /\ me.pkt \in Packet /\ WorkerOK(new) /\ Move(n, w, new)
  BY PublishStep
<1>2. UNCHANGED <<sent, rd, queue, store>> /\ net' = net \cup {[to |-> q, pkt |-> rep]}
  BY DEF Publish
<1>3. ASSUME NEW o, NEW r \in Req, NEW p \in Node, WorkerCarries(o, n, new, r, p)
      PROVE  me.pkt.req = r /\ p \in me.todo /\ p # q
  <2>1. CASE me.todo = {q}
    BY <1>3, <2>1 DEF WorkerCarries, Passes, Idle, NoPacket, PreAct
  <2>2. CASE me.todo # {q}
    BY <1>3, <2>2 DEF WorkerCarries, Passes, St, PreAct
  <2> QED
    BY <2>1, <2>2
<1>4. ASSUME NEW o, NEW r \in Req, NEW p \in Node, me.pkt.req = r, p \in me.todo PROVE Holds(o, a, r, p)
  BY <1>4 DEF Holds, InWorker, WorkerCarries
<1>5. ASSUME NEW o, NEW r \in Req, NEW p \in Node, Carries(o, q, rep, r, p) PROVE me.pkt.req = r /\ p = q
  BY <1>5 DEF Carries, Replica
<1> HIDE DEF new, rep
<1>6. WorkerSet(n, w, new)
  BY <1>1, WorkerMoves DEF Move
<1>7. ASSUME NEW o, NEW r \in Req, NEW p \in Node, NEW y, Holds(o, y, r, p)'
      PROVE  \/ Holds(o, y, r, p) /\ (r = me.pkt.req /\ p = q => y # a)
             \/ y = b /\ r = me.pkt.req /\ p = q /\ Holds(o, a, r, p)
  <2>1. CASE InWorker(o, wk', y, r, p)
    <3>1. (InWorker(o, wk, y, r, p) /\ y # a) \/ (y = a /\ WorkerCarries(o, n, new, r, p))
      BY <1>6, <2>1, WorkerHolds
    <3> QED
      BY <1>3, <1>4, <3>1 DEF Holds
  <2>2. CASE InNet(o, net', y, r, p)
    <3>1. PICK k \in net' : y = <<"net", k.to, k.pkt>> /\ Carries(o, k.to, k.pkt, r, p)
      BY <2>2 DEF InNet
    <3>2. CASE k \in net
      BY <3>1, <3>2 DEF Holds, InNet
    <3>3. CASE k \notin net
      <4>1. k.to = q /\ k.pkt = rep
        BY <1>2, <3>3
      <4> QED
        BY <1>1, <1>4, <1>5, <3>1, <4>1
    <3> QED
      BY <3>2, <3>3
  <2>3. CASE InQueue(o, queue', y, r, p) \/ InReader(o, rd', y, r, p)
    BY <1>2, <2>3 DEF Holds, InQueue, InReader
  <2> QED
    BY <1>7, <2>1, <2>2, <2>3 DEF Holds
<1> HIDE DEF a, b
<1>8. ASSUME NEW o, NEW r \in Req, NEW p \in Node PROVE Keeps(o, r, p)
  <2>1. CASE r = me.pkt.req /\ p = q
    BY <1>7, <2>1 DEF Keeps
  <2>2. CASE ~(r = me.pkt.req /\ p = q)
    BY <1>7, <2>2 DEF Keeps
  <2> QED
    BY <2>1, <2>2
<1> QED
  BY <1>2, <1>8, KeepsPut DEF KeepsAll

(* A worker answers: what it hands to the network is an error packet in    *)
(* place of the replica that it refused or of the error packet it got.     *)
LEMMA ReplyCarries ==
    ASSUME NEW n \in Node, NEW w \in Worker, NEW r \in Req, NEW p \in Node,
           Sender(sent, n, wk[n][w].pkt), wk[n][w].pkt.from # NoNode,
           NEW o, sent[r].at = o, Carries(o, wk[n][w].pkt.from, Reply(n, wk[n][w].pkt), r, p)
    PROVE  wk[n][w].pkt.cmd \in {"R", "E"} /\ Carries(o, n, wk[n][w].pkt, r, p)
<1>1. PICK pkt : pkt = wk[n][w].pkt
  OBVIOUS
<1>2. Reply(n, pkt).req = pkt.req /\ Reply(n, pkt).cmd = "E" /\ Reply(n, pkt).from = n
  BY DEF Reply
<1>3. pkt.req = r /\ p # o /\ p \in {n, pkt.from}
  BY <1>1, <1>2 DEF Carries
<1>4. pkt.cmd \in {"R", "E"} /\ o \in {n, pkt.from} /\ (pkt.cmd = "R" => o = pkt.from)
  BY <1>1, <1>3 DEF Sender
<1> QED
  BY <1>1, <1>3, <1>4 DEF Carries

LEMMA AnswerPut ==
    ASSUME TypeInv, KeyInv, PutInv, NEW n \in Node, NEW w \in Worker,
           Answer(n, w) \/ AnswerFails(n, w)
    PROVE  PutInv'
<1> DEFINE me == wk[n][w]
           new == IF me.todo = {} THEN Idle ELSE St("resign", me.pkt, me.res, me.todo)
           a == <<"wk", n, w>>
           b == <<"net", me.pkt.from, Reply(n, me.pkt)>>
<1>1. me.pc = "answer" /\ me.pkt \in Packet /\ WorkerOK(new) /\ wk' = [wk EXCEPT ![n][w] = new]
  BY AnswerStep
<1>2. UNCHANGED <<sent, rd, queue, store>>
  BY DEF Answer, AnswerFails, netVars
<1>3. WorkerSender(sent, n, me) /\ Sender(sent, n, me.pkt)
  <2>1. WorkerSender(sent, n, me)
    BY DEF KeyInv, WorkersOrigin, WorkerOrigin
  <2> QED
    BY <1>1, <2>1 DEF WorkerSender, Answering
<1>4. ASSUME NEW o, NEW r \in Req, NEW p \in Node, WorkerCarries(o, n, new, r, p)
      PROVE  me.pkt.req = r /\ p \in me.todo
  <2>1. CASE me.todo = {}
    BY <1>4, <2>1 DEF WorkerCarries, Passes, Idle, NoPacket, PreAct
  <2>2. CASE me.todo # {}
    BY <1>4, <2>2 DEF WorkerCarries, Passes, St, PreAct
  <2> QED
    BY <2>1, <2>2
<1>5. ASSUME NEW o, NEW r \in Req, NEW p \in Node,
             \/ me.pkt.req = r /\ p \in me.todo
             \/ me.pkt.cmd \in {"R", "E"} /\ Carries(o, n, me.pkt, r, p)
      PROVE  Holds(o, a, r, p)
  BY <1>1, <1>5 DEF Holds, InWorker, WorkerCarries, Passes
<1>6. me.pkt.cmd \in {"R", "E"} => me.todo = {}
  BY <1>3 DEF WorkerSender
<1> HIDE DEF new
<1>7. WorkerSet(n, w, new)
  BY <1>1, WorkerMoves
<1>8. ASSUME NEW o, NEW r \in Req, NEW p \in Node, sent[r].at = o, NEW y, Holds(o, y, r, p)'
      PROVE  \/ Holds(o, y, r, p) /\ y # a
             \/ y = a /\ Holds(o, a, r, p) /\ me.todo # {}
             \/ y = b /\ Holds(o, a, r, p) /\ me.todo = {}
  <2>1. CASE InWorker(o, wk', y, r, p)
    <3>1. (InWorker(o, wk, y, r, p) /\ y # a) \/ (y = a /\ WorkerCarries(o, n, new, r, p))
      BY <1>7, <2>1, WorkerHolds
    <3> QED
      BY <1>4, <1>5, <3>1 DEF Holds
  <2>2. CASE InNet(o, net', y, r, p)
    <3>1. PICK k \in net' : y = <<"net", k.to, k.pkt>> /\ Carries(o, k.to, k.pkt, r, p)
      BY <2>2 DEF InNet
    <3>2. CASE k \in net
      BY <3>1, <3>2 DEF Holds, InNet
    <3>3. CASE k \notin net
      <4>1. k.to = me.pkt.from /\ k.pkt = Reply(n, me.pkt) /\ me.pkt.from # NoNode
        BY <3>3, AnswerSends
      <4>2. Carries(o, me.pkt.from, Reply(n, me.pkt), r, p)
        BY <3>1, <4>1
      <4>3. me.pkt.cmd \in {"R", "E"} /\ Carries(o, n, me.pkt, r, p)
        BY <1>3, <1>8, <4>1, <4>2, ReplyCarries
      <4> QED
        BY <1>5, <1>6, <3>1, <4>1, <4>3
    <3> QED
      BY <3>2, <3>3
  <2>3. CASE InQueue(o, queue', y, r, p) \/ InReader(o, rd', y, r, p)
    BY <1>2, <2>3 DEF Holds, InQueue, InReader
  <2> QED
    BY <1>8, <2>1, <2>2, <2>3 DEF Holds
<1> HIDE DEF a, b
<1>9. ASSUME NEW o, NEW r \in Req, NEW p \in Node, sent[r].at = o PROVE Keeps(o, r, p)
  <2>1. CASE me.todo = {}
    <3>1. PICK c, d : c = a /\ d = b
      OBVIOUS
    <3>2. ASSUME NEW y, Holds(o, y, r, p)'
          PROVE  (Holds(o, y, r, p) /\ y # c) \/ (y = d /\ Holds(o, c, r, p))
      BY <1>8, <1>9, <2>1, <3>1, <3>2
    <3> QED
      BY <3>2 DEF Keeps
  <2>2. CASE me.todo # {}
    <3>1. ASSUME NEW y, Holds(o, y, r, p)' PROVE Holds(o, y, r, p)
      BY <1>8, <1>9, <2>2, <3>1
    <3> QED
      BY <3>1 DEF Keeps
  <2> QED
    BY <2>1, <2>2
<1> QED
  BY <1>2, <1>9, KeepsPut DEF KeepsAll

LEMMA WorkerPut ==
    ASSUME TypeInv, KeyInv, PutInv, NEW n \in Node, NEW w \in Worker, Works(n, w)
    PROVE  PutInv'
<1> DEFINE me == wk[n][w]
<1>1. CASE ValidateHash(n, w) \/ Sign(n, w) \/ Resign(n, w) \/ WorkerExits(n, w)
  <2> DEFINE pc == CASE me.pc = "hash" -> "check"
                     [] me.pc = "sign" -> "answer"
                     [] me.pc = "resign" -> "copy"
                     [] me.pc = "recv" -> "exit"
             new == St(pc, me.pkt, me.res, me.todo)
  <2>1. /\ me.pc \in {"hash", "sign", "resign", "recv"}
        /\ WorkerOK(new) /\ wk' = [wk EXCEPT ![n][w] = new]
    BY <1>1, PcStep
  <2>2. UNCHANGED <<sent, net, rd, queue, store>>
    BY <1>1 DEF ValidateHash, Sign, Resign, WorkerExits, netVars
  <2>3. ASSUME NEW o, NEW r \in Req, NEW p \in Node, WorkerCarries(o, n, new, r, p)
        PROVE  WorkerCarries(o, n, me, r, p)
    BY <2>1, <2>3 DEF WorkerCarries, Passes, Carries, St, PreAct
  <2> HIDE DEF new
  <2> QED
    BY <2>1, <2>2, <2>3, WorkPut
<1>2. CASE ValidateCheck(n, w)
  <2> DEFINE ok == Accepts(n, me.pkt)
             new == St(IF ok THEN "act" ELSE "sign", me.pkt, IF ok THEN "none" ELSE "auth", {})
  <2>1. me.pc = "check" /\ WorkerOK(new) /\ wk' = [wk EXCEPT ![n][w] = new]
    BY <1>2, CheckStep
  <2>2. UNCHANGED <<sent, net, rd, queue, store>>
    BY <1>2 DEF ValidateCheck
  <2>3. ASSUME NEW o, NEW r \in Req, NEW p \in Node, WorkerCarries(o, n, new, r, p)
        PROVE  WorkerCarries(o, n, me, r, p)
    BY <2>1, <2>3 DEF WorkerCarries, Passes, Carries, St, PreAct
  <2> HIDE DEF new
  <2> QED
    BY <2>1, <2>2, <2>3, WorkPut
<1>4. CASE ResignCopy(n, w)
  <2> DEFINE pkt == [me.pkt EXCEPT !.hash = Hash(n, me.pkt.req)]
             new == St("publish", pkt, me.res, me.todo)
  <2>1. /\ me.pc = "copy" /\ pkt.req = me.pkt.req /\ pkt.cmd = me.pkt.cmd
        /\ WorkerOK(new) /\ wk' = [wk EXCEPT ![n][w] = new]
    BY <1>4, CopyStep
  <2> HIDE DEF pkt
  <2>2. UNCHANGED <<sent, net, rd, queue, store>>
    BY <1>4 DEF ResignCopy, netVars
  <2>3. ASSUME NEW o, NEW r \in Req, NEW p \in Node, WorkerCarries(o, n, new, r, p)
        PROVE  WorkerCarries(o, n, me, r, p)
    BY <2>1, <2>3 DEF WorkerCarries, Passes, Carries, St, PreAct
  <2> HIDE DEF new
  <2> QED
    BY <2>1, <2>2, <2>3, WorkPut
<1>5. CASE PublishFails(n, w)
  <2>1. wk' = [wk EXCEPT ![n][w] = Idle] /\ WorkerOK(Idle)
    BY <1>5, PublishFailsStep, Distinct
  <2>2. UNCHANGED <<sent, net, rd, queue, store>>
    BY <1>5 DEF PublishFails
  <2>3. ASSUME NEW o, NEW r \in Req, NEW p \in Node PROVE ~WorkerCarries(o, n, Idle, r, p)
    BY DEF WorkerCarries, Passes, Idle, NoPacket, PreAct
  <2> QED
    BY <2>1, <2>2, <2>3, WorkPut
<1> QED
  BY <1>1, <1>2, <1>4, <1>5, ReceivePut, ActPut, PublishPut, AnswerPut DEF Works

LEMMA InitPut == Init => PutInv
<1> SUFFICES ASSUME Init PROVE PutInv
  OBVIOUS
<1>1. ASSUME NEW o, NEW r \in Req, NEW p \in Node, NEW y PROVE ~Holds(o, y, r, p)
  <2>1. ~InNet(o, net, y, r, p) /\ ~InQueue(o, queue, y, r, p)
    BY DEF Init, InNet, InQueue
  <2>2. ~InReader(o, rd, y, r, p)
    BY DEF Init, InReader, Carries, NoPacket
  <2>3. ~InWorker(o, wk, y, r, p)
    BY DEF Init, InWorker, WorkerCarries, Passes, PreAct, Idle
  <2> QED
    BY <2>1, <2>2, <2>3 DEF Holds
<1>2. \A r \in Req : \A p \in Node : store[p][r] = 0
  BY DEF Init
<1> QED
  BY <1>1, <1>2 DEF PutInv, PutAt

LEMMA StepPut == TypeInv /\ KeyInv /\ PutInv /\ [Next]_vars => PutInv'
<1> SUFFICES ASSUME TypeInv, KeyInv, PutInv, [Next]_vars PROVE PutInv'
  OBVIOUS
<1>1. CASE UNCHANGED vars
  <2>1. UNCHANGED <<sent, net, queue, rd, wk, store>>
    BY <1>1 DEF vars
  <2>2. ASSUME NEW o, NEW r \in Req, NEW p \in Node, NEW y, Holds(o, y, r, p)' PROVE Holds(o, y, r, p)
    BY <2>1, <2>2 DEF Holds
  <2> QED
    BY <2>1, <2>2, KeepsPut DEF KeepsAll, Keeps
<1>2. ASSUME NEW n \in Node \ crashed, Step(n) PROVE PutInv'
  BY <1>2, ClientPut, ReadPut, NodePut, WorkerPut DEF Step
<1> QED
  BY <1>1, <1>2 DEF Next, Step

LEMMA PutsOnce == Spec => [](TypeInv /\ KeyInv /\ PutInv)
<1>1. TypeInv /\ KeyInv /\ PutInv /\ [Next]_vars => (TypeInv /\ KeyInv /\ PutInv)'
  BY StepTyping, StepKey, StepPut
<1> QED
  BY <1>1, InitTyping, InitKey, InitPut, PTL DEF Spec

(* No server applies a Put twice, whatever number of servers replicate to  *)
(* each other, by UDP, TCP or HTTP, with failed writes, error answers      *)
(* between servers, panics and Close: as long as the network duplicates no *)
(* packet.                                                                 *)
THEOREM PutOnce == Spec => []PutOncePerServer
<1>1. ASSUME PutInv, NEW n \in Node, NEW r \in Req PROVE store[n][r] <= 1
  <2>1. PICK o : sent[r].at = o
    OBVIOUS
  <2>2. PutAt(o, r, n)
    BY <1>1, <2>1 DEF PutInv
  <2> QED
    BY <2>2 DEF PutAt
<1>2. PutInv => PutOncePerServer
  BY <1>1 DEF PutOncePerServer
<1> QED
  BY <1>2, PutsOnce, PTL

-----------------------------------------------------------------------------
(* The error packets between two servers are such packets as well, so the  *)
(* places where they are, of the four kinds, are one at most.              *)
AtMostOne(S) == \A x, y \in S : x = y
NotBoth(S, T) == S = {} \/ T = {}

LEMMA CountOne ==
    ASSUME NEW S, AtMostOne(S)
    PROVE  Cardinality(S) \in {0, 1} /\ (Cardinality(S) = 1 => S # {}) /\ (S = {} => Cardinality(S) = 0)
<1>1. CASE S = {}
  BY <1>1, FS_EmptySet
<1>2. CASE S # {}
  <2>1. PICK x : x \in S
    BY <1>2
  <2>2. S = {x}
    BY <2>1 DEF AtMostOne
  <2> QED
    BY <2>1, <2>2, FS_Singleton
<1> QED
  BY <1>1, <1>2

LEMMA CountFour ==
    ASSUME NEW A, NEW B, NEW C, NEW D,
           AtMostOne(A), AtMostOne(B), AtMostOne(C), AtMostOne(D),
           NotBoth(A, B), NotBoth(A, C), NotBoth(A, D),
           NotBoth(B, C), NotBoth(B, D), NotBoth(C, D)
    PROVE  LET sum == Cardinality(A) + Cardinality(B) + Cardinality(C) + Cardinality(D)
           IN sum <= 1 /\ (sum = 1 => A # {} \/ B # {} \/ C # {} \/ D # {})
<1>1. Cardinality(A) \in {0, 1} /\ (Cardinality(A) = 1 => A # {}) /\ (A = {} => Cardinality(A) = 0)
  BY CountOne
<1>2. Cardinality(B) \in {0, 1} /\ (Cardinality(B) = 1 => B # {}) /\ (B = {} => Cardinality(B) = 0)
  BY CountOne
<1>3. Cardinality(C) \in {0, 1} /\ (Cardinality(C) = 1 => C # {}) /\ (C = {} => Cardinality(C) = 0)
  BY CountOne
<1>4. Cardinality(D) \in {0, 1} /\ (Cardinality(D) = 1 => D # {}) /\ (D = {} => Cardinality(D) = 0)
  BY CountOne
<1> QED
  BY <1>1, <1>2, <1>3, <1>4 DEF NotBoth

(* A worker that has an error packet is answering it: it has no replicas   *)
(* of it to send.                                                          *)
LEMMA ErrorPasses ==
    ASSUME TypeInv, KeyInv, NEW n \in Node, NEW w \in Worker, wk[n][w].pkt.cmd = "E"
    PROVE  Passes(wk[n][w])
<1>1. PICK x : x = wk[n][w]
  OBVIOUS
<1>2. WorkerOK(x)
  BY <1>1 DEF TypeInv
<1>3. WorkerSender(sent, n, x)
  BY <1>1 DEF KeyInv, WorkersOrigin, WorkerOrigin
<1>4. x.pkt.cmd = "E" /\ x.pkt # NoPacket
  BY <1>1 DEF NoPacket
<1>5. x.pc \in {"hash", "check", "act", "sign", "answer"}
  BY <1>2, <1>3, <1>4 DEF WorkerOK, WorkerState, WorkerSender
<1> QED
  BY <1>1, <1>4, <1>5 DEF Passes, PreAct

LEMMA ErrorsOne ==
    ASSUME TypeInv, KeyInv, PutInv, NEW r \in Req, NEW p \in Node, p # sent[r].at
    PROVE  Errors(r, p) <= 1 /\ (Errors(r, p) = 1 => store[p][r] = 0)
<1> DEFINE sending == {m \in net : IsError(m.to, m.pkt, r, p)}
           reading == {x \in Node \X Reader : IsError(x[1], rd[x[1]][x[2]].pkt, r, p)}
           queued == {x \in Node \X (1 .. Cap) :
                         x[2] <= Len(queue[x[1]]) /\ IsError(x[1], queue[x[1]][x[2]], r, p)}
           handling == {x \in Node \X Worker : IsError(x[1], wk[x[1]][x[2]].pkt, r, p)}
<1>1. PICK o : o = sent[r].at
  OBVIOUS
<1>2. /\ \A y, z : Holds(o, y, r, p) /\ Holds(o, z, r, p) => y = z
      /\ \A y : Holds(o, y, r, p) => store[p][r] = 0
  BY <1>1 DEF PutInv, PutAt
<1>3. ASSUME NEW n, NEW pkt, IsError(n, pkt, r, p) PROVE Carries(o, n, pkt, r, p)
  BY <1>1, <1>3 DEF IsError, Carries
<1>4. ASSUME NEW m \in sending PROVE Holds(o, <<"net", m.to, m.pkt>>, r, p)
  <2>1. m \in net /\ Carries(o, m.to, m.pkt, r, p)
    BY <1>3
  <2> QED
    BY <2>1 DEF Holds, InNet
<1>5. ASSUME NEW x \in reading PROVE Holds(o, <<"rd", x[1], x[2]>>, r, p)
  <2>1. PICK n \in Node, s \in Reader : x = <<n, s>> /\ IsError(n, rd[n][s].pkt, r, p)
    OBVIOUS
  <2>2. Carries(o, n, rd[n][s].pkt, r, p)
    BY <1>3, <2>1
  <2> QED
    BY <2>1, <2>2 DEF Holds, InReader
<1>6. ASSUME NEW x \in queued PROVE Holds(o, <<"queue", x[1], x[2]>>, r, p)
  <2>1. PICK n \in Node, i \in 1 .. Cap :
            x = <<n, i>> /\ i <= Len(queue[n]) /\ IsError(n, queue[n][i], r, p)
    OBVIOUS
  <2>2. Carries(o, n, queue[n][i], r, p)
    BY <1>3, <2>1
  <2>3. i \in 1 .. Len(queue[n])
    BY <2>1 DEF TypeInv, TypeOK
  <2> QED
    BY <2>1, <2>2, <2>3 DEF Holds, InQueue
<1>7. ASSUME NEW x \in handling PROVE Holds(o, <<"wk", x[1], x[2]>>, r, p)
  <2>1. PICK n \in Node, w \in Worker : x = <<n, w>> /\ IsError(n, wk[n][w].pkt, r, p)
    OBVIOUS
  <2>2. Carries(o, n, wk[n][w].pkt, r, p)
    BY <1>3, <2>1
  <2>3. Passes(wk[n][w])
    BY <2>1, ErrorPasses DEF IsError
  <2> QED
    BY <2>1, <2>2, <2>3 DEF Holds, InWorker, WorkerCarries
<1>8. AtMostOne(sending)
  <2>1. ASSUME NEW x \in sending, NEW y \in sending PROVE x = y
    <3>1. <<"net", x.to, x.pkt>> = <<"net", y.to, y.pkt>>
      BY <1>2, <1>4
    <3>2. x \in [to : Node, pkt : Packet] /\ y \in [to : Node, pkt : Packet]
      BY DEF TypeInv, TypeOK
    <3> QED
      BY <3>1, <3>2
  <2> QED
    BY <2>1 DEF AtMostOne
<1>9. AtMostOne(reading) /\ AtMostOne(queued) /\ AtMostOne(handling)
  <2>1. ASSUME NEW x \in reading, NEW y \in reading PROVE x = y
    <3>1. <<"rd", x[1], x[2]>> = <<"rd", y[1], y[2]>>
      BY <1>2, <1>5
    <3> QED
      BY <3>1
  <2>2. ASSUME NEW x \in queued, NEW y \in queued PROVE x = y
    <3>1. <<"queue", x[1], x[2]>> = <<"queue", y[1], y[2]>>
      BY <1>2, <1>6
    <3> QED
      BY <3>1
  <2>3. ASSUME NEW x \in handling, NEW y \in handling PROVE x = y
    <3>1. <<"wk", x[1], x[2]>> = <<"wk", y[1], y[2]>>
      BY <1>2, <1>7
    <3> QED
      BY <3>1
  <2> QED
    BY <2>1, <2>2, <2>3 DEF AtMostOne
<1>10. Errors(r, p) = Cardinality(sending) + Cardinality(reading)
                        + Cardinality(queued) + Cardinality(handling)
  BY DEF Errors
<1> HIDE DEF sending, reading, queued, handling
<1>11. /\ NotBoth(sending, reading) /\ NotBoth(sending, queued) /\ NotBoth(sending, handling)
       /\ NotBoth(reading, queued) /\ NotBoth(reading, handling) /\ NotBoth(queued, handling)
  <2>1. ASSUME NEW a, NEW b, NEW c, NEW d, NEW e, NEW f,
               Holds(o, <<a, b, c>>, r, p), Holds(o, <<d, e, f>>, r, p)
        PROVE  a = d
    BY <1>2, <2>1
  <2>2. \A x \in sending : \E b, c : Holds(o, <<"net", b, c>>, r, p)
    BY <1>4
  <2>3. \A x \in reading : \E b, c : Holds(o, <<"rd", b, c>>, r, p)
    BY <1>5
  <2>4. \A x \in queued : \E b, c : Holds(o, <<"queue", b, c>>, r, p)
    BY <1>6
  <2>5. \A x \in handling : \E b, c : Holds(o, <<"wk", b, c>>, r, p)
    BY <1>7
  <2>6. NotBoth(sending, reading) /\ NotBoth(sending, queued) /\ NotBoth(sending, handling)
    BY <2>1, <2>2, <2>3, <2>4, <2>5 DEF NotBoth
  <2>7. NotBoth(reading, queued) /\ NotBoth(reading, handling) /\ NotBoth(queued, handling)
    BY <2>1, <2>3, <2>4, <2>5 DEF NotBoth
  <2> QED
    BY <2>6, <2>7
<1>12. sending # {} \/ reading # {} \/ queued # {} \/ handling # {} => store[p][r] = 0
  BY <1>2, <1>4, <1>5, <1>6, <1>7
<1>13. /\ Errors(r, p) <= 1
       /\ Errors(r, p) = 1 => sending # {} \/ reading # {} \/ queued # {} \/ handling # {}
  BY <1>8, <1>9, <1>10, <1>11, CountFour
<1> QED
  BY <1>12, <1>13

(* Servers that refuse each other's replicas answer error packets with     *)
(* error packets for ever, but between the server of a Put and each of its *)
(* peers there is one at most at any time, and only about a replica that   *)
(* the peer has not applied: whatever number of servers, connections and   *)
(* workers there are, with panics, Close and failed writes.                *)
THEOREM OneError == Spec => []OneErrorPerRefusal
<1>1. TypeInv /\ KeyInv /\ PutInv => OneErrorPerRefusal
  BY ErrorsOne DEF OneErrorPerRefusal
<1> QED
  BY <1>1, PutsOnce, PTL

-----------------------------------------------------------------------------
(* Part 3: what becomes of the replicas of a Put that was answered.        *)
(*                                                                         *)
(* Of a Put of r that server n received, what p is owed is accounted for.  *)
Owed(n, r, p) ==
    \/ store[p][r] > 0 \/ UnderWay(r, p) \/ <<r, p>> \in missed
    \/ \E w \in Worker : wk[n][w].pkt.req = r /\ p \in wk[n][w].todo

OwedKept == \A n \in Node : \A r \in Req : \A p \in Node : Owed(n, r, p) => Owed(n, r, p)'

AccountInv ==
    \A r \in Req : <<r, "P", "ok">> \in answers =>
        sent[r].at \in Node /\ \A p \in Node : p # sent[r].at => Owed(sent[r].at, r, p)

LEMMA NoReplica == \A r \in Req : ~IsReplica(NoPacket, r)
BY DEF IsReplica, NoPacket

(* Only readers change, and packets that come from a client.               *)
LEMMA ReaderOwed ==
    ASSUME TypeInv, NEW n \in Node, NEW s \in Reader, NEW new, ReaderSet(n, s, new),
           rd[n][s].pkt = NoPacket, net \subseteq net', UNCHANGED <<queue, wk, store, missed>>
    PROVE  OwedKept
<1> SUFFICES ASSUME NEW m \in Node, NEW r \in Req, NEW p \in Node, Owed(m, r, p)
             PROVE  Owed(m, r, p)'
  BY DEF OwedKept
<1>1. CASE \E t \in Reader : IsReplica(rd[p][t].pkt, r)
  <2>1. PICK t \in Reader : IsReplica(rd[p][t].pkt, r)
    BY <1>1
  <2>2. rd'[p][t] = rd[p][t]
    BY <2>1, NoReplica DEF ReaderSet
  <2> QED
    BY <2>1, <2>2 DEF Owed, UnderWay
<1>2. CASE ~ \E t \in Reader : IsReplica(rd[p][t].pkt, r)
  BY <1>2 DEF Owed, UnderWay
<1> QED
  BY <1>1, <1>2

LEMMA ClientOwed ==
    ASSUME TypeInv, NEW n \in Node, NEW q \in Req,
           \/ HttpPut(n, q)
           \/ \E cmd \in Cmd, hash \in {q, NoReq} :
                \/ SendUDP(q, n, cmd, hash)
                \/ \E c \in Conn : ReadTCP(n, c, q, cmd, hash)
    PROVE  OwedKept
<1>1. CASE HttpPut(n, q)
  <2>1. /\ UNCHANGED <<net, rd, queue, wk, missed>>
        /\ store' = [store EXCEPT ![n][q] = store[n][q] + 1] /\ store \in [Node -> [Req -> Nat]]
    BY <1>1 DEF HttpPut, TypeInv, TypeOK
  <2>2. \A p \in Node : \A r \in Req : store[p][r] > 0 => store'[p][r] > 0
    BY <2>1
  <2> QED
    BY <2>1, <2>2 DEF OwedKept, Owed, UnderWay
<1>2. ASSUME NEW cmd \in Cmd, NEW hash \in {q, NoReq}, SendUDP(q, n, cmd, hash) PROVE OwedKept
  <2>1. net \subseteq net' /\ UNCHANGED <<rd, queue, wk, store, missed>>
    BY <1>2 DEF SendUDP
  <2> QED
    BY <2>1 DEF OwedKept, Owed, UnderWay
<1>3. ASSUME NEW cmd \in Cmd, NEW hash \in {q, NoReq}, NEW c \in Conn, ReadTCP(n, c, q, cmd, hash)
      PROVE  OwedKept
  <2> DEFINE pkt == [req |-> q, cmd |-> cmd, hash |-> hash, from |-> NoNode, via |-> c]
             new == [pc |-> "send", pkt |-> pkt]
  <2>1. /\ rd[n][c].pc = "read" /\ UNCHANGED <<net, queue, wk, store, missed>>
        /\ rd' = [rd EXCEPT ![n][c] = new]
    BY <1>3 DEF ReadTCP
  <2>2. cmd \in Commands /\ hash \in Id /\ NoNode \in Node \cup {NoNode} /\ c \in Reader
    BY DEF Id, Reader, Commands
  <2>3. pkt \in Packet
    BY <2>2, PacketTyped
  <2> HIDE DEF pkt
  <2>4. ReaderOK(new) /\ rd[n][c].pkt = NoPacket
    BY <2>1, <2>2, <2>3, ReaderNew DEF TypeInv, ReaderOK
  <2> HIDE DEF new
  <2>5. ReaderSet(n, c, new)
    BY <2>1, <2>2, <2>4, ReaderMoves
  <2> QED
    BY <2>1, <2>2, <2>4, <2>5, ReaderOwed
<1> QED
  BY <1>1, <1>2, <1>3

LEMMA ReadOwed ==
    ASSUME TypeInv, NEW n \in Node,
           \/ \E m \in net : ReadUDP(n, m)
           \/ ReadFails(n)
           \/ \E c \in Conn : Accept(n, c) \/ HangUp(n, c)
           \/ \E s \in Reader : Reads(n, s)
    PROVE  OwedKept
<1>1. ASSUME NEW k \in net, ReadUDP(n, k) PROVE OwedKept
  <2> DEFINE new == [pc |-> "send", pkt |-> k.pkt]
  <2>1. k.pkt \in Packet /\ Udp \in Reader /\ k.to = n
    BY <1>1 DEF TypeInv, TypeOK, Reader, ReadUDP
  <2>2. /\ ReaderOK(new) /\ new.pkt = k.pkt /\ rd' = [rd EXCEPT ![n][Udp] = new]
        /\ net' = net \ {k} /\ UNCHANGED <<queue, wk, store, missed>> /\ rd[n][Udp].pc = "read"
    BY <1>1, <2>1, ReaderNew DEF ReadUDP
  <2> HIDE DEF new
  <2>3. ReaderSet(n, Udp, new) /\ rd[n][Udp].pkt = NoPacket
    BY <2>1, <2>2, ReaderMoves DEF TypeInv, ReaderOK
  <2> SUFFICES ASSUME NEW m \in Node, NEW r \in Req, NEW p \in Node, Owed(m, r, p)
               PROVE  Owed(m, r, p)'
    BY DEF OwedKept
  <2>4. CASE \E t \in Reader : IsReplica(rd[p][t].pkt, r)
    <3>1. PICK t \in Reader : IsReplica(rd[p][t].pkt, r)
      BY <2>4
    <3>2. rd'[p][t] = rd[p][t]
      BY <2>3, <3>1, NoReplica DEF ReaderSet
    <3> QED
      BY <3>1, <3>2 DEF Owed, UnderWay
  <2>5. CASE \E j \in net : j.to = p /\ IsReplica(j.pkt, r)
    <3>1. PICK j \in net : j.to = p /\ IsReplica(j.pkt, r)
      BY <2>5
    <3>2. CASE j = k
      <4>1. rd'[p][Udp].pkt = j.pkt
        BY <2>1, <2>2, <2>3, <3>1, <3>2 DEF ReaderSet
      <4> QED
        BY <2>1, <3>1, <4>1 DEF Owed, UnderWay
    <3>3. CASE j # k
      BY <2>2, <3>1, <3>3 DEF Owed, UnderWay
    <3> QED
      BY <3>2, <3>3
  <2>6. CASE /\ ~ \E t \in Reader : IsReplica(rd[p][t].pkt, r)
             /\ ~ \E j \in net : j.to = p /\ IsReplica(j.pkt, r)
    BY <2>2, <2>6 DEF Owed, UnderWay
  <2> QED
    BY <2>4, <2>5, <2>6
<1>2. ASSUME NEW s \in Reader, NEW pc \in {"read", "exit"}, rd[n][s].pc # "send",
             rd' = [rd EXCEPT ![n][s].pc = pc], UNCHANGED <<net, queue, wk, store, missed>>
      PROVE  OwedKept
  <2> DEFINE new == [pc |-> pc, pkt |-> NoPacket]
  <2>1. rd[n][s] \in ReaderState /\ rd[n][s].pkt = NoPacket
    BY <1>2 DEF TypeInv, ReaderOK
  <2>2. [rd[n][s] EXCEPT !.pc = pc] = new
    BY <2>1 DEF ReaderState
  <2>3. rd' = [rd EXCEPT ![n][s] = new]
    BY <1>2, <2>2
  <2>4. ReaderOK(new)
    BY ReaderNew
  <2> HIDE DEF new
  <2>5. ReaderSet(n, s, new)
    BY <2>3, <2>4, ReaderMoves
  <2> QED
    BY <1>2, <2>1, <2>5, ReaderOwed
<1>3. CASE ReadFails(n) \/ \E c \in Conn : Accept(n, c) \/ HangUp(n, c)
  BY <1>2, <1>3 DEF ReadFails, Accept, HangUp, Reader, netVars
<1>4. ASSUME NEW s \in Reader, Enqueue(n, s) PROVE OwedKept
  <2> DEFINE new == AfterEnqueue(n, s)
             pkt == rd[n][s].pkt
  <2>1. ReaderOK(new)
    BY ReaderNew DEF AfterEnqueue
  <2>2. /\ rd' = [rd EXCEPT ![n][s] = new] /\ queue' = [queue EXCEPT ![n] = Append(queue[n], pkt)]
        /\ UNCHANGED <<net, wk, store, missed>>
    BY <1>4 DEF Enqueue, netVars
  <2>3. queue \in [Node -> Seq(Packet)] /\ pkt \in Packet
    BY <1>4 DEF TypeInv, TypeOK, ReaderOK, Enqueue
  <2> HIDE DEF new
  <2>4. ReaderSet(n, s, new)
    BY <2>1, <2>2, ReaderMoves
  <2>5. queue'[n] = Append(queue[n], pkt) /\ \A m \in Node : m # n => queue'[m] = queue[m]
    BY <2>2, <2>3
  <2>6. /\ Len(queue'[n]) = Len(queue[n]) + 1 /\ Len(queue[n]) \in Nat
        /\ queue'[n][Len(queue[n]) + 1] = pkt
        /\ \A i \in 1 .. Len(queue[n]) : queue'[n][i] = queue[n][i]
    <3>1. queue[n] \in Seq(Packet)
      BY <2>3
    <3> HIDE DEF pkt
    <3> QED
      BY <2>3, <2>5, <3>1
  <2> SUFFICES ASSUME NEW m \in Node, NEW r \in Req, NEW p \in Node, Owed(m, r, p)
               PROVE  Owed(m, r, p)'
    BY DEF OwedKept
  <2>7. CASE \E t \in Reader : IsReplica(rd[p][t].pkt, r)
    <3>1. PICK t \in Reader : IsReplica(rd[p][t].pkt, r)
      BY <2>7
    <3>2. CASE p = n /\ t = s
      <4>1. Len(queue[n]) + 1 \in 1 .. Len(queue'[p]) /\ IsReplica(queue'[p][Len(queue[n]) + 1], r)
        BY <2>6, <3>1, <3>2
      <4> QED
        BY <4>1 DEF Owed, UnderWay
    <3>3. CASE ~(p = n /\ t = s)
      <4>1. rd'[p][t] = rd[p][t]
        BY <2>4, <3>3 DEF ReaderSet
      <4> QED
        BY <3>1, <4>1 DEF Owed, UnderWay
    <3> QED
      BY <3>2, <3>3
  <2>8. CASE \E i \in 1 .. Len(queue[p]) : IsReplica(queue[p][i], r)
    <3>1. PICK i \in 1 .. Len(queue[p]) : IsReplica(queue[p][i], r)
      BY <2>8
    <3>2. i \in 1 .. Len(queue'[p]) /\ queue'[p][i] = queue[p][i]
      BY <2>5, <2>6
    <3> QED
      BY <3>1, <3>2 DEF Owed, UnderWay
  <2>9. CASE /\ ~ \E t \in Reader : IsReplica(rd[p][t].pkt, r)
             /\ ~ \E i \in 1 .. Len(queue[p]) : IsReplica(queue[p][i], r)
    BY <2>2, <2>9 DEF Owed, UnderWay
  <2> QED
    BY <2>7, <2>8, <2>9
<1>5. ASSUME NEW s \in Reader, EnqueuePanics(n, s) PROVE OwedKept
  BY <1>5 DEF EnqueuePanics, netVars, OwedKept, Owed, UnderWay
<1> QED
  BY <1>1, <1>3, <1>4, <1>5 DEF Reads

(* A worker's step can only end what the worker itself held.               *)
LEMMA WorkOwed ==
    ASSUME TypeInv, NEW n \in Node, NEW w \in Worker, NEW new, WorkerSet(n, w, new),
           net \subseteq net', UNCHANGED <<rd, queue>>, missed \subseteq missed',
           \A p \in Node : \A r \in Req : store[p][r] > 0 => store'[p][r] > 0,
           \A m \in Node : \A r \in Req :
               IsReplica(wk[n][w].pkt, r) /\ wk[n][w].pc \in PreAct => Owed(m, r, n)',
           \A r \in Req : \A p \in Node :
               wk[n][w].pkt.req = r /\ p \in wk[n][w].todo => Owed(n, r, p)'
    PROVE  OwedKept
<1> SUFFICES ASSUME NEW m \in Node, NEW r \in Req, NEW p \in Node, Owed(m, r, p)
             PROVE  Owed(m, r, p)'
  BY DEF OwedKept
<1>1. CASE \E v \in Worker : IsReplica(wk[p][v].pkt, r) /\ wk[p][v].pc \in PreAct
  <2>1. PICK v \in Worker : IsReplica(wk[p][v].pkt, r) /\ wk[p][v].pc \in PreAct
    BY <1>1
  <2>2. CASE p = n /\ v = w
    BY <2>1, <2>2
  <2>3. CASE ~(p = n /\ v = w)
    <3>1. wk'[p][v] = wk[p][v]
      BY <2>3 DEF WorkerSet
    <3> QED
      BY <2>1, <3>1 DEF Owed, UnderWay, PreAct
  <2> QED
    BY <2>2, <2>3
<1>2. CASE \E v \in Worker : wk[m][v].pkt.req = r /\ p \in wk[m][v].todo
  <2>1. PICK v \in Worker : wk[m][v].pkt.req = r /\ p \in wk[m][v].todo
    BY <1>2
  <2>2. CASE m = n /\ v = w
    BY <2>1, <2>2
  <2>3. CASE ~(m = n /\ v = w)
    <3>1. wk'[m][v] = wk[m][v]
      BY <2>3 DEF WorkerSet
    <3> QED
      BY <2>1, <3>1 DEF Owed
  <2> QED
    BY <2>2, <2>3
<1>3. CASE /\ ~ \E v \in Worker : IsReplica(wk[p][v].pkt, r) /\ wk[p][v].pc \in PreAct
           /\ ~ \E v \in Worker : wk[m][v].pkt.req = r /\ p \in wk[m][v].todo
  BY <1>3 DEF Owed, UnderWay, PreAct
<1> QED
  BY <1>1, <1>2, <1>3

LEMMA ReceiveOwed ==
    ASSUME TypeInv, NEW n \in Node, NEW w \in Worker, Receive(n, w)
    PROVE  OwedKept
<1> DEFINE pkt == Head(queue[n])
           new == St(IF pkt.cmd = "bad" THEN "sign" ELSE "hash", pkt,
                     IF pkt.cmd = "bad" THEN "error" ELSE "none", {})
<1>1. pkt \in Packet /\ WorkerOK(new) /\ wk' = [wk EXCEPT ![n][w] = new]
  BY ReceiveStep
<1>2. /\ UNCHANGED <<net, rd, store, missed>> /\ queue' = [queue EXCEPT ![n] = Tail(queue[n])]
      /\ queue[n] # <<>> /\ queue \in [Node -> Seq(Packet)] /\ wk[n][w].pc = "recv"
  BY DEF Receive, netVars, TypeInv, TypeOK
<1>3. ASSUME NEW r \in Req, IsReplica(pkt, r) PROVE IsReplica(new.pkt, r) /\ new.pc = "hash"
  BY <1>3 DEF IsReplica, St
<1>4. wk[n][w].pkt = NoPacket /\ wk[n][w].todo = {}
  BY <1>2, WorkerFields DEF WorkerOK
<1>5. queue[n] \in Seq(Packet) /\ queue'[n] = Tail(queue[n]) /\ Len(queue'[n]) = Len(queue[n]) - 1
      /\ pkt = queue[n][1] /\ Len(queue[n]) \in Nat
      /\ \A i \in 1 .. Len(queue'[n]) : queue'[n][i] = queue[n][i + 1]
  <2>1. queue[n] \in Seq(Packet) /\ queue'[n] = Tail(queue[n])
    BY <1>2
  <2> QED
    BY <1>2, <2>1, HeadTailProperties
<1> HIDE DEF new, pkt
<1>6. WorkerSet(n, w, new)
  BY <1>1, WorkerMoves
<1> SUFFICES ASSUME NEW m \in Node, NEW r \in Req, NEW p \in Node, Owed(m, r, p)
             PROVE  Owed(m, r, p)'
  BY DEF OwedKept
<1>7. CASE \E i \in 1 .. Len(queue[p]) : IsReplica(queue[p][i], r)
  <2>1. PICK i \in 1 .. Len(queue[p]) : IsReplica(queue[p][i], r)
    BY <1>7
  <2>2. CASE p # n
    <3>1. queue'[p] = queue[p]
      BY <1>2, <2>2
    <3> QED
      BY <2>1, <3>1 DEF Owed, UnderWay
  <2>3. CASE p = n /\ i = 1
    <3>1. IsReplica(wk'[p][w].pkt, r) /\ wk'[p][w].pc = "hash"
      BY <1>3, <1>5, <1>6, <2>1, <2>3 DEF WorkerSet
    <3> QED
      BY <3>1 DEF Owed, UnderWay
  <2>4. CASE p = n /\ i # 1
    <3>1. i - 1 \in 1 .. Len(queue'[p]) /\ queue'[p][i - 1] = queue[p][i]
      <4>1. i \in 1 .. Len(queue[n]) /\ i # 1
        BY <2>4
      <4>2. i - 1 \in 1 .. Len(queue[n]) - 1 /\ (i - 1) + 1 = i
        BY <1>5, <4>1
      <4> QED
        BY <1>5, <2>4, <4>2
    <3> QED
      BY <2>1, <3>1 DEF Owed, UnderWay
  <2> QED
    BY <2>2, <2>3, <2>4
<1>8. CASE \E v \in Worker : IsReplica(wk[p][v].pkt, r) /\ wk[p][v].pc \in PreAct
  <2>1. PICK v \in Worker : IsReplica(wk[p][v].pkt, r) /\ wk[p][v].pc \in PreAct
    BY <1>8
  <2>2. wk'[p][v] = wk[p][v]
    BY <1>4, <1>6, <2>1, NoReplica DEF WorkerSet
  <2> QED
    BY <2>1, <2>2 DEF Owed, UnderWay, PreAct
<1>9. CASE \E v \in Worker : wk[m][v].pkt.req = r /\ p \in wk[m][v].todo
  <2>1. PICK v \in Worker : wk[m][v].pkt.req = r /\ p \in wk[m][v].todo
    BY <1>9
  <2>2. wk'[m][v] = wk[m][v]
    BY <1>4, <1>6, <2>1 DEF WorkerSet
  <2> QED
    BY <2>1, <2>2 DEF Owed
<1>10. CASE /\ ~ \E i \in 1 .. Len(queue[p]) : IsReplica(queue[p][i], r)
            /\ ~ \E v \in Worker : IsReplica(wk[p][v].pkt, r) /\ wk[p][v].pc \in PreAct
            /\ ~ \E v \in Worker : wk[m][v].pkt.req = r /\ p \in wk[m][v].todo
  BY <1>2, <1>10 DEF Owed, UnderWay, PreAct
<1> QED
  BY <1>7, <1>8, <1>9, <1>10

LEMMA WorkerOwed ==
    ASSUME TypeInv, NEW n \in Node, NEW w \in Worker, Works(n, w)
    PROVE  OwedKept
<1> DEFINE me == wk[n][w]
<1>0. WorkerOK(me)
  BY DEF TypeInv
<1>1. ASSUME NEW new, WorkerSet(n, w, new), new.pkt.req = me.pkt.req, new.todo = me.todo,
             net \subseteq net', UNCHANGED <<rd, queue, store, missed>>,
             me.pc \in PreAct => new.pc \in PreAct /\ new.pkt = me.pkt
      PROVE  OwedKept
  <2>1. wk'[n][w] = new
    BY <1>1 DEF WorkerSet
  <2>2. ASSUME NEW m \in Node, NEW r \in Req, IsReplica(me.pkt, r), me.pc \in PreAct
        PROVE  Owed(m, r, n)'
    BY <1>1, <2>1, <2>2 DEF Owed, UnderWay, PreAct
  <2>3. ASSUME NEW r \in Req, NEW p \in Node, me.pkt.req = r, p \in me.todo PROVE Owed(n, r, p)'
    BY <1>1, <2>1, <2>3 DEF Owed
  <2> QED
    BY <1>1, <2>2, <2>3, WorkOwed
<1>2. CASE ValidateHash(n, w) \/ Sign(n, w) \/ Resign(n, w) \/ WorkerExits(n, w)
  <2> DEFINE pc == CASE me.pc = "hash" -> "check"
                     [] me.pc = "sign" -> "answer"
                     [] me.pc = "resign" -> "copy"
                     [] me.pc = "recv" -> "exit"
             new == St(pc, me.pkt, me.res, me.todo)
  <2>1. /\ me.pc \in {"hash", "sign", "resign", "recv"}
        /\ WorkerOK(new) /\ wk' = [wk EXCEPT ![n][w] = new]
    BY <1>2, PcStep
  <2>2. UNCHANGED <<net, rd, queue, store, missed>>
    BY <1>2 DEF ValidateHash, Sign, Resign, WorkerExits, netVars
  <2>3. /\ new.pkt = me.pkt /\ new.todo = me.todo
        /\ me.pc \in PreAct => new.pc \in PreAct
    BY <2>1 DEF St, PreAct
  <2> HIDE DEF new
  <2>4. WorkerSet(n, w, new)
    BY <2>1, WorkerMoves
  <2> QED
    BY <1>1, <2>2, <2>3, <2>4
<1>3. CASE ValidateCheck(n, w)
  <2> DEFINE ok == Accepts(n, me.pkt)
             new == St(IF ok THEN "act" ELSE "sign", me.pkt, IF ok THEN "none" ELSE "auth", {})
  <2>1. me.pc = "check" /\ WorkerOK(new) /\ wk' = [wk EXCEPT ![n][w] = new]
    BY <1>3, CheckStep
  <2>2. /\ UNCHANGED <<net, rd, queue, store>>
        /\ missed' = IF ~ok /\ me.pkt.cmd = "R" THEN missed \cup {<<me.pkt.req, n>>} ELSE missed
    BY <1>3 DEF ValidateCheck
  <2> HIDE DEF ok
  <2>3. me.todo = {} /\ new.pkt = me.pkt /\ (ok => new.pc = "act")
    BY <1>0, <2>1 DEF WorkerOK, PreAct, St
  <2> HIDE DEF new
  <2>4. WorkerSet(n, w, new)
    BY <2>1, WorkerMoves
  <2>5. ASSUME NEW m \in Node, NEW r \in Req, IsReplica(me.pkt, r) PROVE Owed(m, r, n)'
    <3>1. CASE ok
      <4>1. IsReplica(wk'[n][w].pkt, r) /\ wk'[n][w].pc = "act"
        BY <2>3, <2>4, <2>5, <3>1 DEF WorkerSet
      <4> QED
        BY <4>1 DEF Owed, UnderWay
    <3>2. CASE ~ok
      <4>1. <<r, n>> \in missed'
        BY <2>2, <2>5, <3>2 DEF IsReplica
      <4> QED
        BY <4>1 DEF Owed
    <3> QED
      BY <3>1, <3>2
  <2> QED
    BY <2>2, <2>3, <2>4, <2>5, WorkOwed
<1>4. CASE Act(n, w)
  <2> DEFINE pkt == me.pkt
             new == IF pkt.cmd = "R" THEN Idle
                    ELSE St("sign", pkt, IF pkt.cmd = "E" THEN "error" ELSE "ok",
                            IF pkt.cmd = "P" THEN Peers(n) ELSE {})
  <2>1. me.pc = "act" /\ pkt \in Packet /\ WorkerOK(new) /\ wk' = [wk EXCEPT ![n][w] = new]
    BY <1>4, ActStep
  <2>2. UNCHANGED <<net, rd, queue, missed>>
    BY <1>4 DEF Act, netVars
  <2>3. store \in [Node -> [Req -> Nat]] /\ pkt.req \in Req /\ me.todo = {}
    BY <1>0, <2>1 DEF TypeInv, TypeOK, Packet, WorkerOK, PreAct
  <2>4. \A p \in Node : \A r \in Req : store[p][r] > 0 => store'[p][r] > 0
    BY <1>4, <2>3 DEF Act
  <2>5. ASSUME NEW m \in Node, NEW r \in Req, IsReplica(pkt, r) PROVE Owed(m, r, n)'
    <3>1. store' = [store EXCEPT ![n][r] = store[n][r] + 1]
      BY <1>4, <2>5 DEF Act, IsReplica
    <3>2. store'[n][r] > 0
      BY <2>3, <3>1
    <3> QED
      BY <3>2 DEF Owed
  <2> HIDE DEF new
  <2>6. WorkerSet(n, w, new)
    BY <2>1, WorkerMoves
  <2> QED
    BY <2>2, <2>3, <2>4, <2>5, <2>6, WorkOwed
<1>5. CASE Answer(n, w) \/ AnswerFails(n, w)
  <2> DEFINE new == IF me.todo = {} THEN Idle ELSE St("resign", me.pkt, me.res, me.todo)
  <2>1. me.pc = "answer" /\ WorkerOK(new) /\ wk' = [wk EXCEPT ![n][w] = new]
    BY <1>5, AnswerStep
  <2>2. UNCHANGED <<rd, queue, store, missed>> /\ net \subseteq net'
    BY <1>5 DEF Answer, AnswerFails, netVars
  <2>3. me.todo # {} => new.pkt.req = me.pkt.req /\ new.todo = me.todo
    BY DEF St
  <2> HIDE DEF new
  <2>4. WorkerSet(n, w, new)
    BY <2>1, WorkerMoves
  <2>5. ASSUME NEW r \in Req, NEW p \in Node, me.pkt.req = r, p \in me.todo PROVE Owed(n, r, p)'
    <3>1. wk'[n][w].pkt.req = r /\ p \in wk'[n][w].todo
      BY <2>3, <2>4, <2>5 DEF WorkerSet
    <3> QED
      BY <3>1 DEF Owed
  <2>6. me.pc \notin PreAct
    BY <2>1 DEF PreAct
  <2> QED
    BY <2>2, <2>4, <2>5, <2>6, WorkOwed
<1>6. CASE ResignCopy(n, w)
  <2> DEFINE pkt == [me.pkt EXCEPT !.hash = Hash(n, me.pkt.req)]
             new == St("publish", pkt, me.res, me.todo)
  <2>1. /\ me.pc = "copy" /\ pkt.req = me.pkt.req
        /\ WorkerOK(new) /\ wk' = [wk EXCEPT ![n][w] = new]
    BY <1>6, CopyStep
  <2> HIDE DEF pkt
  <2>2. UNCHANGED <<net, rd, queue, store, missed>>
    BY <1>6 DEF ResignCopy, netVars
  <2>3. new.pkt.req = me.pkt.req /\ new.todo = me.todo /\ me.pc \notin PreAct
    BY <2>1 DEF St, PreAct
  <2> HIDE DEF new
  <2>4. WorkerSet(n, w, new)
    BY <2>1, WorkerMoves
  <2> QED
    BY <1>1, <2>2, <2>3, <2>4
<1>7. ASSUME NEW q \in Node, Publish(n, w, q) PROVE OwedKept
  <2> DEFINE new == IF me.todo = {q} THEN Idle ELSE St("publish", me.pkt, me.res, me.todo \ {q})
             rep == Replica(n, me.pkt)
  <2>1. me.pc = "publish" /\ q \in me.todo /\ me.pkt \in Packet /\ WorkerOK(new) /\ Move(n, w, new)
    BY <1>7, PublishStep
  <2>2. UNCHANGED <<rd, queue, store, missed>> /\ net' = net \cup {[to |-> q, pkt |-> rep]}
    BY <1>7 DEF Publish
  <2>3. ASSUME NEW p \in me.todo, p # q PROVE new.pkt.req = me.pkt.req /\ p \in new.todo
    BY <2>3 DEF St
  <2>4. \A r \in Req : me.pkt.req = r => IsReplica(rep, r)
    BY DEF IsReplica, Replica
  <2> HIDE DEF new, rep
  <2>5. WorkerSet(n, w, new)
    BY <2>1, WorkerMoves DEF Move
  <2>6. ASSUME NEW r \in Req, NEW p \in Node, me.pkt.req = r, p \in me.todo PROVE Owed(n, r, p)'
    <3>1. CASE p = q
      <4>1. \E k \in net' : k.to = p /\ IsReplica(k.pkt, r)
        <5> DEFINE k == [to |-> q, pkt |-> rep]
        <5>1. k \in net' /\ k.to = p /\ k.pkt = rep
          BY <2>2, <3>1
        <5> HIDE DEF k
        <5> QED
          BY <2>4, <2>6, <5>1
      <4> QED
        BY <4>1 DEF Owed, UnderWay
    <3>2. CASE p # q
      <4>1. wk'[n][w].pkt.req = r /\ p \in wk'[n][w].todo
        BY <2>3, <2>5, <2>6, <3>2 DEF WorkerSet
      <4> QED
        BY <4>1 DEF Owed
    <3> QED
      BY <3>1, <3>2
  <2>7. me.pc \notin PreAct
    BY <2>1 DEF PreAct
  <2> QED
    BY <2>2, <2>5, <2>6, <2>7, WorkOwed
<1>8. CASE PublishFails(n, w)
  <2>1. me.pc = "publish" /\ wk' = [wk EXCEPT ![n][w] = Idle] /\ WorkerOK(Idle)
    BY <1>8, PublishFailsStep, Distinct
  <2>2. /\ UNCHANGED <<net, rd, queue, store>>
        /\ missed' = missed \cup {<<me.pkt.req, p>> : p \in me.todo}
    BY <1>8 DEF PublishFails
  <2>3. WorkerSet(n, w, Idle)
    BY <2>1, WorkerMoves
  <2>4. ASSUME NEW r \in Req, NEW p \in Node, me.pkt.req = r, p \in me.todo PROVE Owed(n, r, p)'
    BY <2>2, <2>4 DEF Owed
  <2>5. me.pc \notin PreAct
    BY <2>1 DEF PreAct
  <2> QED
    BY <2>2, <2>3, <2>4, <2>5, WorkOwed
<1> QED
  BY <1>2, <1>3, <1>4, <1>5, <1>6, <1>7, <1>8, ReceiveOwed DEF Works

LEMMA NodeOwed ==
    ASSUME TypeInv, "clear" \notin May, NEW n \in Node,
           AcceptFails(n) \/ Close(n) \/ Clear(n) \/ UNCHANGED vars
    PROVE  OwedKept
<1>1. UNCHANGED <<net, queue, rd, wk, store, missed>>
  BY DEF AcceptFails, Close, Clear, vars, netVars
<1> QED
  BY <1>1 DEF OwedKept, Owed, UnderWay

(* The answers: only a worker gives one, and to a Put before it writes to  *)
(* the peers.                                                              *)
LEMMA AnswerAccount ==
    ASSUME TypeInv, KeyInv, NEW n \in Node, NEW w \in Worker, Answer(n, w), NEW r \in Req,
           <<r, "P", "ok">> \in answers', <<r, "P", "ok">> \notin answers
    PROVE  sent'[r].at = n /\ \A p \in Node : p # n => Owed(n, r, p)'
<1> DEFINE me == wk[n][w]
           new == IF me.todo = {} THEN Idle ELSE St("resign", me.pkt, me.res, me.todo)
<1>1. me.pc = "answer" /\ WorkerOK(new) /\ wk' = [wk EXCEPT ![n][w] = new]
  BY AnswerStep
<1>2. me.pkt.req = r /\ me.pkt.cmd = "P" /\ me.res = "ok" /\ UNCHANGED sent
  BY DEF Answer
<1>3. me.todo = Peers(n) /\ sent[r].at = n
  BY <1>1, <1>2 DEF KeyInv, WorkersOrigin, WorkerOrigin
<1>4. me.todo # {} => new.pkt = me.pkt /\ new.todo = me.todo
  BY DEF St
<1> HIDE DEF new
<1>5. WorkerSet(n, w, new)
  BY <1>1, WorkerMoves
<1>6. ASSUME NEW p \in Node, p # n PROVE Owed(n, r, p)'
  <2>1. p \in me.todo
    BY <1>3, <1>6 DEF Peers
  <2>2. wk'[n][w].pkt.req = r /\ p \in wk'[n][w].todo
    BY <1>2, <1>4, <1>5, <2>1 DEF WorkerSet
  <2> QED
    BY <2>2 DEF Owed
<1> QED
  BY <1>2, <1>3, <1>6

(* Any other step gives no answer, and keeps what is accounted for.        *)
LEMMA KeptAccount ==
    ASSUME TypeInv, AccountInv, OwedKept, SentGrows, NEW n \in Node,
           \A r \in Req : <<r, "P", "ok">> \in answers' =>
               \/ <<r, "P", "ok">> \in answers
               \/ sent'[r].at = n /\ \A p \in Node : p # n => Owed(n, r, p)'
    PROVE  AccountInv'
<1> SUFFICES ASSUME NEW r \in Req, <<r, "P", "ok">> \in answers'
             PROVE  sent'[r].at \in Node
                    /\ \A p \in Node : p # sent'[r].at => Owed(sent[r].at, r, p)'
  BY DEF AccountInv
<1>1. PICK m \in Node : sent'[r].at = m /\ \A p \in Node : p # m => Owed(m, r, p)'
  <2>1. CASE <<r, "P", "ok">> \in answers
    <3>1. PICK m \in Node : m = sent[r].at /\ \A p \in Node : p # m => Owed(m, r, p)
      BY <2>1 DEF AccountInv
    <3>2. sent'[r].at = m
      BY <3>1 DEF SentGrows
    <3> QED
      BY <3>1, <3>2 DEF OwedKept
  <2>2. CASE <<r, "P", "ok">> \notin answers
    BY <2>2
  <2> QED
    BY <2>1, <2>2
<1>2. ASSUME NEW p \in Node, p # m PROVE Owed(sent[r].at, r, p)'
  BY <1>1, <1>2 DEF Owed
<1> QED
  BY <1>1, <1>2

LEMMA StepAccount ==
    ASSUME "clear" \notin May
    PROVE  TypeInv /\ KeyInv /\ AccountInv /\ [Next]_vars => AccountInv'
<1> SUFFICES ASSUME TypeInv, KeyInv, AccountInv, [Next]_vars PROVE AccountInv'
  OBVIOUS
<1>1. CASE UNCHANGED vars
  BY <1>1 DEF vars, AccountInv, Owed, UnderWay
<1>2. ASSUME NEW n \in Node, Step(n) PROVE AccountInv'
  <2>1. OwedKept
    BY <1>2, ClientOwed, ReadOwed, NodeOwed, WorkerOwed DEF Step
  <2>2. CASE \E w \in Worker : Answer(n, w)
    <3>1. PICK w \in Worker : Answer(n, w)
      BY <2>2
    <3>2. SentGrows
      BY <3>1 DEF Answer, SentGrows
    <3> QED
      BY <2>1, <3>1, <3>2, AnswerAccount, KeptAccount
  <2>3. CASE ~ \E w \in Worker : Answer(n, w)
    <3>1. SentGrows /\ UNCHANGED answers
      <4>1. CASE \E r \in Req :
                    \/ HttpPut(n, r)
                    \/ \E cmd \in Cmd, hash \in {r, NoReq} :
                         \/ SendUDP(r, n, cmd, hash)
                         \/ \E c \in Conn : ReadTCP(n, c, r, cmd, hash)
        <5>1. PICK r \in Req : \E cmd \in Cmd \cup {"http"} : \E hash \in {r, NoReq} :
                      Sends(r, n, cmd, hash) /\ UNCHANGED answers
          BY <4>1 DEF HttpPut, SendUDP, ReadTCP
        <5> QED
          BY <5>1, SendsOrigin
      <4>2. CASE UNCHANGED <<sent, answers>>
        BY <4>2 DEF SentGrows
      <4>3. CASE \E w \in Worker : Works(n, w)
        BY <2>3, <4>2, <4>3 DEF Works, Receive, WorkerExits, ValidateHash, ValidateCheck, Act, Sign,
              AnswerFails, Resign, ResignCopy, PublishFails, Publish, netVars
      <4> QED
        BY <1>2, <4>1, <4>2, <4>3 DEF Step, ReadUDP, ReadFails, AcceptFails, Accept, HangUp, Reads,
              Enqueue, EnqueuePanics, Close, Clear, netVars
    <3> QED
      BY <2>1, <3>1, KeptAccount
  <2> QED
    BY <2>2, <2>3
<1> QED
  BY <1>1, <1>2 DEF Next, Step

(* When a client was told that its Put succeeded, every peer of the server *)
(* has applied it, or a replica is under way to it, or the worker still    *)
(* has to write it, or it was lost in one of two ways: a write failed, or  *)
(* the peer refused the hash.  Clear, which empties a store, is called by  *)
(* unit tests only.                                                        *)
THEOREM ReplicasAccounted == "clear" \notin May => (Spec => []ReplicaAccounted)
<1> SUFFICES ASSUME "clear" \notin May PROVE Spec => []ReplicaAccounted
  OBVIOUS
<1>1. Init => AccountInv
  BY DEF Init, AccountInv
<1>2. TypeInv /\ KeyInv /\ AccountInv /\ [Next]_vars => AccountInv'
  BY StepAccount
<1>3. AccountInv => ReplicaAccounted
  BY DEF AccountInv, ReplicaAccounted, Owed
<1> QED
  BY <1>1, <1>2, <1>3, Keyed, PTL DEF Spec
=============================================================================
