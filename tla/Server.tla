------------------------------- MODULE Server -------------------------------
(***************************************************************************)
(* server/server.go with server/restserver.go and the hashing of package   *)
(* protocol: servers that replicate Puts to each other.                    *)
(*                                                                         *)
(* In each server one goroutine reads UDP packets and one per connection   *)
(* reads TCP messages; all put what they read on a bounded channel, from   *)
(* which workers take it, check its hash, act, answer and republish.       *)
(* Close takes a server down in steps of its own.                          *)
(*                                                                         *)
(* The store is abstract here (module Store has it): how often each Put    *)
(* was applied.  A message id and the request that has it are the same.    *)
(***************************************************************************)
EXTENDS Naturals, Sequences, FiniteSets

CONSTANTS Node,         \* servers, each the others' peer
          Down,         \* those of them that are not running
          NoNode,       \* the sender of a packet is a client
          Req,          \* requests made by clients
          NoReq,        \* no request
          Conn,         \* TCP connections a client may make to each server
          Udp,          \* the reader of UDP packets, beside those of the connections
          Worker,       \* goroutines that run worker(), in each server
          Cap,          \* capacity of messageProcessing (NumCPU)
          Cmd,          \* the commands clients send in an instance
          SpareKey,     \* the key is short (1 to 4 bytes): its slice has room for a
                        \* message id behind it, and the hash covers that id
          May           \* what may happen: "close" (Close is called), "clear" (Clear
                        \* is called), "fail" (WriteToUDP fails on an open socket)

(* P, R: CmdPut, CmdPutReplicate; C: any command that reads the store; E:  *)
(* ResError and other commands that are no requests; bad: fails to parse.  *)
Commands == {"P", "R", "C", "E", "bad"}

(* setupWorkers starts one worker more than the channel has places.        *)
ASSUME ServerAssumption ==
    /\ Down \subseteq Node /\ NoNode \notin Node /\ NoReq \notin Req /\ Udp \notin Conn
    /\ Cap \in Nat \ {0} /\ IsFiniteSet(Worker) /\ Cardinality(Worker) = Cap + 1
    /\ Cmd \subseteq {"P", "C", "bad"}
    /\ SpareKey \in BOOLEAN /\ May \subseteq {"close", "clear", "fail"}

VARIABLES
    sent,     \* history: how each request was sent: to which server, command, hash
    net,      \* UDP packets under way to servers
    queue,    \* of each server: Server.messageProcessing
    rd,       \* of each server: its readers
    accepting,\* of each server: ReadTCPFrames is in its loop
    wk,       \* of each server: its workers
    spare,    \* of each server: the bytes behind the key, in the key's array
    store,    \* of each server: how often it applied the Put of each request
    closing,  \* of each server: how far Close has got
    crashed,  \* the servers that panicked or are down
    answers,  \* history: what clients were answered
    missed    \* history: <<request, peer>> that were given up or refused

netVars == <<sent, net, answers, missed>>
vars == <<sent, net, queue, rd, accepting, wk, spare, store, closing, crashed, answers, missed>>

Id == Req \cup {NoReq}
Reader == Conn \cup {Udp}

(* hash: r is what the servers' key gives for the packet of request r,     *)
(* NoReq is any value that it gives for no packet.  A hash is the first 8  *)
(* bytes of key, id, namespace and data (Protocol!HashPacket), so a client *)
(* with another key that has these bytes in common with the servers' sends *)
(* the hash r as well.  from: who is answered.  via: the reader it came by.*)
Packet == [req : Req, cmd : Commands, hash : Id, from : Node \cup {NoNode}, via : Reader]

NoPacket == [req |-> NoReq, cmd |-> "bad", hash |-> NoReq, from |-> NoNode, via |-> Udp]

Idle == [pc |-> "recv", pkt |-> NoPacket, res |-> "none", todo |-> {}]

(* Close sets disposed, closes the UDP socket, the TCP listener and, after *)
(* DisableCleanup, the channel.                                            *)
Disposed(n) == closing[n] >= 1
SocketClosed(n) == closing[n] >= 2
ListenerClosed(n) == closing[n] >= 3
ChannelClosed(n) == closing[n] = 4

(* NewServerWithPeers leaves the server itself out, by comparing strings.  *)
(* It is assumed of the configuration that a server's own address is       *)
(* written the same way in both places and that no peer is listed twice.   *)
PeersAndSelf(n) == Node
Peers(n) == Node \ {n}

(* NewServer and Listen.                                                   *)
Init ==
    /\ sent = [r \in Req |-> [at |-> NoNode, cmd |-> "bad", hash |-> NoReq]]
    /\ net = {}
    /\ queue = [n \in Node |-> <<>>]
    /\ rd = [n \in Node |-> [s \in Reader |->
                [pc |-> IF s = Udp THEN "read" ELSE "none", pkt |-> NoPacket]]]
    /\ accepting = [n \in Node |-> TRUE]
    /\ wk = [n \in Node |-> [w \in Worker |-> Idle]]
    /\ spare = [n \in Node |-> NoReq]
    /\ store = [n \in Node |-> [r \in Req |-> 0]]
    /\ closing = [n \in Node |-> 0]
    /\ crashed = Down /\ answers = {} /\ missed = {}

Move(n, w, new) == wk' = [wk EXCEPT ![n][w] = new]

-----------------------------------------------------------------------------
(* A client makes each request once, to one server.                        *)
Sends(r, n, cmd, hash) ==
    /\ sent[r].at = NoNode
    /\ sent' = [sent EXCEPT ![r] = [at |-> n, cmd |-> cmd, hash |-> hash]]

(* External: a client sends a UDP packet, with the right hash or a wrong   *)
(* one.                                                                    *)
SendUDP(r, n, cmd, hash) ==
    /\ Sends(r, n, cmd, hash)
    /\ net' = net \cup {[to |-> n, pkt |-> [req |-> r, cmd |-> cmd, hash |-> hash,
                                            from |-> NoNode, via |-> Udp]]}
    /\ UNCHANGED <<queue, rd, accepting, wk, spare, store, closing, crashed, answers, missed>>

(* readUDPFrames reads a packet, ends when the read fails ...              *)
ReadUDP(n, m) ==
    /\ m.to = n /\ rd[n][Udp].pc = "read" /\ ~SocketClosed(n)
    /\ net' = net \ {m}
    /\ rd' = [rd EXCEPT ![n][Udp] = [pc |-> "send", pkt |-> m.pkt]]
    /\ UNCHANGED <<sent, queue, accepting, wk, spare, store, closing, crashed, answers, missed>>

ReadFails(n) ==
    /\ rd[n][Udp].pc = "read" /\ SocketClosed(n)
    /\ rd' = [rd EXCEPT ![n][Udp].pc = "exit"]
    /\ UNCHANGED <<queue, accepting, wk, spare, store, closing, crashed, netVars>>

(* ReadTCPFrames starts handleTCPConnection for each connection ...        *)
Accept(n, c) ==
    /\ accepting[n] /\ ~ListenerClosed(n) /\ rd[n][c].pc = "none"
    /\ rd' = [rd EXCEPT ![n][c].pc = "read"]
    /\ accepting' = [accepting EXCEPT ![n] = ~Disposed(n)]
    /\ UNCHANGED <<queue, wk, spare, store, closing, crashed, netVars>>

AcceptFails(n) ==
    /\ accepting[n] /\ ListenerClosed(n)
    /\ accepting' = [accepting EXCEPT ![n] = FALSE]
    /\ UNCHANGED <<queue, rd, wk, spare, store, closing, crashed, netVars>>

(* ... which reads a message that the client wrote (ReadOneTcpMessage), or *)
(* ends when the client hangs up.  Close does not end it.                  *)
ReadTCP(n, c, r, cmd, hash) ==
    /\ Sends(r, n, cmd, hash) /\ rd[n][c].pc = "read"
    /\ rd' = [rd EXCEPT ![n][c] = [pc |-> "send",
                pkt |-> [req |-> r, cmd |-> cmd, hash |-> hash, from |-> NoNode, via |-> c]]]
    /\ UNCHANGED <<net, queue, accepting, wk, spare, store, closing, crashed, answers, missed>>

HangUp(n, c) ==
    /\ rd[n][c].pc = "read"
    /\ rd' = [rd EXCEPT ![n][c].pc = "exit"]
    /\ UNCHANGED <<queue, accepting, wk, spare, store, closing, crashed, netVars>>

(* ... and all send it to the workers, blocking while the channel is full, *)
(* and go on reading, the UDP reader unless disposed.                      *)
HasRoomOffByOne(n) == Len(queue[n]) <= Cap
HasRoom(n) == Len(queue[n]) < Cap

AfterEnqueue(n, s) ==
    [pc |-> IF s = Udp /\ Disposed(n) THEN "exit" ELSE "read", pkt |-> NoPacket]

EnqueueDrops(n, s) ==
    /\ rd[n][s].pc = "send" /\ ~ChannelClosed(n)
    /\ queue' = IF HasRoom(n) THEN [queue EXCEPT ![n] = Append(queue[n], rd[n][s].pkt)] ELSE queue
    /\ rd' = [rd EXCEPT ![n][s] = AfterEnqueue(n, s)]
    /\ UNCHANGED <<accepting, wk, spare, store, closing, crashed, netVars>>
Enqueue(n, s) ==
    /\ rd[n][s].pc = "send" /\ ~ChannelClosed(n) /\ HasRoom(n)
    /\ queue' = [queue EXCEPT ![n] = Append(queue[n], rd[n][s].pkt)]
    /\ rd' = [rd EXCEPT ![n][s] = AfterEnqueue(n, s)]
    /\ UNCHANGED <<accepting, wk, spare, store, closing, crashed, netVars>>

(* A send on a closed channel panics.                                      *)
EnqueuePanics(n, s) ==
    /\ rd[n][s].pc = "send" /\ ChannelClosed(n)
    /\ crashed' = crashed \cup {n}
    /\ UNCHANGED <<queue, rd, accepting, wk, spare, store, closing, netVars>>

-----------------------------------------------------------------------------
(* HashPacket appends the message id to the slice of the key.  If it has   *)
(* spare capacity the id is written behind the key, to an array that all   *)
(* workers of the server share; the next append copies the array.  The     *)
(* hash is the first 8 bytes of the result: with a key of 8 bytes or more  *)
(* it has nothing of the id, and what the workers write does not matter;   *)
(* one of 5 to 7 bytes has no room for an id.                              *)
AppendId(n, r) == spare' = [spare EXCEPT ![n] = IF SpareKey THEN r ELSE NoReq]
Hash(n, r) == IF SpareKey THEN spare[n] ELSE r

(* worker: the next message, or the end of a closed and empty channel.     *)
Receive(n, w) ==
    /\ wk[n][w].pc = "recv" /\ queue[n] # <<>>
    /\ queue' = [queue EXCEPT ![n] = Tail(queue[n])]
    /\ LET pkt == Head(queue[n]) IN
       Move(n, w, [pc |-> IF pkt.cmd = "bad" THEN "sign" ELSE "hash", pkt |-> pkt,
                   res |-> IF pkt.cmd = "bad" THEN "error" ELSE "none", todo |-> {}])
    /\ UNCHANGED <<rd, accepting, spare, store, closing, crashed, netVars>>

WorkerExitsEarly(n, w) ==
    /\ wk[n][w].pc = "recv" /\ ChannelClosed(n)
    /\ wk' = [wk EXCEPT ![n][w].pc = "exit"]
    /\ UNCHANGED <<queue, rd, accepting, spare, store, closing, crashed, netVars>>
WorkerExits(n, w) ==
    /\ wk[n][w].pc = "recv" /\ queue[n] = <<>> /\ ChannelClosed(n)
    /\ wk' = [wk EXCEPT ![n][w].pc = "exit"]
    /\ UNCHANGED <<queue, rd, accepting, spare, store, closing, crashed, netVars>>

(* Validate: hash the packet ...                                           *)
ValidateHash(n, w) ==
    /\ wk[n][w].pc = "hash"
    /\ AppendId(n, wk[n][w].pkt.req)
    /\ wk' = [wk EXCEPT ![n][w].pc = "check"]
    /\ UNCHANGED <<queue, rd, accepting, store, closing, crashed, netVars>>

(* ... and compare.  It is the hash that decides, not the key it was made  *)
(* with.                                                                   *)
AcceptsAll(n, pkt) == TRUE
Accepts(n, pkt) == pkt.hash = Hash(n, pkt.req)

ValidateCheck(n, w) ==
    LET pkt == wk[n][w].pkt
        ok == Accepts(n, pkt)
    IN
    /\ wk[n][w].pc = "check"
    /\ wk' = [wk EXCEPT ![n][w].pc = IF ok THEN "act" ELSE "sign",
                        ![n][w].res = IF ok THEN "none" ELSE "auth"]
    /\ missed' = IF ~ok /\ pkt.cmd = "R" THEN missed \cup {<<pkt.req, n>>} ELSE missed
    /\ UNCHANGED <<sent, net, queue, rd, accepting, spare, store, closing, crashed, answers>>

(* The command: Puts are applied, and a client's is republished after the  *)
(* answer; a replicated one is not answered.                               *)
NeverSilent(pkt) == FALSE
Silent(pkt) == pkt.cmd = "R"

Act(n, w) ==
    LET pkt == wk[n][w].pkt IN
    /\ wk[n][w].pc = "act"
    /\ store' = IF pkt.cmd \in {"P", "R"} THEN [store EXCEPT ![n][pkt.req] = store[n][pkt.req] + 1] ELSE store
    /\ Move(n, w, IF Silent(pkt) THEN Idle
                  ELSE [pc |-> "sign", pkt |-> pkt, res |-> IF pkt.cmd = "E" THEN "error" ELSE "ok",
                        todo |-> IF pkt.cmd = "P" THEN Peers(n) ELSE {}])
    /\ UNCHANGED <<queue, rd, accepting, spare, closing, crashed, netVars>>

(* respond: hash the answer (NewPacketFromParts) ...                       *)
Sign(n, w) ==
    /\ wk[n][w].pc = "sign"
    /\ AppendId(n, wk[n][w].pkt.req)
    /\ wk' = [wk EXCEPT ![n][w].pc = "answer"]
    /\ UNCHANGED <<queue, rd, accepting, store, closing, crashed, netVars>>

(* ... and write it, to a connection, a client or a server.                *)
Writable(n, via) == IF via = Udp THEN ~SocketClosed(n) ELSE rd[n][via].pc # "exit"

AfterAnswer(n, w) ==
    IF wk[n][w].todo = {} THEN Idle ELSE [wk[n][w] EXCEPT !.pc = "resign"]

Answer(n, w) ==
    LET me == wk[n][w]
        reply == [req |-> me.pkt.req, cmd |-> "E", hash |-> Hash(n, me.pkt.req),
                  from |-> n, via |-> Udp]
    IN
    /\ me.pc = "answer" /\ Writable(n, me.pkt.via)
    /\ IF me.pkt.from = NoNode
       THEN answers' = answers \cup {<<me.pkt.req, me.pkt.cmd, me.res>>} /\ net' = net
       ELSE answers' = answers /\ net' = net \cup {[to |-> me.pkt.from, pkt |-> reply]}
    /\ Move(n, w, AfterAnswer(n, w))
    /\ UNCHANGED <<sent, queue, rd, accepting, spare, store, closing, crashed, missed>>

AnswerFails(n, w) ==
    /\ wk[n][w].pc = "answer"
    /\ "fail" \in May \/ ~Writable(n, wk[n][w].pkt.via)
    /\ Move(n, w, AfterAnswer(n, w))
    /\ UNCHANGED <<queue, rd, accepting, spare, store, closing, crashed, netVars>>

(* republish: hash the packet again (SetHash) ...                          *)
Resign(n, w) ==
    /\ wk[n][w].pc = "resign"
    /\ AppendId(n, wk[n][w].pkt.req)
    /\ wk' = [wk EXCEPT ![n][w].pc = "copy"]
    /\ UNCHANGED <<queue, rd, accepting, store, closing, crashed, netVars>>

ResignCopy(n, w) ==
    /\ wk[n][w].pc = "copy"
    /\ Move(n, w, [wk[n][w] EXCEPT !.pc = "publish", !.pkt.hash = Hash(n, wk[n][w].pkt.req)])
    /\ UNCHANGED <<queue, rd, accepting, spare, store, closing, crashed, netVars>>

(* ... and write it to the peers, until a write fails.                     *)
Replica(n, pkt) == [req |-> pkt.req, cmd |-> "R", hash |-> pkt.hash, from |-> n, via |-> Udp]

Publish(n, w, p) ==
    LET me == wk[n][w] IN
    /\ me.pc = "publish" /\ p \in me.todo /\ ~SocketClosed(n)
    /\ net' = net \cup {[to |-> p, pkt |-> Replica(n, me.pkt)]}
    /\ Move(n, w, IF me.todo = {p} THEN Idle ELSE [me EXCEPT !.todo = me.todo \ {p}])
    /\ UNCHANGED <<sent, queue, rd, accepting, spare, store, closing, crashed, answers, missed>>

PublishFails(n, w) ==
    LET me == wk[n][w] IN
    /\ me.pc = "publish" /\ ("fail" \in May \/ SocketClosed(n))
    /\ missed' = missed \cup {<<me.pkt.req, p>> : p \in me.todo}
    /\ Move(n, w, Idle)
    /\ UNCHANGED <<sent, net, queue, rd, accepting, spare, store, closing, crashed, answers>>

-----------------------------------------------------------------------------
(* PutHandler: a Put by HTTP is applied and answered, not republished.     *)
HttpPut(n, r) ==
    /\ Sends(r, n, "http", r)
    /\ store' = [store EXCEPT ![n][r] = store[n][r] + 1]
    /\ UNCHANGED <<net, queue, rd, accepting, wk, spare, closing, crashed, answers, missed>>

(* The next step of Close.                                                 *)
Close(n) ==
    /\ "close" \in May /\ closing[n] < 4
    /\ closing' = [closing EXCEPT ![n] = closing[n] + 1]
    /\ UNCHANGED <<queue, rd, accepting, wk, spare, store, crashed, netVars>>

(* Clear, "for unit testing purposes".                                     *)
Clear(n) ==
    /\ "clear" \in May
    /\ store' = [store EXCEPT ![n] = [r \in Req |-> 0]]
    /\ UNCHANGED <<queue, rd, accepting, wk, spare, closing, crashed, netVars>>

Works(n, w) ==
    \/ Receive(n, w) \/ WorkerExits(n, w) \/ ValidateHash(n, w) \/ ValidateCheck(n, w)
    \/ Act(n, w) \/ Sign(n, w) \/ Answer(n, w) \/ AnswerFails(n, w) \/ Resign(n, w)
    \/ ResignCopy(n, w) \/ PublishFails(n, w) \/ \E p \in Node : Publish(n, w, p)

Reads(n, s) == Enqueue(n, s) \/ EnqueuePanics(n, s)

Next ==
    \E n \in Node \ crashed :
        \/ \E r \in Req :
             \/ HttpPut(n, r)
             \/ \E cmd \in Cmd, hash \in {r, NoReq} :
                  \/ SendUDP(r, n, cmd, hash)
                  \/ \E c \in Conn : ReadTCP(n, c, r, cmd, hash)
        \/ \E m \in net : ReadUDP(n, m)
        \/ ReadFails(n) \/ AcceptFails(n)
        \/ \E c \in Conn : Accept(n, c) \/ HangUp(n, c)
        \/ \E s \in Reader : Reads(n, s)
        \/ \E w \in Worker : Works(n, w)
        \/ Close(n) \/ Clear(n)

Spec == Init /\ [][Next]_vars

Alive(n) == n \notin crashed

(* Goroutines that can run do, a sender blocked on the channel gets its    *)
(* turn (blocked senders queue up) and Close, once called, goes on.        *)
(* Nothing is assumed of clients, the network or whether Close is called.  *)
Fairness ==
    \A n \in Node :
        /\ \A w \in Worker : WF_vars(Alive(n) /\ Works(n, w))
        /\ \A s \in Reader : SF_vars(Alive(n) /\ Reads(n, s))
        /\ WF_vars(Alive(n) /\ Disposed(n) /\ Close(n))

FairSpec == Spec /\ Fairness

-----------------------------------------------------------------------------
WorkerState ==
    [pc : {"recv", "hash", "check", "act", "sign", "answer", "resign", "copy", "publish", "exit"},
     pkt : Packet \cup {NoPacket}, res : {"none", "ok", "error", "auth"}, todo : SUBSET Node]

(* Every variable has its type, and the channel never holds more messages  *)
(* than it has places.                                                     *)
TypeOK ==
    /\ sent \in [Req -> [at : Node \cup {NoNode}, cmd : Commands \cup {"http"}, hash : Id]]
    /\ net \subseteq [to : Node, pkt : Packet]
    /\ queue \in [Node -> Seq(Packet)]
    /\ \A n \in Node : Len(queue[n]) <= Cap
    /\ rd \in [Node -> [Reader -> [pc : {"none", "read", "send", "exit"},
                                   pkt : Packet \cup {NoPacket}]]]
    /\ accepting \in [Node -> BOOLEAN]
    /\ wk \in [Node -> [Worker -> WorkerState]]
    /\ spare \in [Node -> Id]
    /\ store \in [Node -> [Req -> Nat]]
    /\ closing \in [Node -> 0 .. 4]
    /\ crashed \subseteq Node
    /\ answers \subseteq Req \X Commands \X {"ok", "error", "auth"}
    /\ missed \subseteq Req \X Node

(* However a Put travels - by UDP, TCP or HTTP, through peers, past failed *)
(* writes, error answers between servers and Close - no server applies it  *)
(* twice: a server is not its own peer (server.go, "otherwise we'll double *)
(* count to ourselves") and a replicated Put is not replicated again.  The *)
(* network is assumed not to duplicate packets; nothing in the code would  *)
(* notice if it did.                                                       *)
PutOncePerServer == \A n \in Node, r \in Req : store[n][r] <= 1

(* A Put with a hash that the servers' key does not give it is applied by  *)
(* none of them, directly or replicated, even while workers race on the    *)
(* bytes they hash.  This is less than that the client had the key: one    *)
(* with the same first 8 bytes makes the same hash (protocol.go:224-227).  *)
WrongHashNeverStored ==
    \A n \in Node, r \in Req : store[n][r] > 0 => sent[r].hash = r

IsReplica(pkt, r) == pkt.req = r /\ pkt.cmd = "R"

(* A replicated Put of r is on its way to server p, or inside p.           *)
UnderWay(r, p) ==
    \/ \E m \in net : m.to = p /\ IsReplica(m.pkt, r)
    \/ \E s \in Reader : IsReplica(rd[p][s].pkt, r)
    \/ \E i \in 1 .. Len(queue[p]) : IsReplica(queue[p][i], r)
    \/ \E w \in Worker : IsReplica(wk[p][w].pkt, r) /\ wk[p][w].pc \in {"hash", "check", "act"}

(* The answer to a Put is sent before it is republished, and replication   *)
(* is neither acknowledged nor repeated.  What is certain: when a client   *)
(* was told that its Put succeeded, each peer has applied it, or the       *)
(* replica is under way to it (where UDP may leave it) or inside it, or    *)
(* the worker has yet to write it, or it was lost in one of two ways: the  *)
(* write to this peer, or one before it in the list, failed, or the peer   *)
(* refused the hash.                                                       *)
ReplicaAccounted ==
    \A r \in Req, p \in Node :
        LET n == sent[r].at IN
        <<r, "P", "ok">> \in answers /\ p # n =>
            \/ store[p][r] > 0 \/ UnderWay(r, p) \/ <<r, p>> \in missed
            \/ \E w \in Worker : wk[n][w].pkt.req = r /\ p \in wk[n][w].todo

(* An error packet about r that server n has or is to get, between n and   *)
(* the server that sent it, one of which is p.                             *)
IsError(n, pkt, r, p) == pkt.req = r /\ pkt.cmd = "E" /\ p \in {n, pkt.from}

(* How many there are: on the network, in readers, channels and workers.   *)
Errors(r, p) ==
    LET sending == {m \in net : IsError(m.to, m.pkt, r, p)}
        reading == {x \in Node \X Reader : IsError(x[1], rd[x[1]][x[2]].pkt, r, p)}
        queued == {x \in Node \X (1 .. Cap) :
                      x[2] <= Len(queue[x[1]]) /\ IsError(x[1], queue[x[1]][x[2]], r, p)}
        handling == {x \in Node \X Worker : IsError(x[1], wk[x[1]][x[2]].pkt, r, p)}
    IN Cardinality(sending) + Cardinality(reading) + Cardinality(queued) + Cardinality(handling)

(* A server that refuses a replica answers it, with an error packet that   *)
(* the other server takes for a message and answers with another, and so   *)
(* on without an end.  They never become more: for each peer p there is at *)
(* most one error packet about the Put of r between p and the server that  *)
(* r was sent to, and then p has not applied it.                           *)
OneErrorPerRefusal ==
    \A r \in Req : \A p \in Node \ {sent[r].at} :
        Errors(r, p) <= 1 /\ (Errors(r, p) = 1 => store[p][r] = 0)

(* A Put with the right hash that a reader has read is applied, however    *)
(* full the channel is and whenever Close is called, unless the server     *)
(* panics; for keys whose bytes the workers do not share.                  *)
ReadPutApplied ==
    \A n \in Node, s \in Reader, r \in Req :
        rd[n][s].pkt.req = r /\ rd[n][s].pkt.cmd = "P" /\ rd[n][s].pkt.hash = r
            ~> store[n][r] > 0 \/ ~Alive(n)

(* Close ends: the workers handle what the channel still holds and exit,   *)
(* so that no worker is left waiting and no message is left behind, unless *)
(* a reader panics by sending on the closed channel.                       *)
CloseDrains ==
    \A n \in Node :
        closing[n] > 0 ~> \/ ~Alive(n)
                          \/ queue[n] = <<>> /\ \A w \in Worker : wk[n][w].pc = "exit"
=============================================================================
