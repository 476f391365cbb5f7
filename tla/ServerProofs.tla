---------------------------- MODULE ServerProofs ----------------------------
(***************************************************************************)
(* Proofs about module Server, for any servers, requests, connections and  *)
(* workers, any capacity of the channel, and keys with and without spare   *)
(* capacity.                                                               *)
(***************************************************************************)
EXTENDS Server, TLAPS

USE ServerAssumption

-----------------------------------------------------------------------------
(* A reader has a packet exactly while it sends it to the workers.         *)
ReaderState == [pc : {"none", "read", "send", "exit"}, pkt : Packet \cup {NoPacket}]
ReaderOK(x) ==
    /\ x \in ReaderState
    /\ x.pc = "send" => x.pkt \in Packet
    /\ x.pc # "send" => x.pkt = NoPacket

(* A worker has a packet exactly while it handles one, knows its answer    *)
(* when it gives it, and has peers to write to only after it has acted.    *)
PreAct == {"hash", "check", "act"}
WorkerOK(x) ==
    /\ x \in WorkerState
    /\ x.pc \in {"recv", "exit"} => x.pkt = NoPacket
    /\ x.pc \notin {"recv", "exit"} => x.pkt \in Packet
    /\ x.pc \in {"sign", "answer"} => x.res # "none"
    /\ x.pc \in PreAct \cup {"recv", "exit"} => x.todo = {}

TypeInv ==
    /\ TypeOK
    /\ \A n \in Node : \A s \in Reader : ReaderOK(rd[n][s])
    /\ \A n \in Node : \A w \in Worker : WorkerOK(wk[n][w])

LEMMA Distinct == NoPacket \notin Packet /\ WorkerOK(Idle) /\ ReaderOK([pc |-> "read", pkt |-> NoPacket])
BY DEF NoPacket, Packet, WorkerOK, WorkerState, ReaderOK, ReaderState, Idle, PreAct

(* What changes when one reader, or one worker, does.                      *)
ReaderSet(n, s, new) ==
    /\ rd' \in [Node -> [Reader -> ReaderState]]
    /\ rd'[n][s] = new
    /\ \A m \in Node : \A t \in Reader : m # n \/ t # s => rd'[m][t] = rd[m][t]

LEMMA ReaderMoves ==
    ASSUME TypeInv, NEW n \in Node, NEW s \in Reader, NEW new, ReaderOK(new),
           rd' = [rd EXCEPT ![n][s] = new]
    PROVE  ReaderSet(n, s, new) /\ \A m \in Node : \A t \in Reader : ReaderOK(rd'[m][t])
<1>1. rd \in [Node -> [Reader -> ReaderState]] /\ new \in ReaderState
  BY DEF TypeInv, TypeOK, ReaderState, ReaderOK
<1>2. ReaderSet(n, s, new)
  BY <1>1 DEF ReaderSet
<1> QED
  BY <1>2 DEF ReaderSet, TypeInv

WorkerSet(n, w, new) ==
    /\ wk' \in [Node -> [Worker -> WorkerState]]
    /\ wk'[n][w] = new
    /\ \A m \in Node : \A v \in Worker : m # n \/ v # w => wk'[m][v] = wk[m][v]

LEMMA WorkerMoves ==
    ASSUME TypeInv, NEW n \in Node, NEW w \in Worker, NEW new, WorkerOK(new),
           wk' = [wk EXCEPT ![n][w] = new]
    PROVE  WorkerSet(n, w, new) /\ \A m \in Node : \A v \in Worker : WorkerOK(wk'[m][v])
<1>1. wk \in [Node -> [Worker -> WorkerState]] /\ new \in WorkerState
  BY DEF TypeInv, TypeOK, WorkerOK
<1>2. WorkerSet(n, w, new)
  BY <1>1 DEF WorkerSet
<1> QED
  BY <1>2 DEF WorkerSet, TypeInv

-----------------------------------------------------------------------------
(* What each step of a worker makes of it.                                 *)
St(pc, pkt, res, todo) == [pc |-> pc, pkt |-> pkt, res |-> res, todo |-> todo]

LEMMA WorkerFields ==
    ASSUME TypeInv, NEW n \in Node, NEW w \in Worker
    PROVE  LET me == wk[n][w] IN
           /\ me \in WorkerState /\ WorkerOK(me)
           /\ me = St(me.pc, me.pkt, me.res, me.todo)
           /\ me.res \in {"none", "ok", "error", "auth"} /\ me.todo \in SUBSET Node
BY DEF TypeInv, TypeOK, WorkerState, St

LEMMA Updates ==
    ASSUME NEW x \in WorkerState, NEW pc, NEW res, NEW todo
    PROVE  /\ [x EXCEPT !.pc = pc] = St(pc, x.pkt, x.res, x.todo)
           /\ [x EXCEPT !.todo = todo] = St(x.pc, x.pkt, x.res, todo)
           /\ [x EXCEPT !.pc = pc, !.res = res] = St(pc, x.pkt, res, x.todo)
<1>1. [x EXCEPT !.pc = pc] = St(pc, x.pkt, x.res, x.todo)
  BY DEF WorkerState, St
<1>2. [x EXCEPT !.todo = todo] = St(x.pc, x.pkt, x.res, todo)
  BY DEF WorkerState, St
<1>3. [x EXCEPT !.pc = pc, !.res = res] = St(pc, x.pkt, res, x.todo)
  <2>1. [x EXCEPT !.pc = pc, !.res = res] = [[x EXCEPT !.pc = pc] EXCEPT !.res = res]
    OBVIOUS
  <2>2. [St(pc, x.pkt, x.res, x.todo) EXCEPT !.res = res] = St(pc, x.pkt, res, x.todo)
    BY DEF St
  <2> QED
    BY <1>1, <2>1, <2>2
<1> QED
  BY <1>1, <1>2, <1>3

LEMMA CopyUpdate ==
    ASSUME NEW x \in WorkerState, NEW hash
    PROVE  [x EXCEPT !.pc = "publish", !.pkt.hash = hash]
             = St("publish", [x.pkt EXCEPT !.hash = hash], x.res, x.todo)
<1> DEFINE y == [x EXCEPT !.pc = "publish"]
<1>1. [x EXCEPT !.pc = "publish", !.pkt.hash = hash]
        = [y EXCEPT !.pkt = [y.pkt EXCEPT !.hash = hash]]
  OBVIOUS
<1>2. y = St("publish", x.pkt, x.res, x.todo)
  BY Updates
<1> HIDE DEF y
<1>3. y.pkt = x.pkt
  BY <1>2 DEF St
<1>4. ASSUME NEW pkt PROVE [y EXCEPT !.pkt = pkt] = St("publish", pkt, x.res, x.todo)
  BY <1>2 DEF St
<1> QED
  BY <1>1, <1>3, <1>4 DEF y

LEMMA ReceiveStep ==
    ASSUME TypeInv, NEW n \in Node, NEW w \in Worker, Receive(n, w)
    PROVE  LET pkt == Head(queue[n])
               new == St(IF pkt.cmd = "bad" THEN "sign" ELSE "hash", pkt,
                         IF pkt.cmd = "bad" THEN "error" ELSE "none", {})
           IN pkt \in Packet /\ WorkerOK(new) /\ wk' = [wk EXCEPT ![n][w] = new]
<1>1. queue[n] \in Seq(Packet) /\ queue[n] # <<>>
  BY DEF TypeInv, TypeOK, Receive
<1>2. Head(queue[n]) \in Packet
  BY <1>1
<1> QED
  BY <1>2 DEF Receive, Move, St, WorkerOK, WorkerState, PreAct

LEMMA PcStep ==
    ASSUME TypeInv, NEW n \in Node, NEW w \in Worker,
           ValidateHash(n, w) \/ Sign(n, w) \/ Resign(n, w) \/ WorkerExits(n, w)
    PROVE  LET me == wk[n][w]
               pc == CASE me.pc = "hash" -> "check"
                       [] me.pc = "sign" -> "answer"
                       [] me.pc = "resign" -> "copy"
                       [] me.pc = "recv" -> "exit"
               new == St(pc, me.pkt, me.res, me.todo)
           IN /\ me.pc \in {"hash", "sign", "resign", "recv"}
              /\ WorkerOK(new) /\ wk' = [wk EXCEPT ![n][w] = new]
<1>1. wk[n][w] \in WorkerState /\ WorkerOK(wk[n][w])
  BY WorkerFields
<1>2. ASSUME NEW pc PROVE [wk[n][w] EXCEPT !.pc = pc] = St(pc, wk[n][w].pkt, wk[n][w].res, wk[n][w].todo)
  BY <1>1, Updates
<1>3. CASE ValidateHash(n, w)
  BY <1>1, <1>2, <1>3 DEF ValidateHash, WorkerOK, WorkerState, St, PreAct
<1>4. CASE Sign(n, w)
  BY <1>1, <1>2, <1>4 DEF Sign, WorkerOK, WorkerState, St, PreAct
<1>5. CASE Resign(n, w)
  BY <1>1, <1>2, <1>5 DEF Resign, WorkerOK, WorkerState, St, PreAct
<1>6. CASE WorkerExits(n, w)
  BY <1>1, <1>2, <1>6 DEF WorkerExits, WorkerOK, WorkerState, St, PreAct
<1> QED
  BY <1>3, <1>4, <1>5, <1>6

LEMMA CheckStep ==
    ASSUME TypeInv, NEW n \in Node, NEW w \in Worker, ValidateCheck(n, w)
    PROVE  LET me == wk[n][w]
               ok == Accepts(n, me.pkt)
               new == St(IF ok THEN "act" ELSE "sign", me.pkt, IF ok THEN "none" ELSE "auth", {})
           IN me.pc = "check" /\ WorkerOK(new) /\ wk' = [wk EXCEPT ![n][w] = new]
<1> DEFINE me == wk[n][w]
<1>1. me \in WorkerState /\ WorkerOK(me) /\ me.pc = "check" /\ me.todo = {} /\ me.pkt \in Packet
  BY WorkerFields DEF ValidateCheck, WorkerOK, PreAct
<1>2. ASSUME NEW pc, NEW res PROVE [me EXCEPT !.pc = pc, !.res = res] = St(pc, me.pkt, res, me.todo)
  BY <1>1, Updates
<1>3. wk' = [wk EXCEPT ![n][w] = [me EXCEPT !.pc = IF Accepts(n, me.pkt) THEN "act" ELSE "sign",
                                            !.res = IF Accepts(n, me.pkt) THEN "none" ELSE "auth"]]
  <2>1. wk \in [Node -> [Worker -> WorkerState]]
    BY DEF TypeInv, TypeOK
  <2> QED
    BY <2>1 DEF ValidateCheck
<1>4. \A ok \in BOOLEAN :
        WorkerOK(St(IF ok THEN "act" ELSE "sign", me.pkt, IF ok THEN "none" ELSE "auth", {}))
  BY <1>1 DEF WorkerOK, WorkerState, St, PreAct
<1> QED
  BY <1>1, <1>2, <1>3, <1>4

LEMMA ActStep ==
    ASSUME TypeInv, NEW n \in Node, NEW w \in Worker, Act(n, w)
    PROVE  LET pkt == wk[n][w].pkt
               new == IF pkt.cmd = "R" THEN Idle
                      ELSE St("sign", pkt, IF pkt.cmd = "E" THEN "error" ELSE "ok",
                              IF pkt.cmd = "P" THEN Peers(n) ELSE {})
           IN /\ wk[n][w].pc = "act" /\ pkt \in Packet
              /\ WorkerOK(new) /\ wk' = [wk EXCEPT ![n][w] = new]
<1> DEFINE pkt == wk[n][w].pkt
<1>1. wk[n][w].pc = "act" /\ pkt \in Packet
  BY WorkerFields DEF Act, WorkerOK
<1>2. Peers(n) \in SUBSET Node
  BY DEF Peers
<1> QED
  BY <1>1, <1>2, Distinct DEF Act, Silent, Move, St, WorkerOK, WorkerState, PreAct

LEMMA AnswerStep ==
    ASSUME TypeInv, NEW n \in Node, NEW w \in Worker, Answer(n, w) \/ AnswerFails(n, w)
    PROVE  LET me == wk[n][w]
               new == IF me.todo = {} THEN Idle ELSE St("resign", me.pkt, me.res, me.todo)
           IN /\ me.pc = "answer" /\ me.pkt \in Packet /\ me.res \in {"ok", "error", "auth"}
              /\ WorkerOK(new) /\ wk' = [wk EXCEPT ![n][w] = new]
<1> DEFINE me == wk[n][w]
<1>1. me \in WorkerState /\ WorkerOK(me) /\ me.pc = "answer" /\ wk' = [wk EXCEPT ![n][w] = AfterAnswer(n, w)]
  BY WorkerFields DEF Answer, AnswerFails, Move
<1>2. me.pkt \in Packet /\ me.res \in {"ok", "error", "auth"} /\ me.todo \in SUBSET Node
  BY <1>1 DEF WorkerOK, WorkerState
<1>3. [me EXCEPT !.pc = "resign"] = St("resign", me.pkt, me.res, me.todo)
  BY <1>1 DEF WorkerState, St
<1>4. WorkerOK(St("resign", me.pkt, me.res, me.todo))
  BY <1>1, <1>2 DEF WorkerOK, WorkerState, St, PreAct
<1> QED
  BY <1>1, <1>2, <1>3, <1>4, Distinct DEF AfterAnswer

LEMMA CopyStep ==
    ASSUME TypeInv, NEW n \in Node, NEW w \in Worker, ResignCopy(n, w)
    PROVE  LET me == wk[n][w]
               pkt == [me.pkt EXCEPT !.hash = Hash(n, me.pkt.req)]
               new == St("publish", pkt, me.res, me.todo)
           IN /\ me.pc = "copy" /\ pkt \in Packet /\ pkt.req = me.pkt.req /\ pkt.cmd = me.pkt.cmd
              /\ WorkerOK(new) /\ wk' = [wk EXCEPT ![n][w] = new]
<1> DEFINE me == wk[n][w]
           pkt == [me.pkt EXCEPT !.hash = Hash(n, me.pkt.req)]
<1>1. me \in WorkerState /\ WorkerOK(me) /\ me.pc = "copy" /\ me.pkt \in Packet
  BY WorkerFields DEF ResignCopy, WorkerOK
<1>2. Hash(n, me.pkt.req) \in Id
  BY <1>1 DEF Hash, TypeInv, TypeOK, Packet, Id
<1>3. pkt \in Packet /\ pkt.req = me.pkt.req /\ pkt.cmd = me.pkt.cmd
  BY <1>1, <1>2 DEF Packet
<1>4. [me EXCEPT !.pc = "publish", !.pkt.hash = Hash(n, me.pkt.req)]
        = St("publish", pkt, me.res, me.todo)
  BY <1>1, CopyUpdate
<1>5. wk' = [wk EXCEPT ![n][w] = [me EXCEPT !.pc = "publish", !.pkt.hash = Hash(n, me.pkt.req)]]
  BY DEF ResignCopy, Move
<1> HIDE DEF pkt
<1>6. WorkerOK(St("publish", pkt, me.res, me.todo))
  BY <1>1, <1>3 DEF WorkerOK, WorkerState, St, PreAct
<1> QED
  BY <1>1, <1>3, <1>4, <1>5, <1>6 DEF pkt

LEMMA PublishStep ==
    ASSUME TypeInv, NEW n \in Node, NEW w \in Worker, NEW p \in Node, Publish(n, w, p)
    PROVE  LET me == wk[n][w]
               new == IF me.todo = {p} THEN Idle ELSE St("publish", me.pkt, me.res, me.todo \ {p})
           IN /\ me.pc = "publish" /\ p \in me.todo /\ me.pkt \in Packet
              /\ WorkerOK(new) /\ Move(n, w, new)
<1> DEFINE me == wk[n][w]
<1>1. me \in WorkerState /\ WorkerOK(me) /\ me.pc = "publish" /\ p \in me.todo /\ me.pkt \in Packet
  BY WorkerFields DEF Publish, WorkerOK
<1>2. [me EXCEPT !.todo = me.todo \ {p}] = St(me.pc, me.pkt, me.res, me.todo \ {p})
  BY <1>1, Updates
<1>3. WorkerOK(St("publish", me.pkt, me.res, me.todo \ {p}))
  BY <1>1 DEF WorkerOK, WorkerState, St, PreAct
<1> QED
  BY <1>1, <1>2, <1>3, Distinct DEF Publish

LEMMA PublishFailsStep ==
    ASSUME TypeInv, NEW n \in Node, NEW w \in Worker, PublishFails(n, w)
    PROVE  /\ wk[n][w].pc = "publish" /\ wk[n][w].pkt \in Packet
           /\ wk' = [wk EXCEPT ![n][w] = Idle]
BY WorkerFields DEF PublishFails, WorkerOK, Move

(* The same for readers.                                                   *)
LEMMA ReaderNew ==
    ASSUME NEW pc, NEW pkt,
           \/ pc = "send" /\ pkt \in Packet
           \/ pc \in {"none", "read", "exit"} /\ pkt = NoPacket
    PROVE  ReaderOK([pc |-> pc, pkt |-> pkt])
BY Distinct DEF ReaderOK, ReaderState

-----------------------------------------------------------------------------
(* Typing, a step of each kind at a time.                                  *)
LEMMA InitTyping == Init => TypeInv
<1> SUFFICES ASSUME Init PROVE TypeInv
  OBVIOUS
<1>1. rd \in [Node -> [Reader -> ReaderState]]
      /\ \A n \in Node : \A s \in Reader : ReaderOK(rd[n][s])
  BY DEF Init, ReaderState, ReaderOK
<1>2. wk \in [Node -> [Worker -> WorkerState]]
      /\ \A n \in Node : \A w \in Worker : WorkerOK(wk[n][w])
  BY Distinct DEF Init, WorkerOK
<1>3. queue \in [Node -> Seq(Packet)] /\ \A n \in Node : Len(queue[n]) <= Cap
  BY DEF Init
<1>4. /\ sent \in [Req -> [at : Node \cup {NoNode}, cmd : Commands \cup {"http"}, hash : Id]]
      /\ accepting \in [Node -> BOOLEAN] /\ spare \in [Node -> Id]
      /\ store \in [Node -> [Req -> Nat]] /\ closing \in [Node -> 0 .. 4]
  BY DEF Init, Commands, Id
<1>5. /\ net \subseteq [to : Node, pkt : Packet] /\ crashed \subseteq Node
      /\ answers \subseteq Req \X Commands \X {"ok", "error", "auth"}
      /\ missed \subseteq Req \X Node
  BY DEF Init
<1> QED
  BY <1>1, <1>2, <1>3, <1>4, <1>5 DEF TypeInv, TypeOK, ReaderState

(* The variables that are neither readers nor workers.                     *)
RestTyped ==
    /\ sent \in [Req -> [at : Node \cup {NoNode}, cmd : Commands \cup {"http"}, hash : Id]]
    /\ net \subseteq [to : Node, pkt : Packet]
    /\ queue \in [Node -> Seq(Packet)]
    /\ \A n \in Node : Len(queue[n]) <= Cap
    /\ accepting \in [Node -> BOOLEAN]
    /\ spare \in [Node -> Id]
    /\ store \in [Node -> [Req -> Nat]]
    /\ closing \in [Node -> 0 .. 4]
    /\ crashed \subseteq Node
    /\ answers \subseteq Req \X Commands \X {"ok", "error", "auth"}
    /\ missed \subseteq Req \X Node

LEMMA ReaderTyping ==
    ASSUME TypeInv, RestTyped', NEW n \in Node, NEW s \in Reader, NEW new, ReaderOK(new),
           rd' = [rd EXCEPT ![n][s] = new], UNCHANGED wk
    PROVE  TypeInv'
<1>1. ReaderSet(n, s, new) /\ \A m \in Node : \A t \in Reader : ReaderOK(rd'[m][t])
  BY ReaderMoves
<1> QED
  BY <1>1 DEF ReaderSet, TypeInv, TypeOK, RestTyped, ReaderState

LEMMA WorkerTyping ==
    ASSUME TypeInv, RestTyped', NEW n \in Node, NEW w \in Worker, NEW new, WorkerOK(new),
           wk' = [wk EXCEPT ![n][w] = new], UNCHANGED rd
    PROVE  TypeInv'
<1>1. WorkerSet(n, w, new) /\ \A m \in Node : \A v \in Worker : WorkerOK(wk'[m][v])
  BY WorkerMoves
<1> QED
  BY <1>1 DEF WorkerSet, TypeInv, TypeOK, RestTyped

LEMMA OtherTyping == ASSUME TypeInv, RestTyped', UNCHANGED <<rd, wk>> PROVE TypeInv'
BY DEF TypeInv, TypeOK, RestTyped

LEMMA SendsTyped ==
    ASSUME TypeInv, NEW r \in Req, NEW n \in Node, NEW cmd \in Commands \cup {"http"},
           NEW hash \in {r, NoReq}, Sends(r, n, cmd, hash)
    PROVE  sent' \in [Req -> [at : Node \cup {NoNode}, cmd : Commands \cup {"http"}, hash : Id]]
BY DEF TypeInv, TypeOK, Sends, Id

LEMMA PacketTyped ==
    ASSUME NEW r \in Req, NEW cmd \in Commands, NEW hash \in Id,
           NEW from \in Node \cup {NoNode}, NEW via \in Reader
    PROVE  [req |-> r, cmd |-> cmd, hash |-> hash, from |-> from, via |-> via] \in Packet
BY DEF Packet

LEMMA ClientTyping ==
    ASSUME TypeInv, NEW n \in Node, NEW r \in Req,
           \/ HttpPut(n, r)
           \/ \E cmd \in Cmd, hash \in {r, NoReq} :
                \/ SendUDP(r, n, cmd, hash)
                \/ \E c \in Conn : ReadTCP(n, c, r, cmd, hash)
    PROVE  TypeInv'
<1>1. CASE HttpPut(n, r)
  <2>0. "http" \in Commands \cup {"http"} /\ r \in {r, NoReq} /\ Sends(r, n, "http", r)
    BY <1>1 DEF HttpPut
  <2>1. sent' \in [Req -> [at : Node \cup {NoNode}, cmd : Commands \cup {"http"}, hash : Id]]
    <3>1. sent \in [Req -> [at : Node \cup {NoNode}, cmd : Commands \cup {"http"}, hash : Id]]
      BY DEF TypeInv, TypeOK
    <3> DEFINE new == [at |-> n, cmd |-> "http", hash |-> r]
    <3>2. new \in [at : Node \cup {NoNode}, cmd : Commands \cup {"http"}, hash : Id]
      BY DEF Id
    <3>3. sent' = [sent EXCEPT ![r] = new]
      BY <2>0 DEF Sends
    <3> HIDE DEF new
    <3> QED
      BY <3>1, <3>2, <3>3
  <2>2. store' \in [Node -> [Req -> Nat]]
    BY <1>1 DEF HttpPut, TypeInv, TypeOK
  <2>3. RestTyped'
    BY <1>1, <2>1, <2>2 DEF HttpPut, TypeInv, TypeOK, RestTyped
  <2> QED
    BY <1>1, <2>3, OtherTyping DEF HttpPut
<1>2. ASSUME NEW cmd \in Cmd, NEW hash \in {r, NoReq}, SendUDP(r, n, cmd, hash) PROVE TypeInv'
  <2>0. cmd \in Commands
    BY DEF Commands
  <2>1. sent' \in [Req -> [at : Node \cup {NoNode}, cmd : Commands \cup {"http"}, hash : Id]]
    <3>1. cmd \in Commands \cup {"http"} /\ Sends(r, n, cmd, hash)
      BY <1>2, <2>0 DEF SendUDP
    <3> QED
      BY <3>1, SendsTyped
  <2>2. [req |-> r, cmd |-> cmd, hash |-> hash, from |-> NoNode, via |-> Udp] \in Packet
    BY <2>0, PacketTyped DEF Id, Reader
  <2>3. net' \subseteq [to : Node, pkt : Packet]
    BY <1>2, <2>2 DEF SendUDP, TypeInv, TypeOK
  <2>4. RestTyped'
    BY <1>2, <2>1, <2>3 DEF SendUDP, TypeInv, TypeOK, RestTyped
  <2> QED
    BY <1>2, <2>4, OtherTyping DEF SendUDP
<1>3. ASSUME NEW cmd \in Cmd, NEW hash \in {r, NoReq}, NEW c \in Conn, ReadTCP(n, c, r, cmd, hash)
      PROVE  TypeInv'
  <2>0. cmd \in Commands /\ c \in Reader
    BY DEF Commands, Reader
  <2>1. sent' \in [Req -> [at : Node \cup {NoNode}, cmd : Commands \cup {"http"}, hash : Id]]
    BY <1>3, <2>0, SendsTyped DEF ReadTCP
  <2> DEFINE pkt == [req |-> r, cmd |-> cmd, hash |-> hash, from |-> NoNode, via |-> c]
  <2>2. pkt \in Packet
    BY <2>0, PacketTyped DEF Id
  <2>3. RestTyped'
    BY <1>3, <2>1 DEF ReadTCP, TypeInv, TypeOK, RestTyped
  <2>4. rd' = [rd EXCEPT ![n][c] = [pc |-> "send", pkt |-> pkt]] /\ UNCHANGED wk
    BY <1>3 DEF ReadTCP
  <2> HIDE DEF pkt
  <2> QED
    BY <2>0, <2>2, <2>3, <2>4, ReaderNew, ReaderTyping
<1> QED
  BY <1>1, <1>2, <1>3

LEMMA ReadTyping ==
    ASSUME TypeInv, NEW n \in Node,
           \/ \E m \in net : ReadUDP(n, m)
           \/ ReadFails(n)
           \/ \E c \in Conn : Accept(n, c) \/ HangUp(n, c)
           \/ \E s \in Reader : Reads(n, s)
    PROVE  TypeInv'
<1>1. ASSUME NEW m \in net, ReadUDP(n, m) PROVE TypeInv'
  <2>1. m.pkt \in Packet /\ Udp \in Reader
    BY DEF TypeInv, TypeOK, Reader
  <2>2. RestTyped'
    BY <1>1 DEF ReadUDP, TypeInv, TypeOK, RestTyped
  <2> QED
    BY <1>1, <2>1, <2>2, ReaderNew, ReaderTyping DEF ReadUDP
<1>2. ASSUME NEW s \in Reader, NEW pc \in {"read", "exit"}, rd[n][s].pc # "send", RestTyped',
             rd' = [rd EXCEPT ![n][s].pc = pc], UNCHANGED wk
      PROVE  TypeInv'
  <2>1. pc \in {"none", "read", "exit"}
    OBVIOUS
  <2>2. rd' = [rd EXCEPT ![n][s] = [pc |-> pc, pkt |-> NoPacket]]
    <3>1. rd[n][s] \in ReaderState /\ rd[n][s].pkt = NoPacket
      BY <1>2 DEF TypeInv, ReaderOK
    <3>2. [rd[n][s] EXCEPT !.pc = pc] = [pc |-> pc, pkt |-> NoPacket]
      BY <3>1 DEF ReaderState
    <3> QED
      BY <1>2, <3>2
  <2>3. ReaderOK([pc |-> pc, pkt |-> NoPacket])
    BY <2>1, ReaderNew
  <2> QED
    BY <1>2, <2>2, <2>3, ReaderTyping
<1>3. CASE ReadFails(n)
  <2>1. RestTyped' /\ Udp \in Reader
    BY <1>3 DEF ReadFails, netVars, TypeInv, TypeOK, RestTyped, Reader
  <2> QED
    BY <1>2, <1>3, <2>1 DEF ReadFails
<1>4. ASSUME NEW c \in Conn, Accept(n, c) \/ HangUp(n, c) PROVE TypeInv'
  <2>1. accepting' \in [Node -> BOOLEAN]
    BY <1>4 DEF Accept, HangUp, TypeInv, TypeOK, Disposed
  <2>2. RestTyped' /\ c \in Reader
    BY <1>4, <2>1 DEF Accept, HangUp, netVars, TypeInv, TypeOK, RestTyped, Reader
  <2> QED
    BY <1>2, <1>4, <2>2 DEF Accept, HangUp
<1>5. ASSUME NEW s \in Reader, Enqueue(n, s) PROVE TypeInv'
  <2>1. rd[n][s].pkt \in Packet
    BY <1>5 DEF Enqueue, TypeInv, ReaderOK
  <2>2. /\ queue' = [queue EXCEPT ![n] = Append(queue[n], rd[n][s].pkt)]
        /\ queue \in [Node -> Seq(Packet)] /\ Len(queue[n]) < Cap
        /\ \A m \in Node : Len(queue[m]) <= Cap
    BY <1>5 DEF Enqueue, HasRoom, TypeInv, TypeOK
  <2>3. queue' \in [Node -> Seq(Packet)] /\ \A m \in Node : Len(queue'[m]) <= Cap
    BY <2>1, <2>2
  <2>4. RestTyped'
    BY <1>5, <2>3 DEF Enqueue, netVars, TypeInv, TypeOK, RestTyped
  <2>5. ReaderOK(AfterEnqueue(n, s))
    BY ReaderNew DEF AfterEnqueue
  <2> QED
    BY <1>5, <2>4, <2>5, ReaderTyping DEF Enqueue
<1>6. ASSUME NEW s \in Reader, EnqueuePanics(n, s) PROVE TypeInv'
  <2>1. RestTyped'
    BY <1>6 DEF EnqueuePanics, netVars, TypeInv, TypeOK, RestTyped
  <2> QED
    BY <1>6, <2>1, OtherTyping DEF EnqueuePanics
<1> QED
  BY <1>1, <1>3, <1>4, <1>5, <1>6 DEF Reads

LEMMA NodeTyping ==
    ASSUME TypeInv, NEW n \in Node,
           AcceptFails(n) \/ Close(n) \/ Clear(n) \/ UNCHANGED vars
    PROVE  TypeInv'
<1>1. store' \in [Node -> [Req -> Nat]]
  BY DEF AcceptFails, Close, Clear, vars, TypeInv, TypeOK
<1>2. accepting' \in [Node -> BOOLEAN]
  BY DEF AcceptFails, Close, Clear, vars, TypeInv, TypeOK
<1>3. closing' \in [Node -> 0 .. 4]
  <2>1. closing \in [Node -> 0 .. 4]
    BY DEF TypeInv, TypeOK
  <2>2. CASE Close(n)
    <3>1. closing' = [closing EXCEPT ![n] = closing[n] + 1] /\ closing[n] < 4
      BY <2>2 DEF Close
    <3>2. closing[n] + 1 \in 0 .. 4
      BY <2>1, <3>1
    <3> QED
      BY <2>1, <3>1, <3>2
  <2>3. CASE ~Close(n)
    BY <2>1, <2>3 DEF AcceptFails, Clear, vars
  <2> QED
    BY <2>2, <2>3
<1>4. UNCHANGED <<sent, net, queue, rd, wk, spare, crashed, answers, missed>>
  BY DEF AcceptFails, Close, Clear, vars, netVars
<1>5. RestTyped'
  BY <1>1, <1>2, <1>3, <1>4 DEF RestTyped, TypeInv, TypeOK
<1> QED
  BY <1>4, <1>5, OtherTyping

(* A worker's step leaves alone what is not listed here.                   *)
LEMMA WorkerTyped ==
    ASSUME TypeInv, NEW n \in Node, NEW w \in Worker, Works(n, w)
    PROVE  TypeInv'
<1>1. CASE Receive(n, w)
  <2>1. queue \in [Node -> Seq(Packet)] /\ queue[n] # <<>> /\ Cap \in Nat
        /\ \A m \in Node : Len(queue[m]) <= Cap
    BY <1>1 DEF Receive, TypeInv, TypeOK
  <2>2. Tail(queue[n]) \in Seq(Packet) /\ Len(Tail(queue[n])) <= Cap
    BY <2>1
  <2>3. queue' = [queue EXCEPT ![n] = Tail(queue[n])]
    BY <1>1 DEF Receive
  <2>4. queue' \in [Node -> Seq(Packet)] /\ \A m \in Node : Len(queue'[m]) <= Cap
    BY <2>1, <2>2, <2>3
  <2>5. RestTyped' /\ UNCHANGED rd
    BY <1>1, <2>4 DEF Receive, netVars, RestTyped, TypeInv, TypeOK
  <2> QED
    BY <1>1, <2>5, ReceiveStep, WorkerTyping
<1>2. CASE ValidateHash(n, w) \/ Sign(n, w) \/ Resign(n, w) \/ WorkerExits(n, w)
  <2>1. spare' \in [Node -> Id]
    <3>1. CASE WorkerExits(n, w)
      BY <3>1 DEF WorkerExits, TypeInv, TypeOK
    <3>2. CASE ~WorkerExits(n, w)
      <4>1. wk[n][w].pkt \in Packet
        BY <1>2, <3>2, WorkerFields DEF ValidateHash, Sign, Resign, WorkerOK
      <4>2. wk[n][w].pkt.req \in Id /\ NoReq \in Id
        BY <4>1 DEF Packet, Id
      <4>3. spare \in [Node -> Id] /\ AppendId(n, wk[n][w].pkt.req)
        BY <1>2, <3>2 DEF ValidateHash, Sign, Resign, TypeInv, TypeOK
      <4> QED
        BY <4>2, <4>3 DEF AppendId
    <3> QED
      BY <3>1, <3>2
  <2>2. RestTyped' /\ UNCHANGED rd
    BY <1>2, <2>1 DEF ValidateHash, Sign, Resign, WorkerExits, netVars, RestTyped, TypeInv, TypeOK
  <2> QED
    BY <1>2, <2>2, PcStep, WorkerTyping
<1>3. CASE ValidateCheck(n, w)
  <2>1. wk[n][w].pkt.req \in Req
    BY <1>3, WorkerFields DEF ValidateCheck, WorkerOK, Packet
  <2>2. missed' \subseteq Req \X Node
    BY <1>3, <2>1 DEF ValidateCheck, TypeInv, TypeOK
  <2>3. RestTyped' /\ UNCHANGED rd
    BY <1>3, <2>2 DEF ValidateCheck, RestTyped, TypeInv, TypeOK
  <2> QED
    BY <1>3, <2>3, CheckStep, WorkerTyping
<1>4. CASE Act(n, w)
  <2>1. wk[n][w].pkt.req \in Req
    BY <1>4, ActStep DEF Packet
  <2>2. store \in [Node -> [Req -> Nat]]
    BY DEF TypeInv, TypeOK
  <2>3. store' \in [Node -> [Req -> Nat]]
    BY <1>4, <2>1, <2>2 DEF Act
  <2>4. RestTyped' /\ UNCHANGED rd
    BY <1>4, <2>3 DEF Act, netVars, RestTyped, TypeInv, TypeOK
  <2> QED
    BY <1>4, <2>4, ActStep, WorkerTyping
<1>5. CASE Answer(n, w)
  <2> DEFINE me == wk[n][w]
             reply == [req |-> me.pkt.req, cmd |-> "E", hash |-> Hash(n, me.pkt.req),
                       from |-> n, via |-> Udp]
  <2>1. me.pkt \in Packet /\ me.res \in {"ok", "error", "auth"}
    BY <1>5, AnswerStep
  <2>2. /\ me.pkt.req \in Req /\ me.pkt.from \in Node \cup {NoNode} /\ me.pkt.cmd \in Commands
        /\ Hash(n, me.pkt.req) \in Id /\ "E" \in Commands /\ Udp \in Reader
    BY <2>1 DEF Packet, Hash, TypeInv, TypeOK, Commands, Reader, Id
  <2>3. reply \in Packet
    BY <2>2, PacketTyped
  <2>4. \/ /\ answers' = answers \cup {<<me.pkt.req, me.pkt.cmd, me.res>>}
           /\ net' = net
        \/ answers' = answers /\ me.pkt.from \in Node /\ net' = net \cup {[to |-> me.pkt.from, pkt |-> reply]}
    BY <1>5, <2>2 DEF Answer
  <2> HIDE DEF reply
  <2>5. net' \subseteq [to : Node, pkt : Packet]
    BY <2>3, <2>4 DEF TypeInv, TypeOK
  <2>6. answers' \subseteq Req \X Commands \X {"ok", "error", "auth"}
    BY <2>1, <2>2, <2>4 DEF TypeInv, TypeOK
  <2>7. RestTyped' /\ UNCHANGED rd
    BY <1>5, <2>5, <2>6 DEF Answer, RestTyped, TypeInv, TypeOK
  <2> QED
    BY <1>5, <2>7, AnswerStep, WorkerTyping
<1>6. CASE AnswerFails(n, w)
  <2>1. RestTyped' /\ UNCHANGED rd
    BY <1>6 DEF AnswerFails, netVars, RestTyped, TypeInv, TypeOK
  <2> QED
    BY <1>6, <2>1, AnswerStep, WorkerTyping
<1>7. CASE ResignCopy(n, w)
  <2>1. RestTyped' /\ UNCHANGED rd
    BY <1>7 DEF ResignCopy, netVars, RestTyped, TypeInv, TypeOK
  <2> QED
    BY <1>7, <2>1, CopyStep, WorkerTyping
<1>8. ASSUME NEW p \in Node, Publish(n, w, p) PROVE TypeInv'
  <2>1. wk[n][w].pkt \in Packet
    BY <1>8, PublishStep
  <2>2. Replica(n, wk[n][w].pkt) \in Packet
    BY <2>1 DEF Replica, Packet, Commands, Reader
  <2>3. net' \subseteq [to : Node, pkt : Packet]
    BY <1>8, <2>2 DEF Publish, TypeInv, TypeOK
  <2>4. RestTyped' /\ UNCHANGED rd
    BY <1>8, <2>3 DEF Publish, RestTyped, TypeInv, TypeOK
  <2> QED
    <3> DEFINE me == wk[n][w]
               new == IF me.todo = {p} THEN Idle ELSE St("publish", me.pkt, me.res, me.todo \ {p})
    <3>1. WorkerOK(new) /\ Move(n, w, new)
      BY <1>8, PublishStep
    <3> HIDE DEF new
    <3> QED
      BY <2>4, <3>1, WorkerTyping DEF Move
<1>9. CASE PublishFails(n, w)
  <2>1. wk[n][w].pkt.req \in Req /\ wk[n][w].todo \subseteq Node
    BY <1>9, PublishFailsStep, WorkerFields DEF Packet
  <2>2. missed' \subseteq Req \X Node
    BY <1>9, <2>1 DEF PublishFails, TypeInv, TypeOK
  <2>3. RestTyped' /\ UNCHANGED rd
    BY <1>9, <2>2 DEF PublishFails, RestTyped, TypeInv, TypeOK
  <2> QED
    BY <1>9, <2>3, PublishFailsStep, Distinct, WorkerTyping
<1> QED
  BY <1>1, <1>2, <1>3, <1>4, <1>5, <1>6, <1>7, <1>8, <1>9 DEF Works

(* A step of a server that runs.                                           *)
Step(n) ==
    \/ \E r \in Req :
         \/ HttpPut(n, r)
         \/ \E cmd \in Cmd, hash \in {r, NoReq} :
              \/ SendUDP(r, n, cmd, hash)
              \/ \E c \in Conn : ReadTCP(n, c, r, cmd, hash)
    \/ \E m \in net : ReadUDP(n, m)
    \/ ReadFails(n) \/ AcceptFails(n)
    \/ \E c \in Conn : Accept(n, c) \/ HangUp(n, c)
    \/ \E s \in Reader : Reads(n, s)
    \/ \E w \in Worker : Works(n, w)
    \/ Close(n) \/ Clear(n)

LEMMA StepTyping == TypeInv /\ [Next]_vars => TypeInv'
<1> SUFFICES ASSUME TypeInv, [Next]_vars PROVE TypeInv'
  OBVIOUS
<1>1. CASE UNCHANGED vars
  BY <1>1 DEF vars, TypeInv, TypeOK
<1>2. CASE Next
  <2>1. ASSUME NEW n \in Node \ crashed, Step(n) PROVE TypeInv'
    BY <2>1, ClientTyping, ReadTyping, NodeTyping, WorkerTyped DEF Step
  <2> QED
    BY <1>2, <2>1 DEF Next, Step
<1> QED
  BY <1>1, <1>2

LEMMA Typed == Spec => []TypeInv
BY InitTyping, StepTyping, PTL DEF Spec

(* Every variable keeps its type, and a channel holds no more messages     *)
(* than it has places: readers block on messageProcessing, whatever the    *)
(* number of requests, servers and connections.                            *)
THEOREM ServerTyping == Spec => []TypeOK
<1>1. TypeInv => TypeOK
  BY DEF TypeInv
<1> QED
  BY <1>1, Typed, PTL
-----------------------------------------------------------------------------
(* What a server has read is not dropped.                                  *)
(*                                                                         *)
(* Server n has read a Put of r with the right hash, not applied it yet.   *)
IsGoodPut(pkt, r) == pkt.req = r /\ pkt.cmd = "P" /\ pkt.hash = r

Pending(n, r) ==
    \/ \E s \in Reader : IsGoodPut(rd[n][s].pkt, r)
    \/ \E i \in 1 .. Len(queue[n]) : IsGoodPut(queue[n][i], r)
    \/ \E w \in Worker : wk[n][w].pc \in {"hash", "check", "act"} /\ IsGoodPut(wk[n][w].pkt, r)

(* On its way from a reader through the channel to a worker such a Put is  *)
(* never dropped, at a full channel, by a reader that ends, by Close or by *)
(* a worker that exits: it stays with the server until it is applied, or,  *)
(* if the workers share the bytes behind the key, refused and the client   *)
(* told so.                                                                *)
ReadPutKept ==
    [][\A n \in Node, r \in Req :
         Pending(n, r) => \/ Pending(n, r)'
                          \/ store'[n][r] = store[n][r] + 1
                          \/ SpareKey /\ \E w \in Worker :
                                 wk'[n][w].pkt.req = r /\ wk'[n][w].res = "auth"]_vars

(* What the steps of a worker, and those of others, leave alone.           *)
LEMMA WorksLeaves ==
    ASSUME NEW m, NEW w, Works(m, w)
    PROVE  UNCHANGED <<rd, closing>> /\ (Receive(m, w) \/ UNCHANGED queue)
<1>1. CASE Receive(m, w) \/ WorkerExits(m, w) \/ ValidateHash(m, w) \/ ValidateCheck(m, w)
  BY <1>1 DEF Receive, WorkerExits, ValidateHash, ValidateCheck
<1>2. CASE Act(m, w) \/ Sign(m, w) \/ Answer(m, w) \/ AnswerFails(m, w)
  BY <1>2 DEF Act, Sign, Answer, AnswerFails
<1>3. CASE Resign(m, w) \/ ResignCopy(m, w) \/ PublishFails(m, w)
  BY <1>3 DEF Resign, ResignCopy, PublishFails
<1>4. CASE \E p \in Node : Publish(m, w, p)
  BY <1>4 DEF Publish
<1> QED
  BY <1>1, <1>2, <1>3, <1>4 DEF Works

LEMMA NodeLeaves ==
    ASSUME NEW m, \/ \E r \in Req : \/ HttpPut(m, r)
                                    \/ \E cmd \in Cmd, hash \in {r, NoReq} : SendUDP(r, m, cmd, hash)
                  \/ AcceptFails(m) \/ Close(m) \/ Clear(m)
                  \/ \E s \in Reader : EnqueuePanics(m, s)
    PROVE  UNCHANGED <<rd, queue, wk>> /\ (Close(m) \/ UNCHANGED closing)
<1>1. ASSUME NEW r \in Req, NEW cmd, NEW hash, HttpPut(m, r) \/ SendUDP(r, m, cmd, hash)
      PROVE  UNCHANGED <<rd, queue, wk, closing>>
  BY <1>1 DEF HttpPut, SendUDP
<1>2. CASE AcceptFails(m) \/ Close(m) \/ Clear(m)
  BY <1>2 DEF AcceptFails, Close, Clear
<1>3. CASE \E s \in Reader : EnqueuePanics(m, s)
  BY <1>3 DEF EnqueuePanics
<1> QED
  BY <1>1, <1>2, <1>3

(* A packet leaves its reader for the channel and in no other way ...      *)
LEMMA ReaderKeeps ==
    ASSUME TypeInv, NEW m \in Node, Step(m), NEW n \in Node, NEW s \in Reader,
           rd[n][s].pc = "send"
    PROVE  rd'[n][s] = rd[n][s] \/ (m = n /\ Enqueue(n, s))
<1>1. rd \in [Node -> [Reader -> ReaderState]] /\ Udp \in Reader /\ Conn \subseteq Reader
  BY DEF TypeInv, TypeOK, ReaderState, Reader
<1>2. CASE UNCHANGED rd
  BY <1>2
<1>3. ASSUME NEW k \in net, ReadUDP(m, k) PROVE rd'[n][s] = rd[n][s]
  BY <1>1, <1>3 DEF ReadUDP
<1>4. CASE ReadFails(m)
  BY <1>1, <1>4 DEF ReadFails
<1>5. ASSUME NEW c \in Conn, Accept(m, c) \/ HangUp(m, c) PROVE rd'[n][s] = rd[n][s]
  BY <1>1, <1>5 DEF Accept, HangUp
<1>6. ASSUME NEW c \in Conn, NEW r \in Req, NEW cmd, NEW hash, ReadTCP(m, c, r, cmd, hash)
      PROVE  rd'[n][s] = rd[n][s]
  BY <1>1, <1>6 DEF ReadTCP
<1>7. ASSUME NEW t \in Reader, Enqueue(m, t)
      PROVE  rd'[n][s] = rd[n][s] \/ (m = n /\ Enqueue(n, s))
  <2>1. CASE m = n /\ t = s
    BY <1>7, <2>1
  <2>2. CASE m # n \/ t # s
    BY <1>1, <1>7, <2>2 DEF Enqueue
  <2> QED
    BY <2>1, <2>2
<1>8. CASE \/ \E r \in Req : \/ HttpPut(m, r)
                             \/ \E cmd \in Cmd, hash \in {r, NoReq} : SendUDP(r, m, cmd, hash)
           \/ AcceptFails(m) \/ Close(m) \/ Clear(m)
           \/ \E t \in Reader : EnqueuePanics(m, t)
           \/ \E w \in Worker : Works(m, w)
  <2>1. UNCHANGED rd
    BY <1>8, NodeLeaves, WorksLeaves
  <2> QED
    BY <1>2, <2>1
<1> QED
  BY <1>3, <1>4, <1>5, <1>6, <1>7, <1>8 DEF Step, Reads

(* ... the channel for a worker ...                                        *)
LEMMA QueueKeeps ==
    ASSUME NEW m \in Node, Step(m), TypeInv, NEW n \in Node
    PROVE  \/ queue'[n] = queue[n]
           \/ m = n /\ \E s \in Reader : Enqueue(n, s)
           \/ m = n /\ \E w \in Worker : Receive(n, w)
<1>1. queue \in [Node -> Seq(Packet)]
  BY DEF TypeInv, TypeOK
<1>2. CASE UNCHANGED queue
  BY <1>2
<1>3. ASSUME NEW s \in Reader, Enqueue(m, s) PROVE m = n \/ queue'[n] = queue[n]
  BY <1>1, <1>3 DEF Enqueue
<1>4. ASSUME NEW w \in Worker, Receive(m, w) PROVE m = n \/ queue'[n] = queue[n]
  BY <1>1, <1>4 DEF Receive
<1>5. CASE \E w \in Worker : Works(m, w) /\ ~Receive(m, w)
  <2>1. UNCHANGED queue
    BY <1>5, WorksLeaves
  <2> QED
    BY <1>2, <2>1
<1>6. CASE \/ \E r \in Req :
                \/ HttpPut(m, r)
                \/ \E cmd \in Cmd, hash \in {r, NoReq} :
                     SendUDP(r, m, cmd, hash) \/ \E c \in Conn : ReadTCP(m, c, r, cmd, hash)
           \/ \E k \in net : ReadUDP(m, k)
           \/ ReadFails(m) \/ AcceptFails(m)
           \/ \E c \in Conn : Accept(m, c) \/ HangUp(m, c)
           \/ \E s \in Reader : EnqueuePanics(m, s)
           \/ Close(m) \/ Clear(m)
  <2>1. UNCHANGED queue
    BY <1>6 DEF HttpPut, SendUDP, ReadTCP, ReadUDP, ReadFails, AcceptFails, Accept, HangUp,
                EnqueuePanics, Close, Clear
  <2> QED
    BY <1>2, <2>1
<1> QED
  BY <1>3, <1>4, <1>5, <1>6 DEF Step, Reads

(* ... and a worker is changed by nobody else.                             *)
LEMMA WorkerKeeps ==
    ASSUME NEW m \in Node, Step(m), TypeInv, NEW n \in Node, NEW w \in Worker
    PROVE  wk'[n][w] = wk[n][w] \/ (m = n /\ Works(n, w))
<1>1. wk \in [Node -> [Worker -> WorkerState]]
  BY DEF TypeInv, TypeOK
<1>2. ASSUME NEW v \in Worker, Works(m, v)
      PROVE  wk'[n][w] = wk[n][w] \/ (m = n /\ Works(n, w))
  <2>1. CASE m = n /\ v = w
    BY <1>2, <2>1
  <2>2. CASE m # n \/ v # w
    <3>1. \/ \E new : wk' = [wk EXCEPT ![m][v] = new]
      <4>1. CASE Receive(m, v) \/ Act(m, v) \/ Answer(m, v) \/ AnswerFails(m, v)
                 \/ ResignCopy(m, v) \/ PublishFails(m, v) \/ \E p \in Node : Publish(m, v, p)
        BY <4>1 DEF Receive, Act, Answer, AnswerFails, ResignCopy, PublishFails, Publish, Move
      <4>2. CASE WorkerExits(m, v) \/ ValidateHash(m, v) \/ Sign(m, v) \/ Resign(m, v)
        BY <4>2, PcStep
      <4>3. CASE ValidateCheck(m, v)
        BY <4>3, CheckStep
      <4> QED
        BY <1>2, <4>1, <4>2, <4>3 DEF Works
    <3> QED
      BY <1>1, <2>2, <3>1
  <2> QED
    BY <2>1, <2>2
<1>3. CASE \/ \E r \in Req :
                \/ HttpPut(m, r)
                \/ \E cmd \in Cmd, hash \in {r, NoReq} :
                     SendUDP(r, m, cmd, hash) \/ \E c \in Conn : ReadTCP(m, c, r, cmd, hash)
           \/ \E k \in net : ReadUDP(m, k)
           \/ ReadFails(m) \/ AcceptFails(m)
           \/ \E c \in Conn : Accept(m, c) \/ HangUp(m, c)
           \/ \E s \in Reader : Reads(m, s)
           \/ Close(m) \/ Clear(m)
  <2>1. UNCHANGED wk
    BY <1>3 DEF HttpPut, SendUDP, ReadTCP, ReadUDP, ReadFails, AcceptFails, Accept, HangUp,
                Reads, Enqueue, EnqueuePanics, Close, Clear
  <2> QED
    BY <2>1
<1> QED
  BY <1>2, <1>3 DEF Step

(* What is appended to the channel is behind what was there, and what is   *)
(* taken from it was at its head.                                          *)
LEMMA AppendKeeps ==
    ASSUME NEW q \in Seq(Packet), NEW x \in Packet
    PROVE  /\ Append(q, x) \in Seq(Packet) /\ Len(Append(q, x)) = Len(q) + 1
           /\ Append(q, x)[Len(q) + 1] = x
           /\ \A i \in 1 .. Len(q) : i \in 1 .. Len(q) + 1 /\ Append(q, x)[i] = q[i]
<1>1. Len(q) \in Nat
  OBVIOUS
<1> QED
  BY <1>1

LEMMA TailKeeps ==
    ASSUME NEW q \in Seq(Packet), q # <<>>, NEW i \in 1 .. Len(q), i # 1
    PROVE  i - 1 \in 1 .. Len(Tail(q)) /\ Tail(q)[i - 1] = q[i]
<1>1. Len(q) \in Nat /\ Len(q) # 0 /\ Len(Tail(q)) = Len(q) - 1
  OBVIOUS
<1>2. \A j \in 1 .. Len(q) - 1 : Tail(q)[j] = q[j + 1]
  BY <1>1
<1>3. i - 1 \in 1 .. Len(q) - 1 /\ (i - 1) + 1 = i
  BY <1>1
<1> QED
  BY <1>1, <1>2, <1>3

(* The three places, one at a time.                                        *)
Outcome(n, r) ==
    \/ Pending(n, r)'
    \/ store'[n][r] = store[n][r] + 1
    \/ SpareKey /\ \E w \in Worker : wk'[n][w].pkt.req = r /\ wk'[n][w].res = "auth"

LEMMA ReaderHasPut ==
    ASSUME TypeInv, NEW m \in Node, Step(m), NEW n \in Node, NEW r \in Req,
           NEW s \in Reader, IsGoodPut(rd[n][s].pkt, r)
    PROVE  Outcome(n, r)
<1>1. rd[n][s].pc = "send" /\ rd[n][s].pkt \in Packet
  BY DEF TypeInv, ReaderOK, IsGoodPut, NoPacket
<1>2. CASE rd'[n][s] = rd[n][s]
  BY <1>2 DEF Outcome, Pending
<1>3. CASE Enqueue(n, s)
  <2>1. PICK q \in Seq(Packet) : q = queue[n]
    BY DEF TypeInv, TypeOK
  <2>2. PICK x \in Packet : x = rd[n][s].pkt
    BY <1>1
  <2>3. queue'[n] = Append(q, x)
    BY <1>3, <2>1, <2>2 DEF Enqueue, TypeInv, TypeOK
  <2>4. Len(q) + 1 \in 1 .. Len(queue'[n]) /\ queue'[n][Len(q) + 1] = x
    <3>1. Len(q) \in Nat
      OBVIOUS
    <3> QED
      BY <2>3, <3>1, AppendKeeps
  <2>5. \E i \in 1 .. Len(queue'[n]) : IsGoodPut(queue'[n][i], r)
    BY <2>2, <2>4
  <2> QED
    BY <2>5 DEF Outcome, Pending
<1> QED
  BY <1>1, <1>2, <1>3, ReaderKeeps

LEMMA QueueHasPut ==
    ASSUME TypeInv, NEW m \in Node, Step(m), NEW n \in Node, NEW r \in Req,
           NEW i \in 1 .. Len(queue[n]), IsGoodPut(queue[n][i], r)
    PROVE  Outcome(n, r)
<1>1. PICK q \in Seq(Packet) : q = queue[n]
  BY DEF TypeInv, TypeOK
<1>2. CASE queue'[n] = queue[n]
  BY <1>2 DEF Outcome, Pending
<1>3. ASSUME NEW s \in Reader, Enqueue(n, s) PROVE Outcome(n, r)
  <2>1. rd[n][s].pkt \in Packet
    BY <1>3 DEF TypeInv, ReaderOK, Enqueue
  <2>2. PICK x \in Packet : x = rd[n][s].pkt
    BY <2>1
  <2>3. queue'[n] = Append(q, x)
    BY <1>1, <1>3, <2>2 DEF Enqueue, TypeInv, TypeOK
  <2>4. i \in 1 .. Len(queue'[n]) /\ queue'[n][i] = q[i]
    BY <1>1, <2>3, AppendKeeps
  <2> QED
    BY <1>1, <2>4 DEF Outcome, Pending
<1>4. ASSUME NEW w \in Worker, Receive(n, w) PROVE Outcome(n, r)
  <2>1. queue'[n] = Tail(q) /\ q # <<>>
    BY <1>1, <1>4 DEF Receive, TypeInv, TypeOK
  <2>2. CASE i = 1
    <3>1. Head(q) = q[1]
      BY <2>1
    <3>2. PICK new : /\ new = St("hash", q[1], "none", {}) /\ WorkerOK(new)
                     /\ wk' = [wk EXCEPT ![n][w] = new]
      BY <1>1, <1>4, <2>2, <3>1, ReceiveStep DEF IsGoodPut
    <3>3. wk'[n][w] = new
      <4>1. WorkerSet(n, w, new)
        BY <3>2, WorkerMoves
      <4> QED
        BY <4>1 DEF WorkerSet
    <3>4. wk'[n][w].pc = "hash" /\ wk'[n][w].pkt = q[1]
      BY <3>2, <3>3 DEF St
    <3> QED
      BY <1>1, <2>2, <3>4 DEF Outcome, Pending
  <2>3. CASE i # 1
    <3>1. i - 1 \in 1 .. Len(Tail(q)) /\ Tail(q)[i - 1] = q[i]
      BY <1>1, <2>1, <2>3, TailKeeps
    <3> QED
      BY <1>1, <2>1, <3>1 DEF Outcome, Pending
  <2> QED
    BY <2>2, <2>3
<1> QED
  BY <1>2, <1>3, <1>4, QueueKeeps

LEMMA WorkerHasPut ==
    ASSUME TypeInv, NEW m \in Node, Step(m), NEW n \in Node, NEW r \in Req,
           NEW w \in Worker, wk[n][w].pc \in {"hash", "check", "act"}, IsGoodPut(wk[n][w].pkt, r)
    PROVE  Outcome(n, r)
<1> DEFINE me == wk[n][w]
<1>1. CASE wk'[n][w] = wk[n][w]
  BY <1>1 DEF Outcome, Pending
<1>2. CASE ValidateHash(n, w)
  <2>1. PICK new : /\ new = St("check", me.pkt, me.res, me.todo) /\ WorkerOK(new)
                   /\ wk' = [wk EXCEPT ![n][w] = new]
    BY <1>2, PcStep DEF ValidateHash
  <2>2. wk'[n][w] = new
    <3>1. WorkerSet(n, w, new)
      BY <2>1, WorkerMoves
    <3> QED
      BY <3>1 DEF WorkerSet
  <2>3. wk'[n][w].pc = "check" /\ wk'[n][w].pkt = me.pkt
    BY <2>1, <2>2 DEF St
  <2> QED
    BY <2>3 DEF Outcome, Pending
<1>3. CASE ValidateCheck(n, w)
  <2>1. PICK new : /\ new = St(IF Accepts(n, me.pkt) THEN "act" ELSE "sign", me.pkt,
                               IF Accepts(n, me.pkt) THEN "none" ELSE "auth", {})
                   /\ WorkerOK(new) /\ wk' = [wk EXCEPT ![n][w] = new]
    BY <1>3, CheckStep
  <2>2. wk'[n][w] = new
    <3>1. WorkerSet(n, w, new)
      BY <2>1, WorkerMoves
    <3> QED
      BY <3>1 DEF WorkerSet
  <2>3. CASE Accepts(n, me.pkt)
    <3>1. wk'[n][w].pc = "act" /\ wk'[n][w].pkt = me.pkt
      BY <2>1, <2>2, <2>3 DEF St
    <3> QED
      BY <3>1 DEF Outcome, Pending
  <2>4. CASE ~Accepts(n, me.pkt)
    <3>1. wk'[n][w].res = "auth" /\ wk'[n][w].pkt = me.pkt
      BY <2>1, <2>2, <2>4 DEF St
    <3>2. SpareKey
      BY <2>4 DEF Accepts, Hash, IsGoodPut
    <3> QED
      BY <3>1, <3>2 DEF Outcome, IsGoodPut
  <2> QED
    BY <2>3, <2>4
<1>4. CASE Act(n, w)
  <2>1. store \in [Node -> [Req -> Nat]]
    BY DEF TypeInv, TypeOK
  <2>2. store' = [store EXCEPT ![n][r] = store[n][r] + 1]
    BY <1>4 DEF Act, IsGoodPut
  <2> QED
    BY <2>1, <2>2 DEF Outcome
<1>5. Works(n, w) => ValidateHash(n, w) \/ ValidateCheck(n, w) \/ Act(n, w)
  BY DEF Works, Receive, WorkerExits, Sign, Answer, AnswerFails, Resign, ResignCopy,
         PublishFails, Publish
<1> QED
  BY <1>1, <1>2, <1>3, <1>4, <1>5, WorkerKeeps

(* A Put that a server read leaves its readers, channel and workers only   *)
(* by being applied, or refused if workers share the bytes behind the key: *)
(* with any number of connections and workers, any capacity of the channel *)
(* and Close at any moment (readUDPFrames, handleTCPConnection, worker).   *)
THEOREM PutsKept == Spec => ReadPutKept
<1>1. ASSUME TypeInv, [Next]_vars, NEW n \in Node, NEW r \in Req, Pending(n, r)
      PROVE  Outcome(n, r)
  <2>1. CASE UNCHANGED vars
    BY <1>1, <2>1 DEF vars, Pending, Outcome
  <2>2. ASSUME NEW m \in Node, Step(m) PROVE Outcome(n, r)
    BY <1>1, <2>2, ReaderHasPut, QueueHasPut, WorkerHasPut DEF Pending
  <2>3. Next => \E m \in Node : Step(m)
    BY DEF Next, Step
  <2> QED
    BY <1>1, <2>1, <2>2, <2>3
<1>2. TypeInv /\ [Next]_vars =>
          [\A n \in Node, r \in Req :
             Pending(n, r) => \/ Pending(n, r)'
                              \/ store'[n][r] = store[n][r] + 1
                              \/ SpareKey /\ \E w \in Worker :
                                     wk'[n][w].pkt.req = r /\ wk'[n][w].res = "auth"]_vars
  BY <1>1 DEF Outcome
<1> QED
  BY <1>2, Typed, PTL DEF Spec, ReadPutKept

(* A worker exits only when there will be no more messages: none is left   *)
(* in the channel, and no reader, blocked or still reading, can add one.   *)
(* So a reader that waits at a full channel has all workers to empty it.   *)
ExitLeavesNothing ==
    \A n \in Node : (\E w \in Worker : wk[n][w].pc = "exit") =>
        queue[n] = <<>> /\ ChannelClosed(n)

(* The channel stays closed and empty once a worker has exited.            *)
LEMMA ExitStep ==
    ASSUME TypeInv, ExitLeavesNothing, NEW m \in Node, Step(m) PROVE ExitLeavesNothing'
<1> SUFFICES ASSUME NEW n \in Node, NEW w \in Worker, wk'[n][w].pc = "exit"
             PROVE  queue'[n] = <<>> /\ ChannelClosed(n)'
  BY DEF ExitLeavesNothing, ChannelClosed
<1>1. queue[n] = <<>> /\ ChannelClosed(n)
  <2>1. CASE wk[n][w].pc = "exit"
    BY <2>1 DEF ExitLeavesNothing
  <2>2. CASE wk[n][w].pc # "exit"
    <3>1. Works(n, w)
      BY <2>2, WorkerKeeps
    <3>2. ASSUME NEW new, WorkerOK(new), wk' = [wk EXCEPT ![n][w] = new], new.pc # "exit" PROVE FALSE
      <4>1. wk'[n][w] = new
        <5>1. WorkerSet(n, w, new)
          BY <3>2, WorkerMoves
        <5> QED
          BY <5>1 DEF WorkerSet
      <4> QED
        BY <3>2, <4>1
    <3>3. ~(ValidateHash(n, w) \/ Sign(n, w) \/ Resign(n, w))
      BY <3>2, PcStep DEF St, ValidateHash, Sign, Resign
    <3>4. ~Receive(n, w)
      BY <3>2, ReceiveStep DEF St
    <3>5. ~ValidateCheck(n, w)
      BY <3>2, CheckStep DEF St
    <3>6. ~Act(n, w)
      BY <3>2, ActStep DEF St, Idle
    <3>7. ~(Answer(n, w) \/ AnswerFails(n, w))
      BY <3>2, AnswerStep DEF St, Idle
    <3>8. ~ResignCopy(n, w)
      BY <3>2, CopyStep DEF St
    <3>9. ~PublishFails(n, w)
      BY <3>2, PublishFailsStep, Distinct DEF Idle
    <3>10. ASSUME NEW p \in Node PROVE ~Publish(n, w, p)
      BY <3>2, PublishStep DEF St, Idle, Move
    <3>11. WorkerExits(n, w)
      BY <3>1, <3>3, <3>4, <3>5, <3>6, <3>7, <3>8, <3>9, <3>10 DEF Works
    <3> QED
      BY <3>11 DEF WorkerExits
  <2> QED
    BY <2>1, <2>2
<1>2. queue'[n] = <<>>
  <2>1. ~(\E s \in Reader : Enqueue(n, s)) /\ ~(\E v \in Worker : Receive(n, v))
    BY <1>1 DEF Enqueue, Receive
  <2> QED
    BY <1>1, <2>1, QueueKeeps
<1>3. ChannelClosed(n)'
  <2>1. closing \in [Node -> 0 .. 4] /\ closing[n] = 4
    BY <1>1 DEF TypeInv, TypeOK, ChannelClosed
  <2>2. closing' = closing \/ Close(m)
    <3>1. CASE \E v \in Worker : Works(m, v)
      BY <3>1, WorksLeaves
    <3>2. CASE \E s \in Reader : Reads(m, s)
      BY <3>2 DEF Reads, Enqueue, EnqueuePanics
    <3>3. ASSUME NEW r \in Req, NEW cmd, NEW hash,
                 HttpPut(m, r) \/ SendUDP(r, m, cmd, hash) \/ \E c \in Conn : ReadTCP(m, c, r, cmd, hash)
          PROVE  closing' = closing
      BY <3>3 DEF HttpPut, SendUDP, ReadTCP
    <3>4. CASE \/ (\E k \in net : ReadUDP(m, k)) \/ ReadFails(m) \/ AcceptFails(m)
               \/ (\E c \in Conn : Accept(m, c) \/ HangUp(m, c)) \/ Clear(m)
      BY <3>4 DEF ReadUDP, ReadFails, AcceptFails, Accept, HangUp, Clear
    <3> QED
      BY <3>1, <3>2, <3>3, <3>4 DEF Step
  <2>3. closing'[n] = 4
    BY <2>1, <2>2 DEF Close
  <2> QED
    BY <2>3 DEF ChannelClosed
<1> QED
  BY <1>2, <1>3

(* A worker exits with the channel closed and empty, and both stay: so no  *)
(* message that was read is left without a worker, and no reader waits at  *)
(* a full channel that workers have left (worker, Close).                  *)
THEOREM ExitsLast == Spec => []ExitLeavesNothing
<1>1. Init => ExitLeavesNothing
  BY DEF Init, ExitLeavesNothing, Idle
<1>2. TypeInv /\ ExitLeavesNothing /\ [Next]_vars => ExitLeavesNothing'
  <2> SUFFICES ASSUME TypeInv, ExitLeavesNothing, [Next]_vars PROVE ExitLeavesNothing'
    OBVIOUS
  <2>1. CASE UNCHANGED vars
    BY <2>1 DEF vars, ExitLeavesNothing, ChannelClosed
  <2>2. Next => \E m \in Node : Step(m)
    BY DEF Next, Step
  <2> QED
    BY <2>1, <2>2, ExitStep
<1> QED
  BY <1>1, <1>2, Typed, PTL DEF Spec
=============================================================================
