-------------------------------- MODULE Wire --------------------------------
(***************************************************************************)
(* What becomes of a message between a client and a server: packed by the  *)
(* one, carried by a UDP packet or by a TCP connection that may end in the *)
(* middle of it, read, parsed and validated by the other.  Requests and    *)
(* replies alike.                                                          *)
(***************************************************************************)
EXTENDS Protocol

CONSTANTS IdBytesUsed,  \* the bytes of message ids in an instance
          Namespaces,   \* the namespaces
          TextBytes,    \* the bytes of keys and lists of keys ...
          MaxText,      \* ... and their largest number
          Counts        \* the counts that a server may have to return

Texts == UNION {[1 .. n -> TextBytes] : n \in 0 .. MaxText}
Messages == [cmd : {CmdCount, CmdTCPOnlyKeys}, id : [1 .. IdSize -> IdBytesUsed],
             ns : Namespaces, data : Texts]

ASSUME WireAssumption ==
    /\ IdBytesUsed \subseteq Byte /\ TextBytes \subseteq Byte /\ MaxText \in Nat
    /\ Namespaces \subseteq Seq(Byte) /\ Counts \subseteq Nat

VARIABLES
    stage,  \* how far the message has got
    msg,    \* what is to be sent
    wire,   \* the bytes under way, then the bytes read
    cut,    \* the connection ended before the last byte
    pkt     \* the packet parsed

vars == <<stage, msg, wire, cut, pkt>>

Packed(m) == NewPacketFromParts(m.cmd, m.id, m.ns, m.data)

(* _sendTCP and respondOrLogErrorTCP append the stop symbol to the data    *)
(* of a packet that has its hash already.                                  *)
Framed(m) == LET p == Packed(m) IN Bytes([p EXCEPT !.data = p.data \o StopSymbol])

(* worker: a count is cut to the largest the reply can carry; the reply    *)
(* has the namespace of the request, as it was parsed.                     *)
Uncapped(n) == n
Capped(n) == Min({n, MaxUint32})
Reply(n, id, ns) == [cmd |-> CmdCount, id |-> id, ns |-> PadRight(ns, NamespaceSize),
                     data |-> Uint32ToBytes(Capped(n))]

(* Count: the number in the first bytes of the reply.                      *)
Returned(p) == Uint32FromBytes(SubSeq(p.data, 1, IdSize))

Init ==
    /\ stage = "new" /\ cut = FALSE
    /\ msg = [cmd |-> ResError, id |-> <<>>, ns |-> <<>>, data |-> <<>>]
    /\ wire = <<>> /\ pkt = msg

(* _sendUDP, respondOrLogError, republish: a packet of the wrong size is   *)
(* not sent.                                                               *)
SendUDP(m) ==
    /\ stage = "new" /\ ~IsTcpOnlyCmd(m.cmd)
    /\ msg' = m
    /\ IF BadOutputSize(Packed(m))
       THEN stage' = "refused" /\ wire' = wire
       ELSE stage' = "read" /\ wire' = Bytes(Packed(m))
    /\ UNCHANGED <<cut, pkt>>

SendTCP(m) ==
    /\ stage = "new" /\ IsTcpOnlyCmd(m.cmd)
    /\ msg' = m
    /\ stage' = "tcp" /\ wire' = Framed(m)
    /\ UNCHANGED <<cut, pkt>>

(* External: the connection ends after k bytes.                            *)
Cut(k) ==
    /\ stage = "tcp" /\ ~cut /\ k < Len(wire)
    /\ cut' = TRUE /\ wire' = SubSeq(wire, 1, k)
    /\ UNCHANGED <<stage, msg, pkt>>

ReadTCP ==
    /\ stage = "tcp"
    /\ CASE ReadFails(wire) -> stage' = "failed" /\ wire' = wire
         [] ReadPanics(wire) -> stage' = "panicked" /\ wire' = wire
         [] OTHER -> stage' = "read" /\ wire' = ReadOneTcpMessage(wire)
    /\ UNCHANGED <<msg, cut, pkt>>

Parse ==
    /\ stage = "read"
    /\ stage' = IF ParseFails(wire) THEN "bad" ELSE "parsed"
    /\ pkt' = ParsePacket(wire)
    /\ UNCHANGED <<msg, wire, cut>>

Next ==
    \/ /\ stage = "new"
       /\ \/ \E m \in Messages : SendUDP(m) \/ SendTCP(m)
          \/ \E n \in Counts, id \in [1 .. IdSize -> IdBytesUsed], ns \in Namespaces :
                Len(ns) <= NamespaceSize /\ SendUDP(Reply(n, id, ns))
    \/ \E k \in 0 .. Len(wire) : Cut(k)
    \/ ReadTCP \/ Parse

Spec == Init /\ [][Next]_vars

-----------------------------------------------------------------------------
OverTCP == IsTcpOnlyCmd(msg.cmd)
Arrived == stage \in {"parsed", "bad"}

(* By UDP a packet is refused by its sender because a field is too long,   *)
(* or is parsed into exactly what was packed, and its hash is accepted.    *)
UdpExact ==
    ~OverTCP =>
        /\ stage = "refused" => Len(msg.ns) > NamespaceSize \/ Len(msg.data) > DataValueSize
        /\ Arrived => stage = "parsed" /\ pkt = Packed(msg) /\ Validate(pkt)

(* The reader finds the end of the message where the sender put it.        *)
StopsAtEnd == Complete(Framed(msg)) = {Len(Framed(msg))}

(* TrimRight takes white space, for which PadRight puts spaces; it does    *)
(* not get as far as the message id.                                       *)
IdKept == Inked(msg.ns \o msg.data) # {} \/ ~IsSpace(msg.id[IdSize])

(* The hash reaches the namespace if the key is short, and there the       *)
(* reader puts spaces for the white space that TrimRight took.             *)
HashKept ==
    \/ Len(preSharedKey) + IdSize >= HashSize
    \/ \A j \in 1 .. Len(msg.ns) : IsSpace(msg.ns[j]) => msg.ns[j] = space

(* No white space of several bytes is in the message.                      *)
NoWideSpace == Narrow(msg.id \o msg.ns \o msg.data)

(* By TCP a message that is not cut off is parsed into what was packed, up *)
(* to white space around the namespace and the data, unless the stop       *)
(* symbol also occurs before its end, white space at the end of the id is  *)
(* taken for padding, or there is white space of several bytes (which is   *)
(* not modelled); and its hash is accepted, unless the key is short and    *)
(* the namespace has white space other than spaces.  Data that is too long *)
(* loses its end, without an error.                                        *)
TcpExact ==
    OverTCP /\ Arrived /\ ~cut /\ Len(msg.ns) <= NamespaceSize /\ StopsAtEnd /\ IdKept
            /\ NoWideSpace =>
        /\ stage = "parsed" /\ pkt.cmd = msg.cmd /\ pkt.id = msg.id
        /\ TrimSpace(pkt.ns) = TrimSpace(msg.ns)
        /\ TrimSpace(pkt.data) = TrimSpace(SubSeq(msg.data, 1, Min({Len(msg.data), DataValueSize})))
        /\ HashKept => Validate(pkt)

(* Wherever the connection ends, and wherever else the stop symbol occurs, *)
(* the data that a worker is given is a beginning of the data sent, if the *)
(* namespace fits its field: of one that is too long and has a space in    *)
(* the right place, which TCP carries, the rest is taken for the data.     *)
(* (White space of several bytes is not modelled.)                         *)
DataIsPrefix ==
    stage = "parsed" /\ Len(msg.ns) <= NamespaceSize /\ NoWideSpace =>
        IsPrefix(TrimSpace(pkt.data), TrimSpace(msg.data))

(* ReadOneTcpMessage takes the length of the stop symbol from the end of a *)
(* message that may not have one.  For a connection that ends inside a     *)
(* message of this protocol there is always as much to take.  (Not so for  *)
(* one that carries a line of less than two bytes and ends.)               *)
CutNeverPanics == stage # "panicked"

(* A count comes back as it was, or as the largest number there is.        *)
CountExact ==
    \A n \in Counts, ns \in Namespaces :
        stage = "parsed" /\ msg.cmd = CmdCount /\ msg = Reply(n, msg.id, ns) =>
            Returned(pkt) = IF n > MaxUint32 THEN MaxUint32 ELSE n
=============================================================================
