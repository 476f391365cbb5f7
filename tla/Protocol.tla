------------------------------ MODULE Protocol ------------------------------
(***************************************************************************)
(* package protocol, and ReadOneTcpMessage of package rawmessage: packets  *)
(* as sequences of bytes.  The layout is that of the code, the sizes of    *)
(* its fields are parameters (8, 4, 64 and 1419 bytes there).              *)
(***************************************************************************)
EXTENDS Naturals, Sequences, SequencesExt, FiniteSetsExt

CONSTANTS HashSize, IdSize, NamespaceSize, DataValueSize,
          preSharedKey,
          Digest     \* xxhash of no bytes: nothing is written to the hasher

Base == 256    \* the values of a byte
Byte == 0 .. Base - 1

ASSUME ProtocolAssumption ==
    /\ {HashSize, IdSize, NamespaceSize, DataValueSize} \subseteq Nat \ {0}
    /\ DataValueSize >= IdSize /\ IdSize + NamespaceSize >= HashSize
    /\ preSharedKey \in Seq(Byte) /\ Digest \in Seq(Byte) /\ Len(Digest) = HashSize

LF == 10
DOT == 46
space == 32
StopSymbol == <<LF, DOT, LF>>

(* unicode.IsSpace of one byte.  It takes some runes of two and three      *)
(* bytes, too; these begin with a byte of WideSpace.                       *)
IsSpace(b) == b \in {9, LF, 11, 12, 13, space}
WideSpace == {194, 225, 226, 227}
Narrow(s) == \A i \in 1 .. Len(s) : s[i] \notin WideSpace

(* 'C', 'P', 'R', 'N', 'S'; 'K', 'I', 'V', 'T', 'L'; 'E'.                  *)
CmdCount == 67
CmdTCPOnlyKeys == 75
ResError == 69
IsRequestCmd(c) == c \in {CmdCount, 80, 82, 78, 83}
IsTcpOnlyCmd(c) == c \in {CmdTCPOnlyKeys, 73, 86, 84, 76}
IsResponseCmd(c) == c = ResError \/ IsRequestCmd(c)

(* The places of the spaces, counted from 1.                               *)
space1 == 2
space2 == space1 + HashSize + 1
space3 == space2 + IdSize + 1
space4 == space3 + NamespaceSize + 1
PacketSize == space4 + DataValueSize

-----------------------------------------------------------------------------
PadRight(in, finalSize) ==
    IF Len(in) >= finalSize THEN in
    ELSE in \o [i \in 1 .. finalSize - Len(in) |-> space]

Inked(s) == {i \in 1 .. Len(s) : ~IsSpace(s[i])}
TrimLeft(s) == IF Inked(s) = {} THEN <<>> ELSE SubSeq(s, Min(Inked(s)), Len(s))
TrimRight(s) == IF Inked(s) = {} THEN <<>> ELSE SubSeq(s, 1, Max(Inked(s)))
TrimSpace(s) == TrimLeft(TrimRight(s))

(* Little endian, in IdSize bytes; PutUint32 keeps the low ones.           *)
Shifted(u) ==
    LET q[i \in 0 .. IdSize] == IF i = 0 THEN u ELSE q[i - 1] \div Base IN q
Uint32ToBytes(u) == [i \in 1 .. IdSize |-> Shifted(u)[i - 1] % Base]
Gathered(b) ==
    LET v[i \in 0 .. IdSize] == IF i = 0 THEN 0 ELSE Base * v[i - 1] + b[IdSize + 1 - i] IN v
Uint32FromBytes(b) == Gathered(b)[IdSize]
Largest ==
    LET m[i \in 0 .. IdSize] == IF i = 0 THEN 0 ELSE Base * m[i - 1] + Base - 1 IN m
MaxUint32 == Largest[IdSize]

(* HashPacket appends to the key and hands the result to hasher.Sum, which *)
(* appends its digest to it; the first 8 bytes are used.                   *)
HashPacket(id, ns, data) == SubSeq(preSharedKey \o id \o ns \o data \o Digest, 1, HashSize)

NewPacketFromParts(command, id, namespace, dataValue) ==
    LET ns == PadRight(namespace, NamespaceSize)
        data == PadRight(dataValue, DataValueSize)
    IN [cmd |-> command, hash |-> HashPacket(id, ns, data), id |-> id, ns |-> ns, data |-> data]

Validate(p) == p.hash = HashPacket(p.id, p.ns, p.data)

(* Packet.Bytes, and the size it refuses to put out.                       *)
Bytes(p) ==
    <<p.cmd, space>> \o p.hash \o <<space>> \o p.id \o <<space>>
        \o PadRight(p.ns, NamespaceSize) \o <<space>> \o PadRight(p.data, DataValueSize)
BadOutputSize(p) == Len(Bytes(p)) # PacketSize /\ ~IsTcpOnlyCmd(p.cmd)

-----------------------------------------------------------------------------
HashBytes(buf) == SubSeq(buf, space1 + 1, space2 - 1)
IdBytes(buf) == SubSeq(buf, space2 + 1, space3 - 1)
NsBytesShort(buf) == SubSeq(buf, space3 + 1, space4 - 2)
NsBytes(buf) == SubSeq(buf, space3 + 1, space4 - 1)
DataBytesLate(buf) == SubSeq(buf, space4 + 2, Min({Len(buf), PacketSize}))
DataBytes(buf) == SubSeq(buf, space4 + 1, Min({Len(buf), PacketSize}))

TooSmall(buf) == Len(buf) < space4 + 1

(* The packet, and whether ParsePacket returns an error with it.           *)
ParsePacket(buf) ==
    [cmd |-> buf[1], hash |-> HashBytes(buf), id |-> IdBytes(buf), ns |-> NsBytes(buf),
     data |-> PadRight(DataBytes(buf), DataValueSize)]
ParseFails(buf) ==
    \/ TooSmall(buf)
    \/ ~(IsRequestCmd(buf[1]) \/ IsResponseCmd(buf[1]) \/ IsTcpOnlyCmd(buf[1]))
    \/ \E i \in {space1, space2, space3, space4} : buf[i] # space
    \/ Len(buf) > PacketSize /\ ~IsTcpOnlyCmd(buf[1])

-----------------------------------------------------------------------------
(* ReadOneTcpMessage on a connection that carries the bytes s and ends.    *)
(* LineEnds: where ReadBytes('\n') returns; Buffered: the message so far,  *)
(* the first line trimmed on its left.                                     *)
LineEnds(s) == {i \in 1 .. Len(s) : s[i] = LF}
Buffered(s, i) ==
    LET first == Min(LineEnds(s)) IN TrimLeft(SubSeq(s, 1, first)) \o SubSeq(s, first + 1, i)
Complete(s) == {i \in LineEnds(s) : IsSuffix(StopSymbol, Buffered(s, i))}

(* The first message that is complete, or what came before the end.        *)
Message(s) == Buffered(s, IF Complete(s) # {} THEN Min(Complete(s)) ELSE Max(LineEnds(s)))

StopLengthEscaped == 5
StopLength == Len(StopSymbol)

ReadFails(s) == LineEnds(s) = {}
ReadPanics(s) == ~ReadFails(s) /\ Len(Message(s)) < StopLength
ReadOneTcpMessage(s) ==
    PadRight(TrimRight(SubSeq(Message(s), 1, Len(Message(s)) - StopLength)), PacketSize)
=============================================================================
