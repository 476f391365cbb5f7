----------------------------- MODULE WireProofs -----------------------------
(***************************************************************************)
(* Proofs about module Wire, for any sizes of the fields, any key, and     *)
(* messages of any bytes and any length.                                   *)
(***************************************************************************)
EXTENDS Wire, SequenceTheorems, WellFoundedInduction, TLAPS

(* The sizes of the fields and the places of the spaces are as they are.   *)
LEMMA Sizes ==
    /\ HashSize \in Nat /\ HashSize >= 1 /\ IdSize \in Nat /\ IdSize >= 1
    /\ NamespaceSize \in Nat /\ NamespaceSize >= 1
    /\ DataValueSize \in Nat /\ DataValueSize >= IdSize
    /\ space2 = HashSize + 3 /\ space3 = HashSize + IdSize + 4
    /\ space4 = HashSize + IdSize + NamespaceSize + 5
    /\ PacketSize = space4 + DataValueSize
<1>1. /\ HashSize \in Nat /\ HashSize >= 1 /\ IdSize \in Nat /\ IdSize >= 1
      /\ NamespaceSize \in Nat /\ NamespaceSize >= 1
      /\ DataValueSize \in Nat /\ DataValueSize >= IdSize
  BY ProtocolAssumption
<1> QED
  BY <1>1 DEF space1, space2, space3, space4, PacketSize

(* PadRight makes a field at least as long as it is to be, keeps what is   *)
(* there and adds spaces only (protocol.go, PadRight).                     *)
LEMMA Padded ==
    ASSUME NEW S, space \in S, NEW s \in Seq(S), NEW n \in Nat
    PROVE  /\ PadRight(s, n) \in Seq(S)
           /\ Len(PadRight(s, n)) = IF Len(s) >= n THEN Len(s) ELSE n
           /\ \A j \in 1 .. Len(s) : PadRight(s, n)[j] = s[j]
           /\ \A j \in 1 .. n : j > Len(s) => PadRight(s, n)[j] = space
           /\ Len(s) >= n => PadRight(s, n) = s
<1>1. Len(s) \in Nat
  OBVIOUS
<1>2. CASE Len(s) >= n
  BY <1>1, <1>2 DEF PadRight
<1>3. CASE Len(s) < n
  <2> DEFINE k == n - Len(s)
             t == [i \in 1 .. k |-> space]
  <2>1. k \in Nat
    BY <1>1, <1>3
  <2>2. t \in Seq(S) /\ Len(t) = k /\ \A i \in 1 .. k : t[i] = space
    BY <2>1
  <2>3. PadRight(s, n) = s \o t
    BY <1>1, <1>3 DEF PadRight
  <2> HIDE DEF t
  <2>4. /\ s \o t \in Seq(S) /\ Len(s \o t) = Len(s) + Len(t)
        /\ \A i \in 1 .. Len(s) + Len(t) : (s \o t)[i] = IF i <= Len(s) THEN s[i] ELSE t[i - Len(s)]
    BY <2>2, ConcatProperties
  <2>5. \A j \in 1 .. Len(s) : (s \o t)[j] = s[j]
    BY <1>1, <2>1, <2>2, <2>4
  <2>6. \A j \in 1 .. n : j > Len(s) => (s \o t)[j] = space
    BY <1>1, <2>1, <2>2, <2>4
  <2> QED
    BY <1>1, <1>3, <2>1, <2>2, <2>3, <2>4, <2>5, <2>6
<1> QED
  BY <1>1, <1>2, <1>3

(* The bytes t are in s, after the first k bytes.                          *)
At(s, k, t) == k + Len(t) <= Len(s) /\ \A j \in 1 .. Len(t) : s[k + j] = t[j]

LEMMA AtEnd ==
    ASSUME NEW S, NEW a \in Seq(S), NEW b \in Seq(S)
    PROVE  /\ a \o b \in Seq(S) /\ Len(a \o b) = Len(a) + Len(b)
           /\ At(a \o b, Len(a), b) /\ At(a \o b, 0, a)
<1>1. /\ a \o b \in Seq(S) /\ Len(a \o b) = Len(a) + Len(b)
      /\ \A i \in 1 .. Len(a) + Len(b) : (a \o b)[i] = IF i <= Len(a) THEN a[i] ELSE b[i - Len(a)]
  BY ConcatProperties
<1>2. Len(a) \in Nat /\ Len(b) \in Nat
  OBVIOUS
<1>3. PICK m \in Nat, n \in Nat, c \in Seq(S) : m = Len(a) /\ n = Len(b) /\ c = a \o b
  BY <1>1, <1>2
<1>4. Len(c) = m + n /\ \A i \in 1 .. m + n : c[i] = IF i <= m THEN a[i] ELSE b[i - m]
  BY <1>1, <1>3
<1>5. \A j \in 1 .. n : c[m + j] = b[j]
  <2> TAKE j \in 1 .. n
  <2>1. m + j \in 1 .. m + n /\ ~(m + j <= m) /\ m + j - m = j
    OBVIOUS
  <2> QED
    BY <1>4, <2>1
<1>6. \A j \in 1 .. m : c[0 + j] = a[j]
  BY <1>4
<1> QED
  BY <1>1, <1>3, <1>4, <1>5, <1>6 DEF At

LEMMA AtStays ==
    ASSUME NEW S, NEW a \in Seq(S), NEW b \in Seq(S), NEW k \in Nat, NEW t \in Seq(S), At(a, k, t)
    PROVE  At(a \o b, k, t)
<1>1. At(a \o b, 0, a) /\ Len(a \o b) = Len(a) + Len(b)
  BY AtEnd
<1>2. Len(a) \in Nat /\ Len(b) \in Nat /\ Len(t) \in Nat
  OBVIOUS
<1> QED
  BY <1>1, <1>2 DEF At

LEMMA AtSlice ==
    ASSUME NEW S, NEW s \in Seq(S), NEW k \in Nat, NEW t \in Seq(S), At(s, k, t)
    PROVE  SubSeq(s, k + 1, k + Len(t)) = t
<1>1. PICK n \in Nat : n = Len(t)
  OBVIOUS
<1>2. \A i \in k + 1 .. k + n : s[i] \in S
  BY <1>1 DEF At
<1>3. /\ SubSeq(s, k + 1, k + n) \in Seq(S) /\ Len(SubSeq(s, k + 1, k + n)) = n
      /\ \A i \in 1 .. n : SubSeq(s, k + 1, k + n)[i] = s[k + i]
  BY <1>2, SubSeqProperties
<1> QED
  BY <1>1, <1>3, SeqEqual DEF At

LEMMA Piece ==
    ASSUME NEW S, NEW s \in Seq(S), NEW m \in Nat, NEW n \in Nat, 1 <= m, m <= n + 1, n <= Len(s)
    PROVE  /\ SubSeq(s, m, n) \in Seq(S) /\ Len(SubSeq(s, m, n)) = n - m + 1
           /\ \A j \in 1 .. n - m + 1 : SubSeq(s, m, n)[j] = s[m + j - 1]
<1>1. \A j \in m .. n : s[j] \in S
  OBVIOUS
<1>2. /\ SubSeq(s, m, n) \in Seq(S)
      /\ Len(SubSeq(s, m, n)) = IF m <= n THEN n - m + 1 ELSE 0
      /\ \A j \in 1 .. n - m + 1 : SubSeq(s, m, n)[j] = s[m + j - 1]
  BY <1>1, SubSeqProperties
<1> QED
  BY <1>2

(* The bytes before the data, and what ParsePacket finds in them.          *)
Header(c, h, i, n) ==
    <<c, space>> \o h \o <<space>> \o i \o <<space>> \o n \o <<space>>

Sized(h, i, n) == Len(h) = HashSize /\ Len(i) = IdSize /\ Len(n) = NamespaceSize

LEMMA HeaderLayout ==
    ASSUME NEW S, space \in S, NEW c \in S, NEW h \in Seq(S), NEW i \in Seq(S), NEW n \in Seq(S),
           Sized(h, i, n)
    PROVE  LET b == Header(c, h, i, n) IN
           /\ b \in Seq(S) /\ Len(b) = space4
           /\ b[1] = c /\ At(b, space1, h) /\ At(b, space2, i) /\ At(b, space3, n)
           /\ \A k \in {space1, space2, space3, space4} : b[k] = space
<1> DEFINE o == <<space>>
           p0 == <<c, space>>
           p1 == p0 \o h
           p2 == p1 \o o
           p3 == p2 \o i
           p4 == p3 \o o
           p5 == p4 \o n
           p6 == p5 \o o
<1>0. o \in Seq(S) /\ Len(o) = 1 /\ o[1] = space
      /\ p0 \in Seq(S) /\ Len(p0) = 2 /\ p0[1] = c /\ p0[2] = space
  OBVIOUS
<1>b. Header(c, h, i, n) = p6
  BY DEF Header
<1>s. space1 = 2 /\ space1 \in Nat /\ space2 \in Nat /\ space3 \in Nat /\ space4 \in Nat
  BY Sizes DEF space1
<1> HIDE DEF o, p0
<1>1. p1 \in Seq(S) /\ Len(p1) = space2 - 1 /\ At(p1, 0, p0) /\ At(p1, space1, h)
  <2>1. p1 \in Seq(S) /\ Len(p1) = Len(p0) + Len(h) /\ At(p1, Len(p0), h) /\ At(p1, 0, p0)
    BY <1>0, AtEnd
  <2> QED
    BY <1>0, <1>s, <2>1, Sizes DEF Sized
<1> HIDE DEF p1
<1>2. /\ p2 \in Seq(S) /\ Len(p2) = space2
      /\ At(p2, 0, p0) /\ At(p2, space1, h) /\ At(p2, space2 - 1, o)
  <2>1. p2 \in Seq(S) /\ Len(p2) = Len(p1) + Len(o) /\ At(p2, Len(p1), o)
    BY <1>0, <1>1, AtEnd
  <2>2. At(p2, 0, p0) /\ At(p2, space1, h)
    BY <1>0, <1>1, <1>s, AtStays
  <2> QED
    BY <1>0, <1>1, <1>s, <2>1, <2>2, Sizes
<1> HIDE DEF p2
<1>3. /\ p3 \in Seq(S) /\ Len(p3) = space3 - 1
      /\ At(p3, 0, p0) /\ At(p3, space1, h) /\ At(p3, space2 - 1, o) /\ At(p3, space2, i)
  <2>1. p3 \in Seq(S) /\ Len(p3) = space3 - 1 /\ At(p3, space2, i)
    BY <1>2, <1>s, Sizes, AtEnd DEF Sized
  <2>2. At(p3, 0, p0) /\ At(p3, space1, h) /\ At(p3, space2 - 1, o)
    BY <1>0, <1>2, <1>s, Sizes, AtStays
  <2> QED
    BY <2>1, <2>2
<1> HIDE DEF p3
<1>4. /\ p4 \in Seq(S) /\ Len(p4) = space3
      /\ At(p4, 0, p0) /\ At(p4, space1, h) /\ At(p4, space2 - 1, o) /\ At(p4, space2, i)
      /\ At(p4, space3 - 1, o)
  <2>1. p4 \in Seq(S) /\ Len(p4) = space3 /\ At(p4, space3 - 1, o)
    <3>1. p4 \in Seq(S) /\ Len(p4) = Len(p3) + Len(o) /\ At(p4, Len(p3), o)
      BY <1>0, <1>3, AtEnd
    <3> QED
      BY <1>0, <1>3, <3>1, <1>s, Sizes
  <2>2. At(p4, 0, p0) /\ At(p4, space1, h) /\ At(p4, space2 - 1, o) /\ At(p4, space2, i)
    BY <1>0, <1>3, <1>s, Sizes, AtStays
  <2> QED
    BY <2>1, <2>2
<1> HIDE DEF p4
<1>5. /\ p5 \in Seq(S) /\ Len(p5) = space4 - 1
      /\ At(p5, 0, p0) /\ At(p5, space1, h) /\ At(p5, space2 - 1, o) /\ At(p5, space2, i)
      /\ At(p5, space3 - 1, o) /\ At(p5, space3, n)
  <2>1. p5 \in Seq(S) /\ Len(p5) = space4 - 1 /\ At(p5, space3, n)
    <3>1. p5 \in Seq(S) /\ Len(p5) = Len(p4) + Len(n) /\ At(p5, Len(p4), n)
      BY <1>4, AtEnd
    <3> QED
      BY <1>4, <3>1, <1>s, Sizes DEF Sized
  <2>2. At(p5, 0, p0) /\ At(p5, space1, h) /\ At(p5, space2 - 1, o) /\ At(p5, space2, i)
    BY <1>0, <1>4, <1>s, Sizes, AtStays
  <2>3. At(p5, space3 - 1, o)
    BY <1>0, <1>4, <1>s, Sizes, AtStays
  <2> QED
    BY <2>1, <2>2, <2>3
<1> HIDE DEF p5
<1>6. /\ p6 \in Seq(S) /\ Len(p6) = space4
      /\ At(p6, 0, p0) /\ At(p6, space1, h) /\ At(p6, space2 - 1, o) /\ At(p6, space2, i)
      /\ At(p6, space3 - 1, o) /\ At(p6, space3, n) /\ At(p6, space4 - 1, o)
  <2>1. p6 \in Seq(S) /\ Len(p6) = space4 /\ At(p6, space4 - 1, o)
    <3>1. p6 \in Seq(S) /\ Len(p6) = Len(p5) + Len(o) /\ At(p6, Len(p5), o)
      BY <1>0, <1>5, AtEnd
    <3> QED
      BY <1>0, <1>5, <3>1, <1>s, Sizes
  <2>2. At(p6, 0, p0) /\ At(p6, space1, h) /\ At(p6, space2 - 1, o) /\ At(p6, space2, i)
    BY <1>0, <1>5, <1>s, Sizes, AtStays
  <2>3. At(p6, space3 - 1, o) /\ At(p6, space3, n)
    BY <1>0, <1>5, <1>s, Sizes, AtStays
  <2> QED
    BY <2>1, <2>2, <2>3
<1> HIDE DEF p6
<1>7. p6[1] = c /\ p6[space1] = space
  <2>1. \A j \in 1 .. 2 : p6[0 + j] = p0[j]
    BY <1>0, <1>6 DEF At
  <2> QED
    BY <1>0, <1>s, <2>1
<1>8. \A k \in Nat : At(p6, k, o) => p6[k + 1] = space
  BY <1>0 DEF At
<1>9. p6[space2] = space /\ p6[space3] = space /\ p6[space4] = space
  <2>1. /\ space2 - 1 \in Nat /\ space3 - 1 \in Nat /\ space4 - 1 \in Nat
        /\ space2 - 1 + 1 = space2 /\ space3 - 1 + 1 = space3 /\ space4 - 1 + 1 = space4
    BY Sizes
  <2> QED
    BY <1>6, <1>8, <2>1
<1> QED
  BY <1>b, <1>6, <1>7, <1>9

LEMMA HeaderLength ==
    ASSUME NEW S, space \in S, NEW c \in S, NEW h \in Seq(S), NEW i \in Seq(S), NEW n \in Seq(S)
    PROVE  /\ Header(c, h, i, n) \in Seq(S)
           /\ Len(Header(c, h, i, n)) = Len(h) + Len(i) + Len(n) + 5
BY DEF Header

-----------------------------------------------------------------------------
(* What may be a byte of a message, and the messages that are sent.        *)
Octet == Byte \cup {Uint32ToBytes(Capped(n))[j] : n \in Counts, j \in 1 .. IdSize}

Sendable(m) ==
    /\ m.cmd \in {CmdCount, CmdTCPOnlyKeys}
    /\ m.id \in Seq(Octet) /\ Len(m.id) = IdSize
    /\ m.ns \in Seq(Octet) /\ m.data \in Seq(Octet)

LEMMA Symbols ==
    /\ space \in Octet /\ CmdCount \in Octet /\ CmdTCPOnlyKeys \in Octet
    /\ StopSymbol \in Seq(Octet) /\ Len(StopSymbol) = 3
<1>1. Byte \subseteq Octet
  BY DEF Octet
<1>2. LF \in Byte /\ DOT \in Byte /\ space \in Byte /\ CmdCount \in Byte /\ CmdTCPOnlyKeys \in Byte
  BY DEF Base, Byte, LF, DOT, space, CmdCount, CmdTCPOnlyKeys
<1>3. LF \in Octet /\ DOT \in Octet
  BY <1>1, <1>2
<1> QED
  BY <1>1, <1>2, <1>3 DEF StopSymbol

LEMMA MessageSendable == ASSUME NEW m \in Messages PROVE Sendable(m)
<1>1. /\ m.cmd \in {CmdCount, CmdTCPOnlyKeys} /\ m.id \in [1 .. IdSize -> IdBytesUsed]
      /\ m.ns \in Namespaces /\ m.data \in Texts
  BY DEF Messages
<1>2. Byte \subseteq Octet
  BY DEF Octet
<1>3. IdBytesUsed \subseteq Octet /\ TextBytes \subseteq Octet /\ Namespaces \subseteq Seq(Byte)
  BY <1>2, WireAssumption
<1>4. m.id \in Seq(Octet) /\ Len(m.id) = IdSize
  <2>0. PICK e : e = m.id
    OBVIOUS
  <2>1. PICK k \in Nat : k = IdSize
    BY Sizes
  <2>2. e \in [1 .. k -> Octet]
    BY <1>1, <1>3, <2>0, <2>1
  <2>3. e \in Seq(Octet) /\ Len(e) = k
    BY <2>2
  <2> QED
    BY <2>0, <2>1, <2>3
<1>5. m.ns \in Seq(Octet)
  BY <1>1, <1>2, <1>3, SeqMonotonic
<1>6. m.data \in Seq(Octet)
  <2>1. PICK n \in 0 .. MaxText : m.data \in [1 .. n -> TextBytes]
    BY <1>1 DEF Texts
  <2>2. n \in Nat
    BY <2>1, WireAssumption
  <2> QED
    BY <1>3, <2>1, <2>2
<1> QED
  BY <1>1, <1>4, <1>5, <1>6 DEF Sendable

LEMMA ReplySendable ==
    ASSUME NEW n \in Counts, NEW id \in [1 .. IdSize -> IdBytesUsed], NEW ns \in Namespaces
    PROVE  Sendable(Reply(n, id, ns))
<1>1. Byte \subseteq Octet
  BY DEF Octet
<1>2. IdBytesUsed \subseteq Octet
  BY <1>1, WireAssumption
<1>3. id \in Seq(Octet) /\ Len(id) = IdSize
  BY <1>2, Sizes
<1> DEFINE u == Uint32ToBytes(Capped(n))
<1>4. \A j \in 1 .. IdSize : u[j] \in Octet
  BY DEF Octet
<1>5. u = [j \in 1 .. IdSize |-> u[j]]
  BY DEF Uint32ToBytes
<1> HIDE DEF u
<1>6. u \in [1 .. IdSize -> Octet]
  BY <1>4, <1>5
<1>7. u \in Seq(Octet)
  BY <1>6, Sizes
<1>8. PadRight(ns, NamespaceSize) \in Seq(Octet)
  <2>1. ns \in Seq(Octet)
    BY <1>1, WireAssumption, SeqMonotonic
  <2> QED
    BY <2>1, Symbols, Sizes, Padded
<1>9. /\ Reply(n, id, ns).cmd = CmdCount /\ Reply(n, id, ns).id = id
      /\ Reply(n, id, ns).ns = PadRight(ns, NamespaceSize) /\ Reply(n, id, ns).data = u
  BY DEF Reply, u
<1> QED
  BY <1>3, <1>7, <1>8, <1>9 DEF Sendable

(* A hash has its size, and depends on the beginning of what is hashed.    *)
LEMMA HashSized ==
    ASSUME NEW i \in Seq(Octet), NEW n \in Seq(Octet), NEW d \in Seq(Octet)
    PROVE  HashPacket(i, n, d) \in Seq(Octet) /\ Len(HashPacket(i, n, d)) = HashSize
<1>1. Byte \subseteq Octet
  BY DEF Octet
<1>2. preSharedKey \in Seq(Octet) /\ Digest \in Seq(Octet) /\ Len(Digest) = HashSize
  BY <1>1, ProtocolAssumption, SeqMonotonic
<1> DEFINE s == preSharedKey \o i \o n \o d
<1>3. s \in Seq(Octet)
  BY <1>2
<1> HIDE DEF s
<1>4. s \o Digest \in Seq(Octet) /\ Len(s \o Digest) = Len(s) + HashSize
  BY <1>2, <1>3, AtEnd
<1>5. PICK t \in Seq(Octet) : t = s \o Digest
  BY <1>4
<1>6. Len(s) \in Nat /\ Len(t) = Len(s) + HashSize
  BY <1>3, <1>4, <1>5
<1>7. 1 \in Nat /\ HashSize \in Nat /\ 1 <= HashSize + 1 /\ HashSize <= Len(t)
  BY <1>6, Sizes
<1>8. SubSeq(t, 1, HashSize) \in Seq(Octet) /\ Len(SubSeq(t, 1, HashSize)) = HashSize
  BY <1>7, Piece
<1> QED
  BY <1>5, <1>8 DEF HashPacket, s

(* What is packed (protocol.go, NewPacketFromParts).                       *)
LEMMA PackedIs ==
    ASSUME NEW m, Sendable(m)
    PROVE  LET p == Packed(m) IN
           /\ p = [cmd |-> m.cmd, hash |-> p.hash, id |-> m.id,
                   ns |-> PadRight(m.ns, NamespaceSize), data |-> PadRight(m.data, DataValueSize)]
           /\ p.cmd = m.cmd /\ p.id = m.id
           /\ p.ns = PadRight(m.ns, NamespaceSize) /\ p.data = PadRight(m.data, DataValueSize)
           /\ p.hash \in Seq(Octet) /\ Len(p.hash) = HashSize
           /\ p.ns \in Seq(Octet) /\ p.data \in Seq(Octet)
           /\ Validate(p)
<1> DEFINE n == PadRight(m.ns, NamespaceSize)
           d == PadRight(m.data, DataValueSize)
           h == HashPacket(m.id, n, d)
<1>1. n \in Seq(Octet) /\ d \in Seq(Octet)
  BY Symbols, Sizes, Padded DEF Sendable
<1>2. Packed(m) = [cmd |-> m.cmd, hash |-> h, id |-> m.id, ns |-> n, data |-> d]
  BY DEF Packed, NewPacketFromParts
<1> HIDE DEF n, d
<1>3. h \in Seq(Octet) /\ Len(h) = HashSize
  BY <1>1, HashSized DEF Sendable
<1>4. Validate(Packed(m))
  BY <1>2 DEF Validate
<1> HIDE DEF h
<1> QED
  BY <1>1, <1>2, <1>3, <1>4 DEF n, d

(* Padding what is padded changes nothing.                                 *)
LEMMA PaddedTwice ==
    ASSUME NEW s \in Seq(Octet), NEW n \in Nat
    PROVE  /\ PadRight(PadRight(s, n), n) = PadRight(s, n)
           /\ Len(PadRight(s, n)) \in Nat /\ Len(PadRight(s, n)) >= n
           /\ Len(PadRight(s, n)) = n <=> Len(s) <= n
<1>1. PICK t \in Seq(Octet) : t = PadRight(s, n)
  BY Symbols, Padded
<1>2. Len(s) \in Nat /\ Len(t) = IF Len(s) >= n THEN Len(s) ELSE n
  BY <1>1, Symbols, Padded
<1>3. Len(t) \in Nat /\ Len(t) >= n /\ (Len(t) = n <=> Len(s) <= n)
  BY <1>2
<1>4. PadRight(t, n) = t
  BY <1>3, Symbols, Padded
<1> QED
  BY <1>1, <1>3, <1>4

Commands == {CmdCount, CmdTCPOnlyKeys}

Record(c, h, i, n, d) == [cmd |-> c, hash |-> h, id |-> i, ns |-> n, data |-> d]

(* The bytes of a message, c, h, i, n, d: its fields, n and d padded.      *)
Fields(m, c, h, i, n, d) ==
    /\ c = m.cmd /\ i = m.id
    /\ n = PadRight(m.ns, NamespaceSize) /\ d = PadRight(m.data, DataValueSize)
    /\ Packed(m) = Record(c, h, i, n, d)
    /\ Len(h) = HashSize /\ Len(i) = IdSize
    /\ Len(n) >= NamespaceSize /\ (Len(n) = NamespaceSize <=> Len(m.ns) <= NamespaceSize)
    /\ Len(d) >= DataValueSize /\ (Len(d) = DataValueSize <=> Len(m.data) <= DataValueSize)

LEMMA HasFields ==
    ASSUME NEW m, Sendable(m)
    PROVE  \E c \in Commands, h \in Seq(Octet), i \in Seq(Octet),
              n \in Seq(Octet), d \in Seq(Octet) : Fields(m, c, h, i, n, d)
<1>1. /\ m.cmd \in Commands /\ m.id \in Seq(Octet) /\ Len(m.id) = IdSize
      /\ m.ns \in Seq(Octet) /\ m.data \in Seq(Octet)
  BY DEF Sendable, Commands
<1>2. PICK n \in Seq(Octet) : n = PadRight(m.ns, NamespaceSize)
  BY <1>1, Symbols, Sizes, Padded
<1>3. PICK d \in Seq(Octet) : d = PadRight(m.data, DataValueSize)
  BY <1>1, Symbols, Sizes, Padded
<1>4. PICK h \in Seq(Octet) :
         /\ Len(h) = HashSize
         /\ Packed(m) = [cmd |-> m.cmd, hash |-> h, id |-> m.id, ns |-> n, data |-> d]
  BY <1>2, <1>3, PackedIs
<1>5. Len(n) >= NamespaceSize /\ (Len(n) = NamespaceSize <=> Len(m.ns) <= NamespaceSize)
  BY <1>1, <1>2, Sizes, PaddedTwice
<1>6. Len(d) >= DataValueSize /\ (Len(d) = DataValueSize <=> Len(m.data) <= DataValueSize)
  BY <1>1, <1>3, Sizes, PaddedTwice
<1>7. Fields(m, m.cmd, h, m.id, n, d)
  BY <1>1, <1>2, <1>3, <1>4, <1>5, <1>6 DEF Fields, Record
<1> QED
  BY <1>1, <1>7

LEMMA FieldBytes ==
    ASSUME NEW m, NEW c, NEW h, NEW i, NEW n \in Seq(Octet), NEW d \in Seq(Octet),
           Fields(m, c, h, i, n, d)
    PROVE  Bytes(Packed(m)) = Header(c, h, i, n) \o d
<1>1. PICK p : p = Packed(m)
  OBVIOUS
<1>2. p = Record(c, h, i, n, d)
  BY <1>1 DEF Fields
<1>3. p.cmd = c /\ p.hash = h /\ p.id = i /\ p.ns = n /\ p.data = d
  BY <1>2 DEF Record
<1>4. PadRight(n, NamespaceSize) = n
  <2>1. Len(n) >= NamespaceSize
    BY DEF Fields
  <2> QED
    BY <2>1, Sizes, Symbols, Padded
<1>5. PadRight(d, DataValueSize) = d
  <2>1. Len(d) >= DataValueSize
    BY DEF Fields
  <2> QED
    BY <2>1, Sizes, Symbols, Padded
<1>6. Bytes(p) = Header(c, h, i, n) \o d
  BY <1>3, <1>4, <1>5 DEF Bytes, Header
<1> QED
  BY <1>1, <1>6

(* Parsing is the inverse of packing, for a message of the right size      *)
(* (protocol.go, ParsePacket).                                             *)
LEMMA ParseBytes ==
    ASSUME NEW c \in Commands, NEW h \in Seq(Octet), NEW i \in Seq(Octet),
           NEW n \in Seq(Octet), NEW d \in Seq(Octet), Sized(h, i, n), Len(d) = DataValueSize
    PROVE  /\ ~ParseFails(Header(c, h, i, n) \o d)
           /\ ParsePacket(Header(c, h, i, n) \o d) = Record(c, h, i, n, d)
<1>0. c \in Octet
  BY Symbols DEF Commands
<1>1. PICK a \in Seq(Octet) : a = Header(c, h, i, n)
  BY <1>0, Symbols, HeaderLayout
<1>2. /\ Len(a) = space4
      /\ a[1] = c /\ At(a, space1, h) /\ At(a, space2, i) /\ At(a, space3, n)
      /\ \A k \in {space1, space2, space3, space4} : a[k] = space
  BY <1>0, <1>1, Symbols, HeaderLayout
<1>3. PICK b \in Seq(Octet) : b = a \o d
  BY AtEnd
<1>4. Len(b) = PacketSize /\ At(b, 0, a) /\ At(b, space4, d)
  <2>1. Len(b) = Len(a) + Len(d) /\ At(b, 0, a) /\ At(b, Len(a), d)
    BY <1>3, AtEnd
  <2> QED
    BY <1>2, <2>1, Sizes
<1>5. space1 = 2 /\ space2 \in Nat /\ space3 \in Nat /\ space4 \in Nat
  BY Sizes DEF space1
<1>6. At(b, space1, h) /\ At(b, space2, i) /\ At(b, space3, n)
  BY <1>2, <1>3, <1>5, AtStays
<1>7. \A k \in 1 .. space4 : b[k] = a[k]
  BY <1>2, <1>4, <1>5 DEF At
<1>8. b[1] = c /\ \A k \in {space1, space2, space3, space4} : b[k] = space
  <2>1. 1 \in 1 .. space4 /\ \A k \in {space1, space2, space3, space4} : k \in 1 .. space4
    BY <1>5, Sizes
  <2> QED
    BY <1>2, <1>7, <2>1
<1>9. ~ParseFails(b)
  <2>1. ~TooSmall(b)
    BY <1>4, <1>5, Sizes DEF TooSmall
  <2>2. IsRequestCmd(c) \/ IsTcpOnlyCmd(c)
    BY DEF IsRequestCmd, IsTcpOnlyCmd, Commands
  <2>3. ~(Len(b) > PacketSize)
    BY <1>4, <1>5, Sizes
  <2> QED
    BY <1>8, <2>1, <2>2, <2>3 DEF ParseFails
<1>10. HashBytes(b) = h /\ IdBytes(b) = i /\ NsBytes(b) = n
  <2>1. /\ SubSeq(b, space1 + 1, space1 + Len(h)) = h
        /\ SubSeq(b, space2 + 1, space2 + Len(i)) = i
        /\ SubSeq(b, space3 + 1, space3 + Len(n)) = n
    BY <1>5, <1>6, AtSlice
  <2>2. space1 + Len(h) = space2 - 1 /\ space2 + Len(i) = space3 - 1 /\ space3 + Len(n) = space4 - 1
    BY <1>5, Sizes DEF Sized
  <2> QED
    BY <2>1, <2>2 DEF HashBytes, IdBytes, NsBytes
<1>11. DataBytes(b) = d
  <2>1. Min({Len(b), PacketSize}) = space4 + Len(d)
    <3>1. Len(b) = PacketSize /\ PacketSize \in Nat /\ PacketSize = space4 + Len(d)
      BY <1>4, <1>5, Sizes
    <3> QED
      BY <3>1 DEF Min
  <2>2. SubSeq(b, space4 + 1, space4 + Len(d)) = d
    BY <1>4, <1>5, AtSlice
  <2> QED
    BY <2>1, <2>2 DEF DataBytes
<1>12. PadRight(d, DataValueSize) = d
  BY Sizes, Symbols, Padded
<1>13. ParsePacket(b) = Record(c, h, i, n, d)
  BY <1>8, <1>10, <1>11, <1>12 DEF ParsePacket, Record
<1> QED
  BY <1>1, <1>3, <1>9, <1>13

-----------------------------------------------------------------------------
(* A packet that goes by UDP: it is of the right size unless a field is    *)
(* too long.                                                               *)
LEMMA UdpSize ==
    ASSUME NEW m, Sendable(m), ~IsTcpOnlyCmd(m.cmd)
    PROVE  BadOutputSize(Packed(m)) <=> Len(m.ns) > NamespaceSize \/ Len(m.data) > DataValueSize
<1>1. PICK c \in Commands, h \in Seq(Octet), i \in Seq(Octet),
           n \in Seq(Octet), d \in Seq(Octet) : Fields(m, c, h, i, n, d)
  BY HasFields
<1>2. c \in Octet /\ space \in Octet
  BY Symbols DEF Commands
<1>3. PICK b \in Seq(Octet) : b = Header(c, h, i, n) \o d
  BY <1>2, HeaderLength, AtEnd
<1>4. Bytes(Packed(m)) = b
  <2>1. Bytes(Packed(m)) = Header(c, h, i, n) \o d
    BY <1>1, FieldBytes
  <2> QED
    BY <1>3, <2>1
<1>5. Len(b) = Len(h) + Len(i) + Len(n) + 5 + Len(d)
  <2>1. PICK a \in Seq(Octet) : a = Header(c, h, i, n)
    BY <1>2, HeaderLength
  <2>2. Len(a) = Len(h) + Len(i) + Len(n) + 5
    BY <1>2, <2>1, HeaderLength
  <2>3. Len(b) = Len(a) + Len(d)
    BY <1>3, <2>1, AtEnd
  <2> QED
    BY <2>2, <2>3
<1>6. Len(b) = PacketSize <=> Len(n) = NamespaceSize /\ Len(d) = DataValueSize
  <2>1. /\ Len(h) = HashSize /\ Len(i) = IdSize
        /\ Len(n) >= NamespaceSize /\ Len(d) >= DataValueSize
    BY <1>1 DEF Fields
  <2>2. PICK x \in Nat, y \in Nat : x = Len(n) /\ y = Len(d)
    OBVIOUS
  <2>3. Len(b) = HashSize + IdSize + x + 5 + y /\ x >= NamespaceSize /\ y >= DataValueSize
    BY <1>5, <2>1, <2>2
  <2>4. PacketSize = HashSize + IdSize + NamespaceSize + 5 + DataValueSize
    BY Sizes
  <2>5. Len(b) = PacketSize <=> x = NamespaceSize /\ y = DataValueSize
    BY <2>3, <2>4, Sizes
  <2> QED
    BY <2>2, <2>5
<1>7. Packed(m).cmd = m.cmd
  BY PackedIs
<1>8. BadOutputSize(Packed(m)) <=> Len(b) # PacketSize
  BY <1>4, <1>7 DEF BadOutputSize
<1>9. /\ Len(n) = NamespaceSize <=> Len(m.ns) <= NamespaceSize
      /\ Len(d) = DataValueSize <=> Len(m.data) <= DataValueSize
  BY <1>1 DEF Fields
<1>10. Len(m.ns) \in Nat /\ Len(m.data) \in Nat
  BY DEF Sendable
<1> QED
  BY <1>6, <1>8, <1>9, <1>10, Sizes

LEMMA UdpParsed ==
    ASSUME NEW m, Sendable(m), Len(m.ns) <= NamespaceSize, Len(m.data) <= DataValueSize
    PROVE  ~ParseFails(Bytes(Packed(m))) /\ ParsePacket(Bytes(Packed(m))) = Packed(m)
<1>1. PICK c \in Commands, h \in Seq(Octet), i \in Seq(Octet),
           n \in Seq(Octet), d \in Seq(Octet) : Fields(m, c, h, i, n, d)
  BY HasFields
<1>2. Sized(h, i, n) /\ Len(d) = DataValueSize
  BY <1>1 DEF Fields, Sized
<1>3. Packed(m) = Record(c, h, i, n, d)
  BY <1>1 DEF Fields
<1>4. Bytes(Packed(m)) = Header(c, h, i, n) \o d
  BY <1>1, FieldBytes
<1>5. /\ ~ParseFails(Header(c, h, i, n) \o d)
      /\ ParsePacket(Header(c, h, i, n) \o d) = Record(c, h, i, n, d)
  BY <1>2, ParseBytes
<1> QED
  BY <1>3, <1>4, <1>5

(* What is known of a message that goes by UDP.                            *)
UdpInv ==
    /\ stage = "new" => ~cut
    /\ stage # "new" => Sendable(msg)
    /\ stage # "new" /\ ~OverTCP =>
         /\ stage \in {"refused", "read", "parsed"}
         /\ stage = "refused" <=> Len(msg.ns) > NamespaceSize \/ Len(msg.data) > DataValueSize
         /\ stage = "read" => wire = Bytes(Packed(msg))
         /\ stage = "parsed" => pkt = Packed(msg)

LEMMA SendUdpStep ==
    ASSUME NEW m, Sendable(m), UdpInv, SendUDP(m) PROVE UdpInv'
<1>1. BadOutputSize(Packed(m)) <=> Len(m.ns) > NamespaceSize \/ Len(m.data) > DataValueSize
  BY UdpSize DEF SendUDP
<1>2. msg' = m
  BY DEF SendUDP
<1>3. CASE BadOutputSize(Packed(m))
  BY <1>1, <1>2, <1>3 DEF SendUDP, UdpInv, OverTCP
<1>4. CASE ~BadOutputSize(Packed(m))
  BY <1>1, <1>2, <1>4 DEF SendUDP, UdpInv, OverTCP
<1> QED
  BY <1>3, <1>4

LEMMA UdpStep == UdpInv /\ [Next]_vars => UdpInv'
<1> SUFFICES ASSUME UdpInv, [Next]_vars PROVE UdpInv'
  OBVIOUS
<1>1. ASSUME NEW m \in Messages, SendUDP(m) \/ SendTCP(m) PROVE UdpInv'
  <2>1. Sendable(m)
    BY MessageSendable
  <2>2. CASE SendTCP(m)
    BY <2>1, <2>2 DEF SendTCP, UdpInv, OverTCP
  <2> QED
    BY <1>1, <2>1, <2>2, SendUdpStep
<1>2. ASSUME NEW n \in Counts, NEW id \in [1 .. IdSize -> IdBytesUsed], NEW ns \in Namespaces,
             SendUDP(Reply(n, id, ns))
      PROVE  UdpInv'
  <2>1. PICK m : m = Reply(n, id, ns)
    OBVIOUS
  <2> QED
    BY <1>2, <2>1, ReplySendable, SendUdpStep
<1>3. ASSUME NEW k \in 0 .. Len(wire), Cut(k) PROVE UdpInv'
  BY <1>3 DEF Cut, UdpInv, OverTCP
<1>4. CASE ReadTCP
  <2>1. stage = "tcp" /\ UNCHANGED <<msg, pkt, cut>> /\ stage' \in {"failed", "panicked", "read"}
    BY <1>4 DEF ReadTCP
  <2> QED
    BY <2>1 DEF UdpInv, OverTCP
<1>5. CASE Parse
  <2>1. UNCHANGED <<msg, cut>> /\ stage = "read"
    BY <1>5 DEF Parse
  <2>2. CASE OverTCP
    BY <1>5, <2>1, <2>2 DEF Parse, UdpInv, OverTCP
  <2>3. CASE ~OverTCP
    <3>1. ~(Len(msg.ns) > NamespaceSize \/ Len(msg.data) > DataValueSize) /\ Sendable(msg)
      BY <2>1, <2>3 DEF UdpInv
    <3>2. Len(msg.ns) \in Nat /\ Len(msg.data) \in Nat
      BY <3>1 DEF Sendable
    <3>3. PICK m : m = msg
      OBVIOUS
    <3>4. Len(m.ns) <= NamespaceSize /\ Len(m.data) <= DataValueSize
      BY <3>1, <3>2, <3>3, Sizes
    <3>5. ~ParseFails(Bytes(Packed(m))) /\ ParsePacket(Bytes(Packed(m))) = Packed(m)
      BY <3>1, <3>3, <3>4, UdpParsed
    <3>6. wire = Bytes(Packed(m))
      BY <2>1, <2>3, <3>3 DEF UdpInv
    <3>7. stage' = "parsed" /\ pkt' = Packed(m)
      BY <1>5, <3>5, <3>6 DEF Parse
    <3> QED
      BY <2>1, <2>3, <3>1, <3>3, <3>7 DEF UdpInv, OverTCP
  <2> QED
    BY <2>2, <2>3
<1>6. CASE UNCHANGED vars
  BY <1>6 DEF vars, UdpInv, OverTCP
<1> QED
  BY <1>1, <1>2, <1>3, <1>4, <1>5, <1>6 DEF Next

LEMMA UdpAlways == Spec => []UdpInv
<1>1. Init => UdpInv
  BY DEF Init, UdpInv
<1> QED
  BY <1>1, UdpStep, PTL DEF Spec

(* By UDP, ParsePacket returns what NewPacketFromParts was given, and the  *)
(* hash is accepted, whatever the sizes of the fields, the pre-shared key, *)
(* the namespace and the data; Packet.Bytes refuses a packet if and only   *)
(* if a field is too long.                                                 *)
THEOREM UdpRoundTrip == Spec => []UdpExact
<1>1. UdpInv => UdpExact
  <2> SUFFICES ASSUME UdpInv, ~OverTCP PROVE UdpExact
    BY DEF UdpExact
  <2>1. CASE stage = "new"
    BY <2>1 DEF UdpExact, Arrived
  <2>2. CASE stage # "new"
    <3>1. PICK m : m = msg
      OBVIOUS
    <3>2. Sendable(m)
      BY <2>2, <3>1 DEF UdpInv
    <3>3. Validate(Packed(m))
      BY <3>2, PackedIs
    <3> QED
      BY <2>2, <3>1, <3>3 DEF UdpInv, UdpExact, Arrived
  <2> QED
    BY <2>1, <2>2
<1> QED
  BY <1>1, UdpAlways, PTL

-----------------------------------------------------------------------------
(* The least and the largest of a set of places.                           *)
LEMMA LeastOf ==
    ASSUME NEW S \in SUBSET Nat, S # {}
    PROVE  Min(S) \in S /\ \A y \in S : Min(S) <= y
<1> DEFINE R == {ss \in Nat \X Nat : ss[1] < ss[2]}
<1>1. IsWellFoundedOn(R, Nat)
  BY NatLessThanWellFounded DEF OpToRel
<1>2. \A x, y \in Nat : y < x => <<y, x>> \in R
  OBVIOUS
<1> HIDE DEF R
<1>3. PICK x \in S : \A y \in S : ~(<<y, x>> \in R)
  BY <1>1, WFMin
<1>4. ASSUME NEW y \in S PROVE x <= y
  <2>1. x \in Nat /\ y \in Nat /\ ~(<<y, x>> \in R)
    BY <1>3
  <2>2. ~(y < x)
    BY <1>2, <2>1
  <2> QED
    BY <2>1, <2>2
<1>5. \E z \in S : \A y \in S : z <= y
  BY <1>4
<1> QED
  BY <1>5 DEF Min

LEMMA LargestOf ==
    ASSUME NEW n \in Nat, NEW S \in SUBSET (0 .. n), S # {}
    PROVE  Max(S) \in S /\ \A y \in S : y <= Max(S)
<1> DEFINE T == {n - y : y \in S}
<1>1. T \in SUBSET Nat /\ T # {}
  <2>1. \A y \in S : y \in 0 .. n
    OBVIOUS
  <2>2. \A y \in S : n - y \in Nat
    BY <2>1
  <2> QED
    BY <2>2
<1>2. PICK t \in T : \A u \in T : t <= u
  BY <1>1, LeastOf
<1>3. PICK x \in S : t = n - x
  BY <1>2
<1>4. ASSUME NEW y \in S PROVE y <= x
  <2>1. n - y \in T
    OBVIOUS
  <2>2. n - x <= n - y
    BY <1>2, <1>3, <2>1
  <2>3. x \in Nat /\ y \in Nat
    OBVIOUS
  <2> QED
    BY <2>2, <2>3
<1>5. \E z \in S : \A y \in S : z >= y
  BY <1>4
<1>6. Max(S) \in S /\ \A y \in S : Max(S) >= y
  BY <1>5 DEF Max
<1>7. \A y \in S : y \in Nat
  OBVIOUS
<1> QED
  BY <1>6, <1>7

LEMMA SpacesAre ==
    /\ IsSpace(space) /\ IsSpace(LF) /\ space # LF
    /\ ~IsSpace(CmdCount) /\ ~IsSpace(CmdTCPOnlyKeys) /\ ~IsSpace(DOT)
BY DEF IsSpace, space, LF, CmdCount, CmdTCPOnlyKeys, DOT

(* ReadOneTcpMessage, of bytes that do not begin with white space: what is *)
(* buffered at the end of a line is all of what came.                      *)
LEMMA AllBuffered ==
    ASSUME NEW s \in Seq(Octet), ~IsSpace(s[1]), NEW i \in LineEnds(s)
    PROVE  Buffered(s, i) = SubSeq(s, 1, i)
<1>1. LineEnds(s) \in SUBSET Nat /\ LineEnds(s) # {} /\ \A k \in LineEnds(s) : k \in 1 .. Len(s)
  BY DEF LineEnds
<1>2. PICK f \in 1 .. Len(s) : f = Min(LineEnds(s)) /\ f <= i
  BY <1>1, LeastOf
<1>3. /\ i \in 1 .. Len(s) /\ Len(s) \in Nat /\ f \in Nat /\ i \in Nat
      /\ 1 \in Nat /\ 1 <= 1 /\ 1 <= f + 1 /\ f <= Len(s)
  BY <1>1
<1>4. PICK t \in Seq(Octet) : t = SubSeq(s, 1, f)
  BY <1>3, Piece
<1>5. Len(t) = f /\ t[1] = s[1]
  <2>1. Len(t) = f - 1 + 1 /\ \A j \in 1 .. f - 1 + 1 : t[j] = s[1 + j - 1]
    BY <1>3, <1>4, Piece
  <2> QED
    BY <1>3, <2>1
<1>6. 1 \in Inked(t)
  BY <1>3, <1>5 DEF Inked
<1>7. Min(Inked(t)) = 1
  <2>1. Inked(t) \in SUBSET Nat /\ \A k \in Inked(t) : k >= 1
    BY DEF Inked
  <2>2. Min(Inked(t)) \in Inked(t) /\ Min(Inked(t)) <= 1
    BY <1>6, <2>1, LeastOf
  <2> QED
    BY <2>1, <2>2
<1>8. TrimLeft(t) = t
  <2>1. TrimLeft(t) = SubSeq(t, 1, Len(t))
    BY <1>6, <1>7 DEF TrimLeft
  <2> QED
    BY <2>1, SubSeqFull
<1>9. SubSeq(s, 1, f) \o SubSeq(s, f + 1, i) = SubSeq(s, 1, i)
  <2>1. 1 \in 1 .. Len(s) + 1 /\ f \in 1 - 1 .. Len(s) /\ i \in f .. Len(s)
    BY <1>2, <1>3
  <2> QED
    BY <2>1, ConcatAdjacentSubSeq
<1> QED
  BY <1>2, <1>4, <1>8, <1>9 DEF Buffered

(* The message is what came up to the end of a line.                       *)
LEMMA MessageIs ==
    ASSUME NEW s \in Seq(Octet), ~IsSpace(s[1]), LineEnds(s) # {}
    PROVE  \E i \in LineEnds(s) : /\ Message(s) = SubSeq(s, 1, i)
                                  /\ Complete(s) # {} => i = Min(Complete(s))
<1>1. Complete(s) \subseteq LineEnds(s) /\ LineEnds(s) \in SUBSET Nat
  BY DEF Complete, LineEnds
<1> DEFINE i == IF Complete(s) # {} THEN Min(Complete(s)) ELSE Max(LineEnds(s))
<1>2. i \in LineEnds(s)
  <2>1. CASE Complete(s) # {}
    <3>1. Min(Complete(s)) \in Complete(s)
      BY <1>1, <2>1, LeastOf
    <3> QED
      BY <1>1, <2>1, <3>1
  <2>2. CASE Complete(s) = {}
    <3>1. LineEnds(s) \in SUBSET (0 .. Len(s)) /\ Len(s) \in Nat
      BY DEF LineEnds
    <3>2. Max(LineEnds(s)) \in LineEnds(s)
      BY <3>1, LargestOf
    <3> QED
      BY <2>2, <3>2
  <2> QED
    BY <2>1, <2>2
<1>3. Message(s) = Buffered(s, i)
  BY DEF Message
<1>4. Complete(s) # {} => i = Min(Complete(s))
  OBVIOUS
<1> HIDE DEF i
<1>5. Message(s) = SubSeq(s, 1, i)
  BY <1>2, <1>3, AllBuffered
<1> QED
  BY <1>2, <1>4, <1>5

(* What is written to a TCP connection: no part of it is changed by the    *)
(* padding of the data that ends in the stop symbol.                       *)
LEMMA FramedIs ==
    ASSUME NEW m, NEW c, NEW h, NEW i, NEW n \in Seq(Octet), NEW d \in Seq(Octet),
           Fields(m, c, h, i, n, d)
    PROVE  Framed(m) = Header(c, h, i, n) \o (d \o StopSymbol)
<1>1. PICK e \in Seq(Octet) : e = d \o StopSymbol
  BY Symbols, AtEnd
<1>2. PICK p : p = Packed(m)
  OBVIOUS
<1>3. p = [cmd |-> c, hash |-> h, id |-> i, ns |-> n, data |-> d]
  BY <1>2 DEF Fields, Record
<1>4. PICK q : q = [p EXCEPT !.data = e]
  OBVIOUS
<1>5. q.cmd = c /\ q.hash = h /\ q.id = i /\ q.ns = n /\ q.data = e
  BY <1>3, <1>4
<1>6. PadRight(n, NamespaceSize) = n
  <2>1. Len(n) >= NamespaceSize
    BY DEF Fields
  <2> QED
    BY <2>1, Sizes, Symbols, Padded
<1>7. PadRight(e, DataValueSize) = e
  <2>1. Len(d) >= DataValueSize /\ Len(d) \in Nat
    BY DEF Fields
  <2>2. Len(e) = Len(d) + 3
    BY <1>1, Symbols, AtEnd
  <2>3. Len(e) >= DataValueSize
    BY <2>1, <2>2, Sizes
  <2> QED
    BY <2>3, Sizes, Symbols, Padded
<1>8. Bytes(q) = Header(c, h, i, n) \o e
  BY <1>5, <1>6, <1>7 DEF Bytes, Header
<1>9. p.data = d
  BY <1>3
<1> QED
  BY <1>1, <1>2, <1>4, <1>8, <1>9 DEF Framed

Begins(a, c) == a \in Seq(Octet) /\ Len(a) >= 3 /\ a[1] = c /\ a[2] = space

LEMMA StillBegins ==
    ASSUME NEW a, NEW b \in Seq(Octet), NEW c, Begins(a, c) PROVE Begins(a \o b, c)
<1>1. a \in Seq(Octet) /\ Len(a) >= 3 /\ Len(a) \in Nat /\ Len(b) \in Nat
  BY DEF Begins
<1>2. a \o b \in Seq(Octet) /\ Len(a \o b) = Len(a) + Len(b) /\ At(a \o b, 0, a)
  BY <1>1, AtEnd
<1>3. (a \o b)[1] = a[1] /\ (a \o b)[2] = a[2]
  <2>1. \A j \in 1 .. Len(a) : (a \o b)[0 + j] = a[j]
    BY <1>2 DEF At
  <2> QED
    BY <1>1, <2>1
<1> QED
  BY <1>1, <1>2, <1>3 DEF Begins

LEMMA FramedBegins ==
    ASSUME NEW m, Sendable(m) PROVE Begins(Framed(m), m.cmd)
<1>1. PICK c \in Commands, h \in Seq(Octet), i \in Seq(Octet),
           n \in Seq(Octet), d \in Seq(Octet) : Fields(m, c, h, i, n, d)
  BY HasFields
<1>2. c \in Octet /\ space \in Octet /\ c = m.cmd
  BY <1>1, Symbols DEF Commands, Fields
<1>3. PICK e \in Seq(Octet) : e = d \o StopSymbol
  BY Symbols, AtEnd
<1> DEFINE o == <<space>>
           p0 == <<c, space>>
<1>4. /\ o \in Seq(Octet)
      /\ p0 \in Seq(Octet) /\ Len(p0) = 2 /\ p0[1] = c /\ p0[2] = space
  BY <1>2
<1> HIDE DEF o, p0
<1>5. Begins(p0 \o h, c)
  <2>1. Len(h) >= 1 /\ Len(h) \in Nat
    BY <1>1, Sizes DEF Fields
  <2>2. p0 \o h \in Seq(Octet) /\ Len(p0 \o h) = Len(p0) + Len(h) /\ At(p0 \o h, 0, p0)
    BY <1>4, AtEnd
  <2>3. \A j \in 1 .. 2 : (p0 \o h)[0 + j] = p0[j]
    BY <1>4, <2>2 DEF At
  <2> QED
    BY <1>4, <2>1, <2>2, <2>3 DEF Begins
<1>6. Begins(p0 \o h \o o, c)
  BY <1>4, <1>5, StillBegins
<1>7. Begins(p0 \o h \o o \o i, c)
  BY <1>6, StillBegins
<1>8. Begins(p0 \o h \o o \o i \o o, c)
  BY <1>4, <1>7, StillBegins
<1>9. Begins(p0 \o h \o o \o i \o o \o n, c)
  BY <1>8, StillBegins
<1>10. Begins(p0 \o h \o o \o i \o o \o n \o o, c)
  BY <1>4, <1>9, StillBegins
<1>11. Begins(Header(c, h, i, n), c)
  BY <1>10 DEF Header, o, p0
<1>12. Begins(Header(c, h, i, n) \o e, c)
  BY <1>11, StillBegins
<1>13. Framed(m) = Header(c, h, i, n) \o (d \o StopSymbol)
  BY <1>1, FramedIs
<1> QED
  BY <1>2, <1>3, <1>12, <1>13

(* What came of a message before the connection ended.                     *)
Received(w, f) ==
    /\ w \in Seq(Octet) /\ Len(w) <= Len(f)
    /\ \A j \in 1 .. Len(w) : w[j] = f[j]

LEMMA ReceivedLess ==
    ASSUME NEW f \in Seq(Octet), NEW w, Received(w, f), NEW k \in Nat, k <= Len(w)
    PROVE  Received(SubSeq(w, 1, k), f)
<1>1. w \in Seq(Octet) /\ Len(w) \in Nat /\ Len(f) \in Nat /\ 1 \in Nat /\ 1 <= k + 1
  BY DEF Received
<1>2. /\ SubSeq(w, 1, k) \in Seq(Octet) /\ Len(SubSeq(w, 1, k)) = k - 1 + 1
      /\ \A j \in 1 .. k - 1 + 1 : SubSeq(w, 1, k)[j] = w[1 + j - 1]
  BY <1>1, Piece
<1>3. k - 1 + 1 = k /\ \A j \in 1 .. k : 1 + j - 1 = j
  OBVIOUS
<1>4. \A j \in 1 .. k : SubSeq(w, 1, k)[j] = w[j]
  BY <1>2, <1>3
<1> QED
  BY <1>1, <1>2, <1>3, <1>4 DEF Received

(* The end of the first line is not among the first two bytes.             *)
LEMMA MessageLength ==
    ASSUME NEW m, Sendable(m), NEW w, Received(w, Framed(m)), LineEnds(w) # {}
    PROVE  \E i \in LineEnds(w) : /\ i \in Nat /\ i >= 3 /\ i <= Len(w)
                                  /\ Message(w) = SubSeq(w, 1, i)
                                  /\ Complete(w) # {} => i = Min(Complete(w))
                                  /\ Len(Message(w)) = i
<1>1. Begins(Framed(m), m.cmd) /\ w \in Seq(Octet)
  BY FramedBegins DEF Received
<1>2. PICK k \in LineEnds(w) : TRUE
  OBVIOUS
<1>3. k \in 1 .. Len(w) /\ Len(w) \in Nat /\ Len(w) >= 1
  BY <1>1, <1>2 DEF LineEnds
<1>4. w[1] = m.cmd /\ ~IsSpace(w[1])
  <2>1. w[1] = m.cmd
    BY <1>1, <1>3 DEF Received, Begins
  <2> QED
    BY <2>1, SpacesAre DEF Sendable
<1>5. PICK i \in LineEnds(w) : /\ Message(w) = SubSeq(w, 1, i)
                               /\ Complete(w) # {} => i = Min(Complete(w))
  BY <1>1, <1>4, MessageIs
<1>6. i \in 1 .. Len(w) /\ w[i] = LF
  BY <1>5 DEF LineEnds
<1>7. i # 1
  BY <1>4, <1>6, SpacesAre
<1>8. i # 2
  <2>1. Len(w) >= 2 => w[2] = space
    BY <1>1, <1>3 DEF Received, Begins
  <2> QED
    BY <1>3, <1>6, <2>1, SpacesAre
<1>9. i \in Nat /\ i >= 3 /\ i <= Len(w)
  BY <1>3, <1>6, <1>7, <1>8
<1>10. Len(SubSeq(w, 1, i)) = i
  <2>1. 1 \in Nat /\ 1 <= i + 1 /\ i - 1 + 1 = i
    BY <1>9
  <2> QED
    BY <1>1, <1>9, <2>1, Piece
<1> QED
  BY <1>5, <1>9, <1>10

TcpInv ==
    /\ stage = "tcp" => OverTCP /\ Received(wire, Framed(msg)) /\ (~cut => wire = Framed(msg))
    /\ stage # "panicked"

LEMMA SendTcpStep ==
    ASSUME NEW m, Sendable(m), SendTCP(m) PROVE TcpInv'
<1>1. msg' = m /\ stage' = "tcp" /\ wire' = Framed(m) /\ IsTcpOnlyCmd(m.cmd)
  BY DEF SendTCP
<1>2. Framed(m) \in Seq(Octet)
  BY FramedBegins DEF Begins
<1>3. Len(Framed(m)) \in Nat
  BY <1>2
<1>4. Received(Framed(m), Framed(m))
  BY <1>2, <1>3 DEF Received
<1> QED
  BY <1>1, <1>4 DEF TcpInv, OverTCP

LEMMA ReadNeverPanics ==
    ASSUME UdpInv, TcpInv, stage = "tcp", ~ReadFails(wire) PROVE ~ReadPanics(wire)
<1>1. PICK m, w : m = msg /\ w = wire
  OBVIOUS
<1>2. Sendable(m) /\ Received(w, Framed(m)) /\ LineEnds(w) # {}
  BY <1>1 DEF UdpInv, TcpInv, ReadFails
<1>3. PICK i \in Nat : i >= 3 /\ Len(Message(w)) = i
  BY <1>2, MessageLength
<1>4. StopLength = 3
  BY Symbols DEF StopLength
<1> QED
  BY <1>1, <1>3, <1>4 DEF ReadPanics

LEMMA TcpStep == UdpInv /\ TcpInv /\ [Next]_vars => TcpInv'
<1> SUFFICES ASSUME UdpInv, TcpInv, [Next]_vars PROVE TcpInv'
  OBVIOUS
<1>1. ASSUME NEW m \in Messages, SendTCP(m) PROVE TcpInv'
  BY <1>1, MessageSendable, SendTcpStep
<1>2. ASSUME NEW m, SendUDP(m) PROVE TcpInv'
  BY <1>2 DEF SendUDP, TcpInv
<1>3. ASSUME NEW k \in 0 .. Len(wire), Cut(k) PROVE TcpInv'
  <2>1. PICK m, w : m = msg /\ w = wire
    OBVIOUS
  <2>2. /\ stage = "tcp" /\ stage' = stage /\ msg' = m /\ cut' /\ wire' = SubSeq(w, 1, k)
        /\ Received(w, Framed(m)) /\ Sendable(m) /\ OverTCP
    BY <1>3, <2>1 DEF Cut, TcpInv, UdpInv
  <2>3. Framed(m) \in Seq(Octet) /\ w \in Seq(Octet)
    BY <2>2, FramedBegins DEF Begins, Received
  <2>4. k \in Nat /\ k <= Len(w)
    BY <2>1, <2>3
  <2>5. Received(SubSeq(w, 1, k), Framed(m))
    BY <2>2, <2>3, <2>4, ReceivedLess
  <2> QED
    BY <2>1, <2>2, <2>5 DEF TcpInv, OverTCP
<1>4. CASE ReadTCP
  <2>1. stage = "tcp"
    BY <1>4 DEF ReadTCP
  <2>2. ReadFails(wire) \/ ~ReadPanics(wire)
    BY <2>1, ReadNeverPanics
  <2>3. CASE ReadFails(wire)
    <3>1. ~ReadPanics(wire)
      BY <2>3 DEF ReadPanics
    <3>2. stage' = "failed"
      BY <1>4, <2>3, <3>1 DEF ReadTCP
    <3> QED
      BY <3>2 DEF TcpInv
  <2>4. CASE ~ReadFails(wire) /\ ~ReadPanics(wire)
    <3>1. stage' = "read"
      BY <1>4, <2>4 DEF ReadTCP
    <3> QED
      BY <3>1 DEF TcpInv
  <2> QED
    BY <2>2, <2>3, <2>4
<1>5. CASE Parse
  BY <1>5 DEF Parse, TcpInv
<1>6. CASE UNCHANGED vars
  BY <1>6 DEF vars, TcpInv, OverTCP
<1> QED
  BY <1>1, <1>2, <1>3, <1>4, <1>5, <1>6 DEF Next

LEMMA TcpAlways == Spec => [](UdpInv /\ TcpInv)
<1>1. Init => TcpInv
  BY DEF Init, TcpInv
<1> QED
  BY <1>1, TcpStep, UdpAlways, PTL DEF Spec

(* ReadOneTcpMessage (rawmessage.go) never slices below zero, wherever the *)
(* connection ends and whatever the message: the first line, without which *)
(* it returns an error, is longer than the stop symbol.                    *)
THEOREM ReaderNeverPanics == Spec => []CutNeverPanics
<1>1. TcpInv => CutNeverPanics
  BY DEF TcpInv, CutNeverPanics
<1> QED
  BY <1>1, TcpAlways, PTL

-----------------------------------------------------------------------------
(* White space (protocol.go and rawmessage.go use bytes.TrimRight and      *)
(* bytes.TrimSpace).                                                       *)
LEMMA InkedIn ==
    ASSUME NEW s \in Seq(Octet)
    PROVE  /\ Inked(s) \in SUBSET Nat /\ Inked(s) \in SUBSET (0 .. Len(s)) /\ Len(s) \in Nat
           /\ \A j \in Inked(s) : j \in 1 .. Len(s)
BY DEF Inked

Trimmed(s, t) ==
    /\ t \in Seq(Octet) /\ Len(t) <= Len(s)
    /\ \A j \in 1 .. Len(t) : t[j] = s[j]
    /\ \A j \in 1 .. Len(s) : j > Len(t) => IsSpace(s[j])

LEMMA RightTrimmed ==
    ASSUME NEW s \in Seq(Octet)
    PROVE  Trimmed(s, TrimRight(s))
<1>1. CASE Inked(s) = {}
  <2>1. TrimRight(s) = <<>> /\ \A j \in 1 .. Len(s) : IsSpace(s[j])
    BY <1>1 DEF TrimRight, Inked
  <2>2. Trimmed(s, <<>>)
    BY <2>1 DEF Trimmed
  <2> QED
    BY <2>1, <2>2
<1>2. CASE Inked(s) # {}
  <2>1. PICK k \in Inked(s) : k = Max(Inked(s)) /\ \A y \in Inked(s) : y <= k
    BY <1>2, InkedIn, LargestOf
  <2>2. k \in Nat /\ 1 <= k /\ k <= Len(s) /\ Len(s) \in Nat
    BY <2>1, InkedIn
  <2>3. 1 \in Nat /\ 1 <= k + 1 /\ k - 1 + 1 = k /\ \A j \in 1 .. k : 1 + j - 1 = j
    BY <2>2
  <2>4. /\ SubSeq(s, 1, k) \in Seq(Octet) /\ Len(SubSeq(s, 1, k)) = k - 1 + 1
        /\ \A j \in 1 .. k - 1 + 1 : SubSeq(s, 1, k)[j] = s[1 + j - 1]
    BY <2>2, <2>3, Piece
  <2>5. PICK t \in Seq(Octet) : t = SubSeq(s, 1, k)
    BY <2>4
  <2>6. Len(t) = k /\ \A j \in 1 .. k : t[j] = s[j]
    BY <2>3, <2>4, <2>5
  <2>7. t = TrimRight(s)
    BY <1>2, <2>1, <2>5 DEF TrimRight
  <2>8. ASSUME NEW j \in 1 .. Len(s), j > k PROVE IsSpace(s[j])
    <3>1. j \notin Inked(s)
      BY <2>1, <2>2, <2>8
    <3> QED
      BY <3>1 DEF Inked
  <2>9. Trimmed(s, t)
    BY <2>2, <2>6, <2>8 DEF Trimmed
  <2> QED
    BY <2>7, <2>9
<1> QED
  BY <1>1, <1>2

LEMMA BlankTrimmed == ASSUME NEW s \in Seq(Octet), Inked(s) = {} PROVE TrimSpace(s) = <<>>
<1>1. TrimRight(s) = <<>>
  BY DEF TrimRight
<1>2. Inked(<<>>) = {}
  BY DEF Inked
<1> QED
  BY <1>1, <1>2 DEF TrimSpace, TrimLeft

LEMMA SpaceTrimmed ==
    ASSUME NEW s \in Seq(Octet), NEW a \in Inked(s), NEW b \in Inked(s),
           \A j \in Inked(s) : a <= j /\ j <= b
    PROVE  TrimSpace(s) = SubSeq(s, a, b)
<1>1. /\ a \in Nat /\ b \in Nat /\ 1 <= a /\ a <= b /\ b <= Len(s) /\ Len(s) \in Nat
      /\ Inked(s) \in SUBSET Nat
  BY InkedIn
<1>2. Min(Inked(s)) = a
  <2>1. Min(Inked(s)) \in Inked(s) /\ Min(Inked(s)) <= a
    BY <1>1, LeastOf
  <2> QED
    BY <1>1, <2>1
<1>3. Max(Inked(s)) = b
  <2>1. Max(Inked(s)) \in Inked(s) /\ b <= Max(Inked(s))
    BY InkedIn, LargestOf
  <2> QED
    BY <1>1, <2>1
<1>4. 1 \in Nat /\ 1 <= b + 1 /\ b - 1 + 1 = b /\ \A j \in 1 .. b : 1 + j - 1 = j
  BY <1>1
<1>5. /\ SubSeq(s, 1, b) \in Seq(Octet) /\ Len(SubSeq(s, 1, b)) = b - 1 + 1
      /\ \A j \in 1 .. b - 1 + 1 : SubSeq(s, 1, b)[j] = s[1 + j - 1]
  BY <1>1, <1>4, Piece
<1>6. PICK t \in Seq(Octet) : t = SubSeq(s, 1, b)
  BY <1>5
<1>7. Len(t) = b /\ \A j \in 1 .. b : t[j] = s[j]
  BY <1>4, <1>5, <1>6
<1>8. Inked(t) = Inked(s)
  <2>1. \A j \in Inked(s) : j \in 1 .. b
    BY <1>1, InkedIn
  <2>2. \A j \in 1 .. b : j \in 1 .. Len(s)
    BY <1>1
  <2> QED
    BY <1>7, <2>1, <2>2 DEF Inked
<1>9. TrimRight(s) = t
  BY <1>3, <1>6 DEF TrimRight
<1>10. TrimSpace(s) = SubSeq(t, a, b)
  BY <1>2, <1>7, <1>8, <1>9 DEF TrimSpace, TrimLeft
<1>11. SubSeq(SubSeq(s, 1, b), a, b) = SubSeq(s, 1 + a - 1, 1 + b - 1)
  <2>1. 1 \in 1 .. Len(s) /\ b \in 1 .. Len(s) /\ a \in 1 .. b - 1 + 1 /\ b \in 1 .. b - 1 + 1
    BY <1>1
  <2> QED
    BY <2>1, SubSeqOfSubSeq
<1>12. 1 + a - 1 = a /\ 1 + b - 1 = b
  BY <1>1
<1> QED
  BY <1>6, <1>10, <1>11, <1>12

LEMMA SpaceTrimmedIn == ASSUME NEW y \in Seq(Octet) PROVE TrimSpace(y) \in Seq(Octet)
<1>1. CASE Inked(y) = {}
  <2>1. TrimSpace(y) = <<>> /\ <<>> \in Seq(Octet)
    BY <1>1, BlankTrimmed
  <2> QED
    BY <2>1
<1>2. CASE Inked(y) # {}
  <2>1. PICK a \in Inked(y) : \A j \in Inked(y) : a <= j
    BY <1>2, InkedIn, LeastOf
  <2>2. PICK b \in Inked(y) : \A j \in Inked(y) : j <= b
    BY <1>2, InkedIn, LargestOf
  <2>3. TrimSpace(y) = SubSeq(y, a, b)
    BY <2>1, <2>2, SpaceTrimmed
  <2>4. a \in Nat /\ b \in Nat /\ 1 <= a /\ a <= b + 1 /\ b <= Len(y)
    BY <2>1, <2>2, InkedIn
  <2>5. SubSeq(y, a, b) \in Seq(Octet)
    BY <2>4, Piece
  <2> QED
    BY <2>3, <2>5
<1> QED
  BY <1>1, <1>2

(* Sequences that agree on their first k bytes, with only white space in x *)
(* after them.                                                             *)
Agree(x, y, k) ==
    /\ k \in Nat /\ k <= Len(x) /\ k <= Len(y)
    /\ \A j \in 1 .. k : x[j] = y[j]
    /\ \A j \in 1 .. Len(x) : j > k => IsSpace(x[j])

LEMMA AgreeInk ==
    ASSUME NEW x \in Seq(Octet), NEW y \in Seq(Octet), NEW k, Agree(x, y, k)
    PROVE  Inked(x) = {j \in Inked(y) : j <= k}
<1>1. Len(x) \in Nat /\ Len(y) \in Nat /\ k \in Nat /\ k <= Len(x) /\ k <= Len(y)
  BY DEF Agree
<1>2. ASSUME NEW j \in Inked(x) PROVE j \in Inked(y) /\ j <= k
  <2>1. j \in 1 .. Len(x) /\ ~IsSpace(x[j])
    BY DEF Inked
  <2>2. j <= k
    BY <1>1, <2>1 DEF Agree
  <2>3. j \in 1 .. k /\ j \in 1 .. Len(y)
    BY <1>1, <2>1, <2>2
  <2>4. x[j] = y[j]
    BY <2>3 DEF Agree
  <2> QED
    BY <2>1, <2>2, <2>3, <2>4 DEF Inked
<1>3. ASSUME NEW j \in Inked(y), j <= k PROVE j \in Inked(x)
  <2>1. j \in 1 .. Len(y) /\ ~IsSpace(y[j])
    BY DEF Inked
  <2>2. j \in 1 .. k /\ j \in 1 .. Len(x)
    BY <1>1, <1>3, <2>1
  <2>3. x[j] = y[j]
    BY <2>2 DEF Agree
  <2> QED
    BY <2>1, <2>2, <2>3 DEF Inked
<1> QED
  BY <1>2, <1>3

LEMMA SameSlice ==
    ASSUME NEW x \in Seq(Octet), NEW y \in Seq(Octet), NEW a \in Nat, NEW b \in Nat, 1 <= a, a <= b,
           b <= Len(x), b <= Len(y), \A j \in 1 .. b : x[j] = y[j]
    PROVE  SubSeq(x, a, b) = SubSeq(y, a, b)
<1>1. a <= b + 1
  OBVIOUS
<1>2. /\ SubSeq(x, a, b) \in Seq(Octet) /\ Len(SubSeq(x, a, b)) = b - a + 1
      /\ \A j \in 1 .. b - a + 1 : SubSeq(x, a, b)[j] = x[a + j - 1]
  BY <1>1, Piece
<1>3. /\ SubSeq(y, a, b) \in Seq(Octet) /\ Len(SubSeq(y, a, b)) = b - a + 1
      /\ \A j \in 1 .. b - a + 1 : SubSeq(y, a, b)[j] = y[a + j - 1]
  BY <1>1, Piece
<1>4. \A j \in 1 .. b - a + 1 : x[a + j - 1] = y[a + j - 1]
  <2> TAKE j \in 1 .. b - a + 1
  <2>1. a + j - 1 \in 1 .. b
    OBVIOUS
  <2> QED
    BY <2>1
<1>5. PICK u \in Seq(Octet), v \in Seq(Octet) : u = SubSeq(x, a, b) /\ v = SubSeq(y, a, b)
  BY <1>2, <1>3
<1>6. Len(u) = b - a + 1 /\ Len(v) = b - a + 1 /\ \A j \in 1 .. b - a + 1 : u[j] = v[j]
  BY <1>2, <1>3, <1>4, <1>5
<1>7. u = v
  BY <1>6, SeqEqual
<1> QED
  BY <1>5, <1>7

(* Sequences that agree so are, trimmed, one a beginning of the other.     *)
LEMMA TrimAgree ==
    ASSUME NEW x \in Seq(Octet), NEW y \in Seq(Octet), NEW k, Agree(x, y, k)
    PROVE  IsPrefix(TrimSpace(x), TrimSpace(y))
<1>0. Inked(x) = {j \in Inked(y) : j <= k} /\ k \in Nat
  BY AgreeInk DEF Agree
<1>1. CASE Inked(x) = {}
  <2>1. TrimSpace(x) = <<>>
    BY <1>1, BlankTrimmed
  <2>3. PICK t \in Seq(Octet) : t = TrimSpace(y)
    BY SpaceTrimmedIn
  <2>4. Len(<<>>) = 0 /\ Len(t) \in Nat
    OBVIOUS
  <2>5. SubSeq(<<>>, 1, 0) = <<>> /\ SubSeq(t, 1, 0) = <<>>
    BY SubSeqEmpty
  <2> QED
    BY <2>1, <2>3, <2>4, <2>5 DEF IsPrefix
<1>2. CASE Inked(x) # {}
  <2>1. PICK a \in Inked(x) : \A j \in Inked(x) : a <= j
    BY <1>2, InkedIn, LeastOf
  <2>2. PICK b \in Inked(x) : \A j \in Inked(x) : j <= b
    BY <1>2, InkedIn, LargestOf
  <2>3. a \in Inked(y) /\ b \in Inked(y) /\ a <= k /\ b <= k /\ Inked(y) # {}
    BY <1>0, <2>1, <2>2
  <2>4. PICK e \in Inked(y) : \A j \in Inked(y) : j <= e
    BY <2>3, InkedIn, LargestOf
  <2>5. /\ a \in Nat /\ b \in Nat /\ e \in Nat /\ 1 <= a /\ a <= b /\ b <= e
        /\ b <= Len(x) /\ e <= Len(y) /\ Len(x) \in Nat /\ Len(y) \in Nat
    BY <2>1, <2>2, <2>3, <2>4, InkedIn
  <2>6. \A j \in Inked(y) : a <= j
    <3> TAKE j \in Inked(y)
    <3>1. j \in Nat
      BY InkedIn
    <3>2. CASE j <= k
      BY <1>0, <2>1, <3>2
    <3>3. CASE ~(j <= k)
      BY <1>0, <2>3, <2>5, <3>1, <3>3
    <3> QED
      BY <3>2, <3>3
  <2>7. TrimSpace(x) = SubSeq(x, a, b)
    BY <2>1, <2>2, SpaceTrimmed
  <2>8. TrimSpace(y) = SubSeq(y, a, e)
    BY <2>3, <2>4, <2>6, SpaceTrimmed
  <2>9. SubSeq(x, a, b) = SubSeq(y, a, b)
    <3>1. \A j \in 1 .. b : x[j] = y[j]
      BY <1>0, <2>3, <2>5 DEF Agree
    <3>2. b <= Len(y)
      BY <2>5
    <3> QED
      BY <2>5, <3>1, <3>2, SameSlice
  <2>10. PICK u \in Seq(Octet) : u = SubSeq(y, a, b) /\ Len(u) = b - a + 1
    <3>1. a <= b + 1 /\ b <= Len(y)
      BY <2>5
    <3>2. SubSeq(y, a, b) \in Seq(Octet) /\ Len(SubSeq(y, a, b)) = b - a + 1
      BY <2>5, <3>1, Piece
    <3> QED
      BY <3>2
  <2>11. PICK v \in Seq(Octet) : v = SubSeq(y, a, e) /\ Len(v) = e - a + 1
    <3>1. a <= e + 1
      BY <2>5
    <3>2. SubSeq(y, a, e) \in Seq(Octet) /\ Len(SubSeq(y, a, e)) = e - a + 1
      BY <2>5, <3>1, Piece
    <3> QED
      BY <3>2
  <2>12. SubSeq(v, 1, b - a + 1) = u
    <3>1. SubSeq(SubSeq(y, a, e), 1, b - a + 1) = SubSeq(y, a + 1 - 1, a + (b - a + 1) - 1)
      <4>1. /\ a \in 1 .. Len(y) /\ e \in 1 .. Len(y)
            /\ 1 \in 1 .. e - a + 1 /\ b - a + 1 \in 1 .. e - a + 1
        BY <2>5
      <4>2. PICK n \in 1 .. e - a + 1 : n = b - a + 1
        BY <4>1
      <4>3. SubSeq(SubSeq(y, a, e), 1, n) = SubSeq(y, a + 1 - 1, a + n - 1)
        BY <4>1, <4>2, SubSeqOfSubSeq
      <4> QED
        BY <4>2, <4>3
    <3>2. a + 1 - 1 = a /\ a + (b - a + 1) - 1 = b
      BY <2>5
    <3> QED
      BY <2>10, <2>11, <3>1, <3>2
  <2>13. SubSeq(u, 1, Len(u)) = u
    BY <2>10, SubSeqFull
  <2>14. Len(u) <= Len(v)
    BY <2>5, <2>10, <2>11
  <2> QED
    BY <2>7, <2>8, <2>9, <2>10, <2>11, <2>12, <2>13, <2>14 DEF IsPrefix
<1> QED
  BY <1>1, <1>2

-----------------------------------------------------------------------------
(* What ReadOneTcpMessage returns, of a message of the bytes f: the first  *)
(* l of them, without the stop symbol, and spaces.                         *)
Carried(w, f, l) ==
    /\ w \in Seq(Octet) /\ l \in Nat /\ l <= Len(w) /\ l + 3 <= Len(f) /\ PacketSize <= Len(w)
    /\ \A j \in 1 .. l : w[j] = f[j]
    /\ \A j \in 1 .. Len(w) : j > l => w[j] = space

(* Only white space of the message is missing.                             *)
Blank(f, l) == \A j \in 1 .. Len(f) - 3 : j > l => IsSpace(f[j])

LEMMA ReadCarries ==
    ASSUME NEW m, Sendable(m), NEW f, f = Framed(m), NEW w, Received(w, f), LineEnds(w) # {}
    PROVE  \E l \in Nat : /\ Carried(ReadOneTcpMessage(w), f, l)
                          /\ w = f /\ Complete(f) = {Len(f)} => Blank(f, l)
<1>0. f \in Seq(Octet) /\ w \in Seq(Octet) /\ Len(f) \in Nat /\ Len(w) \in Nat /\ Len(w) <= Len(f)
  <2>1. f \in Seq(Octet) /\ w \in Seq(Octet) /\ Len(w) <= Len(f)
    BY FramedBegins DEF Begins, Received
  <2> QED
    BY <2>1
<1>1. PICK i \in LineEnds(w) : /\ i \in Nat /\ i >= 3 /\ i <= Len(w)
                               /\ Message(w) = SubSeq(w, 1, i)
                               /\ Complete(w) # {} => i = Min(Complete(w))
                               /\ Len(Message(w)) = i
  BY MessageLength
<1>2. PICK u \in Seq(Octet) : u = Message(w) /\ Len(u) = i /\ \A j \in 1 .. i : u[j] = w[j]
  <2>1. 1 \in Nat /\ 1 <= i + 1 /\ i - 1 + 1 = i /\ \A j \in 1 .. i : 1 + j - 1 = j
    BY <1>1
  <2>2. /\ SubSeq(w, 1, i) \in Seq(Octet) /\ Len(SubSeq(w, 1, i)) = i - 1 + 1
        /\ \A j \in 1 .. i - 1 + 1 : SubSeq(w, 1, i)[j] = w[1 + j - 1]
    BY <1>0, <1>1, <2>1, Piece
  <2> QED
    BY <1>1, <2>1, <2>2
<1>3. PICK k \in Nat : k = i - 3
  BY <1>1
<1>4. PICK v \in Seq(Octet) : v = SubSeq(u, 1, k) /\ Len(v) = k /\ \A j \in 1 .. k : v[j] = u[j]
  <2>1. 1 \in Nat /\ 1 <= k + 1 /\ k - 1 + 1 = k /\ k <= Len(u) /\ \A j \in 1 .. k : 1 + j - 1 = j
    BY <1>1, <1>2, <1>3
  <2>2. /\ SubSeq(u, 1, k) \in Seq(Octet) /\ Len(SubSeq(u, 1, k)) = k - 1 + 1
        /\ \A j \in 1 .. k - 1 + 1 : SubSeq(u, 1, k)[j] = u[1 + j - 1]
    BY <2>1, Piece
  <2> QED
    BY <2>1, <2>2
<1>5. \A j \in 1 .. k : v[j] = f[j]
  <2> TAKE j \in 1 .. k
  <2>1. j \in 1 .. i /\ j \in 1 .. Len(w)
    BY <1>0, <1>1, <1>3
  <2>2. v[j] = u[j] /\ u[j] = w[j]
    BY <1>2, <1>4, <2>1
  <2>3. w[j] = f[j]
    BY <2>1 DEF Received
  <2> QED
    BY <2>2, <2>3
<1>6. PICK t : t = TrimRight(v) /\ Trimmed(v, t)
  BY RightTrimmed
<1>7. t \in Seq(Octet) /\ Len(t) \in Nat /\ Len(t) <= k
  BY <1>4, <1>6 DEF Trimmed
<1>8. ReadOneTcpMessage(w) = PadRight(t, PacketSize)
  <2>1. Len(Message(w)) - StopLength = k
    BY <1>1, <1>3, Symbols DEF StopLength
  <2> QED
    BY <1>2, <1>4, <1>6, <2>1 DEF ReadOneTcpMessage
<1>9. PICK b \in Seq(Octet) : b = PadRight(t, PacketSize)
  BY <1>7, Symbols, Sizes, Padded
<1>10. /\ Len(b) = IF Len(t) >= PacketSize THEN Len(t) ELSE PacketSize
       /\ \A j \in 1 .. Len(t) : b[j] = t[j]
       /\ \A j \in 1 .. PacketSize : j > Len(t) => b[j] = space
  BY <1>7, <1>9, Symbols, Sizes, Padded
<1>11. Carried(b, f, Len(t))
  <2>1. PacketSize \in Nat
    BY Sizes
  <2>2. Len(t) <= Len(b) /\ PacketSize <= Len(b) /\ Len(b) \in Nat
    BY <1>7, <1>10, <2>1
  <2>3. Len(t) + 3 <= Len(f)
    BY <1>0, <1>1, <1>3, <1>7
  <2>4. \A j \in 1 .. Len(t) : b[j] = f[j]
    <3> TAKE j \in 1 .. Len(t)
    <3>1. j \in 1 .. k
      BY <1>7
    <3>2. t[j] = v[j]
      BY <1>6 DEF Trimmed
    <3> QED
      BY <1>5, <1>10, <3>1, <3>2
  <2>5. \A j \in 1 .. Len(b) : j > Len(t) => b[j] = space
    <3> TAKE j \in 1 .. Len(b)
    <3> HAVE j > Len(t)
    <3>1. j \in 1 .. PacketSize
      BY <1>7, <1>10, <2>1, <2>2
    <3> QED
      BY <1>10, <3>1
  <2> QED
    BY <1>7, <2>2, <2>3, <2>4, <2>5 DEF Carried
<1>12. ASSUME w = f, Complete(f) = {Len(f)} PROVE Blank(f, Len(t))
  <2>1. i = Len(f)
    <3>1. Complete(w) \in SUBSET Nat /\ Complete(w) # {}
      BY <1>0, <1>12
    <3>2. Min(Complete(w)) \in Complete(w)
      BY <3>1, LeastOf
    <3> QED
      BY <1>1, <1>12, <3>1, <3>2
  <2>2. k = Len(f) - 3
    BY <1>3, <2>1
  <2>3. \A j \in 1 .. k : j > Len(t) => IsSpace(f[j])
    BY <1>4, <1>5, <1>6 DEF Trimmed
  <2> QED
    BY <2>2, <2>3 DEF Blank
<1> QED
  BY <1>7, <1>8, <1>9, <1>11, <1>12

(* Where the parts of a message are that goes by TCP.                      *)
LEMMA FramedLayout ==
    ASSUME NEW m, NEW c \in Commands, NEW h \in Seq(Octet), NEW i \in Seq(Octet),
           NEW n \in Seq(Octet), NEW d \in Seq(Octet), Fields(m, c, h, i, n, d), Sized(h, i, n)
    PROVE  /\ Framed(m) \in Seq(Octet) /\ Len(Framed(m)) = space4 + Len(d) + 3
           /\ At(Framed(m), 0, Header(c, h, i, n)) /\ At(Framed(m), space4, d)
<1>1. c \in Octet /\ space \in Octet
  BY Symbols DEF Commands
<1>2. PICK a \in Seq(Octet) : a = Header(c, h, i, n) /\ Len(a) = space4
  BY <1>1, HeaderLayout
<1>3. PICK e \in Seq(Octet) : e = d \o StopSymbol
  BY Symbols, AtEnd
<1>4. Len(e) = Len(d) + 3 /\ At(e, 0, d)
  BY <1>3, Symbols, AtEnd
<1>5. PICK f \in Seq(Octet) : f = a \o e
  BY AtEnd
<1>6. Len(f) = space4 + Len(e) /\ At(f, space4, e) /\ At(f, 0, a)
  BY <1>2, <1>5, AtEnd
<1>7. Framed(m) = f
  <2>1. Framed(m) = Header(c, h, i, n) \o (d \o StopSymbol)
    BY FramedIs
  <2> QED
    BY <1>2, <1>3, <1>5, <2>1
<1>8. space4 \in Nat /\ Len(d) \in Nat
  BY Sizes
<1>9. Len(f) = space4 + Len(d) + 3
  BY <1>4, <1>6, <1>8
<1>10. At(f, space4, d)
  <2>1. \A j \in 1 .. Len(d) : e[0 + j] = d[j]
    BY <1>4 DEF At
  <2>2. \A j \in 1 .. Len(e) : f[space4 + j] = e[j]
    BY <1>6 DEF At
  <2>3. \A j \in 1 .. Len(d) : f[space4 + j] = d[j]
    BY <1>4, <1>8, <2>1, <2>2
  <2>4. space4 + Len(d) <= Len(f)
    BY <1>8, <1>9
  <2> QED
    BY <2>3, <2>4 DEF At
<1> QED
  BY <1>2, <1>6, <1>7, <1>9, <1>10

(* The data that fits its field.                                           *)
Fitting(y) == SubSeq(y, 1, Min({Len(y), DataValueSize}))

LEMMA FittingIs ==
    ASSUME NEW y \in Seq(Octet)
    PROVE  /\ Fitting(y) \in Seq(Octet) /\ Len(Fitting(y)) \in Nat
           /\ Len(Fitting(y)) = IF Len(y) <= DataValueSize THEN Len(y) ELSE DataValueSize
           /\ \A j \in 1 .. Len(Fitting(y)) : Fitting(y)[j] = y[j]
<1>1. Len(y) \in Nat /\ DataValueSize \in Nat
  BY Sizes
<1>2. PICK k \in Nat : k = Min({Len(y), DataValueSize})
  <2>1. {Len(y), DataValueSize} \in SUBSET Nat /\ {Len(y), DataValueSize} # {}
    BY <1>1
  <2>2. Min({Len(y), DataValueSize}) \in {Len(y), DataValueSize}
    BY <2>1, LeastOf
  <2> QED
    BY <1>1, <2>2
<1>3. k = IF Len(y) <= DataValueSize THEN Len(y) ELSE DataValueSize
  <2>1. {Len(y), DataValueSize} \in SUBSET Nat /\ {Len(y), DataValueSize} # {}
    BY <1>1
  <2>2. k \in {Len(y), DataValueSize} /\ \A z \in {Len(y), DataValueSize} : k <= z
    BY <1>2, <2>1, LeastOf
  <2> QED
    BY <1>1, <2>2
<1>4. 1 \in Nat /\ 1 <= k + 1 /\ k <= Len(y) /\ k - 1 + 1 = k /\ \A j \in 1 .. k : 1 + j - 1 = j
  BY <1>1, <1>3
<1>5. /\ SubSeq(y, 1, k) \in Seq(Octet) /\ Len(SubSeq(y, 1, k)) = k - 1 + 1
      /\ \A j \in 1 .. k - 1 + 1 : SubSeq(y, 1, k)[j] = y[1 + j - 1]
  BY <1>4, Piece
<1>6. PICK t \in Seq(Octet) : t = SubSeq(y, 1, k)
  BY <1>5
<1>7. Len(t) = k /\ \A j \in 1 .. k : t[j] = y[j]
  BY <1>4, <1>5, <1>6
<1>8. Fitting(y) = t
  BY <1>2, <1>6 DEF Fitting
<1> QED
  BY <1>3, <1>7, <1>8

(* The data that ParsePacket finds in what was read.                       *)
LEMMA DataAt ==
    ASSUME NEW w \in Seq(Octet), PacketSize <= Len(w)
    PROVE  \E x \in Seq(Octet) : /\ x = ParsePacket(w).data /\ Len(x) = DataValueSize
                                 /\ \A j \in 1 .. DataValueSize : x[j] = w[space4 + j]
<1>1. /\ PacketSize \in Nat /\ space4 \in Nat /\ DataValueSize \in Nat /\ Len(w) \in Nat
      /\ PacketSize = space4 + DataValueSize
  BY Sizes
<1>2. Min({Len(w), PacketSize}) = PacketSize
  <2>1. {Len(w), PacketSize} \in SUBSET Nat /\ {Len(w), PacketSize} # {}
    BY <1>1
  <2>2. /\ Min({Len(w), PacketSize}) \in {Len(w), PacketSize}
        /\ \A z \in {Len(w), PacketSize} : Min({Len(w), PacketSize}) <= z
    BY <2>1, LeastOf
  <2> QED
    BY <1>1, <2>2
<1>3. PICK a \in Nat : a = space4 + 1
  BY <1>1
<1>4. /\ 1 <= a /\ a <= PacketSize + 1 /\ PacketSize - a + 1 = DataValueSize
      /\ \A j \in 1 .. DataValueSize : a + j - 1 = space4 + j
  BY <1>1, <1>3
<1>5. /\ SubSeq(w, a, PacketSize) \in Seq(Octet)
      /\ Len(SubSeq(w, a, PacketSize)) = PacketSize - a + 1
      /\ \A j \in 1 .. PacketSize - a + 1 : SubSeq(w, a, PacketSize)[j] = w[a + j - 1]
  BY <1>1, <1>4, Piece
<1>6. PICK x \in Seq(Octet) : x = SubSeq(w, a, PacketSize)
  BY <1>5
<1>7. Len(x) = DataValueSize /\ \A j \in 1 .. DataValueSize : x[j] = w[space4 + j]
  BY <1>4, <1>5, <1>6
<1>8. DataBytes(w) = x
  BY <1>2, <1>3, <1>6 DEF DataBytes
<1>9. PadRight(x, DataValueSize) = x
  <2>1. Len(x) >= DataValueSize
    BY <1>1, <1>7
  <2> QED
    BY <1>1, <2>1, Symbols, Padded
<1>10. ParsePacket(w).data = x
  BY <1>8, <1>9 DEF ParsePacket
<1> QED
  BY <1>7, <1>10

(* A field of size n, in what was read and in the message: its bytes are x *)
(* and d, and d is z and spaces.                                           *)
Window(x, s, q, n) == Len(x) = n /\ \A j \in 1 .. n : x[j] = s[q + j]
Filled(d, z, n) ==
    /\ Len(z) <= n
    /\ \A j \in 1 .. Len(z) : d[j] = z[j]
    /\ \A j \in 1 .. n : j > Len(z) => d[j] = space

LEMMA FieldAgrees ==
    ASSUME NEW f \in Seq(Octet), NEW w, NEW l, Carried(w, f, l), NEW q \in Nat, NEW n \in Nat,
           q + n <= Len(w), q + n + 3 <= Len(f),
           NEW x, NEW d, NEW z \in Seq(Octet), Window(x, w, q, n),
           \A j \in 1 .. n : f[q + j] = d[j], Filled(d, z, n)
    PROVE  \E k \in Nat : Agree(x, z, k) /\ (Blank(f, l) => Agree(z, x, k))
<1>1. /\ w \in Seq(Octet) /\ l \in Nat /\ l <= Len(w) /\ l + 3 <= Len(f)
      /\ Len(w) \in Nat /\ Len(f) \in Nat /\ Len(z) \in Nat /\ Len(z) <= n
  BY DEF Carried, Filled
<1>2. ASSUME NEW j \in 1 .. n, q + j <= l PROVE x[j] = d[j]
  <2>1. q + j \in 1 .. l
    BY <1>1, <1>2
  <2>2. w[q + j] = f[q + j]
    BY <2>1 DEF Carried
  <2> QED
    BY <2>2 DEF Window
<1>3. ASSUME NEW j \in 1 .. n, q + j > l PROVE x[j] = space
  <2>1. q + j \in 1 .. Len(w)
    BY <1>1
  <2>2. w[q + j] = space
    BY <1>3, <2>1 DEF Carried
  <2> QED
    BY <2>2 DEF Window
<1>4. PICK k \in Nat : k = IF l <= q THEN 0 ELSE IF l - q <= Len(z) THEN l - q ELSE Len(z)
  <2> DEFINE e == IF l <= q THEN 0 ELSE IF l - q <= Len(z) THEN l - q ELSE Len(z)
  <2>1. e \in Nat
    BY <1>1
  <2> QED
    BY <2>1
<1>5. k <= Len(z) /\ \A j \in 1 .. k : q + j <= l
  BY <1>1, <1>4
<1>6. \A j \in 1 .. k : j \in 1 .. n /\ j \in 1 .. Len(z)
  BY <1>1, <1>5
<1>7. \A j \in 1 .. k : x[j] = z[j]
  BY <1>2, <1>5, <1>6 DEF Filled
<1>8. ASSUME NEW j \in 1 .. n, j > k PROVE IsSpace(x[j])
  <2>1. CASE q + j > l
    BY <1>3, <2>1, SpacesAre
  <2>2. CASE q + j <= l
    <3>1. j > Len(z)
      BY <1>1, <1>4, <1>8, <2>2
    <3>2. d[j] = space
      BY <3>1 DEF Filled
    <3> QED
      BY <1>2, <2>2, <3>2, SpacesAre
  <2> QED
    BY <1>1, <2>1, <2>2
<1>9. Len(x) = n
  BY DEF Window
<1>10. Agree(x, z, k)
  BY <1>1, <1>5, <1>7, <1>8, <1>9 DEF Agree
<1>11. ASSUME Blank(f, l) PROVE Agree(z, x, k)
  <2>1. ASSUME NEW j \in 1 .. Len(z), j > k PROVE IsSpace(z[j])
    <3>1. j \in 1 .. n /\ q + j > l
      BY <1>1, <1>4, <1>5, <2>1
    <3>2. q + j \in 1 .. Len(f) - 3
      BY <1>1, <3>1
    <3>3. IsSpace(f[q + j])
      BY <1>11, <3>1, <3>2 DEF Blank
    <3>4. d[j] = z[j]
      BY DEF Filled
    <3> QED
      BY <3>1, <3>3, <3>4
  <2>2. k <= Len(x) /\ \A j \in 1 .. k : z[j] = x[j]
    BY <1>1, <1>5, <1>7, <1>9
  <2> QED
    BY <1>5, <2>1, <2>2 DEF Agree
<1> QED
  BY <1>10, <1>11

LEMMA DataAgrees ==
    ASSUME NEW m, Sendable(m), Len(m.ns) <= NamespaceSize, NEW f, f = Framed(m),
           NEW w, NEW l, Carried(w, f, l)
    PROVE  \E x \in Seq(Octet), k \in Nat :
              /\ x = ParsePacket(w).data /\ Agree(x, Fitting(m.data), k)
              /\ Blank(f, l) => Agree(Fitting(m.data), x, k)
<1>1. PICK c \in Commands, h \in Seq(Octet), i \in Seq(Octet),
           n \in Seq(Octet), d \in Seq(Octet) : Fields(m, c, h, i, n, d)
  BY HasFields
<1>2. Sized(h, i, n)
  BY <1>1 DEF Fields, Sized
<1>3. f \in Seq(Octet) /\ Len(f) = space4 + Len(d) + 3 /\ At(f, space4, d)
  BY <1>1, <1>2, FramedLayout
<1>4. w \in Seq(Octet) /\ PacketSize <= Len(w)
  BY DEF Carried
<1>5. PICK x \in Seq(Octet) : /\ x = ParsePacket(w).data /\ Len(x) = DataValueSize
                              /\ \A j \in 1 .. DataValueSize : x[j] = w[space4 + j]
  BY <1>4, DataAt
<1>6. PICK y \in Seq(Octet) : y = m.data
  BY DEF Sendable
<1>7. PICK z \in Seq(Octet) :
         /\ z = Fitting(y) /\ Len(z) \in Nat
         /\ Len(z) = IF Len(y) <= DataValueSize THEN Len(y) ELSE DataValueSize
         /\ \A j \in 1 .. Len(z) : z[j] = y[j]
  BY FittingIs
<1>8. /\ space4 \in Nat /\ DataValueSize \in Nat /\ PacketSize = space4 + DataValueSize
      /\ Len(d) \in Nat /\ Len(w) \in Nat /\ Len(y) \in Nat /\ Len(d) >= DataValueSize
  <2>1. Len(d) >= DataValueSize
    BY <1>1 DEF Fields
  <2> QED
    BY <1>4, <2>1, Sizes
<1>9. Filled(d, z, DataValueSize)
  <2>1. d = PadRight(y, DataValueSize)
    BY <1>1, <1>6 DEF Fields
  <2>2. /\ \A j \in 1 .. Len(y) : d[j] = y[j]
        /\ \A j \in 1 .. DataValueSize : j > Len(y) => d[j] = space
    BY <1>8, <2>1, Symbols, Padded
  <2>3. \A j \in 1 .. Len(z) : d[j] = z[j]
    <3>1. \A j \in 1 .. Len(z) : j \in 1 .. Len(y)
      BY <1>7, <1>8
    <3> QED
      BY <1>7, <2>2, <3>1
  <2>4. \A j \in 1 .. DataValueSize : j > Len(z) => d[j] = space
    BY <1>7, <1>8, <2>2
  <2>5. Len(z) <= DataValueSize
    BY <1>7, <1>8
  <2> QED
    BY <2>3, <2>4, <2>5 DEF Filled
<1>10. \A j \in 1 .. DataValueSize : f[space4 + j] = d[j]
  <2>1. \A j \in 1 .. Len(d) : f[space4 + j] = d[j]
    BY <1>3 DEF At
  <2> QED
    BY <1>8, <2>1
<1>11. Window(x, w, space4, DataValueSize)
  BY <1>5 DEF Window
<1>12. space4 + DataValueSize <= Len(w) /\ space4 + DataValueSize + 3 <= Len(f)
  BY <1>3, <1>4, <1>8
<1>13. PICK k \in Nat : Agree(x, z, k) /\ (Blank(f, l) => Agree(z, x, k))
  BY <1>3, <1>8, <1>9, <1>10, <1>11, <1>12, FieldAgrees
<1> QED
  BY <1>5, <1>6, <1>7, <1>13

LEMMA AgreeAll ==
    ASSUME NEW x, NEW y \in Seq(Octet), NEW k, Agree(x, Fitting(y), k)
    PROVE  Agree(x, y, k)
<1>1. PICK z \in Seq(Octet) :
         /\ z = Fitting(y) /\ Len(z) \in Nat
         /\ Len(z) = IF Len(y) <= DataValueSize THEN Len(y) ELSE DataValueSize
         /\ \A j \in 1 .. Len(z) : z[j] = y[j]
  BY FittingIs
<1>2. Len(y) \in Nat /\ DataValueSize \in Nat
  BY Sizes
<1>3. k \in Nat /\ k <= Len(z) /\ k <= Len(x) /\ \A j \in 1 .. k : x[j] = z[j]
  BY <1>1 DEF Agree
<1>4. k <= Len(y) /\ \A j \in 1 .. k : j \in 1 .. Len(z)
  BY <1>1, <1>2, <1>3
<1>5. \A j \in 1 .. k : x[j] = y[j]
  BY <1>1, <1>3, <1>4
<1> QED
  BY <1>3, <1>4, <1>5 DEF Agree

(* The data of a packet that goes by UDP.                                  *)
LEMMA PaddedAgrees ==
    ASSUME NEW y \in Seq(Octet), Len(y) <= DataValueSize
    PROVE  Agree(PadRight(y, DataValueSize), y, Len(y))
<1>1. PICK x \in Seq(Octet) : x = PadRight(y, DataValueSize)
  BY Symbols, Sizes, Padded
<1>2. /\ Len(x) = IF Len(y) >= DataValueSize THEN Len(y) ELSE DataValueSize
      /\ \A j \in 1 .. Len(y) : x[j] = y[j]
      /\ \A j \in 1 .. DataValueSize : j > Len(y) => x[j] = space
  BY <1>1, Symbols, Sizes, Padded
<1>3. Len(y) \in Nat /\ DataValueSize \in Nat
  BY Sizes
<1>4. Len(x) = DataValueSize
  BY <1>2, <1>3
<1>5. Agree(x, y, Len(y))
  BY <1>2, <1>3, <1>4, SpacesAre DEF Agree
<1> QED
  BY <1>1, <1>5

(* What a server or a client has read from a connection, before parsing.   *)
HasRead(m, w, whole) ==
    \E l \in Nat : /\ Carried(w, Framed(m), l)
                   /\ whole /\ Complete(Framed(m)) = {Len(Framed(m))} => Blank(Framed(m), l)

ReadInv == stage = "read" /\ OverTCP => HasRead(msg, wire, ~cut)

LEMMA ReadStep == UdpInv /\ TcpInv /\ ReadInv /\ [Next]_vars => ReadInv'
<1> SUFFICES ASSUME UdpInv, TcpInv, ReadInv, [Next]_vars PROVE ReadInv'
  OBVIOUS
<1>1. ASSUME NEW m, SendUDP(m) \/ SendTCP(m) PROVE ReadInv'
  <2>1. CASE SendUDP(m)
    BY <2>1 DEF SendUDP, ReadInv, OverTCP
  <2>2. CASE SendTCP(m)
    BY <2>2 DEF SendTCP, ReadInv
  <2> QED
    BY <1>1, <2>1, <2>2
<1>2. ASSUME NEW k \in 0 .. Len(wire), Cut(k) PROVE ReadInv'
  BY <1>2 DEF Cut, ReadInv
<1>3. CASE ReadTCP
  <2>1. PICK m, w, f : m = msg /\ w = wire /\ f = Framed(m)
    OBVIOUS
  <2>2. stage = "tcp" /\ msg' = m /\ cut' = cut
    BY <1>3, <2>1 DEF ReadTCP
  <2>3. Sendable(m) /\ Received(w, f) /\ (~cut => w = f)
    BY <2>1, <2>2 DEF UdpInv, TcpInv
  <2>4. CASE ReadFails(wire)
    <3>1. ~ReadPanics(wire)
      BY <2>4 DEF ReadPanics
    <3>2. stage' = "failed"
      BY <1>3, <2>4, <3>1 DEF ReadTCP
    <3> QED
      BY <3>2 DEF ReadInv
  <2>5. CASE ~ReadFails(wire)
    <3>1. ~ReadPanics(wire)
      BY <2>2, <2>5, ReadNeverPanics
    <3>2. wire' = ReadOneTcpMessage(w)
      BY <1>3, <2>1, <2>5, <3>1 DEF ReadTCP
    <3>3. LineEnds(w) # {}
      BY <2>1, <2>5 DEF ReadFails
    <3>4. PICK l \in Nat : /\ Carried(ReadOneTcpMessage(w), f, l)
                           /\ w = f /\ Complete(f) = {Len(f)} => Blank(f, l)
      BY <2>1, <2>3, <3>3, ReadCarries
    <3>5. HasRead(m, ReadOneTcpMessage(w), ~cut)
      BY <2>1, <2>3, <3>4 DEF HasRead
    <3> QED
      BY <2>2, <3>2, <3>5 DEF ReadInv
  <2> QED
    BY <2>4, <2>5
<1>4. CASE Parse
  BY <1>4 DEF Parse, ReadInv
<1>5. CASE UNCHANGED vars
  BY <1>5 DEF vars, ReadInv, OverTCP
<1> QED
  BY <1>1, <1>2, <1>3, <1>4, <1>5 DEF Next

LEMMA ReadAlways == Spec => [](UdpInv /\ TcpInv /\ ReadInv)
<1>1. Init => ReadInv
  BY DEF Init, ReadInv
<1> QED
  BY <1>1, ReadStep, TcpAlways, PTL DEF Spec

LEMMA PrefixStep == UdpInv /\ ReadInv /\ DataIsPrefix /\ [Next]_vars => DataIsPrefix'
<1> SUFFICES ASSUME UdpInv, ReadInv, DataIsPrefix, [Next]_vars PROVE DataIsPrefix'
  OBVIOUS
<1>1. ASSUME NEW m, SendUDP(m) \/ SendTCP(m) PROVE DataIsPrefix'
  <2>1. stage' # "parsed"
    BY <1>1 DEF SendUDP, SendTCP
  <2> QED
    BY <2>1 DEF DataIsPrefix
<1>2. ASSUME NEW k \in 0 .. Len(wire), Cut(k) PROVE DataIsPrefix'
  BY <1>2 DEF Cut, DataIsPrefix
<1>3. CASE ReadTCP
  <2>1. stage' # "parsed"
    BY <1>3 DEF ReadTCP
  <2> QED
    BY <2>1 DEF DataIsPrefix
<1>4. CASE Parse
  <2>1. PICK m, w : m = msg /\ w = wire
    OBVIOUS
  <2>2. stage = "read" /\ msg' = m /\ pkt' = ParsePacket(w)
    BY <1>4, <2>1 DEF Parse
  <2>3. Sendable(m) /\ m.data \in Seq(Octet)
    BY <2>1, <2>2 DEF UdpInv, Sendable
  <2>4. SUFFICES ASSUME Len(m.ns) <= NamespaceSize
                 PROVE  IsPrefix(TrimSpace(ParsePacket(w).data), TrimSpace(m.data))
    BY <2>2 DEF DataIsPrefix
  <2>5. CASE OverTCP
    <3>1. PICK f : f = Framed(m)
      OBVIOUS
    <3>2. PICK l \in Nat : Carried(w, f, l)
      BY <2>1, <2>2, <2>5, <3>1 DEF ReadInv, HasRead
    <3>3. PICK x \in Seq(Octet), k \in Nat : x = ParsePacket(w).data /\ Agree(x, Fitting(m.data), k)
      BY <2>3, <2>4, <3>1, <3>2, DataAgrees
    <3>4. PICK y \in Seq(Octet) : y = m.data
      BY <2>3
    <3>5. Agree(x, y, k)
      BY <3>3, <3>4, AgreeAll
    <3>6. IsPrefix(TrimSpace(x), TrimSpace(y))
      BY <3>5, TrimAgree
    <3> QED
      BY <3>3, <3>4, <3>6
  <2>6. CASE ~OverTCP
    <3>1. wire = Bytes(Packed(m)) /\ ~(Len(m.data) > DataValueSize)
      BY <2>1, <2>2, <2>6 DEF UdpInv
    <3>2. Len(m.data) <= DataValueSize
      <4>1. Len(m.data) \in Nat
        BY <2>3
      <4> QED
        BY <3>1, <4>1, Sizes
    <3>3. ParsePacket(w) = Packed(m)
      BY <2>1, <2>3, <2>4, <3>1, <3>2, UdpParsed
    <3>4. Packed(m).data = PadRight(m.data, DataValueSize)
      BY <2>3, PackedIs
    <3>5. PICK y \in Seq(Octet) : y = m.data
      BY <2>3
    <3>6. PICK x \in Seq(Octet) : x = PadRight(y, DataValueSize)
      BY Symbols, Sizes, Padded
    <3>7. Agree(x, y, Len(y))
      BY <3>2, <3>5, <3>6, PaddedAgrees
    <3>8. IsPrefix(TrimSpace(x), TrimSpace(y))
      BY <3>7, TrimAgree
    <3> QED
      BY <3>3, <3>4, <3>5, <3>6, <3>8
  <2> QED
    BY <2>5, <2>6
<1>5. CASE UNCHANGED vars
  BY <1>5 DEF vars, DataIsPrefix, NoWideSpace
<1> QED
  BY <1>1, <1>2, <1>3, <1>4, <1>5 DEF Next

(* What a worker is given is never anything but a beginning of what was    *)
(* sent, wherever the connection ends and wherever the stop symbol occurs, *)
(* if the namespace fits its field and no byte begins white space of       *)
(* several bytes (rawmessage.go, ReadOneTcpMessage, and protocol.go,       *)
(* ParsePacket).                                                           *)
THEOREM DataNeverInvented == Spec => []DataIsPrefix
<1>1. Init => DataIsPrefix
  BY DEF Init, DataIsPrefix
<1> QED
  BY <1>1, PrefixStep, ReadAlways, PTL DEF Spec

-----------------------------------------------------------------------------
(* A message that is read whole.  First: what agrees both ways is, trimmed, *)
(* the same.                                                                *)
LEMMA TrimEqual ==
    ASSUME NEW x \in Seq(Octet), NEW y \in Seq(Octet), NEW k, Agree(x, y, k), Agree(y, x, k)
    PROVE  TrimSpace(x) = TrimSpace(y)
<1>1. PICK s \in Seq(Octet), t \in Seq(Octet) : s = TrimSpace(x) /\ t = TrimSpace(y)
  BY SpaceTrimmedIn
<1>2. IsPrefix(s, t) /\ IsPrefix(t, s)
  BY <1>1, TrimAgree
<1>3. Len(s) \in Nat /\ Len(t) \in Nat
  OBVIOUS
<1>4. Len(s) = Len(t) /\ SubSeq(s, 1, Len(s)) = SubSeq(t, 1, Len(s))
  BY <1>2, <1>3 DEF IsPrefix
<1>5. SubSeq(s, 1, Len(s)) = s /\ SubSeq(t, 1, Len(t)) = t
  BY SubSeqFull
<1> QED
  BY <1>1, <1>4, <1>5

LEMMA StartStays ==
    ASSUME NEW a \in Seq(Octet), NEW b \in Seq(Octet), NEW n \in Nat, 1 <= n, n <= Len(a)
    PROVE  /\ SubSeq(a \o b, 1, n) = SubSeq(a, 1, n)
           /\ a \o b \in Seq(Octet) /\ n <= Len(a \o b)
<1>1. PICK c \in Seq(Octet) : c = a \o b
  BY AtEnd
<1>2. Len(c) = Len(a) + Len(b) /\ At(c, 0, a)
  BY <1>1, AtEnd
<1>3. Len(a) \in Nat /\ Len(b) \in Nat /\ 1 \in Nat
  OBVIOUS
<1>4. n <= Len(c)
  BY <1>2, <1>3
<1>5. \A j \in 1 .. n : c[j] = a[j]
  BY <1>2, <1>3 DEF At
<1>6. SubSeq(c, 1, n) = SubSeq(a, 1, n)
  BY <1>3, <1>4, <1>5, SameSlice
<1> QED
  BY <1>1, <1>4, <1>6

(* The hash depends on the key, the id and the namespace, and with a key   *)
(* that is long enough on the key and the id only (protocol.go,            *)
(* HashPacket: hasher.Sum appends).                                        *)
LEMMA HashIs ==
    ASSUME NEW i \in Seq(Octet), Len(i) = IdSize, NEW n \in Seq(Octet), Len(n) = NamespaceSize,
           NEW d \in Seq(Octet)
    PROVE  /\ HashPacket(i, n, d) = SubSeq(preSharedKey \o i \o n, 1, HashSize)
           /\ Len(preSharedKey) + IdSize >= HashSize =>
                HashPacket(i, n, d) = SubSeq(preSharedKey \o i, 1, HashSize)
<1>1. Byte \subseteq Octet
  BY DEF Octet
<1>2. preSharedKey \in Seq(Octet) /\ Digest \in Seq(Octet)
  BY <1>1, ProtocolAssumption, SeqMonotonic
<1>3. PICK a \in Seq(Octet) : a = preSharedKey \o i /\ Len(a) = Len(preSharedKey) + Len(i)
  BY <1>2, AtEnd
<1>4. PICK b \in Seq(Octet) : b = a \o n /\ Len(b) = Len(a) + Len(n)
  BY AtEnd
<1>5. /\ HashSize \in Nat /\ 1 <= HashSize /\ IdSize \in Nat /\ NamespaceSize \in Nat
      /\ IdSize + NamespaceSize >= HashSize /\ Len(preSharedKey) \in Nat
  BY <1>2, Sizes, ProtocolAssumption
<1>6. HashSize <= Len(b)
  BY <1>3, <1>4, <1>5
<1>7. PICK c \in Seq(Octet) : c = b \o d
  BY AtEnd
<1>8. SubSeq(c, 1, HashSize) = SubSeq(b, 1, HashSize) /\ HashSize <= Len(c)
  BY <1>5, <1>6, <1>7, StartStays
<1>9. SubSeq(c \o Digest, 1, HashSize) = SubSeq(c, 1, HashSize)
  BY <1>2, <1>5, <1>8, StartStays
<1>10. HashPacket(i, n, d) = SubSeq(b, 1, HashSize)
  BY <1>3, <1>4, <1>7, <1>8, <1>9 DEF HashPacket
<1>11. ASSUME Len(preSharedKey) + IdSize >= HashSize
       PROVE  SubSeq(b, 1, HashSize) = SubSeq(a, 1, HashSize)
  <2>1. HashSize <= Len(a)
    BY <1>3, <1>5, <1>11
  <2> QED
    BY <1>4, <1>5, <2>1, StartStays
<1> QED
  BY <1>3, <1>4, <1>10, <1>11

(* Where the fields of a message are that goes by TCP.                     *)
LEMMA FieldPlaces ==
    ASSUME NEW m, NEW c \in Commands, NEW h \in Seq(Octet), NEW i \in Seq(Octet),
           NEW n \in Seq(Octet), NEW d \in Seq(Octet), Fields(m, c, h, i, n, d), Sized(h, i, n),
           NEW f, f = Framed(m)
    PROVE  /\ f \in Seq(Octet) /\ Len(f) = space4 + Len(d) + 3 /\ f[1] = c
           /\ \A j \in 1 .. HashSize : f[space1 + j] = h[j]
           /\ \A j \in 1 .. IdSize : f[space2 + j] = i[j]
           /\ \A j \in 1 .. NamespaceSize : f[space3 + j] = n[j]
           /\ \A j \in 1 .. Len(d) : f[space4 + j] = d[j]
           /\ \A k \in {space1, space2, space3, space4} : f[k] = space
<1>1. c \in Octet /\ space \in Octet
  BY Symbols DEF Commands
<1>2. PICK a \in Seq(Octet) : a = Header(c, h, i, n)
  BY <1>1, HeaderLayout
<1>3. /\ Len(a) = space4
      /\ a[1] = c /\ At(a, space1, h) /\ At(a, space2, i) /\ At(a, space3, n)
      /\ \A k \in {space1, space2, space3, space4} : a[k] = space
  BY <1>1, <1>2, HeaderLayout
<1>4. f \in Seq(Octet) /\ Len(f) = space4 + Len(d) + 3 /\ At(f, 0, a) /\ At(f, space4, d)
  BY <1>2, FramedLayout
<1>5. /\ space1 = 2 /\ HashSize \in Nat /\ IdSize \in Nat /\ NamespaceSize \in Nat
      /\ space2 = HashSize + 3 /\ space3 = HashSize + IdSize + 4
      /\ space4 = HashSize + IdSize + NamespaceSize + 5
  BY Sizes DEF space1
<1>6. \A k \in 1 .. space4 : f[k] = a[k]
  BY <1>3, <1>4, <1>5 DEF At
<1>7. f[1] = c /\ \A k \in {space1, space2, space3, space4} : f[k] = space
  <2>1. 1 \in 1 .. space4 /\ \A k \in {space1, space2, space3, space4} : k \in 1 .. space4
    BY <1>5
  <2> QED
    BY <1>3, <1>6, <2>1
<1>8. \A j \in 1 .. HashSize : f[space1 + j] = h[j]
  <2> TAKE j \in 1 .. HashSize
  <2>1. space1 + j \in 1 .. space4
    BY <1>5
  <2>2. a[space1 + j] = h[j]
    BY <1>3 DEF At, Sized
  <2> QED
    BY <1>6, <2>1, <2>2
<1>9. \A j \in 1 .. IdSize : f[space2 + j] = i[j]
  <2> TAKE j \in 1 .. IdSize
  <2>1. space2 + j \in 1 .. space4
    BY <1>5
  <2>2. a[space2 + j] = i[j]
    BY <1>3 DEF At, Sized
  <2> QED
    BY <1>6, <2>1, <2>2
<1>10. \A j \in 1 .. NamespaceSize : f[space3 + j] = n[j]
  <2> TAKE j \in 1 .. NamespaceSize
  <2>1. space3 + j \in 1 .. space4
    BY <1>5
  <2>2. a[space3 + j] = n[j]
    BY <1>3 DEF At, Sized
  <2> QED
    BY <1>6, <2>1, <2>2
<1>11. \A j \in 1 .. Len(d) : f[space4 + j] = d[j]
  BY <1>4 DEF At
<1> QED
  BY <1>4, <1>7, <1>8, <1>9, <1>10, <1>11

(* The padding that TrimRight takes ends behind the id, if there is a      *)
(* character in the namespace or in the data or at the end of the id.      *)
HasInk(m) == Inked(m.ns \o m.data) # {} \/ ~IsSpace(m.id[IdSize])

LEMMA InkReaches ==
    ASSUME NEW m, Sendable(m), Len(m.ns) <= NamespaceSize, NEW f, f = Framed(m), NEW l \in Nat,
           Blank(f, l), HasInk(m)
    PROVE  l >= space3 - 1
<1>1. PICK c \in Commands, h \in Seq(Octet), i \in Seq(Octet),
           n \in Seq(Octet), d \in Seq(Octet) : Fields(m, c, h, i, n, d)
  BY HasFields
<1>2. Sized(h, i, n)
  BY <1>1 DEF Fields, Sized
<1>3. /\ f \in Seq(Octet) /\ Len(f) = space4 + Len(d) + 3
      /\ \A j \in 1 .. IdSize : f[space2 + j] = i[j]
      /\ \A j \in 1 .. NamespaceSize : f[space3 + j] = n[j]
      /\ \A j \in 1 .. Len(d) : f[space4 + j] = d[j]
  BY <1>1, <1>2, FieldPlaces
<1>4. /\ space2 \in Nat /\ space3 \in Nat /\ space4 \in Nat /\ IdSize \in Nat /\ IdSize >= 1
      /\ NamespaceSize \in Nat /\ DataValueSize \in Nat /\ Len(d) \in Nat
      /\ space2 + IdSize = space3 - 1 /\ space3 + NamespaceSize < space4
  BY Sizes
<1>5. ASSUME NEW p \in 1 .. space4 + Len(d), p >= space3 - 1, ~IsSpace(f[p])
      PROVE  l >= space3 - 1
  <2>1. p \in 1 .. Len(f) - 3
    BY <1>3, <1>4
  <2>2. ~(p > l)
    BY <1>5, <2>1 DEF Blank
  <2> QED
    BY <1>4, <1>5, <2>2
<1>6. CASE ~IsSpace(m.id[IdSize])
  <2>1. f[space2 + IdSize] = m.id[IdSize]
    <3>1. i = m.id
      BY <1>1 DEF Fields
    <3>2. IdSize \in 1 .. IdSize
      BY <1>4
    <3> QED
      BY <1>3, <3>1, <3>2
  <2>2. space2 + IdSize \in 1 .. space4 + Len(d) /\ space2 + IdSize >= space3 - 1
    BY <1>4
  <2> QED
    BY <1>5, <1>6, <2>1, <2>2
<1>7. CASE Inked(m.ns \o m.data) # {}
  <2>1. PICK u \in Seq(Octet), v \in Seq(Octet) : u = m.ns /\ v = m.data
    BY DEF Sendable
  <2>2. PICK s \in Seq(Octet) : s = u \o v
    BY AtEnd
  <2>3. Len(s) = Len(u) + Len(v) /\ At(s, Len(u), v) /\ At(s, 0, u)
    BY <2>2, AtEnd
  <2>4. PICK j \in 1 .. Len(s) : ~IsSpace(s[j])
    BY <1>7, <2>1, <2>2 DEF Inked
  <2>5. Len(u) \in Nat /\ Len(v) \in Nat /\ Len(u) <= NamespaceSize
    BY <2>1
  <2>6. n = PadRight(u, NamespaceSize) /\ d = PadRight(v, DataValueSize)
    BY <1>1, <2>1 DEF Fields
  <2>7. CASE j <= Len(u)
    <3>1. j \in 1 .. Len(u) /\ j \in 1 .. NamespaceSize
      BY <1>4, <2>3, <2>4, <2>5, <2>7
    <3>2. s[0 + j] = u[j] /\ 0 + j = j
      BY <2>3, <3>1 DEF At
    <3>3. n[j] = u[j]
      BY <1>4, <2>6, <3>1, Symbols, Padded
    <3>4. f[space3 + j] = s[j]
      BY <1>3, <3>1, <3>2, <3>3
    <3>5. space3 + j \in 1 .. space4 + Len(d) /\ space3 + j >= space3 - 1
      BY <1>4, <3>1
    <3> QED
      BY <1>5, <2>4, <3>4, <3>5
  <2>8. CASE j > Len(u)
    <3>1. PICK e \in 1 .. Len(v) : j = Len(u) + e
      <4>1. j - Len(u) \in 1 .. Len(v) /\ j = Len(u) + (j - Len(u))
        BY <2>3, <2>4, <2>5, <2>8
      <4> QED
        BY <4>1
    <3>2. s[j] = v[e]
      BY <2>3, <3>1 DEF At
    <3>3. d[e] = v[e] /\ Len(d) = IF Len(v) >= DataValueSize THEN Len(v) ELSE DataValueSize
      BY <1>4, <2>6, <3>1, Symbols, Padded
    <3>4. e \in 1 .. Len(d)
      BY <1>4, <2>5, <3>1, <3>3
    <3>5. f[space4 + e] = s[j]
      BY <1>3, <3>2, <3>3, <3>4
    <3>6. space4 + e \in 1 .. space4 + Len(d) /\ space4 + e >= space3 - 1
      BY <1>4, <3>4
    <3> QED
      BY <1>5, <2>4, <3>5, <3>6
  <2> QED
    BY <2>4, <2>5, <2>7, <2>8
<1> QED
  BY <1>6, <1>7 DEF HasInk

(* What ParsePacket makes of a message of which the reader has lost only   *)
(* white space behind the id.                                              *)
Hashable(m) ==
    \/ Len(preSharedKey) + IdSize >= HashSize
    \/ \A j \in 1 .. Len(m.ns) : IsSpace(m.ns[j]) => m.ns[j] = space

LEMMA WholeParsed ==
    ASSUME NEW m, Sendable(m), IsTcpOnlyCmd(m.cmd), Len(m.ns) <= NamespaceSize, HasInk(m),
           NEW f, f = Framed(m), NEW w, NEW l, Carried(w, f, l), Blank(f, l)
    PROVE  /\ ~ParseFails(w)
           /\ ParsePacket(w).cmd = m.cmd /\ ParsePacket(w).id = m.id
           /\ TrimSpace(ParsePacket(w).ns) = TrimSpace(m.ns)
           /\ TrimSpace(ParsePacket(w).data) = TrimSpace(Fitting(m.data))
           /\ Hashable(m) => Validate(ParsePacket(w))
<1>1. PICK c \in Commands, h \in Seq(Octet), i \in Seq(Octet),
           n \in Seq(Octet), d \in Seq(Octet) : Fields(m, c, h, i, n, d)
  BY HasFields
<1>2. Sized(h, i, n)
  BY <1>1 DEF Fields, Sized
<1>3. /\ f \in Seq(Octet) /\ Len(f) = space4 + Len(d) + 3 /\ f[1] = c
      /\ \A j \in 1 .. HashSize : f[space1 + j] = h[j]
      /\ \A j \in 1 .. IdSize : f[space2 + j] = i[j]
      /\ \A j \in 1 .. NamespaceSize : f[space3 + j] = n[j]
      /\ \A k \in {space1, space2, space3, space4} : f[k] = space
  BY <1>1, <1>2, FieldPlaces
<1>4. /\ space1 = 2 /\ HashSize \in Nat /\ HashSize >= 1 /\ IdSize \in Nat /\ IdSize >= 1
      /\ NamespaceSize \in Nat /\ NamespaceSize >= 1 /\ DataValueSize \in Nat /\ DataValueSize >= 1
      /\ space2 = HashSize + 3 /\ space3 = HashSize + IdSize + 4
      /\ space4 = HashSize + IdSize + NamespaceSize + 5
      /\ PacketSize = space4 + DataValueSize
  BY Sizes DEF space1
<1>5. /\ w \in Seq(Octet) /\ l \in Nat /\ l <= Len(w) /\ PacketSize <= Len(w) /\ Len(w) \in Nat
      /\ \A j \in 1 .. l : w[j] = f[j]
      /\ \A j \in 1 .. Len(w) : j > l => w[j] = space
  BY DEF Carried
<1>6. l >= space3 - 1
  BY <1>5, InkReaches
<1>7. \A j \in 1 .. space3 - 1 : w[j] = f[j]
  BY <1>4, <1>5, <1>6
<1>8. \A k \in {space1, space2, space3, space4} : w[k] = space
  <2> TAKE k \in {space1, space2, space3, space4}
  <2>0. k \in 1 .. space4 /\ space4 \in Nat /\ space4 <= Len(w)
    BY <1>4, <1>5
  <2>1. k \in 1 .. Len(w) /\ f[k] = space
    BY <1>3, <1>5, <2>0
  <2>2. CASE k <= l
    <3>1. k \in 1 .. l
      BY <1>5, <2>1, <2>2
    <3> QED
      BY <1>5, <2>1, <3>1
  <2>3. CASE k > l
    BY <1>5, <2>1, <2>3
  <2> QED
    BY <1>5, <2>1, <2>2, <2>3
<1>9. w[1] = c /\ c = m.cmd /\ i = m.id
  <2>1. 1 \in 1 .. space3 - 1
    BY <1>4
  <2>2. c = m.cmd /\ i = m.id
    BY <1>1 DEF Fields
  <2> QED
    BY <1>3, <1>7, <2>1, <2>2
<1>10. ~ParseFails(w)
  <2>1. ~TooSmall(w)
    BY <1>4, <1>5 DEF TooSmall
  <2>2. IsTcpOnlyCmd(w[1])
    BY <1>9
  <2> QED
    BY <1>8, <2>1, <2>2 DEF ParseFails
<1>11. HashBytes(w) = h /\ IdBytes(w) = i
  <2>1. At(w, space1, h)
    <3>1. Len(h) = HashSize /\ space1 + HashSize <= Len(w)
      BY <1>2, <1>4, <1>5 DEF Sized
    <3>2. \A j \in 1 .. HashSize : space1 + j \in 1 .. space3 - 1
      BY <1>4
    <3> QED
      BY <1>3, <1>7, <3>1, <3>2 DEF At
  <2>2. At(w, space2, i)
    <3>1. Len(i) = IdSize /\ space2 + IdSize <= Len(w)
      BY <1>2, <1>4, <1>5 DEF Sized
    <3>2. \A j \in 1 .. IdSize : space2 + j \in 1 .. space3 - 1
      BY <1>4
    <3> QED
      BY <1>3, <1>7, <3>1, <3>2 DEF At
  <2>3. space1 \in Nat /\ space2 \in Nat
    BY <1>4
  <2>4. SubSeq(w, space1 + 1, space1 + Len(h)) = h /\ SubSeq(w, space2 + 1, space2 + Len(i)) = i
    BY <1>5, <2>1, <2>2, <2>3, AtSlice
  <2>5. space1 + Len(h) = space2 - 1 /\ space2 + Len(i) = space3 - 1
    BY <1>2, <1>4 DEF Sized
  <2> QED
    BY <2>4, <2>5 DEF HashBytes, IdBytes
<1>12. PICK u \in Seq(Octet) : u = NsBytes(w) /\ Window(u, w, space3, NamespaceSize)
  <2>1. PICK a \in Nat, b \in Nat : a = space3 + 1 /\ b = space4 - 1
    BY <1>4
  <2>2. /\ 1 <= a /\ a <= b + 1 /\ b <= Len(w) /\ b - a + 1 = NamespaceSize
        /\ \A j \in 1 .. NamespaceSize : a + j - 1 = space3 + j
    BY <1>4, <1>5, <2>1
  <2>3. /\ SubSeq(w, a, b) \in Seq(Octet) /\ Len(SubSeq(w, a, b)) = b - a + 1
        /\ \A j \in 1 .. b - a + 1 : SubSeq(w, a, b)[j] = w[a + j - 1]
    BY <1>5, <2>2, Piece
  <2>4. PICK u \in Seq(Octet) : u = SubSeq(w, a, b)
    BY <2>3
  <2>5. Len(u) = NamespaceSize /\ \A j \in 1 .. NamespaceSize : u[j] = w[space3 + j]
    BY <2>2, <2>3, <2>4
  <2>6. u = NsBytes(w)
    BY <2>1, <2>4 DEF NsBytes
  <2> QED
    BY <2>5, <2>6 DEF Window
<1>13. PICK z \in Seq(Octet) : z = m.ns
  BY DEF Sendable
<1>14. TrimSpace(u) = TrimSpace(z)
  <2>1. Filled(n, z, NamespaceSize)
    <3>1. n = PadRight(z, NamespaceSize) /\ Len(z) <= NamespaceSize
      BY <1>1, <1>13 DEF Fields
    <3>2. /\ \A j \in 1 .. Len(z) : n[j] = z[j]
          /\ \A j \in 1 .. NamespaceSize : j > Len(z) => n[j] = space
      BY <1>4, <3>1, Symbols, Padded
    <3> QED
      BY <3>1, <3>2 DEF Filled
  <2>2. Len(d) \in Nat
    OBVIOUS
  <2>3. space3 \in Nat /\ NamespaceSize \in Nat /\ space3 + NamespaceSize + 1 = space4
        /\ space4 \in Nat /\ space4 <= PacketSize /\ PacketSize \in Nat
    BY <1>4
  <2>4. space3 + NamespaceSize <= Len(w)
    <3>1. Len(w) \in Nat /\ PacketSize <= Len(w)
      BY <1>5
    <3> QED
      BY <2>3, <3>1
  <2>5. space3 + NamespaceSize + 3 <= Len(f)
    <3>1. Len(f) = space4 + Len(d) + 3
      BY <1>3
    <3> QED
      BY <2>2, <2>3, <3>1
  <2>6. f \in Seq(Octet) /\ \A j \in 1 .. NamespaceSize : f[space3 + j] = n[j]
    BY <1>3
  <2>7. Window(u, w, space3, NamespaceSize)
    BY <1>12
  <2>8. PICK q \in Nat, e \in Nat : q = space3 /\ e = NamespaceSize
    BY <2>3
  <2>9. PICK k \in Nat : Agree(u, z, k) /\ (Blank(f, l) => Agree(z, u, k))
    BY <2>1, <2>4, <2>5, <2>6, <2>7, <2>8, FieldAgrees
  <2> QED
    BY <2>9, TrimEqual
<1>15. PICK x \in Seq(Octet), k \in Nat :
          /\ x = ParsePacket(w).data /\ Agree(x, Fitting(m.data), k)
          /\ Blank(f, l) => Agree(Fitting(m.data), x, k)
  BY DataAgrees
<1>16. TrimSpace(x) = TrimSpace(Fitting(m.data))
  <2>1. PICK y \in Seq(Octet) : y = Fitting(m.data)
    BY FittingIs DEF Sendable
  <2>2. Agree(x, y, k) /\ Agree(y, x, k)
    BY <1>15, <2>1
  <2> QED
    BY <2>1, <2>2, TrimEqual
<1>17. PICK p : p = ParsePacket(w)
  OBVIOUS
<1>18. p.cmd = c /\ p.hash = h /\ p.id = i /\ p.ns = u /\ p.data = x
  <2>1. p.cmd = w[1] /\ p.hash = HashBytes(w) /\ p.id = IdBytes(w) /\ p.ns = NsBytes(w)
    BY <1>17 DEF ParsePacket
  <2> QED
    BY <1>9, <1>11, <1>12, <1>15, <1>17, <2>1
<1>19. ASSUME \A j \in 1 .. Len(z) : IsSpace(z[j]) => z[j] = space PROVE u = n
  <2>1. Len(u) = NamespaceSize /\ Len(n) = NamespaceSize
    BY <1>2, <1>12 DEF Window, Sized
  <2>2. n = PadRight(z, NamespaceSize) /\ Len(z) <= NamespaceSize
    BY <1>1, <1>13 DEF Fields
  <2>3. /\ \A j \in 1 .. Len(z) : n[j] = z[j]
        /\ \A j \in 1 .. NamespaceSize : j > Len(z) => n[j] = space
    BY <1>4, <2>2, Symbols, Padded
  <2>4. ASSUME NEW j \in 1 .. NamespaceSize PROVE u[j] = n[j]
    <3>1. u[j] = w[space3 + j] /\ f[space3 + j] = n[j]
      BY <1>3, <1>12 DEF Window
    <3>2. space3 + j \in 1 .. space4 /\ space4 \in Nat /\ space4 <= Len(w)
      BY <1>4, <1>5
    <3>3. space3 + j \in 1 .. Len(w)
      BY <1>5, <3>2
    <3>4. CASE space3 + j <= l
      <4>1. space3 + j \in 1 .. l
        BY <1>5, <3>2, <3>4
      <4> QED
        BY <1>5, <3>1, <4>1
    <3>5. CASE space3 + j > l
      <4>1. u[j] = space
        BY <1>5, <3>1, <3>3, <3>5
      <4>2. space3 + j \in 1 .. Len(f) - 3
        <5>1. Len(f) = space4 + Len(d) + 3 /\ Len(d) \in Nat
          BY <1>3
        <5> QED
          BY <3>2, <5>1
      <4>3. IsSpace(n[j])
        BY <3>1, <3>5, <4>2 DEF Blank
      <4>4. n[j] = space
        <5>1. CASE j <= Len(z)
          <6>1. j \in 1 .. Len(z)
            BY <5>1
          <6> QED
            BY <1>19, <2>3, <4>3, <6>1
        <5>2. CASE j > Len(z)
          BY <2>3, <5>2
        <5>3. Len(z) \in Nat
          OBVIOUS
        <5> QED
          BY <5>1, <5>2, <5>3
      <4> QED
        BY <4>1, <4>4
    <3>6. space3 + j \in Nat
      BY <3>2
    <3> QED
      BY <1>5, <3>4, <3>5, <3>6
  <2> QED
    BY <2>1, <2>4, SeqEqual
<1>20. ASSUME Hashable(m) PROVE Validate(p)
  <2>1. Packed(m) = Record(c, h, i, n, d) /\ Validate(Packed(m))
    BY <1>1, PackedIs DEF Fields
  <2>2. h = HashPacket(i, n, d)
    BY <2>1 DEF Validate, Record
  <2>3. Len(i) = IdSize /\ Len(n) = NamespaceSize /\ Len(u) = NamespaceSize
    BY <1>2, <1>12 DEF Sized, Window
  <2>4. CASE Len(preSharedKey) + IdSize >= HashSize
    <3>1. HashPacket(i, n, d) = SubSeq(preSharedKey \o i, 1, HashSize)
      BY <2>3, <2>4, HashIs
    <3>2. HashPacket(i, u, x) = SubSeq(preSharedKey \o i, 1, HashSize)
      BY <2>3, <2>4, HashIs
    <3> QED
      BY <1>18, <2>2, <3>1, <3>2 DEF Validate
  <2>5. CASE \A j \in 1 .. Len(z) : IsSpace(z[j]) => z[j] = space
    <3>1. u = n
      BY <1>19, <2>5
    <3>2. HashPacket(i, n, d) = SubSeq(preSharedKey \o i \o n, 1, HashSize)
      BY <2>3, HashIs
    <3>3. HashPacket(i, n, x) = SubSeq(preSharedKey \o i \o n, 1, HashSize)
      BY <2>3, HashIs
    <3> QED
      BY <1>18, <2>2, <3>1, <3>2, <3>3 DEF Validate
  <2> QED
    BY <1>13, <1>20, <2>4, <2>5 DEF Hashable
<1> QED
  BY <1>9, <1>10, <1>13, <1>14, <1>16, <1>17, <1>18, <1>20

LEMMA ExactStep ==
    ASSUME UdpInv, ReadInv, TcpExact, [Next]_vars PROVE TcpExact'
<1>1. ASSUME NEW m, SendUDP(m) \/ SendTCP(m) PROVE TcpExact'
  <2>1. ~Arrived'
    BY <1>1 DEF SendUDP, SendTCP, Arrived
  <2> QED
    BY <2>1 DEF TcpExact
<1>2. ASSUME NEW k \in 0 .. Len(wire), Cut(k) PROVE TcpExact'
  <2>1. ~Arrived'
    BY <1>2 DEF Cut, Arrived
  <2> QED
    BY <2>1 DEF TcpExact
<1>3. CASE ReadTCP
  <2>1. ~Arrived'
    BY <1>3 DEF ReadTCP, Arrived
  <2> QED
    BY <2>1 DEF TcpExact
<1>4. CASE Parse
  <2>1. PICK m, w, f : m = msg /\ w = wire /\ f = Framed(m)
    OBVIOUS
  <2>2. stage = "read" /\ msg' = m /\ pkt' = ParsePacket(w) /\ cut' = cut
        /\ stage' = IF ParseFails(w) THEN "bad" ELSE "parsed"
    BY <1>4, <2>1 DEF Parse
  <2>3. Sendable(m)
    BY <2>1, <2>2 DEF UdpInv
  <2>4. SUFFICES ASSUME IsTcpOnlyCmd(m.cmd), ~cut, Len(m.ns) <= NamespaceSize,
                        Complete(f) = {Len(f)}, HasInk(m)
                 PROVE  /\ ~ParseFails(w)
                        /\ ParsePacket(w).cmd = m.cmd /\ ParsePacket(w).id = m.id
                        /\ TrimSpace(ParsePacket(w).ns) = TrimSpace(m.ns)
                        /\ TrimSpace(ParsePacket(w).data) = TrimSpace(Fitting(m.data))
                        /\ Hashable(m) => Validate(ParsePacket(w))
    BY <2>1, <2>2 DEF TcpExact, OverTCP, StopsAtEnd, IdKept, HasInk, Fitting, HashKept, Hashable
  <2>5. PICK l \in Nat : Carried(w, f, l) /\ Blank(f, l)
    BY <2>1, <2>2, <2>4 DEF ReadInv, HasRead, OverTCP
  <2> QED
    BY <2>1, <2>3, <2>4, <2>5, WholeParsed
<1>5. CASE UNCHANGED vars
  BY <1>5 DEF vars, TcpExact, OverTCP, Arrived, StopsAtEnd, IdKept, HashKept, NoWideSpace
<1> QED
  BY <1>1, <1>2, <1>3, <1>4, <1>5 DEF Next

(* A message by TCP is parsed into what was packed, up to white space, and *)
(* its hash is accepted, whatever the key and the sizes of the fields and  *)
(* whatever the message's bytes, but for those of WideSpace, unless one of *)
(* the exceptions applies that TcpExact names                              *)
(* (rawmessage.go, ReadOneTcpMessage; protocol.go, ParsePacket, Validate). *)
THEOREM TcpRoundTrip == Spec => []TcpExact
<1>1. Init => TcpExact
  BY DEF Init, TcpExact, Arrived
<1>2. UdpInv /\ ReadInv /\ TcpExact /\ [Next]_vars => TcpExact'
  BY ExactStep
<1> QED
  BY <1>1, <1>2, ReadAlways, PTL DEF Spec
-----------------------------------------------------------------------------
(* What holds of 0, and of n + 1 whenever of n, holds up to N.             *)
LEMMA UpTo ==
    ASSUME NEW N \in Nat, NEW S, 0 \in S, \A n \in 0 .. N : n \in S /\ n < N => n + 1 \in S
    PROVE  \A n \in 0 .. N : n \in S
<1> DEFINE T == {n \in 0 .. N : n \notin S}
<1>1. SUFFICES ASSUME T # {} PROVE FALSE
  OBVIOUS
<1>2. T \in SUBSET Nat
  OBVIOUS
<1>3. PICK z \in T : \A y \in T : z <= y
  BY <1>1, <1>2, LeastOf
<1>4. z \in 0 .. N /\ z \notin S /\ z # 0
  OBVIOUS
<1>5. z - 1 \in 0 .. N /\ ~(z <= z - 1) /\ z - 1 < N /\ z - 1 + 1 = z
  BY <1>4
<1>6. z - 1 \in S
  BY <1>3, <1>5
<1> QED
  BY <1>4, <1>5, <1>6

LEMMA NatUpTo ==
    ASSUME NEW N \in Nat, NEW q, q[0] \in Nat,
           \A i \in 1 .. N : q[i - 1] \in Nat => q[i] \in Nat
    PROVE  \A i \in 0 .. N : q[i] \in Nat
<1> DEFINE S == {i \in 0 .. N : q[i] \in Nat}
<1>1. 0 \in S
  OBVIOUS
<1>2. ASSUME NEW n \in 0 .. N, n \in S, n < N PROVE n + 1 \in S
  <2>1. n + 1 \in 1 .. N /\ n + 1 - 1 = n /\ q[n] \in Nat
    BY <1>2
  <2>2. n + 1 \in 0 .. N /\ q[n + 1] \in Nat
    BY <2>1
  <2> QED
    BY <2>2
<1>3. \A n \in 0 .. N : n \in S
  <2> HIDE DEF S
  <2> QED
    BY <1>1, <1>2, UpTo
<1> QED
  BY <1>3

(* A function defined by recursion on 0 .. n, from a and step by step with *)
(* G.                                                                      *)
Chain(h, n, a, G) ==
    /\ h \in [0 .. n -> Nat] /\ h[0] = a
    /\ \A i \in 1 .. n : h[i] = G[i][h[i - 1]]

LEMMA ChainExists ==
    ASSUME NEW N \in Nat, NEW a \in Nat, NEW G \in [1 .. N -> [Nat -> Nat]]
    PROVE  \E h : Chain(h, N, a, G)
<1> DEFINE S == {n \in 0 .. N : \E h : Chain(h, n, a, G)}
<1>1. 0 \in S
  <2> DEFINE h == [i \in 0 .. 0 |-> a]
  <2>1. h \in [0 .. 0 -> Nat] /\ h[0] = a
    OBVIOUS
  <2>2. Chain(h, 0, a, G)
    BY <2>1 DEF Chain
  <2> QED
    BY <2>2
<1>2. ASSUME NEW n \in 0 .. N, n \in S, n < N PROVE n + 1 \in S
  <2>1. PICK h : Chain(h, n, a, G)
    BY <1>2
  <2>2. h \in [0 .. n -> Nat] /\ h[0] = a /\ \A i \in 1 .. n : h[i] = G[i][h[i - 1]]
    BY <2>1 DEF Chain
  <2>3. n \in Nat /\ n + 1 \in 1 .. N /\ h[n] \in Nat
    BY <1>2, <2>2
  <2>4. PICK x \in Nat : x = G[n + 1][h[n]]
    BY <2>3
  <2> DEFINE g == [i \in 0 .. n + 1 |-> IF i = n + 1 THEN x ELSE h[i]]
  <2>5. \A i \in 0 .. n + 1 : g[i] \in Nat
    BY <2>2, <2>3, <2>4
  <2>6. g \in [0 .. n + 1 -> Nat] /\ g[0] = a
    <3>1. 0 \in 0 .. n + 1 /\ 0 # n + 1
      BY <2>3
    <3>2. g[0] = a
      BY <2>2, <3>1
    <3> QED
      BY <2>5, <3>2
  <2>7. ASSUME NEW i \in 1 .. n + 1 PROVE g[i] = G[i][g[i - 1]]
    <3>1. i - 1 \in 0 .. n + 1 /\ i - 1 # n + 1 /\ g[i - 1] = h[i - 1]
      BY <2>3
    <3>2. CASE i = n + 1
      <4>1. i - 1 = n /\ g[i] = x
        BY <2>3, <3>2
      <4> QED
        BY <2>4, <3>1, <3>2, <4>1
    <3>3. CASE i # n + 1
      <4>1. i \in 1 .. n /\ g[i] = h[i]
        BY <2>3, <3>3
      <4> QED
        BY <2>2, <3>1, <4>1
    <3> QED
      BY <3>2, <3>3
  <2>8. Chain(g, n + 1, a, G)
    BY <2>6, <2>7 DEF Chain
  <2>9. n + 1 \in 0 .. N
    BY <2>3
  <2> QED
    BY <2>8, <2>9
<1>3. \A n \in 0 .. N : n \in S
  <2> HIDE DEF S
  <2> QED
    BY <1>1, <1>2, UpTo
<1> QED
  BY <1>3

(* The recursion of Uint32ToBytes is well defined: every byte is the rest  *)
(* of a division.                                                          *)
LEMMA ShiftedIs ==
    ASSUME NEW u \in Nat
    PROVE  /\ Shifted(u) \in [0 .. IdSize -> Nat] /\ Shifted(u)[0] = u
           /\ \A i \in 1 .. IdSize : Shifted(u)[i] = Shifted(u)[i - 1] \div 256
<1>1. IdSize \in Nat
  BY Sizes
<1> DEFINE G == [i \in 1 .. IdSize |-> [x \in Nat |-> x \div 256]]
           P(g) == g = [i \in 0 .. IdSize |-> IF i = 0 THEN u ELSE g[i - 1] \div Base]
<1>2. \A x \in Nat : x \div 256 \in Nat
  OBVIOUS
<1>3. G \in [1 .. IdSize -> [Nat -> Nat]]
  BY <1>2
<1>4. PICK h : Chain(h, IdSize, u, G)
  <2> HIDE DEF G
  <2> QED
    BY <1>1, <1>3, ChainExists
<1>5. /\ h \in [0 .. IdSize -> Nat] /\ h[0] = u
      /\ \A i \in 1 .. IdSize : h[i] = G[i][h[i - 1]]
  BY <1>4 DEF Chain
<1>6. ASSUME NEW i \in 1 .. IdSize PROVE h[i] = h[i - 1] \div 256
  <2>1. i - 1 \in 0 .. IdSize
    BY <1>1
  <2>2. PICK x \in Nat : x = h[i - 1]
    BY <1>5, <2>1
  <2>3. G[i][x] = x \div 256
    OBVIOUS
  <2> QED
    BY <1>5, <2>2, <2>3
<1>7. \A i \in 0 .. IdSize : h[i] = IF i = 0 THEN u ELSE h[i - 1] \div Base
  BY <1>1, <1>5, <1>6 DEF Base
<1>8. P(h)
  BY <1>5, <1>7
<1>9. Shifted(u) = CHOOSE g : P(g)
  BY DEF Shifted
<1>10. P(Shifted(u))
  <2> HIDE DEF P
  <2> QED
    BY <1>8, <1>9
<1>11. PICK q : q = Shifted(u)
  OBVIOUS
<1>12. q = [i \in 0 .. IdSize |-> IF i = 0 THEN u ELSE q[i - 1] \div 256]
  BY <1>10, <1>11 DEF Base
<1>13. \A i \in 0 .. IdSize : q[i] = IF i = 0 THEN u ELSE q[i - 1] \div 256
  BY <1>12
<1>14. q[0] = u /\ \A i \in 1 .. IdSize : q[i] = q[i - 1] \div 256
  BY <1>1, <1>13
<1>15. \A i \in 0 .. IdSize : q[i] \in Nat
  <2>1. \A i \in 1 .. IdSize : q[i - 1] \in Nat => q[i] \in Nat
    BY <1>2, <1>14
  <2>2. q[0] \in Nat
    BY <1>14
  <2> QED
    BY <1>1, <2>1, <2>2, NatUpTo
<1>16. q \in [0 .. IdSize -> Nat]
  BY <1>12, <1>15
<1> QED
  BY <1>11, <1>14, <1>16

LEMMA GatheredIs ==
    ASSUME NEW b \in [1 .. IdSize -> Nat]
    PROVE  /\ Gathered(b) \in [0 .. IdSize -> Nat] /\ Gathered(b)[0] = 0
           /\ \A i \in 1 .. IdSize :
                  Gathered(b)[i] = 256 * Gathered(b)[i - 1] + b[IdSize + 1 - i]
<1>1. IdSize \in Nat
  BY Sizes
<1> DEFINE G == [i \in 1 .. IdSize |-> [x \in Nat |-> 256 * x + b[IdSize + 1 - i]]]
           P(g) == g = [i \in 0 .. IdSize |->
                           IF i = 0 THEN 0 ELSE Base * g[i - 1] + b[IdSize + 1 - i]]
<1>2. \A i \in 1 .. IdSize : b[IdSize + 1 - i] \in Nat
  BY <1>1
<1>3. G \in [1 .. IdSize -> [Nat -> Nat]]
  BY <1>2
<1>4. PICK h : Chain(h, IdSize, 0, G)
  <2> HIDE DEF G
  <2> QED
    BY <1>1, <1>3, ChainExists
<1>5. /\ h \in [0 .. IdSize -> Nat] /\ h[0] = 0
      /\ \A i \in 1 .. IdSize : h[i] = G[i][h[i - 1]]
  BY <1>4 DEF Chain
<1>6. ASSUME NEW i \in 1 .. IdSize PROVE h[i] = 256 * h[i - 1] + b[IdSize + 1 - i]
  <2>1. i - 1 \in 0 .. IdSize
    BY <1>1
  <2>2. PICK x \in Nat : x = h[i - 1]
    BY <1>5, <2>1
  <2>3. G[i][x] = 256 * x + b[IdSize + 1 - i]
    OBVIOUS
  <2> QED
    BY <1>5, <2>2, <2>3
<1>7. \A i \in 0 .. IdSize : h[i] = IF i = 0 THEN 0 ELSE Base * h[i - 1] + b[IdSize + 1 - i]
  BY <1>1, <1>5, <1>6 DEF Base
<1>8. P(h)
  BY <1>5, <1>7
<1>9. Gathered(b) = CHOOSE g : P(g)
  BY DEF Gathered
<1>10. P(Gathered(b))
  <2> HIDE DEF P
  <2> QED
    BY <1>8, <1>9
<1>11. PICK q : q = Gathered(b)
  OBVIOUS
<1>12. q = [i \in 0 .. IdSize |-> IF i = 0 THEN 0 ELSE 256 * q[i - 1] + b[IdSize + 1 - i]]
  BY <1>10, <1>11 DEF Base
<1>13. \A i \in 0 .. IdSize : q[i] = IF i = 0 THEN 0 ELSE 256 * q[i - 1] + b[IdSize + 1 - i]
  BY <1>12
<1>14. q[0] = 0 /\ \A i \in 1 .. IdSize : q[i] = 256 * q[i - 1] + b[IdSize + 1 - i]
  BY <1>1, <1>13
<1>15. \A i \in 0 .. IdSize : q[i] \in Nat
  <2>1. ASSUME NEW i \in 1 .. IdSize, q[i - 1] \in Nat PROVE q[i] \in Nat
    BY <1>2, <1>14, <2>1
  <2> QED
    <3>1. q[0] \in Nat /\ \A i \in 1 .. IdSize : q[i - 1] \in Nat => q[i] \in Nat
      BY <1>14, <2>1
    <3> QED
      BY <1>1, <3>1, NatUpTo
<1>16. q \in [0 .. IdSize -> Nat]
  BY <1>12, <1>15
<1> QED
  BY <1>11, <1>14, <1>16

(* The largest number is the one of which every byte is 255.               *)
LEMMA LargestIs ==
    /\ Largest \in [0 .. IdSize -> Nat] /\ Largest[0] = 0
    /\ \A i \in 1 .. IdSize : Largest[i] = 256 * Largest[i - 1] + 255
<1>1. IdSize \in Nat
  BY Sizes
<1> DEFINE b == [i \in 1 .. IdSize |-> 255]
           P(g) == g = [i \in 0 .. IdSize |-> IF i = 0 THEN 0 ELSE Base * g[i - 1] + Base - 1]
<1>2. b \in [1 .. IdSize -> Nat] /\ \A i \in 1 .. IdSize : b[IdSize + 1 - i] = 255
  BY <1>1
<1>3. PICK h : h = Gathered(b)
  OBVIOUS
<1> HIDE DEF b
<1>4. /\ h \in [0 .. IdSize -> Nat] /\ h[0] = 0
      /\ \A i \in 1 .. IdSize : h[i] = 256 * h[i - 1] + b[IdSize + 1 - i]
  <2>1. /\ Gathered(b) \in [0 .. IdSize -> Nat] /\ Gathered(b)[0] = 0
        /\ \A i \in 1 .. IdSize :
               Gathered(b)[i] = 256 * Gathered(b)[i - 1] + b[IdSize + 1 - i]
    BY <1>2, GatheredIs
  <2> QED
    BY <1>3, <2>1
<1>5. ASSUME NEW i \in 1 .. IdSize PROVE h[i] = Base * h[i - 1] + Base - 1
  <2>1. i - 1 \in 0 .. IdSize
    BY <1>1
  <2>2. PICK x \in Nat : x = h[i - 1]
    BY <1>4, <2>1
  <2>3. 256 * x + 255 = 256 * x + 256 - 1
    OBVIOUS
  <2>4. b[IdSize + 1 - i] = 255
    BY <1>2
  <2>5. h[i] = 256 * x + 255
    BY <1>4, <2>2, <2>4
  <2> QED
    BY <2>2, <2>3, <2>5 DEF Base
<1>6. P(h)
  BY <1>1, <1>4, <1>5
<1>7. Largest = CHOOSE g : P(g)
  BY DEF Largest
<1>8. P(Largest)
  <2> HIDE DEF P
  <2> QED
    BY <1>6, <1>7
<1>9. PICK q : q = Largest
  OBVIOUS
<1>10. q = [i \in 0 .. IdSize |-> IF i = 0 THEN 0 ELSE 256 * q[i - 1] + 256 - 1]
  BY <1>8, <1>9 DEF Base
<1>11. \A i \in 0 .. IdSize : q[i] = IF i = 0 THEN 0 ELSE 256 * q[i - 1] + 256 - 1
  BY <1>10
<1>12. q[0] = 0 /\ \A i \in 1 .. IdSize : q[i] = 256 * q[i - 1] + 256 - 1
  BY <1>1, <1>11
<1>13. \A i \in 0 .. IdSize : q[i] \in Nat
  <2>1. ASSUME NEW i \in 1 .. IdSize, q[i - 1] \in Nat PROVE q[i] \in Nat
    BY <1>12, <2>1
  <2> QED
    <3>1. q[0] \in Nat /\ \A i \in 1 .. IdSize : q[i - 1] \in Nat => q[i] \in Nat
      BY <1>12, <2>1
    <3> QED
      BY <1>1, <3>1, NatUpTo
<1>14. ASSUME NEW i \in 1 .. IdSize PROVE q[i] = 256 * q[i - 1] + 255
  <2>1. i - 1 \in 0 .. IdSize
    BY <1>1
  <2>2. q[i - 1] \in Nat /\ q[i] = 256 * q[i - 1] + 256 - 1
    BY <1>12, <1>13, <2>1
  <2> QED
    BY <2>2
<1>15. q \in [0 .. IdSize -> Nat]
  BY <1>10, <1>13
<1> QED
  BY <1>9, <1>12, <1>14, <1>15

(* A number that fits is nothing after IdSize shifts.                      *)
LEMMA ShiftedOut ==
    ASSUME NEW u \in Nat, u <= MaxUint32
    PROVE  Shifted(u)[IdSize] = 0
<1>1. IdSize \in Nat
  BY Sizes
<1>2. PICK q \in [0 .. IdSize -> Nat], m \in [0 .. IdSize -> Nat] : q = Shifted(u) /\ m = Largest
  BY ShiftedIs, LargestIs
<1>3. q[0] = u /\ \A i \in 1 .. IdSize : q[i] = q[i - 1] \div 256
  <2>1. Shifted(u)[0] = u /\ \A i \in 1 .. IdSize : Shifted(u)[i] = Shifted(u)[i - 1] \div 256
    BY ShiftedIs
  <2> QED
    BY <1>2, <2>1
<1>4. m[0] = 0 /\ m[IdSize] = MaxUint32 /\ \A i \in 1 .. IdSize : m[i] = 256 * m[i - 1] + 255
  BY <1>2, LargestIs DEF MaxUint32
<1> DEFINE S == {i \in 0 .. IdSize : q[i] <= m[IdSize - i]}
<1>5. 0 \in S
  BY <1>1, <1>3, <1>4
<1>6. ASSUME NEW n \in 0 .. IdSize, n \in S, n < IdSize PROVE n + 1 \in S
  <2>1. PICK k \in 1 .. IdSize : k = IdSize - n
    BY <1>1, <1>6
  <2>2. n + 1 \in 1 .. IdSize /\ n + 1 \in 0 .. IdSize /\ n + 1 - 1 = n /\ k - 1 = IdSize - (n + 1)
        /\ k \in 0 .. IdSize /\ k - 1 \in 0 .. IdSize
    BY <1>1, <1>6, <2>1
  <2>3. PICK x \in Nat, y \in Nat : x = q[n] /\ y = m[k - 1]
    BY <2>2
  <2>4. q[n + 1] = x \div 256
    BY <1>3, <2>2, <2>3
  <2>5. m[k] = 256 * y + 255
    BY <1>4, <2>1, <2>3
  <2>6. x <= m[k]
    BY <1>6, <2>1, <2>3
  <2>7. x <= 256 * y + 255
    BY <2>5, <2>6
  <2>8. x \div 256 <= y
    BY <2>7
  <2>9. q[n + 1] <= m[IdSize - (n + 1)]
    BY <2>2, <2>3, <2>4, <2>8
  <2> QED
    BY <2>2, <2>9
<1>7. \A n \in 0 .. IdSize : n \in S
  <2> HIDE DEF S
  <2> QED
    BY <1>1, <1>5, <1>6, UpTo
<1>8. IdSize \in S /\ IdSize - IdSize = 0 /\ IdSize \in 0 .. IdSize
  BY <1>1, <1>7
<1>9. q[IdSize] <= 0 /\ q[IdSize] \in Nat
  BY <1>4, <1>8
<1>10. q[IdSize] = 0
  BY <1>9
<1> QED
  BY <1>2, <1>10

(* Uint32FromBytes is the inverse of Uint32ToBytes on the numbers that fit *)
(* (protocol.go, Uint32FromBytes and Uint32ToBytes).                       *)
LEMMA BytesInvert ==
    ASSUME NEW u \in Nat, u <= MaxUint32
    PROVE  Uint32FromBytes(Uint32ToBytes(u)) = u
<1>1. IdSize \in Nat
  BY Sizes
<1>2. PICK q \in [0 .. IdSize -> Nat] : q = Shifted(u)
  BY ShiftedIs
<1>3. /\ q[0] = u /\ \A i \in 1 .. IdSize : q[i] = q[i - 1] \div 256
      /\ q[IdSize] = 0
  <2>1. /\ Shifted(u)[0] = u
        /\ \A i \in 1 .. IdSize : Shifted(u)[i] = Shifted(u)[i - 1] \div 256
    BY ShiftedIs
  <2>2. Shifted(u)[IdSize] = 0
    BY ShiftedOut
  <2> QED
    BY <1>2, <2>1, <2>2
<1>4. PICK b : b = [i \in 1 .. IdSize |-> q[i - 1] % 256]
  OBVIOUS
<1>5. b = Uint32ToBytes(u)
  BY <1>2, <1>4 DEF Uint32ToBytes, Base
<1>6. \A i \in 1 .. IdSize : b[i] = q[i - 1] % 256 /\ q[i - 1] \in Nat
  BY <1>1, <1>4
<1>7. \A i \in 1 .. IdSize : b[i] \in Nat
  BY <1>6
<1>8. b \in [1 .. IdSize -> Nat]
  BY <1>4, <1>7
<1>9. PICK v \in [0 .. IdSize -> Nat] : v = Gathered(b)
  BY <1>8, GatheredIs
<1>10. v[0] = 0 /\ \A i \in 1 .. IdSize : v[i] = 256 * v[i - 1] + b[IdSize + 1 - i]
  BY <1>8, <1>9, GatheredIs
<1> DEFINE S == {i \in 0 .. IdSize : v[i] = q[IdSize - i]}
<1>11. 0 \in S
  BY <1>1, <1>3, <1>10
<1>12. ASSUME NEW n \in 0 .. IdSize, n \in S, n < IdSize PROVE n + 1 \in S
  <2>1. PICK k \in 1 .. IdSize : k = IdSize - n
    BY <1>1, <1>12
  <2>2. n + 1 \in 1 .. IdSize /\ n + 1 \in 0 .. IdSize /\ n + 1 - 1 = n /\ k - 1 = IdSize - (n + 1)
        /\ IdSize + 1 - (n + 1) = k /\ k - 1 \in 0 .. IdSize
    BY <1>1, <1>12, <2>1
  <2>3. PICK x \in Nat : x = q[k - 1]
    BY <2>2
  <2>4. q[k] = x \div 256 /\ b[k] = x % 256
    BY <1>3, <1>6, <2>3
  <2>5. v[n + 1] = 256 * v[n] + b[k] /\ v[n] = q[k]
    BY <1>10, <1>12, <2>1, <2>2
  <2>6. 256 * (x \div 256) + (x % 256) = x
    OBVIOUS
  <2>7. v[n + 1] = x
    BY <2>4, <2>5, <2>6
  <2> QED
    BY <2>2, <2>3, <2>7
<1>13. \A n \in 0 .. IdSize : n \in S
  <2> HIDE DEF S
  <2> QED
    BY <1>1, <1>11, <1>12, UpTo
<1>14. IdSize \in S /\ IdSize - IdSize = 0
  BY <1>1, <1>13
<1> QED
  BY <1>3, <1>5, <1>9, <1>14 DEF Uint32FromBytes

(* The two numbers that a worker takes the smaller of.                     *)
LEMMA CappedIs ==
    ASSUME NEW n \in Nat
    PROVE  /\ Capped(n) \in Nat /\ Capped(n) <= MaxUint32
           /\ Capped(n) = IF n > MaxUint32 THEN MaxUint32 ELSE n
<1>1. IdSize \in 0 .. IdSize
  BY Sizes
<1>2. PICK m \in Nat : m = MaxUint32
  BY <1>1, LargestIs DEF MaxUint32
<1>3. PICK S \in SUBSET Nat : S = {n, m}
  OBVIOUS
<1>4. Min(S) \in S /\ \A y \in S : Min(S) <= y
  BY <1>3, LeastOf
<1>5. PICK c \in Nat : c = Min(S)
  BY <1>4
<1>6. c \in {n, m} /\ c <= n /\ c <= m
  BY <1>3, <1>4, <1>5
<1>7. c = Capped(n)
  BY <1>2, <1>3, <1>5 DEF Capped
<1> QED
  BY <1>2, <1>6, <1>7

(* The number that a client takes from a reply is the one put into it.     *)
LEMMA ReplyCarries ==
    ASSUME NEW n \in Nat, NEW id, NEW ns
    PROVE  Returned(Packed(Reply(n, id, ns))) = Capped(n)
<1>1. PICK c \in Nat : c = Capped(n) /\ c <= MaxUint32
  BY CappedIs
<1>2. IdSize \in Nat /\ DataValueSize \in Nat /\ DataValueSize >= IdSize
  BY Sizes
<1>3. PICK t : t = Uint32ToBytes(c)
  OBVIOUS
<1>4. DOMAIN t = 1 .. IdSize /\ t = [i \in 1 .. IdSize |-> t[i]]
  BY <1>3 DEF Uint32ToBytes
<1>5. PICK S : S = {space} \cup {t[i] : i \in 1 .. IdSize}
  OBVIOUS
<1>6. \A i \in 1 .. IdSize : t[i] \in S
  BY <1>5
<1>7. t \in [1 .. IdSize -> S]
  BY <1>4, <1>6
<1>8. t \in Seq(S) /\ Len(t) = IdSize
  BY <1>2, <1>7
<1>9. PICK d : d = PadRight(t, DataValueSize)
  OBVIOUS
<1>10. space \in S
  BY <1>5
<1>11. /\ d \in Seq(S)
       /\ Len(d) = IF Len(t) >= DataValueSize THEN Len(t) ELSE DataValueSize
       /\ \A j \in 1 .. Len(t) : d[j] = t[j]
  BY <1>2, <1>8, <1>9, <1>10, Padded
<1>12. Len(d) \in Nat /\ Len(d) >= IdSize
  BY <1>2, <1>8, <1>11
<1>13. /\ SubSeq(d, 1, IdSize) \in Seq(S) /\ Len(SubSeq(d, 1, IdSize)) = IdSize
       /\ \A j \in 1 .. IdSize : SubSeq(d, 1, IdSize)[j] = d[j]
  <2>1. PICK k \in Nat, l \in Nat : k = 1 /\ l = IdSize /\ l <= Len(d) /\ k <= l + 1 /\ 1 <= k
    BY <1>2, <1>12
  <2>2. /\ SubSeq(d, k, l) \in Seq(S) /\ Len(SubSeq(d, k, l)) = l - k + 1
        /\ \A j \in 1 .. l - k + 1 : SubSeq(d, k, l)[j] = d[k + j - 1]
    BY <1>11, <2>1, Piece
  <2>3. l - k + 1 = IdSize /\ \A j \in 1 .. IdSize : k + j - 1 = j
    BY <2>1
  <2> QED
    BY <2>1, <2>2, <2>3
<1>14. SubSeq(d, 1, IdSize) = t
  <2>1. PICK e \in Seq(S) : e = SubSeq(d, 1, IdSize)
    BY <1>13
  <2>2. Len(e) = Len(t) /\ \A j \in 1 .. Len(e) : e[j] = t[j]
    BY <1>8, <1>11, <1>13, <2>1
  <2>3. e = t
    BY <1>8, <2>2, SeqEqual
  <2> QED
    BY <2>1, <2>3
<1>15. Packed(Reply(n, id, ns)).data = d
  BY <1>1, <1>3, <1>9 DEF Packed, Reply, NewPacketFromParts
<1>16. Uint32FromBytes(t) = c
  BY <1>1, <1>3, BytesInvert
<1> QED
  BY <1>1, <1>14, <1>15, <1>16 DEF Returned

(* A count that a server returns comes back as it was, or as the largest   *)
(* number there is: a number that fits survives PutUint32, the padding of  *)
(* the data to its size, the packet and Uint32, and the cap of the worker  *)
(* is what makes every number fit (server.go, worker; client.go, Count;    *)
(* protocol.go, Uint32ToBytes and Uint32FromBytes), for any IdSize.        *)
THEOREM CountsSurvive == Spec => []CountExact
<1>1. UdpExact => CountExact
  <2> SUFFICES ASSUME UdpExact, NEW n \in Counts, NEW ns \in Namespaces, stage = "parsed",
                      msg.cmd = CmdCount, msg = Reply(n, msg.id, ns)
               PROVE  Returned(pkt) = IF n > MaxUint32 THEN MaxUint32 ELSE n
    BY DEF CountExact
  <2>1. ~OverTCP /\ Arrived
    BY DEF OverTCP, Arrived, IsTcpOnlyCmd, CmdCount, CmdTCPOnlyKeys
  <2>2. pkt = Packed(msg)
    BY <2>1 DEF UdpExact
  <2>3. PICK id : pkt = Packed(Reply(n, id, ns))
    BY <2>2
  <2>4. n \in Nat
    BY WireAssumption
  <2>5. Returned(pkt) = Capped(n)
    BY <2>3, <2>4, ReplyCarries
  <2> QED
    BY <2>4, <2>5, CappedIs
<1> QED
  BY <1>1, UdpRoundTrip, PTL
=============================================================================
