---------------------------- MODULE FramingProofs ----------------------------
(***************************************************************************)
(* Proofs about the two stream parsers, for every alphabet, set of         *)
(* families, greatest payload, size of reads and length of the stream;     *)
(* about the frames that are written; about the pixels of an image; and    *)
(* about captures, for every number of attempts and size of the buffers.   *)
(*                                                                         *)
(* The parsers' invariant has three parts.  TailInv: the buffer is the end *)
(* of what came in.  SettledInv: every byte that left the buffer is under  *)
(* a frame that was handed on, or was refused for a reason that later      *)
(* bytes do not change.  ReadInv: the parser stops only for a header that  *)
(* lacks bytes.                                                            *)
(***************************************************************************)
EXTENDS Framing, Decoding, Capture, SequenceTheorems, TLAPS

TailInv ==
    /\ Len(fed) = offset + Len(stream)
    /\ \A k \in 1..Len(stream) : stream[k] = fed[offset + k]

(***************************************************************************)
(* The formats, for either layer l and any bytes s.                        *)
(***************************************************************************)
Header(l, s, i) == IF l = "outer" THEN OuterHeader(s, i) ELSE PlainHeader(s, i)

Size(l, s, i) == IF l = "outer" THEN OuterSize(s, i) ELSE PlainSize(s, i)

Frame(l, s, i) ==
    /\ Header(l, s, i)
    /\ i + Size(l, s, i) - 1 <= Len(s)
    /\ l # "outer" => InnerOk(SubSeq(s, i, i + Size(l, s, i) - 1))

Covered(i) == \E f \in found : f[1] = i \/ Under(i, f[1], f[2])

Refused(i) ==
    /\ i + 3 <= Len(fed)
    /\ Header(layer, fed, i) => /\ i + Size(layer, fed, i) - 1 <= Len(fed)
                                /\ ~Frame(layer, fed, i)

SettledInv == pc # "done" => \A i \in 1..offset : Covered(i) \/ Refused(i)

ReadInv ==
    pc = "read" => \/ Len(stream) <= 3
                   \/ /\ Header(layer, fed, offset + 1)
                      /\ Len(stream) < Size(layer, fed, offset + 1)

FoundInv ==
    \A f \in found :
        /\ Frame(layer, fed, f[1]) /\ f[2] = Size(layer, fed, f[1])
        /\ f[1] + f[2] - 1 <= offset
        /\ \A g \in found : ~Under(g[1], f[1], f[2]) /\ (g[1] = f[1] => g = f)

IInv == TypeOK /\ TailInv /\ SettledInv /\ ReadInv /\ FoundInv

-----------------------------------------------------------------------------
LEMMA ConstantTypes ==
    /\ Base \in Nat /\ MaxPayload \in Nat /\ MaxChunk \in Nat
    /\ StreamRoom \in Nat /\ StreamRoom >= 4 + MaxPayload + MaxChunk
    /\ Byte \subseteq Nat
<1>1. Base \in Nat /\ MaxChunk \in Nat /\ StreamRoom \in Nat
  BY FramingAssumption
<1>2. MaxPayload \in Nat
  <2>1. \A m \in Int : 1..m \subseteq Nat
    OBVIOUS
  <2>2. \A b \in Nat : b * b - 1 \in Int
    OBVIOUS
  <2> QED
    BY <1>1, <2>1, <2>2, FramingAssumption
<1>3. StreamRoom >= 4 + MaxPayload + MaxChunk
  BY FramingAssumption
<1>4. Byte \subseteq Nat
  BY <1>1 DEF Byte
<1> QED
  BY <1>1, <1>2, <1>3, <1>4

LEMMA LengthType ==
    ASSUME NEW s \in Seq(Byte), NEW i \in Nat, i >= 1, i + 3 <= Len(s)
    PROVE  LengthAt(s, i) \in Nat
<1>1. s[i + 1] \in Nat /\ s[i + 2] \in Nat
  <2>1. i + 1 \in 1..Len(s) /\ i + 2 \in 1..Len(s)
    BY LenProperties
  <2> QED
    BY <2>1, ElementOfSeq, ConstantTypes
<1>2. \A a, b \in Nat : a * b \in Nat
  OBVIOUS
<1> QED
  BY <1>1, <1>2, ConstantTypes DEF LengthAt

LEMMA SizeType ==
    ASSUME NEW l, NEW s \in Seq(Byte), NEW i \in Nat, i >= 1, i + 3 <= Len(s)
    PROVE  /\ Size(l, s, i) \in Nat /\ Size(l, s, i) >= 3
           /\ Header(l, s, i) => Size(l, s, i) >= 4
                                 /\ Size(l, s, i) <= 4 + MaxPayload
BY LengthType, ConstantTypes
   DEF Size, Header, OuterSize, PlainSize, OuterHeader, PlainHeader

(***************************************************************************)
(* What the parsers see depends on the bytes of a frame alone: if s stands *)
(* in t behind d others, they see the same in both.                        *)
(***************************************************************************)
StandsIn(s, t, d) ==
    /\ Len(t) >= d + Len(s)
    /\ \A k \in 1..Len(s) : s[k] = t[d + k]

LEMMA ShiftHeader ==
    ASSUME NEW l, NEW s \in Seq(Byte), NEW t \in Seq(Byte), NEW d \in Nat,
           StandsIn(s, t, d), NEW i \in Nat, i >= 1, i + 3 <= Len(s)
    PROVE  /\ Header(l, s, i) <=> Header(l, t, d + i)
           /\ Size(l, s, i) = Size(l, t, d + i)
<1>0. Len(s) \in Nat /\ Len(t) \in Nat
  BY LenProperties
<1>1. \A k \in 1..Len(s) : s[k] = t[d + k]
  BY DEF StandsIn
<1>2. s[i] = t[d + i]
  BY <1>0, <1>1
<1>3. s[i + 1] = t[d + i + 1]
  <2>1. i + 1 \in 1..Len(s) /\ d + (i + 1) = d + i + 1
    BY <1>0
  <2> QED
    BY <1>1, <2>1
<1>4. s[i + 2] = t[d + i + 2]
  <2>1. i + 2 \in 1..Len(s) /\ d + (i + 2) = d + i + 2
    BY <1>0
  <2> QED
    BY <1>1, <2>1
<1>5. s[i + 3] = t[d + i + 3]
  <2>1. i + 3 \in 1..Len(s) /\ d + (i + 3) = d + i + 3
    BY <1>0
  <2> QED
    BY <1>1, <2>1
<1>6. LengthAt(s, i) = LengthAt(t, d + i)
  BY <1>3, <1>4 DEF LengthAt
<1>7. i + 3 <= Len(s) /\ d + i + 3 <= Len(t)
  BY <1>0 DEF StandsIn
<1> QED
  BY <1>2, <1>3, <1>4, <1>5, <1>6, <1>7
     DEF Header, Size, OuterHeader, PlainHeader, OuterSize, PlainSize

LEMMA ShiftBytes ==
    ASSUME NEW s \in Seq(Byte), NEW t \in Seq(Byte), NEW d \in Nat,
           StandsIn(s, t, d),
           NEW i \in Nat, i >= 1, NEW n \in Nat, i + n <= Len(s)
    PROVE  SubSeq(s, i, i + n) = SubSeq(t, d + i, d + i + n)
<1>0. Len(s) \in Nat /\ Len(t) \in Nat /\ Len(t) >= d + Len(s)
  BY LenProperties DEF StandsIn
<1>1. \A k \in i..(i + n) : s[k] \in Byte
  <2>1. \A k \in i..(i + n) : k \in 1..Len(s)
    BY <1>0
  <2> QED
    BY <2>1, ElementOfSeq
<1>2. \A k \in (d + i)..(d + i + n) : t[k] \in Byte
  <2>1. \A k \in (d + i)..(d + i + n) : k \in 1..Len(t)
    BY <1>0
  <2> QED
    BY <2>1, ElementOfSeq
<1>3. /\ SubSeq(s, i, i + n) \in Seq(Byte)
      /\ Len(SubSeq(s, i, i + n)) = n + 1
      /\ \A k \in 1..(n + 1) : SubSeq(s, i, i + n)[k] = s[i + k - 1]
  BY <1>1, SubSeqProperties
<1>4. /\ SubSeq(t, d + i, d + i + n) \in Seq(Byte)
      /\ Len(SubSeq(t, d + i, d + i + n)) = n + 1
      /\ \A k \in 1..(n + 1) : SubSeq(t, d + i, d + i + n)[k] = t[d + i + k - 1]
  BY <1>2, SubSeqProperties
<1>5. \A k \in 1..(n + 1) : s[i + k - 1] = t[d + i + k - 1]
  <2> SUFFICES ASSUME NEW k \in 1..(n + 1)
               PROVE  s[i + k - 1] = t[d + i + k - 1]
    OBVIOUS
  <2>1. i + k - 1 \in 1..Len(s) /\ d + (i + k - 1) = d + i + k - 1
    BY <1>0
  <2> QED
    BY <2>1 DEF StandsIn
<1> DEFINE a == SubSeq(s, i, i + n)
           b == SubSeq(t, d + i, d + i + n)
<1>6. /\ a \in Seq(Byte) /\ b \in Seq(Byte) /\ Len(a) = Len(b)
      /\ \A k \in 1..Len(a) : a[k] = b[k]
  BY <1>3, <1>4, <1>5
<1> HIDE DEF a, b
<1>7. a = b
  BY <1>6, SeqEqual
<1> QED
  BY <1>7 DEF a, b

LEMMA ShiftFrame ==
    ASSUME NEW l, NEW s \in Seq(Byte), NEW t \in Seq(Byte), NEW d \in Nat,
           StandsIn(s, t, d), NEW i \in Nat, i >= 1, i + 3 <= Len(s),
           i + Size(l, s, i) - 1 <= Len(s)
    PROVE  /\ Frame(l, s, i) <=> Frame(l, t, d + i)
           /\ d + i + Size(l, t, d + i) - 1 <= Len(t)
<1>0. Len(s) \in Nat /\ Len(t) \in Nat /\ Len(t) >= d + Len(s)
  BY LenProperties DEF StandsIn
<1>1. /\ Header(l, s, i) <=> Header(l, t, d + i)
      /\ Size(l, s, i) = Size(l, t, d + i)
  BY ShiftHeader
<1>2. Size(l, s, i) \in Nat /\ Size(l, s, i) >= 3
  BY SizeType
<1>3. d + i + Size(l, t, d + i) - 1 <= Len(t)
  BY <1>0, <1>1, <1>2
<1>4. SubSeq(s, i, i + Size(l, s, i) - 1)
        = SubSeq(t, d + i, d + i + Size(l, t, d + i) - 1)
  <2>1. PICK n \in Nat : n = Size(l, s, i) - 1
    BY <1>2
  <2>2. SubSeq(s, i, i + n) = SubSeq(t, d + i, d + i + n)
    <3>1. i + n <= Len(s)
      BY <1>2, <2>1
    <3> QED
      BY <3>1, ShiftBytes, ZenonT(30)
  <2>3. i + n = i + Size(l, s, i) - 1 /\ d + i + n = d + i + Size(l, t, d + i) - 1
    BY <1>1, <1>2, <2>1
  <2> QED
    BY <2>2, <2>3
<1> QED
  BY <1>1, <1>3, <1>4 DEF Frame

-----------------------------------------------------------------------------
(* The buffer.                                                             *)

LEMMA Lengths ==
    ASSUME TypeOK
    PROVE  Len(stream) \in Nat /\ Len(fed) \in Nat /\ offset \in Nat
BY LenProperties DEF TypeOK

LEMMA BufferStands ==
    ASSUME TypeOK, TailInv
    PROVE  StandsIn(stream, fed, offset)
BY Lengths DEF TailInv, StandsIn

(***************************************************************************)
(* Discarding bytes of the buffer leaves a later tail.                     *)
(***************************************************************************)
LEMMA DiscardTail ==
    ASSUME TypeOK, TailInv, NEW n \in 0..Len(stream), Discard(n), fed' = fed
    PROVE  /\ stream' \in Seq(Byte)
           /\ Len(stream') = Len(stream) - n
           /\ offset' = offset + n
           /\ offset' \in 0..Len(fed')
           /\ TailInv'
<1>0. Len(stream) \in Nat /\ Len(fed) \in Nat /\ offset \in Nat
  BY Lengths
<1>1. \A k \in (n + 1)..Len(stream) : stream[k] \in Byte
  <2>1. \A k \in (n + 1)..Len(stream) : k \in 1..Len(stream)
    BY <1>0
  <2> QED
    BY <2>1, ElementOfSeq DEF TypeOK
<1>2. /\ stream' \in Seq(Byte)
      /\ Len(stream') = IF n + 1 <= Len(stream) THEN Len(stream) - (n + 1) + 1 ELSE 0
      /\ \A k \in 1..(Len(stream) - (n + 1) + 1) : stream'[k] = stream[n + 1 + k - 1]
  BY <1>0, <1>1, SubSeqProperties DEF Discard, Remaining
<1>3. Len(stream') = Len(stream) - n
  <2>1. n \in Nat /\ n <= Len(stream)
    BY <1>0
  <2>2. Len(stream') = IF n + 1 <= Len(stream) THEN Len(stream) - (n + 1) + 1 ELSE 0
    BY <1>2
  <2>3. CASE n + 1 <= Len(stream)
    BY <1>0, <2>1, <2>2, <2>3
  <2>4. CASE ~(n + 1 <= Len(stream))
    <3>1. n = Len(stream)
      BY <1>0, <2>1, <2>4
    <3> QED
      BY <1>0, <2>2, <2>4, <3>1
  <2> QED
    BY <2>3, <2>4
<1>4. offset' = offset + n
  BY DEF Discard
<1>5. ASSUME NEW k \in 1..Len(stream')
      PROVE  stream'[k] = fed'[offset' + k]
  <2>1. k \in 1..(Len(stream) - (n + 1) + 1) /\ n + 1 + k - 1 = n + k
    BY <1>0, <1>3
  <2>2. stream'[k] = stream[n + k]
    BY <1>2, <2>1
  <2>3. n + k \in 1..Len(stream) /\ offset + (n + k) = offset' + k
    BY <1>0, <1>3, <1>4
  <2>4. stream[n + k] = fed[offset + (n + k)]
    BY <2>3 DEF TailInv
  <2> QED
    BY <2>2, <2>3, <2>4
<1>6. Len(fed') = offset' + Len(stream')
  BY <1>0, <1>3, <1>4 DEF TailInv
<1>7. offset' \in 0..Len(fed')
  BY <1>0, <1>3, <1>4, <1>6
<1> QED
  BY <1>2, <1>3, <1>4, <1>5, <1>6, <1>7 DEF TailInv

(***************************************************************************)
(* The receiver always has room: it reads only behind less than one frame. *)
(***************************************************************************)
LEMMA ReadLeavesRoom ==
    ASSUME TypeOK, ReadInv, TailInv, pc = "read"
    PROVE  /\ Len(stream) < 4 + MaxPayload
           /\ layer = "outer" => Len(stream) + MaxChunk <= Room
<1>0. Len(stream) \in Nat /\ Len(fed) \in Nat /\ offset \in Nat
  BY Lengths
<1>1. Len(stream) < 4 + MaxPayload
  <2>1. CASE Len(stream) <= 3
    <3>1. MaxPayload >= 1
      <4>1. \A b \in Nat : b * b - 1 \in Int
        OBVIOUS
      <4> QED
        BY <4>1, ConstantTypes, FramingAssumption
    <3> QED
      BY <1>0, <2>1, <3>1, ConstantTypes
  <2>2. CASE /\ Header(layer, fed, offset + 1)
             /\ Len(stream) < Size(layer, fed, offset + 1)
    <3>1. offset + 1 + 3 <= Len(fed)
      BY <2>2 DEF Header, OuterHeader, PlainHeader
    <3>2. Size(layer, fed, offset + 1) \in Nat
            /\ Size(layer, fed, offset + 1) <= 4 + MaxPayload
      BY <1>0, <2>2, <3>1, SizeType DEF TypeOK
    <3> QED
      BY <1>0, <2>2, <3>2, ConstantTypes
  <2> QED
    BY <2>1, <2>2 DEF ReadInv
<1>2. layer = "outer" => Len(stream) + MaxChunk <= Room
  BY <1>0, <1>1, ConstantTypes DEF Room
<1> QED
  BY <1>1, <1>2

-----------------------------------------------------------------------------
(* What is settled stays so.                                               *)

LEMMA FedStands ==
    ASSUME TypeOK, NEW chunk \in Seq(Byte), fed' = fed \o chunk
    PROVE  /\ fed' \in Seq(Byte)
           /\ Len(fed') = Len(fed) + Len(chunk)
           /\ StandsIn(fed, fed', 0)
<1>0. Len(fed) \in Nat /\ Len(chunk) \in Nat
  BY LenProperties DEF TypeOK
<1>1. /\ fed' \in Seq(Byte) /\ Len(fed') = Len(fed) + Len(chunk)
      /\ \A k \in 1..(Len(fed) + Len(chunk)) :
           fed'[k] = IF k <= Len(fed) THEN fed[k] ELSE chunk[k - Len(fed)]
  BY ConcatProperties DEF TypeOK
<1>2. ASSUME NEW k \in 1..Len(fed) PROVE fed[k] = fed'[0 + k]
  BY <1>0, <1>1
<1> QED
  BY <1>0, <1>1, <1>2 DEF StandsIn

LEMMA FrameStays ==
    ASSUME NEW l, NEW s \in Seq(Byte), NEW t \in Seq(Byte), StandsIn(s, t, 0),
           NEW i \in Nat, i >= 1, i + 3 <= Len(s)
    PROVE  /\ i + 3 <= Len(t)
           /\ Header(l, s, i) <=> Header(l, t, i)
           /\ Size(l, s, i) = Size(l, t, i)
           /\ i + Size(l, s, i) - 1 <= Len(s) =>
                /\ Frame(l, s, i) <=> Frame(l, t, i)
                /\ i + Size(l, t, i) - 1 <= Len(t)
<1>0. Len(s) \in Nat /\ Len(t) \in Nat
  BY LenProperties
<1>1. i + 3 <= Len(t)
  BY <1>0 DEF StandsIn
<1> PICK d \in Nat : d = 0
  OBVIOUS
<1>2. /\ Header(l, s, i) <=> Header(l, t, d + i)
      /\ Size(l, s, i) = Size(l, t, d + i)
  BY ShiftHeader
<1>3. i + Size(l, s, i) - 1 <= Len(s) =>
        /\ Frame(l, s, i) <=> Frame(l, t, d + i)
        /\ d + i + Size(l, t, d + i) - 1 <= Len(t)
  BY ShiftFrame
<1>4. d + i = i
  OBVIOUS
<1> QED
  BY <1>1, <1>2, <1>3, <1>4

LEMMA SettledGrows ==
    ASSUME TypeOK, SettledInv, pc # "done", NEW chunk \in Seq(Byte),
           fed' = fed \o chunk, UNCHANGED <<layer, found, offset>>
    PROVE  SettledInv'
<1> SUFFICES ASSUME NEW i \in 1..offset
             PROVE  Covered(i)' \/ Refused(i)'
  BY DEF SettledInv
<1>0. offset \in Nat /\ i \in Nat /\ i >= 1
  BY Lengths
<1>1. CASE Covered(i)
  BY <1>1 DEF Covered
<1>2. CASE Refused(i)
  <2>1. fed' \in Seq(Byte) /\ StandsIn(fed, fed', 0)
    BY FedStands
  <2>2. i + 3 <= Len(fed)
    BY <1>2 DEF Refused
  <2>3. /\ i + 3 <= Len(fed')
        /\ Header(layer, fed, i) <=> Header(layer, fed', i)
        /\ Size(layer, fed, i) = Size(layer, fed', i)
        /\ i + Size(layer, fed, i) - 1 <= Len(fed) =>
             /\ Frame(layer, fed, i) <=> Frame(layer, fed', i)
             /\ i + Size(layer, fed', i) - 1 <= Len(fed')
    BY <1>0, <2>1, <2>2, FrameStays, ZenonT(30) DEF TypeOK
  <2> QED
    BY <1>2, <2>3 DEF Refused
<1> QED
  BY <1>1, <1>2 DEF SettledInv

LEMMA FoundGrows ==
    ASSUME TypeOK, FoundInv, NEW chunk \in Seq(Byte),
           fed' = fed \o chunk, UNCHANGED <<layer, found>>,
           offset' \in Nat, offset' >= offset
    PROVE  FoundInv'
<1>0. Len(fed) \in Nat /\ offset \in Nat
  BY Lengths
<1>1. fed' \in Seq(Byte) /\ StandsIn(fed, fed', 0)
  BY FedStands
<1>2. ASSUME NEW f \in found
      PROVE  /\ Frame(layer, fed', f[1]) /\ f[2] = Size(layer, fed', f[1])
             /\ f[1] + f[2] - 1 <= offset'
  <2>1. f[1] \in Nat /\ f[1] >= 1 /\ f[2] \in Nat
    BY <1>0 DEF TypeOK
  <2>2. /\ Frame(layer, fed, f[1]) /\ f[2] = Size(layer, fed, f[1])
        /\ f[1] + f[2] - 1 <= offset
    BY DEF FoundInv
  <2>3. f[1] + 3 <= Len(fed) /\ f[1] + Size(layer, fed, f[1]) - 1 <= Len(fed)
    BY <2>2 DEF Frame, Header, OuterHeader, PlainHeader
  <2>4. /\ Size(layer, fed, f[1]) = Size(layer, fed', f[1])
        /\ Frame(layer, fed, f[1]) <=> Frame(layer, fed', f[1])
    <3>1. fed \in Seq(Byte)
      BY DEF TypeOK
    <3> QED
      BY <1>1, <2>1, <2>3, <3>1, FrameStays
  <2> QED
    BY <1>0, <2>1, <2>2, <2>4
<1> QED
  BY <1>2 DEF FoundInv

LEMMA SettledStep ==
    ASSUME TypeOK, SettledInv, pc # "done", UNCHANGED <<layer, fed>>,
           found \subseteq found', offset' \in Nat,
           \A i \in (offset + 1)..offset' : Covered(i)' \/ Refused(i)
    PROVE  SettledInv'
<1> SUFFICES ASSUME NEW i \in 1..offset'
             PROVE  Covered(i)' \/ Refused(i)'
  BY DEF SettledInv
<1>0. offset \in Nat
  BY Lengths
<1>1. Refused(i)' <=> Refused(i)
  BY DEF Refused
<1>2. Covered(i) => Covered(i)'
  BY DEF Covered
<1>3. CASE i <= offset
  BY <1>0, <1>1, <1>2, <1>3 DEF SettledInv
<1>4. CASE i > offset
  BY <1>0, <1>1, <1>4
<1> QED
  BY <1>0, <1>3, <1>4

LEMMA FoundStep ==
    ASSUME TypeOK, FoundInv, UNCHANGED <<layer, fed, found>>,
           offset' \in Nat, offset' >= offset
    PROVE  FoundInv'
<1>0. offset \in Nat
  BY Lengths
<1>1. \A f \in found : f[1] \in Nat /\ f[2] \in Nat
  BY Lengths DEF TypeOK
<1>2. ASSUME NEW f \in found
      PROVE  /\ Frame(layer', fed', f[1]) /\ f[2] = Size(layer', fed', f[1])
             /\ f[1] + f[2] - 1 <= offset'
  <2>1. /\ Frame(layer, fed, f[1]) /\ f[2] = Size(layer, fed, f[1])
        /\ f[1] + f[2] - 1 <= offset
    BY DEF FoundInv
  <2> QED
    BY <1>0, <1>1, <2>1
<1> QED
  BY <1>2 DEF FoundInv

(***************************************************************************)
(* Bytes of the buffer that the parser passes over are refused for good.   *)
(***************************************************************************)
LEMMA RefusedInBuffer ==
    ASSUME TypeOK, TailInv, NEW j \in Nat, j >= 1, j + 3 <= Len(stream),
           Header(layer, stream, j) =>
               /\ j + Size(layer, stream, j) - 1 <= Len(stream)
               /\ ~Frame(layer, stream, j)
    PROVE  Refused(offset + j)
<1>0. Len(stream) \in Nat /\ Len(fed) \in Nat /\ offset \in Nat
  BY Lengths
<1>1. StandsIn(stream, fed, offset)
  BY BufferStands
<1>2. /\ Header(layer, stream, j) <=> Header(layer, fed, offset + j)
      /\ Size(layer, stream, j) = Size(layer, fed, offset + j)
  BY <1>0, <1>1, ShiftHeader DEF TypeOK
<1>3. j + Size(layer, stream, j) - 1 <= Len(stream) =>
        /\ Frame(layer, stream, j) <=> Frame(layer, fed, offset + j)
        /\ offset + j + Size(layer, fed, offset + j) - 1 <= Len(fed)
  BY <1>0, <1>1, ShiftFrame DEF TypeOK
<1>4. offset + j + 3 <= Len(fed)
  BY <1>0 DEF TailInv
<1> QED
  BY <1>2, <1>3, <1>4 DEF Refused

LEMMA Apart ==
    ASSUME NEW a \in Nat, NEW size \in Nat, size >= 3,
           NEW last \in Nat, a + size - 1 <= last,
           NEW b \in Nat, b > last, NEW n \in Nat
    PROVE  ~Under(b, a, size) /\ ~Under(a, b, n) /\ b # a
BY DEF Under

(***************************************************************************)
(* A frame that the parser hands on stands behind all earlier ones.        *)
(***************************************************************************)
LEMMA FoundAdds ==
    ASSUME TypeOK, FoundInv, UNCHANGED <<layer, fed>>,
           NEW p \in Nat, p > offset, NEW n \in Nat,
           Frame(layer, fed, p), n = Size(layer, fed, p),
           p + 3 <= Len(fed),
           offset' \in Nat, p + n - 1 <= offset',
           found' = found \cup {<<p, n>>}
    PROVE  FoundInv'
<1>0. offset \in Nat /\ Len(fed) \in Nat
  BY Lengths
<1>1. n >= 3
  BY <1>0, SizeType DEF TypeOK
<1>2. \A f \in found : /\ f[1] \in Nat /\ f[2] \in Nat /\ f[1] >= 1
                       /\ f[1] + f[2] - 1 <= offset
  BY <1>0 DEF TypeOK, FoundInv
<1>3. \A f \in found : f[2] >= 3
  <2> SUFFICES ASSUME NEW f \in found PROVE f[2] >= 3
    OBVIOUS
  <2>1. f[1] + 3 <= Len(fed) /\ f[2] = Size(layer, fed, f[1])
    BY DEF FoundInv, Frame, Header, OuterHeader, PlainHeader
  <2> QED
    BY <1>2, <2>1, SizeType DEF TypeOK
<1>4. ASSUME NEW f \in found'
      PROVE  /\ Frame(layer, fed, f[1]) /\ f[2] = Size(layer, fed, f[1])
             /\ f[1] + f[2] - 1 <= offset'
  <2>1. CASE f \in found
    BY <1>0, <1>1, <1>2, <2>1 DEF FoundInv
  <2>2. CASE f = <<p, n>>
    BY <2>2
  <2> QED
    BY <2>1, <2>2
<1>5. ASSUME NEW f \in found', NEW g \in found'
      PROVE  ~Under(g[1], f[1], f[2]) /\ (g[1] = f[1] => g = f)
  <2>1. CASE f \in found /\ g \in found
    BY <2>1 DEF FoundInv
  <2>2. CASE f \in found /\ g = <<p, n>>
    <3>1. f[1] + f[2] - 1 <= offset /\ f[1] \in Nat /\ f[2] \in Nat /\ f[2] >= 3
      BY <1>2, <1>3, <2>2
    <3>2. ~Under(p, f[1], f[2]) /\ p # f[1]
      BY <1>0, <3>1, Apart
    <3> QED
      BY <2>2, <3>2
  <2>3. CASE f = <<p, n>> /\ g \in found
    <3>1. g[1] + g[2] - 1 <= offset /\ g[1] \in Nat /\ g[2] \in Nat /\ g[2] >= 3
      BY <1>2, <1>3, <2>3
    <3>2. ~Under(g[1], p, n) /\ p # g[1]
      BY <1>0, <3>1, Apart
    <3> QED
      BY <2>3, <3>2
  <2>4. CASE f = <<p, n>> /\ g = <<p, n>>
    BY <2>4 DEF Under
  <2> QED
    BY <2>1, <2>2, <2>3, <2>4
<1> QED
  BY <1>4, <1>5 DEF FoundInv

-----------------------------------------------------------------------------
(* The steps.                                                              *)

LEMMA Initially == Init => IInv
<1> SUFFICES ASSUME Init PROVE IInv
  OBVIOUS
<1>1. stream \in Seq(Byte) /\ fed \in Seq(Byte) /\ Len(stream) = 0 /\ Len(fed) = 0
  BY EmptySeq DEF Init
<1> QED
  BY <1>1 DEF Init, IInv, TypeOK, TailInv, SettledInv, ReadInv, FoundInv

LEMMA FeedStep ==
    ASSUME IInv, NEW chunk \in Chunks, Feed(chunk)
    PROVE  IInv'
<1>1. Len(stream) \in Nat /\ Len(fed) \in Nat /\ offset \in Nat
  BY Lengths DEF IInv
<1>2. chunk \in Seq(Byte) /\ Len(chunk) \in 1..MaxChunk
  <2>1. PICK n \in 1..MaxChunk : chunk \in [1..n -> Byte]
    BY DEF Chunks
  <2>2. n \in Nat
    BY <2>1, ConstantTypes
  <2> QED
    BY <2>1, <2>2
<1>3. /\ pc = "read" /\ fed' = fed \o chunk
      /\ layer' = layer /\ found' = found
  BY DEF Feed
<1>4. /\ fed' \in Seq(Byte) /\ Len(fed') = Len(fed) + Len(chunk)
      /\ StandsIn(fed, fed', 0)
  BY <1>2, <1>3, FedStands DEF IInv
<1>5. found' \subseteq (1..Len(fed')) \X (1..Len(fed'))
  BY <1>1, <1>2, <1>3, <1>4 DEF IInv, TypeOK
<1>6. CASE Len(stream) + Len(chunk) <= Room
  <2>1. stream' = stream \o chunk /\ offset' = offset /\ pc' = "parse"
    BY <1>6 DEF Feed
  <2>2. /\ stream' \in Seq(Byte) /\ Len(stream') = Len(stream) + Len(chunk)
        /\ \A k \in 1..(Len(stream) + Len(chunk)) :
             stream'[k] = IF k <= Len(stream) THEN stream[k]
                                              ELSE chunk[k - Len(stream)]
    BY <1>2, <2>1, ConcatProperties DEF IInv, TypeOK
  <2>3. \A k \in 1..(Len(fed) + Len(chunk)) :
          fed'[k] = IF k <= Len(fed) THEN fed[k] ELSE chunk[k - Len(fed)]
    BY <1>2, <1>3, ConcatProperties DEF IInv, TypeOK
  <2>4. ASSUME NEW k \in 1..Len(stream')
        PROVE  stream'[k] = fed'[offset' + k]
    <3>1. /\ k \in 1..(Len(stream) + Len(chunk))
          /\ offset + k \in 1..(Len(fed) + Len(chunk))
          /\ offset + k - Len(fed) = k - Len(stream)
          /\ offset + k <= Len(fed) <=> k <= Len(stream)
      BY <1>1, <1>2, <2>2 DEF IInv, TailInv
    <3>2. CASE k <= Len(stream)
      <4>1. stream[k] = fed[offset + k]
        BY <1>1, <3>1, <3>2 DEF IInv, TailInv
      <4> QED
        BY <2>1, <2>2, <2>3, <3>1, <3>2, <4>1
    <3>3. CASE ~(k <= Len(stream))
      <4>1. stream'[k] = chunk[k - Len(stream)]
        BY <1>1, <1>2, <2>2, <3>1, <3>3
      <4>2. fed'[offset + k] = chunk[offset + k - Len(fed)]
        BY <1>1, <1>2, <2>3, <3>1, <3>3
      <4> QED
        BY <2>1, <3>1, <4>1, <4>2
    <3> QED
      BY <3>2, <3>3
  <2>5. TailInv'
    BY <1>1, <1>2, <1>4, <2>1, <2>2, <2>4 DEF IInv, TailInv
  <2>6. TypeOK'
    BY <1>1, <1>2, <1>3, <1>4, <1>5, <2>1, <2>2 DEF IInv, TypeOK
  <2>7. SettledInv'
    BY <1>2, <1>3, <2>1, SettledGrows DEF IInv
  <2>8. FoundInv'
    <3>1. offset' \in Nat /\ offset' >= offset
      BY <1>1, <2>1
    <3> QED
      BY <1>2, <1>3, <3>1, FoundGrows DEF IInv
  <2>9. ReadInv'
    BY <2>1 DEF ReadInv
  <2> QED
    BY <2>5, <2>6, <2>7, <2>8, <2>9 DEF IInv
<1>7. CASE ~(Len(stream) + Len(chunk) <= Room)
  <2>1. layer # "outer"
    <3>1. layer = "outer" => Len(stream) + MaxChunk <= Room
      BY <1>3, ReadLeavesRoom DEF IInv
    <3>2. layer = "outer" => Room \in Nat
      BY ConstantTypes DEF Room
    <3> QED
      BY <1>1, <1>2, <1>7, <3>1, <3>2, ConstantTypes
  <2>2. stream' = <<>> /\ offset' = Len(fed) + Len(chunk) /\ pc' = "done"
    BY <1>7, <2>1 DEF Feed, Overflow
  <2>3. stream' \in Seq(Byte) /\ Len(stream') = 0
    BY <2>2, EmptySeq
  <2>4. TailInv'
    BY <1>1, <1>2, <1>4, <2>2, <2>3 DEF TailInv
  <2>5. TypeOK'
    BY <1>1, <1>2, <1>3, <1>4, <1>5, <2>2, <2>3 DEF IInv, TypeOK
  <2>6. offset' \in Nat /\ offset' >= offset
    BY <1>1, <1>2, <2>2 DEF IInv, TypeOK
  <2>7. FoundInv'
    BY <1>2, <1>3, <2>6, FoundGrows DEF IInv
  <2> QED
    BY <2>2, <2>4, <2>5, <2>7 DEF IInv, ReadInv, SettledInv
<1> QED
  BY <1>6, <1>7

(***************************************************************************)
(* A round that discards n bytes, none of them of a good frame.            *)
(***************************************************************************)
LEMMA SkipStep ==
    ASSUME IInv, pc = "parse", NEW n \in 0..Len(stream), Discard(n),
           pc' \in {"read", "parse"}, UNCHANGED <<layer, fed, found>>,
           \A j \in 1..n : Refused(offset + j),
           ReadInv'
    PROVE  IInv'
<1>1. Len(stream) \in Nat /\ Len(fed) \in Nat /\ offset \in Nat /\ n \in Nat
  BY Lengths DEF IInv
<1>2. /\ stream' \in Seq(Byte) /\ offset' = offset + n
      /\ offset' \in 0..Len(fed') /\ TailInv'
  BY DiscardTail DEF IInv
<1>3. TypeOK'
  BY <1>2 DEF IInv, TypeOK
<1>4. \A i \in (offset + 1)..offset' : Refused(i)
  <2> SUFFICES ASSUME NEW i \in (offset + 1)..offset' PROVE Refused(i)
    OBVIOUS
  <2>1. i - offset \in 1..n /\ offset + (i - offset) = i
    BY <1>1, <1>2
  <2> QED
    BY <2>1
<1>5. SettledInv'
  BY <1>1, <1>2, <1>4, SettledStep DEF IInv
<1>6. FoundInv'
  BY <1>1, <1>2, FoundStep DEF IInv
<1> QED
  BY <1>2, <1>3, <1>5, <1>6 DEF IInv

(***************************************************************************)
(* A round that hands on the frame at i and discards it with all before.   *)
(***************************************************************************)
LEMMA HandOnStep ==
    ASSUME IInv, pc = "parse", NEW i \in Nat, i >= 1, i + 3 <= Len(stream),
           NEW n \in 0..Len(stream), Discard(n),
           Frame(layer, stream, i), i + Size(layer, stream, i) - 1 <= n,
           found' = found \cup {<<offset + i, Size(layer, stream, i)>>},
           UNCHANGED <<layer, fed>>,
           \A j \in 1..(i - 1) : Refused(offset + j),
           \/ pc' = "parse" /\ n = i + Size(layer, stream, i) - 1
           \/ pc' = "done"
    PROVE  IInv'
<1> DEFINE p == offset + i
           size == Size(layer, stream, i)
<1>1. Len(stream) \in Nat /\ Len(fed) \in Nat /\ offset \in Nat /\ n \in Nat
  BY Lengths DEF IInv
<1>2. /\ stream' \in Seq(Byte) /\ offset' = offset + n
      /\ offset' \in 0..Len(fed') /\ TailInv'
  BY DiscardTail DEF IInv
<1>3. size \in Nat /\ size >= 3
  BY SizeType DEF IInv, TypeOK
<1>4. i + size - 1 <= Len(stream)
  BY <1>1, <1>3
<1>5. /\ size = Size(layer, fed, p) /\ Frame(layer, fed, p)
      /\ p + 3 <= Len(fed)
  <2>1. StandsIn(stream, fed, offset)
    BY BufferStands DEF IInv
  <2> QED
    BY <1>1, <1>4, <2>1, ShiftHeader, ShiftFrame DEF IInv, TypeOK, TailInv
<1>6. p \in 1..Len(fed) /\ size \in 1..Len(fed)
  BY <1>1, <1>3, <1>4 DEF IInv, TailInv
<1>7. TypeOK'
  <2>1. found' \subseteq (1..Len(fed')) \X (1..Len(fed'))
    BY <1>6 DEF IInv, TypeOK
  <2> QED
    BY <1>2, <2>1 DEF IInv, TypeOK
<1>8. p \in Nat /\ p > offset /\ offset' \in Nat /\ p + size - 1 <= offset'
  BY <1>1, <1>2, <1>3
<1>9. FoundInv'
  BY <1>3, <1>5, <1>8, FoundAdds DEF IInv
<1>10. pc' = "parse" => \A k \in (offset + 1)..offset' : Covered(k)' \/ Refused(k)
  <2> SUFFICES ASSUME pc' = "parse", NEW k \in (offset + 1)..offset'
               PROVE  Covered(k)' \/ Refused(k)
    OBVIOUS
  <2>1. offset' = offset + (i + size - 1)
    BY <1>2
  <2>2. CASE k < p
    <3>1. k - offset \in 1..(i - 1) /\ offset + (k - offset) = k
      BY <1>1, <1>2, <2>2
    <3> QED
      BY <3>1
  <2>3. CASE k >= p
    <3>1. k = p \/ (p < k /\ k < p + size)
      BY <1>1, <1>3, <2>1, <2>3
    <3>2. <<p, size>> \in found'
      OBVIOUS
    <3> QED
      BY <3>1, <3>2 DEF Covered, Under
  <2> QED
    BY <1>1, <2>2, <2>3
<1>11. SettledInv'
  <2>1. CASE pc' = "done"
    BY <2>1 DEF SettledInv
  <2>2. CASE pc' = "parse"
    <3>1. \A k \in (offset + 1)..offset' : Covered(k)' \/ Refused(k)
      BY <1>10, <2>2
    <3>2. found \subseteq found' /\ offset' \in Nat /\ pc # "done"
      BY <1>8
    <3> QED
      BY <3>1, <3>2, SettledStep DEF IInv
  <2> QED
    BY <2>1, <2>2
<1> QED
  BY <1>2, <1>7, <1>9, <1>11 DEF IInv, ReadInv

(***************************************************************************)
(* A round that waits for more bytes.                                      *)
(***************************************************************************)
LEMMA WaitStep ==
    ASSUME IInv, pc = "parse", pc' = "read", ReadInv',
           UNCHANGED <<layer, stream, fed, offset, found>>
    PROVE  IInv'
<1>1. TypeOK' /\ TailInv'
  BY DEF IInv, TypeOK, TailInv
<1>2. SettledInv'
  BY DEF IInv, SettledInv, Covered, Refused
<1>3. FoundInv'
  BY DEF IInv, FoundInv
<1> QED
  BY <1>1, <1>2, <1>3 DEF IInv

LEMMA OuterStep ==
    ASSUME IInv, OuterRound
    PROVE  IInv'
<1>0. /\ Len(stream) \in Nat /\ Len(fed) \in Nat /\ offset \in Nat
      /\ layer = "outer" /\ pc = "parse" /\ layer' = layer /\ fed' = fed
  BY Lengths DEF IInv, OuterRound
<1>1. ASSUME NEW j \in Nat, j >= 1, j + 3 <= Len(stream), j \notin OuterStarts
      PROVE  Refused(offset + j)
  <2>1. ~Header(layer, stream, j)
    BY <1>0, <1>1 DEF OuterStarts, Header
  <2> QED
    BY <1>1, <2>1, RefusedInBuffer DEF IInv
<1>2. CASE OuterStarts = {} /\ Len(stream) > Kept
  <2>1. /\ Discard(Len(stream) - 3) /\ pc' = "read" /\ found' = found
        /\ Len(stream) - 3 \in 0..Len(stream)
    BY <1>0, <1>2 DEF OuterRound, Kept
  <2>2. Len(stream') = Len(stream) - (Len(stream) - 3)
    BY <1>0, <2>1, DiscardTail DEF IInv
  <2>3. ReadInv'
    BY <1>0, <2>2 DEF ReadInv
  <2>4. \A j \in 1..(Len(stream) - 3) : Refused(offset + j)
    BY <1>0, <1>1, <1>2
  <2> QED
    BY <1>0, <2>1, <2>3, <2>4, SkipStep
<1>3. CASE OuterStarts = {} /\ ~(Len(stream) > Kept)
  <2>1. pc' = "read" /\ UNCHANGED <<stream, offset, found>>
    BY <1>3 DEF OuterRound
  <2>2. ReadInv'
    BY <1>0, <1>3, <2>1 DEF ReadInv, Kept
  <2> QED
    BY <1>0, <2>1, <2>2, WaitStep
<1>4. CASE OuterStarts # {}
  <2>1. PICK i \in OuterStarts :
          /\ \A j \in OuterStarts : i <= j
          /\ LET size == OuterSize(stream, i)
             IN  IF i + size - 1 > Len(stream)
                 THEN Discard(i - 1) /\ pc' = "read" /\ UNCHANGED found
                 ELSE /\ Discard(i + size - 1)
                      /\ found' = found \cup {<<offset + i, size>>}
                      /\ UNCHANGED pc
    BY <1>4 DEF OuterRound
  <2> DEFINE size == Size(layer, stream, i)
  <2>2. /\ i \in Nat /\ i >= 1 /\ i + 3 <= Len(stream)
        /\ Header(layer, stream, i) /\ size = OuterSize(stream, i)
    BY <1>0 DEF OuterStarts, OuterHeader, Header, Size
  <2>3. size \in Nat /\ size >= 4
    BY <2>2, SizeType DEF IInv, TypeOK
  <2>4. ASSUME NEW j \in 1..(i - 1)
        PROVE  Refused(offset + j)
    <3>1. j \in Nat /\ j >= 1 /\ j + 3 <= Len(stream) /\ ~(i <= j)
      BY <1>0, <2>2
    <3> QED
      BY <1>1, <2>1, <3>1
  <2>5. CASE i + size - 1 > Len(stream)
    <3>1. /\ Discard(i - 1) /\ pc' = "read" /\ found' = found
          /\ i - 1 \in 0..Len(stream)
      BY <1>0, <2>1, <2>2, <2>5
    <3>2. Len(stream') = Len(stream) - (i - 1) /\ offset' = offset + (i - 1)
      BY <1>0, <3>1, DiscardTail DEF IInv
    <3>3. Header(layer, fed, offset + i) /\ size = Size(layer, fed, offset + i)
      <4>1. StandsIn(stream, fed, offset)
        BY BufferStands DEF IInv
      <4>2. stream \in Seq(Byte) /\ fed \in Seq(Byte) /\ offset \in Nat
        BY <1>0 DEF IInv, TypeOK
      <4> QED
        BY <1>0, <2>2, <4>1, <4>2, ShiftHeader, ZenonT(30)
    <3>4. offset' + 1 = offset + i /\ Len(stream') < size
      BY <1>0, <2>2, <2>3, <2>5, <3>2
    <3>5. ReadInv'
      BY <1>0, <3>3, <3>4 DEF ReadInv
    <3> QED
      BY <1>0, <2>4, <3>1, <3>5, SkipStep
  <2>6. CASE ~(i + size - 1 > Len(stream))
    <3>1. /\ Discard(i + size - 1) /\ pc' = pc
          /\ found' = found \cup {<<offset + i, size>>}
      BY <2>1, <2>2, <2>6
    <3>2. i + size - 1 \in 0..Len(stream) /\ i + size - 1 <= Len(stream)
      BY <1>0, <2>2, <2>3, <2>6
    <3>3. Frame(layer, stream, i)
      BY <1>0, <2>2, <3>2 DEF Frame
    <3>4. i + size - 1 <= i + size - 1
      BY <2>2, <2>3
    <3> QED
      BY <1>0, <2>2, <2>4, <3>1, <3>2, <3>3, <3>4, HandOnStep
  <2> QED
    BY <2>5, <2>6
<1> QED
  BY <1>2, <1>3, <1>4

LEMMA PlainStep ==
    ASSUME IInv, PlainRound
    PROVE  IInv'
<1> DEFINE size == Size(layer, stream, 1)
<1>0. /\ Len(stream) \in Nat /\ Len(fed) \in Nat /\ offset \in Nat
      /\ layer = "plain" /\ pc = "parse" /\ layer' = layer /\ fed' = fed
  BY Lengths DEF IInv, PlainRound
<1>1. /\ Header(layer, stream, 1) <=> PlainHeader(stream, 1)
      /\ size = PlainSize(stream, 1)
  BY <1>0 DEF Header, Size
<1>2. PlainHeader(stream, 1) => /\ Len(stream) >= 4 /\ size \in Nat /\ size >= 4
  <2>1. ASSUME PlainHeader(stream, 1)
        PROVE  Len(stream) >= 4 /\ size \in Nat /\ size >= 4
    <3>1. 1 + 3 <= Len(stream)
      BY <2>1 DEF PlainHeader
    <3>2. Size(layer, stream, 1) \in Nat
            /\ (Header(layer, stream, 1) => Size(layer, stream, 1) >= 4)
      BY <3>1, SizeType DEF IInv, TypeOK
    <3> QED
      BY <1>0, <1>1, <2>1, <3>1, <3>2
  <2> QED
    BY <2>1
<1>3. ASSUME Discard(1), pc' = "parse", found' = found, Len(stream) >= 4,
             Header(layer, stream, 1) => /\ 1 + size - 1 <= Len(stream)
                                         /\ ~Frame(layer, stream, 1)
      PROVE  IInv'
  <2>1. Refused(offset + 1)
    BY <1>0, <1>3, RefusedInBuffer DEF IInv
  <2>2. \A j \in 1..1 : Refused(offset + j)
    BY <2>1
  <2>3. ReadInv'
    BY <1>3 DEF ReadInv
  <2> QED
    BY <1>0, <1>3, <2>2, <2>3, SkipStep
<1>4. CASE /\ Len(stream) < 4 /\ pc' = "read"
           /\ UNCHANGED <<stream, offset, found>>
  <2>1. ReadInv'
    BY <1>0, <1>4 DEF ReadInv
  <2> QED
    BY <1>0, <1>4, <2>1, WaitStep
<1>5. CASE /\ Len(stream) >= 4 /\ ~PlainHeader(stream, 1)
           /\ Discard(1) /\ UNCHANGED <<pc, found>>
  BY <1>0, <1>1, <1>3, <1>5
<1>6. CASE /\ PlainHeader(stream, 1) /\ Len(stream) < PlainSize(stream, 1)
           /\ pc' = "read" /\ UNCHANGED <<stream, offset, found>>
  <2>1. 1 + 3 <= Len(stream)
    BY <1>2, <1>6
  <2>2. Header(layer, fed, offset + 1) /\ size = Size(layer, fed, offset + 1)
    BY <1>0, <1>1, <1>6, <2>1, BufferStands, ShiftHeader DEF IInv, TypeOK
  <2>3. ReadInv'
    BY <1>0, <1>1, <1>6, <2>2 DEF ReadInv
  <2> QED
    BY <1>0, <1>6, <2>3, WaitStep
<1>7. CASE /\ PlainHeader(stream, 1) /\ Len(stream) >= PlainSize(stream, 1)
           /\ ~InnerOk(SubSeq(stream, 1, PlainSize(stream, 1)))
           /\ Discard(1) /\ UNCHANGED <<pc, found>>
  <2>1. 1 + size - 1 = size
    BY <1>2, <1>7
  <2>2. ~Frame(layer, stream, 1)
    BY <1>0, <1>1, <1>7, <2>1 DEF Frame
  <2> QED
    BY <1>0, <1>1, <1>2, <1>3, <1>7, <2>1, <2>2
<1>8. CASE /\ PlainHeader(stream, 1) /\ Len(stream) >= PlainSize(stream, 1)
           /\ InnerOk(SubSeq(stream, 1, PlainSize(stream, 1)))
           /\ found' = found \cup {<<offset + 1, PlainSize(stream, 1)>>}
           /\ \/ pc' = "done" /\ Discard(Len(stream))
              \/ Discard(PlainSize(stream, 1)) /\ UNCHANGED pc
  <2>1. 1 + size - 1 = size /\ 1 + 3 <= Len(stream) /\ size \in 0..Len(stream)
    BY <1>0, <1>1, <1>2, <1>8
  <2>2. Frame(layer, stream, 1)
    BY <1>0, <1>1, <1>8, <2>1 DEF Frame
  <2>3. \A j \in 1..(1 - 1) : Refused(offset + j)
    OBVIOUS
  <2>4. CASE pc' = "done" /\ Discard(Len(stream))
    <3>1. Len(stream) \in 0..Len(stream) /\ 1 + size - 1 <= Len(stream)
      BY <1>0, <2>1
    <3> QED
      BY <1>0, <1>1, <1>8, <2>1, <2>2, <2>3, <2>4, <3>1, HandOnStep
  <2>5. CASE Discard(size) /\ UNCHANGED pc
    <3>1. 1 + size - 1 <= size
      BY <2>1
    <3> QED
      BY <1>0, <1>1, <1>8, <2>1, <2>2, <2>3, <2>5, <3>1, HandOnStep
  <2> QED
    BY <1>1, <1>8, <2>4, <2>5
<1> QED
  BY <1>4, <1>5, <1>6, <1>7, <1>8 DEF PlainRound, AfterBadFrame

LEMMA Inductive == IInv /\ [Next]_vars => IInv'
<1> SUFFICES ASSUME IInv, [Next]_vars PROVE IInv'
  OBVIOUS
<1>1. ASSUME NEW chunk \in Chunks, Feed(chunk) PROVE IInv'
  BY <1>1, FeedStep
<1>2. CASE OuterRound
  BY <1>2, OuterStep
<1>3. CASE PlainRound
  BY <1>3, PlainStep
<1>4. CASE UNCHANGED vars
  <2>1. /\ layer' = layer /\ pc' = pc /\ stream' = stream
        /\ fed' = fed /\ offset' = offset /\ found' = found
    BY <1>4 DEF vars
  <2>2. TypeOK' /\ TailInv'
    BY <2>1 DEF IInv, TypeOK, TailInv
  <2>3. SettledInv' /\ ReadInv'
    BY <2>1 DEF IInv, SettledInv, ReadInv, Covered, Refused
  <2>4. FoundInv'
    BY <2>1 DEF IInv, FoundInv
  <2> QED
    BY <2>2, <2>3, <2>4 DEF IInv
<1> QED
  BY <1>1, <1>2, <1>3, <1>4 DEF Next, Finished

LEMMA AlwaysIInv == Spec => []IInv
BY Initially, Inductive, PTL DEF Spec

-----------------------------------------------------------------------------
(***************************************************************************)
(* The variables keep their types: no buffer position is ever outside of   *)
(* what came in.                                                           *)
(***************************************************************************)
THEOREM TypeCorrect == Spec => []TypeOK
<1>1. IInv => TypeOK
  BY DEF IInv
<1> QED
  BY <1>1, AlwaysIInv, PTL

(***************************************************************************)
(* The buffer is the end of what came in, and between two reads it holds   *)
(* less than one frame, so the receiver never resets it.                   *)
(***************************************************************************)
THEOREM BufferHoldsTail == Spec => []BufferIsTail
<1>1. IInv => BufferIsTail
  <2> SUFFICES ASSUME IInv PROVE BufferIsTail
    OBVIOUS
  <2>0. Len(stream) \in Nat /\ Len(fed) \in Nat /\ offset \in Nat
    BY Lengths DEF IInv
  <2>1. Len(fed) = offset + Len(stream)
    BY DEF IInv, TailInv
  <2>2. \A k \in (offset + 1)..Len(fed) : fed[k] \in Byte
    <3>1. \A k \in (offset + 1)..Len(fed) : k \in 1..Len(fed)
      BY <2>0
    <3> QED
      BY <3>1, ElementOfSeq DEF IInv, TypeOK
  <2> DEFINE tail == SubSeq(fed, offset + 1, Len(fed))
  <2>3. /\ tail \in Seq(Byte)
        /\ Len(tail) = IF offset + 1 <= Len(fed) THEN Len(fed) - (offset + 1) + 1
                                                 ELSE 0
        /\ \A k \in 1..(Len(fed) - (offset + 1) + 1) :
             tail[k] = fed[offset + 1 + k - 1]
    BY <2>0, <2>2, SubSeqProperties
  <2>4. Len(tail) = Len(stream)
    BY <2>0, <2>1, <2>3
  <2>5. \A k \in 1..Len(stream) : stream[k] = tail[k]
    <3> SUFFICES ASSUME NEW k \in 1..Len(stream) PROVE stream[k] = tail[k]
      OBVIOUS
    <3>1. /\ k \in 1..(Len(fed) - (offset + 1) + 1)
          /\ offset + 1 + k - 1 = offset + k
      BY <2>0, <2>1
    <3>2. tail[k] = fed[offset + k]
      BY <2>3, <3>1
    <3> QED
      BY <3>2 DEF IInv, TailInv
  <2> HIDE DEF tail
  <2>6. stream = tail
    BY <2>3, <2>4, <2>5, SeqEqual DEF IInv, TypeOK
  <2>7. pc = "read" => Len(stream) < 4 + MaxPayload
    BY ReadLeavesRoom DEF IInv
  <2> QED
    BY <2>6, <2>7 DEF BufferIsTail, tail
<1> QED
  BY <1>1, AlwaysIInv, PTL

LEMMA SameFormats ==
    /\ \A i : SizeAt(i) = Size(layer, fed, i)
    /\ \A i : FrameAt(i) <=> Frame(layer, fed, i)
BY DEF SizeAt, Size, FrameAt, Frame, Header

(***************************************************************************)
(* Whatever the session and a capture are handed are good frames of the    *)
(* stream, each once, none overlapping another.                            *)
(***************************************************************************)
THEOREM FoundFramesAreGood == Spec => []FoundAreFrames
<1>1. IInv => FoundAreFrames
  BY SameFormats DEF IInv, FoundInv, FoundAreFrames
<1> QED
  BY <1>1, AlwaysIInv, PTL

(***************************************************************************)
(* After noise the parsers find their place again: a good frame is passed  *)
(* over only under one that was handed on or one that still waits.         *)
(***************************************************************************)
THEOREM NoFrameIsMissed == Spec => []NoFrameMissed
<1>1. IInv => NoFrameMissed
  <2> SUFFICES ASSUME IInv, pc = "read", NEW i \in 1..Len(fed), FrameAt(i)
               PROVE  Covered(i) \/ Waiting(i)
    BY DEF NoFrameMissed, Covered
  <2>0. /\ Len(stream) \in Nat /\ Len(fed) \in Nat /\ offset \in Nat
        /\ Len(fed) = offset + Len(stream)
    BY Lengths DEF IInv, TailInv
  <2>1. Frame(layer, fed, i)
    BY SameFormats
  <2>2. i + 3 <= Len(fed) /\ i + Size(layer, fed, i) - 1 <= Len(fed)
    BY <2>1 DEF Frame, Header, OuterHeader, PlainHeader
  <2>3. CASE i <= offset
    <3>1. Covered(i) \/ Refused(i)
      BY <2>0, <2>3 DEF IInv, SettledInv
    <3>2. ~Refused(i)
      BY <2>1 DEF Refused, Frame
    <3> QED
      BY <3>1, <3>2
  <2>4. CASE i > offset
    <3>1. Len(stream) > 3
      BY <2>0, <2>2, <2>4
    <3>2. /\ Header(layer, fed, offset + 1)
          /\ Len(stream) < Size(layer, fed, offset + 1)
      BY <2>0, <3>1 DEF IInv, ReadInv
    <3>3. offset + 4 <= Len(fed)
      BY <2>0, <3>1
    <3>4. Size(layer, fed, offset + 1) \in Nat
      <4>1. offset + 1 \in Nat /\ offset + 1 >= 1 /\ offset + 1 + 3 <= Len(fed)
        BY <2>0, <3>3
      <4> QED
        BY <4>1, SizeType DEF IInv, TypeOK
    <3>5. i # offset + 1
      BY <2>0, <2>2, <3>2, <3>4
    <3>6. Under(i, offset + 1, Size(layer, fed, offset + 1))
      BY <2>0, <2>4, <3>2, <3>4, <3>5 DEF Under
    <3> QED
      BY <3>2, <3>3, <3>6, SameFormats DEF Waiting, Header
  <2> QED
    BY <2>0, <2>3, <2>4
<1> QED
  BY <1>1, AlwaysIInv, PTL

-----------------------------------------------------------------------------
(***************************************************************************)
(* What is written can be read.                                            *)
(***************************************************************************)
LEMMA LengthSurvives ==
    ASSUME NEW n \in Nat, n <= MaxPayload
    PROVE  /\ LengthBytes(n) \in Seq(Byte) /\ Len(LengthBytes(n)) = 2
           /\ LengthBytes(n)[1] = n % Base /\ LengthBytes(n)[2] = n \div Base
           /\ (n % Base) + Base * (n \div Base) = n
<1>1. Base \in Nat \ {0, 1}
  BY FramingAssumption
<1>2. n <= Base * Base - 1
  <2>1. Base * Base - 1 \in Int
    BY <1>1
  <2>2. MaxPayload \in 1..(Base * Base - 1)
    BY FramingAssumption
  <2>3. MaxPayload <= Base * Base - 1 /\ MaxPayload \in Int
    BY <2>1, <2>2
  <2> QED
    BY <2>1, <2>3
<1>3. n % Base \in 0..(Base - 1) /\ (n % Base) + Base * (n \div Base) = n
  BY <1>1
<1>4. n \div Base \in 0..(Base - 1)
  BY <1>1, <1>2
<1> QED
  BY <1>3, <1>4 DEF LengthBytes, Byte

(***************************************************************************)
(* The bytes of a frame one after the other.  What the sum of the data is  *)
(* cannot be said without an induction, and need not be.                   *)
(***************************************************************************)
LEMMA InnerBytes ==
    ASSUME NEW byte \in Byte, NEW data \in Seq(Byte), MayBuild(data)
    PROVE  LET f    == InnerBuild(byte, data)
               body == LengthBytes(Len(data) + 1) \o data
               sum  == Checksum(byte, body)
           IN  /\ f \in Seq(Byte \cup {sum}) /\ body \in Seq(Byte)
               /\ Len(data) \in Nat /\ Len(f) = Len(data) + 4
               /\ Len(body) = Len(data) + 2
               /\ f[1] = byte /\ f[Len(f)] = sum
               /\ \A k \in 1..Len(body) : f[k + 1] = body[k]
               /\ body[1] + Base * body[2] = Len(data) + 1
               /\ \A k \in 1..Len(data) : body[k + 2] = data[k]
<1> DEFINE length == LengthBytes(Len(data) + 1)
           body   == length \o data
           sum    == Checksum(byte, body)
           S      == Byte \cup {sum}
           open   == <<byte>> \o body
<1>0. Len(data) \in Nat /\ Len(data) + 1 <= MaxPayload
  BY LenProperties, ConstantTypes DEF MayBuild
<1>1. /\ length \in Seq(Byte) /\ Len(length) = 2
      /\ length[1] + Base * length[2] = Len(data) + 1
  BY <1>0, LengthSurvives
<1>2. InnerBuild(byte, data) = open \o <<sum>>
  BY DEF InnerBuild
<1> HIDE DEF length
<1>3. /\ body \in Seq(Byte) /\ Len(body) = Len(data) + 2
      /\ \A k \in 1..(Len(data) + 2) :
            body[k] = IF k <= 2 THEN length[k] ELSE data[k - 2]
  <2>1. /\ Len(body) = Len(length) + Len(data)
        /\ \A k \in 1..(Len(length) + Len(data)) :
              body[k] = IF k <= Len(length) THEN length[k] ELSE data[k - Len(length)]
    BY <1>1, ConcatProperties
  <2> QED
    BY <1>0, <1>1, <2>1, ConcatProperties
<1>4. body[1] + Base * body[2] = Len(data) + 1
  <2>1. 1 \in 1..(Len(data) + 2) /\ 2 \in 1..(Len(data) + 2)
    BY <1>0
  <2> QED
    BY <1>1, <1>3, <2>1
<1>5. \A k \in 1..Len(data) : body[k + 2] = data[k]
  BY <1>0, <1>3
<1> HIDE DEF body, sum
<1>6. /\ open \in Seq(S) /\ Len(open) = Len(body) + 1
      /\ open[1] = byte /\ \A k \in 1..Len(body) : open[k + 1] = body[k]
  <2>1. <<byte>> \in Seq(S) /\ Len(<<byte>>) = 1
    OBVIOUS
  <2>2. body \in Seq(S)
    <3>1. body \in [1..Len(body) -> S] /\ Len(body) \in Nat
      BY <1>3, LenProperties
    <3> QED
      BY <3>1, IsASeq
  <2>3. /\ open \in Seq(S) /\ Len(open) = 1 + Len(body)
        /\ \A k \in 1..(1 + Len(body)) :
              open[k] = IF k <= 1 THEN <<byte>>[k] ELSE body[k - 1]
    <3> HIDE DEF S
    <3> QED
      BY <2>1, <2>2, ConcatProperties
  <2> QED
    BY <1>0, <1>3, <2>3
<1> HIDE DEF open
<1>7. /\ Append(open, sum) \in Seq(S) /\ Len(Append(open, sum)) = Len(open) + 1
      /\ \A k \in 1..Len(open) : Append(open, sum)[k] = open[k]
      /\ Append(open, sum)[Len(open) + 1] = sum
  <2>1. sum \in S
    OBVIOUS
  <2> HIDE DEF S
  <2> QED
    BY <1>6, <2>1, AppendProperties
<1>8. open \o <<sum>> = Append(open, sum)
  <2>1. sum \in S
    OBVIOUS
  <2> HIDE DEF S
  <2> QED
    BY <1>6, <2>1, AppendIsConcat
<1>9. Len(open) = Len(data) + 3 /\ Len(open) + 1 = Len(data) + 4
  BY <1>0, <1>3, <1>6
<1>10. \A k \in 1..Len(body) : k + 1 \in 1..Len(open)
  BY <1>0, <1>3, <1>9
<1>11. 1 \in 1..Len(open)
  BY <1>0, <1>9
<1> QED
  BY <1>0, <1>2, <1>3, <1>4, <1>5, <1>6, <1>7, <1>8, <1>9, <1>10, <1>11
     DEF body, sum, length

(***************************************************************************)
(* A command that gx_inner_build writes is one that gx_inner_decode reads, *)
(* with the same command byte and data and a checksum that fits.           *)
(***************************************************************************)
THEOREM InnerFramesDecode ==
    ASSUME NEW byte \in Byte, NEW data \in Seq(Byte), MayBuild(data)
    PROVE  LET f == InnerBuild(byte, data)
           IN  /\ PlainHeader(f, 1) /\ PlainSize(f, 1) = Len(f)
               /\ InnerOk(f)
               /\ f[1] = byte
               /\ \A k \in 1..Len(data) : f[k + 3] = data[k]
<1> DEFINE f    == InnerBuild(byte, data)
           body == LengthBytes(Len(data) + 1) \o data
           sum  == Checksum(byte, body)
           S    == Byte \cup {sum}
<1>1. /\ f \in Seq(S) /\ body \in Seq(Byte)
      /\ Len(data) \in Nat /\ Len(f) = Len(data) + 4
      /\ Len(body) = Len(data) + 2
      /\ f[1] = byte /\ f[Len(f)] = sum
      /\ \A k \in 1..Len(body) : f[k + 1] = body[k]
      /\ body[1] + Base * body[2] = Len(data) + 1
      /\ \A k \in 1..Len(data) : body[k + 2] = data[k]
  BY InnerBytes
<1> HIDE DEF f, body, sum
<1>2. f[2] = body[1] /\ f[3] = body[2]
  <2>1. 1 \in 1..Len(body) /\ 2 \in 1..Len(body)
    BY <1>1
  <2> QED
    BY <1>1, <2>1
<1>3. LengthAt(f, 1) = Len(data) + 1
  BY <1>1, <1>2 DEF LengthAt
<1>4. PlainHeader(f, 1) /\ PlainSize(f, 1) = Len(f)
  BY <1>1, <1>3, ConstantTypes DEF PlainHeader, PlainSize, MayBuild
<1>5. SubSeq(f, 2, Len(f) - 1) = body
  <2> DEFINE g == SubSeq(f, 2, Len(f) - 1)
  <2>1. \A k \in 2..(Len(f) - 1) : f[k] \in S
    <3>1. \A k \in 2..(Len(f) - 1) : k \in 1..Len(f)
      BY <1>1
    <3> HIDE DEF S
    <3> QED
      BY <1>1, <3>1, ElementOfSeq
  <2>2. 2 \in Int /\ Len(f) - 1 \in Int /\ 2 <= Len(f) - 1
    BY <1>1
  <2>3. /\ g \in Seq(S)
        /\ Len(g) = (Len(f) - 1) - 2 + 1
        /\ \A k \in 1..((Len(f) - 1) - 2 + 1) : g[k] = f[2 + k - 1]
    <3> HIDE DEF S
    <3> QED
      BY <2>1, <2>2, SubSeqProperties
  <2>4. Len(g) = Len(body) /\ \A k \in 1..Len(g) : g[k] = body[k]
    <3>1. Len(g) = Len(data) + 2 /\ (Len(f) - 1) - 2 + 1 = Len(data) + 2
      BY <1>1, <2>3
    <3>2. \A k \in 1..(Len(data) + 2) : 2 + k - 1 = k + 1
      BY <1>1
    <3> QED
      BY <1>1, <2>3, <3>1, <3>2
  <2>5. body \in Seq(S)
    <3>1. body \in [1..Len(body) -> S] /\ Len(body) \in Nat
      BY <1>1, LenProperties
    <3> QED
      BY <3>1, IsASeq
  <2> HIDE DEF g, S
  <2>6. g = body
    BY <2>3, <2>4, <2>5, SeqEqual
  <2> QED
    BY <2>6 DEF g
<1>6. InnerOk(f)
  BY <1>1, <1>5 DEF InnerOk, InnerChecksum, sum
<1>7. \A k \in 1..Len(data) : f[k + 3] = data[k]
  <2> SUFFICES ASSUME NEW k \in 1..Len(data) PROVE f[k + 3] = data[k]
    OBVIOUS
  <2>1. k + 2 \in 1..Len(body) /\ (k + 2) + 1 = k + 3
    BY <1>1
  <2> QED
    BY <1>1, <2>1
<1> QED
  BY <1>1, <1>4, <1>6, <1>7 DEF f

(***************************************************************************)
(* An outer frame that gx_outer_build writes is one that gx_outer_decode   *)
(* reads, with the same payload; it fills whole blocks, less than one of   *)
(* them with zeros.                                                        *)
(***************************************************************************)
LEMMA WholeBlocks ==
    ASSUME NEW length \in Nat
    PROVE  /\ WireSize(length) \in Nat /\ WireSize(length) % Block = 0
           /\ WireSize(length) >= 4 + length
           /\ WireSize(length) < 4 + length + Block
<1>1. Block \in Nat \ {0} /\ 4 + length \in Nat
  BY FramingAssumption
<1>2. ASSUME NEW n \in Nat, NEW b \in Nat \ {0}
      PROVE  b * ((n + b - 1) \div b) \in n..(n + b - 1)
  OBVIOUS
<1>3. ASSUME NEW n \in Nat, NEW b \in Nat \ {0}
      PROVE  (b * ((n + b - 1) \div b)) % b = 0
  OBVIOUS
<1>4. /\ WireSize(length) \in (4 + length)..(4 + length + Block - 1)
      /\ WireSize(length) % Block = 0
  BY <1>1, <1>2, <1>3 DEF WireSize
<1> QED
  BY <1>1, <1>4

LEMMA OuterHeadBytes ==
    ASSUME NEW type \in Families, NEW n \in Nat, n <= MaxPayload
    PROVE  LET head == OuterHead(type, n)
           IN  /\ head \in Seq(Byte) /\ Len(head) = 4
               /\ head[1] = type /\ head[2] + Base * head[3] = n
               /\ head[4] = (head[1] + head[2] + head[3]) % Base
<1> DEFINE low == n % Base
           high == n \div Base
           sum == (type + low + high) % Base
<1>1. low \in Byte /\ high \in Byte /\ low + Base * high = n
  <2> DEFINE length == LengthBytes(n)
  <2>1. /\ length \in Seq(Byte) /\ Len(length) = 2
        /\ length[1] = n % Base /\ length[2] = n \div Base
        /\ (n % Base) + Base * (n \div Base) = n
    BY LengthSurvives
  <2> HIDE DEF length
  <2>2. length[1] \in Byte /\ length[2] \in Byte
    <3>1. \A k \in 1..2 : length[k] \in Byte
      BY <2>1, ElementOfSeq
    <3> QED
      BY <3>1
  <2> QED
    BY <2>1, <2>2
<1>2. type \in Byte /\ Base \in Nat \ {0}
  BY FramingAssumption
<1>3. sum \in Byte
  <2>1. type + low + high \in Nat
    BY <1>1, <1>2 DEF Byte
  <2> HIDE DEF low, high
  <2> QED
    BY <1>2, <2>1 DEF Byte
<1>4. OuterHead(type, n) = <<type, low, high, sum>>
  BY DEF OuterHead
<1> HIDE DEF low, high
<1> QED
  BY <1>1, <1>2, <1>3, <1>4

(***************************************************************************)
(* A frame that gx_outer_build writes has a header that gx_outer_decode    *)
(* accepts, with the payload's length; the payload stands behind it, and   *)
(* zeros, less than a block of them, fill the last block.                  *)
(***************************************************************************)
THEOREM OuterFramesDecode ==
    ASSUME NEW type \in Families, NEW payload \in Seq(Byte), Len(payload) <= MaxPayload
    PROVE  LET f == OuterBuild(type, payload)
           IN  /\ f \in Seq(Byte)
               /\ OuterHeader(f, 1) /\ OuterSize(f, 1) = 4 + Len(payload)
               /\ \A k \in 1..Len(payload) : f[k + 4] = payload[k]
               /\ Len(f) % Block = 0
               /\ Len(f) >= OuterSize(f, 1) /\ Len(f) - OuterSize(f, 1) < Block
               /\ \A k \in (5 + Len(payload))..Len(f) : f[k] = 0
<1> DEFINE n    == Len(payload)
           head == OuterHead(type, n)
           zero == Padding(n)
           most == head \o payload
           f    == OuterBuild(type, payload)
<1>1. n \in Nat /\ n <= MaxPayload
  BY LenProperties
<1>2. /\ head \in Seq(Byte) /\ Len(head) = 4
      /\ head[1] = type /\ head[2] + Base * head[3] = n
      /\ head[4] = (head[1] + head[2] + head[3]) % Base
  BY <1>1, OuterHeadBytes
<1>3. /\ WireSize(n) \in Nat /\ WireSize(n) % Block = 0
      /\ WireSize(n) >= 4 + n /\ WireSize(n) < 4 + n + Block
  BY <1>1, WholeBlocks
<1>4. /\ zero \in Seq(Byte) /\ Len(zero) = WireSize(n) - (4 + n)
      /\ \A k \in 1..Len(zero) : zero[k] = 0
  <2>1. WireSize(n) - (4 + n) \in Nat
    BY <1>1, <1>3
  <2>2. 0 \in Byte
    BY FramingAssumption DEF Byte
  <2>3. zero \in [1..(WireSize(n) - (4 + n)) -> Byte]
    BY <2>2 DEF Padding
  <2>4. zero \in Seq(Byte)
    BY <2>1, <2>3, IsASeq
  <2>5. DOMAIN zero = 1..(WireSize(n) - (4 + n))
    BY DEF Padding
  <2>6. Len(zero) = WireSize(n) - (4 + n)
    BY <2>1, <2>4, <2>5, LenProperties
  <2> QED
    BY <2>4, <2>6 DEF Padding
<1>5. f = most \o zero
  BY DEF OuterBuild
<1> HIDE DEF head, zero, f, n
<1>6. /\ most \in Seq(Byte) /\ Len(most) = 4 + n
      /\ \A k \in 1..(4 + n) : most[k] = IF k <= 4 THEN head[k] ELSE payload[k - 4]
  <2>1. /\ Len(most) = Len(head) + Len(payload) /\ most \in Seq(Byte)
        /\ \A k \in 1..(Len(head) + Len(payload)) :
              most[k] = IF k <= Len(head) THEN head[k] ELSE payload[k - Len(head)]
    BY <1>2, ConcatProperties
  <2> QED
    BY <1>2, <2>1 DEF n
<1> HIDE DEF most
<1>7. /\ f \in Seq(Byte) /\ Len(f) = WireSize(n)
      /\ \A k \in 1..WireSize(n) :
            f[k] = IF k <= 4 + n THEN most[k] ELSE zero[k - (4 + n)]
  <2>1. /\ Len(f) = Len(most) + Len(zero) /\ f \in Seq(Byte)
        /\ \A k \in 1..(Len(most) + Len(zero)) :
              f[k] = IF k <= Len(most) THEN most[k] ELSE zero[k - Len(most)]
    BY <1>4, <1>5, <1>6, ConcatProperties
  <2>2. Len(most) + Len(zero) = WireSize(n)
    BY <1>1, <1>3, <1>4, <1>6
  <2> QED
    BY <1>6, <2>1, <2>2
<1>8. \A k \in 1..4 : k \in 1..(4 + n) /\ k \in 1..WireSize(n) /\ k <= 4 + n
  BY <1>1, <1>3
<1>9. \A k \in 1..4 : f[k] = head[k]
  BY <1>6, <1>7, <1>8
<1>10. LengthAt(f, 1) = n
  BY <1>2, <1>9 DEF LengthAt
<1>11. OuterHeader(f, 1) /\ OuterSize(f, 1) = 4 + n
  BY <1>1, <1>2, <1>3, <1>7, <1>9, <1>10 DEF OuterHeader, OuterSize
<1>12. ASSUME NEW k \in 1..n
       PROVE  f[k + 4] = payload[k]
  <2>1. /\ k + 4 \in 1..(4 + n) /\ k + 4 \in 1..WireSize(n) /\ k + 4 <= 4 + n
        /\ ~(k + 4 <= 4) /\ (k + 4) - 4 = k
    BY <1>1, <1>3
  <2> QED
    BY <1>6, <1>7, <2>1
<1>13. ASSUME NEW k \in (5 + n)..Len(f)
       PROVE  f[k] = 0
  <2>1. k \in 1..WireSize(n) /\ ~(k <= 4 + n) /\ k - (4 + n) \in 1..Len(zero)
    BY <1>1, <1>3, <1>4, <1>7
  <2> QED
    BY <1>4, <1>7, <2>1
<1>14. /\ Len(f) % Block = 0
       /\ Len(f) >= OuterSize(f, 1) /\ Len(f) - OuterSize(f, 1) < Block
  <2>1. Block \in Nat
    BY FramingAssumption
  <2> QED
    BY <1>1, <1>3, <1>7, <1>11, <2>1
<1>15. /\ f \in Seq(Byte) /\ OuterHeader(f, 1) /\ OuterSize(f, 1) = 4 + n
       /\ \A k \in 1..n : f[k + 4] = payload[k]
       /\ \A k \in (5 + n)..Len(f) : f[k] = 0
  BY <1>7, <1>11, <1>12, <1>13
<1> QED
  BY <1>14, <1>15 DEF n, f

(***************************************************************************)
(* Whatever comes before and after it, and however it is cut, a frame that *)
(* is written and comes whole is handed on, unless one that was handed on  *)
(* or still waits covers its start.                                        *)
(***************************************************************************)
BuiltFramesArrive ==
    pc = "read" =>
        \A type \in Families, byte \in Byte, bytes \in Seq(Byte), d \in Nat :
            \/ /\ layer = "outer" /\ Len(bytes) <= MaxPayload
               /\ StandsIn(OuterBuild(type, bytes), fed, d)
            \/ /\ layer = "plain" /\ MayBuild(bytes)
               /\ StandsIn(InnerBuild(byte, bytes), fed, d)
            => Covered(d + 1) \/ Waiting(d + 1)

LEMMA StandingFrame ==
    ASSUME TypeOK, NEW f \in Seq(Byte), NEW d \in Nat, StandsIn(f, fed, d),
           Frame(layer, f, 1), Len(f) >= 4
    PROVE  FrameAt(d + 1) /\ d + 1 \in 1..Len(fed)
<1>1. Len(f) \in Nat /\ Len(fed) \in Nat /\ fed \in Seq(Byte)
  BY LenProperties DEF TypeOK
<1>2. 1 + 3 <= Len(f) /\ 1 + Size(layer, f, 1) - 1 <= Len(f)
  BY <1>1 DEF Frame
<1>3. Frame(layer, fed, d + 1)
  BY <1>1, <1>2, ShiftFrame
<1>4. d + 1 \in 1..Len(fed)
  BY <1>1 DEF StandsIn
<1> QED
  BY <1>3, <1>4, SameFormats

(***************************************************************************)
(* The parsers hand on what gx_outer_build and gx_inner_build wrote.       *)
(***************************************************************************)
THEOREM WhatIsBuiltArrives == Spec => []BuiltFramesArrive
<1>1. TypeOK /\ NoFrameMissed => BuiltFramesArrive
  <2> SUFFICES ASSUME TypeOK, NoFrameMissed, pc = "read",
                      NEW type \in Families, NEW byte \in Byte,
                      NEW bytes \in Seq(Byte), NEW d \in Nat,
                      \/ /\ layer = "outer" /\ Len(bytes) <= MaxPayload
                         /\ StandsIn(OuterBuild(type, bytes), fed, d)
                      \/ /\ layer = "plain" /\ MayBuild(bytes)
                         /\ StandsIn(InnerBuild(byte, bytes), fed, d)
               PROVE  Covered(d + 1) \/ Waiting(d + 1)
    BY DEF BuiltFramesArrive
  <2>1. FrameAt(d + 1) /\ d + 1 \in 1..Len(fed)
    <3>1. CASE /\ layer = "outer" /\ Len(bytes) <= MaxPayload
               /\ StandsIn(OuterBuild(type, bytes), fed, d)
      <4> DEFINE f == OuterBuild(type, bytes)
      <4>1. /\ f \in Seq(Byte) /\ OuterHeader(f, 1)
            /\ OuterSize(f, 1) = 4 + Len(bytes) /\ Len(f) >= OuterSize(f, 1)
        BY <3>1, OuterFramesDecode
      <4> HIDE DEF f
      <4>2. Len(bytes) \in Nat /\ Len(f) \in Nat
        BY <4>1, LenProperties
      <4>3. Frame(layer, f, 1) /\ Len(f) >= 4
        BY <3>1, <4>1, <4>2 DEF Frame, Header, Size
      <4> QED
        BY <3>1, <4>1, <4>3, StandingFrame DEF f
    <3>2. CASE /\ layer = "plain" /\ MayBuild(bytes)
               /\ StandsIn(InnerBuild(byte, bytes), fed, d)
      <4> DEFINE f == InnerBuild(byte, bytes)
      <4>1. /\ PlainHeader(f, 1) /\ PlainSize(f, 1) = Len(f) /\ InnerOk(f)
            /\ Len(f) = Len(bytes) + 4 /\ Len(bytes) \in Nat
        BY <3>2, InnerFramesDecode, InnerBytes
      <4>2. f \in Seq(Byte)
        <5> DEFINE S == Byte \cup {Checksum(byte, LengthBytes(Len(bytes) + 1) \o bytes)}
        <5>1. f \in Seq(S)
          BY <3>2, InnerBytes
        <5> HIDE DEF f, S
        <5>2. f \in [1..Len(f) -> S] /\ Len(f) \in Nat
          BY <5>1, LenProperties
        <5>3. \A k \in 1..Len(f) : f[k] \in Byte
          <6> SUFFICES ASSUME NEW k \in 1..Len(f) PROVE f[k] \in Byte
            OBVIOUS
          <6>1. f[k] = fed[d + k] /\ d + k \in 1..Len(fed)
            <7>1. Len(fed) \in Nat
              BY LenProperties DEF TypeOK
            <7> QED
              BY <3>2, <5>2, <7>1 DEF StandsIn, f
          <6> QED
            BY <6>1, ElementOfSeq DEF TypeOK
        <5>4. f \in [1..Len(f) -> Byte]
          BY <5>2, <5>3
        <5> QED
          BY <5>2, <5>4, IsASeq
      <4>3. SubSeq(f, 1, Len(f)) = f
        <5> HIDE DEF f
        <5>1. \A k \in 1..Len(f) : f[k] \in Byte
          BY <4>2, ElementOfSeq
        <5>2. /\ SubSeq(f, 1, Len(f)) \in Seq(Byte)
              /\ Len(SubSeq(f, 1, Len(f))) = Len(f)
              /\ \A k \in 1..Len(f) : SubSeq(f, 1, Len(f))[k] = f[1 + k - 1]
          BY <4>1, <5>1, SubSeqProperties
        <5>3. \A k \in 1..Len(f) : SubSeq(f, 1, Len(f))[k] = f[k]
          BY <4>1, <5>2
        <5> QED
          BY <4>2, <5>2, <5>3, SeqEqual
      <4> HIDE DEF f
      <4>4. Frame(layer, f, 1) /\ Len(f) >= 4
        <5>1. Header(layer, f, 1) /\ Size(layer, f, 1) = Len(f)
          BY <3>2, <4>1 DEF Header, Size
        <5>2. 1 + Size(layer, f, 1) - 1 = Len(f) /\ Len(f) <= Len(f) /\ Len(f) >= 4
          BY <4>1, <5>1
        <5>3. InnerOk(SubSeq(f, 1, 1 + Size(layer, f, 1) - 1))
          BY <4>1, <4>3, <5>2
        <5> QED
          BY <5>1, <5>2, <5>3 DEF Frame
      <4> QED
        BY <3>2, <4>2, <4>4, StandingFrame DEF f
    <3> QED
      BY <3>1, <3>2
  <2> QED
    BY <2>1 DEF NoFrameMissed, Covered
<1> QED
  BY <1>1, TypeCorrect, NoFrameIsMissed, PTL

-----------------------------------------------------------------------------
(***************************************************************************)
(* The pixels of an image.                                                 *)
(***************************************************************************)
Octet  == 0..255
Packed == [0..(PackedSize - 1) -> Octet]

LEMMA Sizes == Pixels = 5120 /\ Width = 64 /\ Height = 80 /\ PackedSize = 7680
BY DEF Pixels, Width, Height, PackedSize

LEMMA Divided ==
    ASSUME NEW d \in Nat \ {0}, NEW i \in Nat
    PROVE  i \div d \in Nat /\ i % d \in 0..(d - 1) /\ i = d * (i \div d) + (i % d)
OBVIOUS

(***************************************************************************)
(* A pixel's place tells the pixel, and every place is some pixel's.       *)
(***************************************************************************)
PixelAt(p) == (p % Height) * Width + (p \div Height)

LEMMA PlaceInverts ==
    /\ \A i \in 0..(Pixels - 1) : Place(i) \in 0..(Pixels - 1) /\ PixelAt(Place(i)) = i
    /\ \A p \in 0..(Pixels - 1) : PixelAt(p) \in 0..(Pixels - 1) /\ Place(PixelAt(p)) = p
<1>1. ASSUME NEW i \in 0..(Pixels - 1)
      PROVE  Place(i) \in 0..(Pixels - 1) /\ PixelAt(Place(i)) = i
  <2> DEFINE q == i \div 64
             r == i % 64
  <2>0. i \in 0..5119
    BY Sizes
  <2>1. q \in Nat /\ r \in 0..63 /\ i = 64 * q + r
    BY <2>0, Divided
  <2>2. Place(i) = r * 80 + q
    BY <2>0 DEF Place, Width, Height
  <2> HIDE DEF q, r
  <2>3. q \in 0..79
    BY <2>0, <2>1
  <2>4. r * 80 + q \in 0..5119 /\ (r * 80 + q) % 80 = q /\ (r * 80 + q) \div 80 = r
    BY <2>1, <2>3
  <2>5. Place(i) \in 0..5119 /\ Place(i) % 80 = q /\ Place(i) \div 80 = r
    BY <2>2, <2>4
  <2>6. PixelAt(Place(i)) = q * 64 + r
    BY <2>5, Sizes DEF PixelAt
  <2> QED
    BY <2>1, <2>3, <2>5, <2>6, Sizes
<1>2. ASSUME NEW p \in 0..(Pixels - 1)
      PROVE  PixelAt(p) \in 0..(Pixels - 1) /\ Place(PixelAt(p)) = p
  <2> DEFINE q == p \div 80
             r == p % 80
  <2>0. p \in 0..5119
    BY Sizes
  <2>1. q \in Nat /\ r \in 0..79 /\ p = 80 * q + r
    BY <2>0, Divided
  <2>2. PixelAt(p) = r * 64 + q
    BY <2>0 DEF PixelAt, Width, Height
  <2> HIDE DEF q, r
  <2>3. q \in 0..63
    BY <2>0, <2>1
  <2>4. r * 64 + q \in 0..5119 /\ (r * 64 + q) % 64 = q /\ (r * 64 + q) \div 64 = r
    BY <2>1, <2>3
  <2>5. PixelAt(p) \in 0..5119 /\ PixelAt(p) % 64 = q /\ PixelAt(p) \div 64 = r
    BY <2>2, <2>4
  <2>6. Place(PixelAt(p)) = q * 80 + r
    BY <2>5, Sizes DEF Place
  <2> QED
    BY <2>1, <2>3, <2>5, <2>6, Sizes
<1> QED
  BY <1>1, <1>2

(***************************************************************************)
(* gx_chicagohu_decode writes every pixel, from one position each: no pixel *)
(* of the image stays as it was and none is written twice.                 *)
(***************************************************************************)
THEOREM EveryPixelIsWritten ==
    \A p \in 0..(Pixels - 1) :
        /\ Source(p) \in 0..(Pixels - 1) /\ Place(Source(p)) = p
        /\ \A i \in 0..(Pixels - 1) : Place(i) = p => i = Source(p)
<1> SUFFICES ASSUME NEW p \in 0..(Pixels - 1)
             PROVE  /\ Source(p) \in 0..(Pixels - 1) /\ Place(Source(p)) = p
                    /\ \A i \in 0..(Pixels - 1) : Place(i) = p => i = Source(p)
  OBVIOUS
<1>1. \E i \in 0..(Pixels - 1) : Place(i) = p
  BY PlaceInverts
<1>2. Source(p) \in 0..(Pixels - 1) /\ Place(Source(p)) = p
  BY <1>1 DEF Source
<1> QED
  BY <1>2, PlaceInverts

(***************************************************************************)
(* Each half of a byte is kept in a pixel of its own.                      *)
(***************************************************************************)
LEMMA HalvesMakeByte ==
    \A a, x \in Octet : a % 16 = x % 16 /\ a \div 16 = x \div 16 => a = x
<1> SUFFICES ASSUME NEW a \in Octet, NEW x \in Octet,
                    a % 16 = x % 16, a \div 16 = x \div 16
             PROVE  a = x
  OBVIOUS
<1>1. a = 16 * (a \div 16) + (a % 16) /\ x = 16 * (x \div 16) + (x % 16)
  BY DEF Octet
<1> QED
  BY <1>1

LEMMA LowKeeps ==
    \A a, b, x, y \in Octet : Low(a, b) = Low(x, y) => a % 16 = x % 16 /\ b = y
<1> SUFFICES ASSUME NEW a \in Octet, NEW b \in Octet, NEW x \in Octet, NEW y \in Octet,
                    Low(a, b) = Low(x, y)
             PROVE  a % 16 = x % 16 /\ b = y
  OBVIOUS
<1>1. a % 16 \in 0..15 /\ x % 16 \in 0..15
  BY DEF Octet
<1>2. ASSUME NEW h \in 0..15, NEW g \in 0..15, 256 * h + b = 256 * g + y
      PROVE  h = g /\ b = y
  BY <1>2 DEF Octet
<1> QED
  BY <1>1, <1>2 DEF Low

LEMMA HighKeeps ==
    \A a, c, x, z \in Octet : High(c, a) = High(z, x) => a \div 16 = x \div 16 /\ c = z
<1> SUFFICES ASSUME NEW a \in Octet, NEW c \in Octet, NEW x \in Octet, NEW z \in Octet,
                    High(c, a) = High(z, x)
             PROVE  a \div 16 = x \div 16 /\ c = z
  OBVIOUS
<1>1. a \div 16 \in 0..15 /\ x \div 16 \in 0..15
  BY DEF Octet
<1>2. ASSUME NEW h \in 0..15, NEW g \in 0..15, 16 * c + h = 16 * z + g
      PROVE  h = g /\ c = z
  BY <1>2 DEF Octet
<1> QED
  BY <1>1, <1>2 DEF High

(***************************************************************************)
(* gx_chicagohu_decode loses nothing: images with the same pixels came as  *)
(* the same bytes, so every bit that was sent is a bit of one pixel.       *)
(***************************************************************************)
THEOREM DecodingLosesNothing ==
    ASSUME NEW raw \in Packed, NEW other \in Packed, Decode(raw) = Decode(other)
    PROVE  raw = other
<1>1. ASSUME NEW i \in 0..5119
      PROVE  Unpacked(raw, i) = Unpacked(other, i)
  <2>1. i \in 0..(Pixels - 1)
    BY Sizes
  <2>2. Place(i) \in 0..(Pixels - 1) /\ i = Source(Place(i))
    BY <2>1, PlaceInverts, EveryPixelIsWritten
  <2>3. /\ Decode(raw)[Place(i)] = Unpacked(raw, i)
        /\ Decode(other)[Place(i)] = Unpacked(other, i)
    BY <2>2 DEF Decode
  <2> QED
    BY <2>3
<1> DEFINE Groups == 0..1279
<1> HIDE DEF Groups
<1>2. ASSUME NEW g \in Groups
      PROVE  \A k \in 0..5 : raw[6 * g + k] = other[6 * g + k]
  <2>1. \A k \in 0..5 : raw[6 * g + k] \in Octet /\ other[6 * g + k] \in Octet
    <3>1. \A k \in 0..5 : 6 * g + k \in 0..(PackedSize - 1)
      BY Sizes DEF Groups
    <3> QED
      BY <3>1, Zenon DEF Packed
  <2> DEFINE u(k) == raw[6 * g + k]
             v(k) == other[6 * g + k]
  <2>2. /\ 4 * g \in 0..5119 /\ 4 * g + 1 \in 0..5119
        /\ 4 * g + 2 \in 0..5119 /\ 4 * g + 3 \in 0..5119
        /\ (4 * g) % 4 = 0 /\ (4 * g + 1) % 4 = 1
        /\ (4 * g + 2) % 4 = 2 /\ (4 * g + 3) % 4 = 3
        /\ (4 * g) \div 4 = g /\ (4 * g + 1) \div 4 = g
        /\ (4 * g + 2) \div 4 = g /\ (4 * g + 3) \div 4 = g
    BY DEF Groups
  <2>3. ASSUME NEW r
        PROVE  /\ Unpacked(r, 4 * g) = Low(r[6 * g + 0], r[6 * g + 1])
               /\ Unpacked(r, 4 * g + 1) = High(r[6 * g + 3], r[6 * g + 0])
               /\ Unpacked(r, 4 * g + 2) = Low(r[6 * g + 5], r[6 * g + 2])
               /\ Unpacked(r, 4 * g + 3) = High(r[6 * g + 4], r[6 * g + 5])
    BY <2>2 DEF Unpacked
  <2>4. /\ Unpacked(raw, 4 * g) = Unpacked(other, 4 * g)
        /\ Unpacked(raw, 4 * g + 1) = Unpacked(other, 4 * g + 1)
        /\ Unpacked(raw, 4 * g + 2) = Unpacked(other, 4 * g + 2)
        /\ Unpacked(raw, 4 * g + 3) = Unpacked(other, 4 * g + 3)
    BY <1>1, <2>2 DEF Groups
  <2>5. /\ u(0) \in Octet /\ u(1) \in Octet /\ u(2) \in Octet
        /\ u(3) \in Octet /\ u(4) \in Octet /\ u(5) \in Octet
        /\ v(0) \in Octet /\ v(1) \in Octet /\ v(2) \in Octet
        /\ v(3) \in Octet /\ v(4) \in Octet /\ v(5) \in Octet
    BY <2>1
  <2>6. Low(u(0), u(1)) = Low(v(0), v(1)) /\ Low(u(5), u(2)) = Low(v(5), v(2))
    BY <2>3, <2>4
  <2>7. High(u(3), u(0)) = High(v(3), v(0)) /\ High(u(4), u(5)) = High(v(4), v(5))
    BY <2>3, <2>4
  <2> HIDE DEF u, v
  <2>8. u(0) % 16 = v(0) % 16 /\ u(1) = v(1) /\ u(5) % 16 = v(5) % 16 /\ u(2) = v(2)
    BY <2>5, <2>6, LowKeeps
  <2>9. u(0) \div 16 = v(0) \div 16 /\ u(3) = v(3) /\ u(5) \div 16 = v(5) \div 16 /\ u(4) = v(4)
    BY <2>5, <2>7, HighKeeps
  <2>10. u(0) = v(0) /\ u(5) = v(5)
    BY <2>5, <2>8, <2>9, HalvesMakeByte
  <2>11. \A k \in 0..5 : u(k) = v(k)
    BY <2>8, <2>9, <2>10
  <2> QED
    BY <2>11 DEF u, v
<1>3. ASSUME NEW j \in 0..(PackedSize - 1) PROVE raw[j] = other[j]
  <2> DEFINE g == j \div 6
             k == j % 6
  <2>0. j \in 0..7679
    BY Sizes
  <2>1. g \in Nat /\ k \in 0..5 /\ j = 6 * g + k
    BY <2>0, Divided
  <2> HIDE DEF g, k
  <2>2. g \in Groups
    BY <2>0, <2>1 DEF Groups
  <2>3. raw[6 * g + k] = other[6 * g + k]
    BY <1>2, <2>1, <2>2, Zenon
  <2> QED
    BY <2>1, <2>3
<1> QED
  <2>1. /\ raw = [j \in 0..(PackedSize - 1) |-> raw[j]]
        /\ other = [j \in 0..(PackedSize - 1) |-> other[j]]
    BY Zenon DEF Packed
  <2> QED
    BY <1>3, <2>1, Zenon

-----------------------------------------------------------------------------
(***************************************************************************)
(* Captures.                                                               *)
(*                                                                         *)
(* A record's rank among all records: by request, and the second half of   *)
(* an image behind the first.  A request not answered yet stands where     *)
(* its answer will.                                                        *)
(***************************************************************************)
Rank(r) == 2 * r.req + (IF r.part = "tail" THEN 1 ELSE 0)

Ranks(s) == {Rank(s[i]) : i \in 1..Len(s)}

Slots(q) == {2 * q[i] : i \in 1..Len(q)}

Below(S, T) == \A a \in S, b \in T : a < b

InLine(s) == \A i, j \in 1..Len(s) : i < j => Rank(s[i]) < Rank(s[j])

Rising(q) == \A i, j \in 1..Len(q) : i < j => q[i] < q[j]

LEMMA RankBounds ==
    ASSUME NEW r \in Record
    PROVE  /\ r.req \in 1..Requests /\ Rank(r) \in Nat
           /\ r.part = "tail" => Rank(r) = 2 * r.req + 1
           /\ r.part # "tail" => Rank(r) = 2 * r.req
<1>1. r.req \in 1..Requests
  BY DEF Record
<1>2. CASE r.part = "tail"
  BY <1>1, <1>2, CaptureAssumption DEF Rank
<1>3. CASE r.part # "tail"
  BY <1>1, <1>3, CaptureAssumption DEF Rank
<1> QED
  BY <1>1, <1>2, <1>3

LEMMA RankOfCopy ==
    ASSUME NEW r \in Record, NEW g \in BOOLEAN
    PROVE  /\ [r EXCEPT !.gap = g] \in Record
           /\ Rank([r EXCEPT !.gap = g]) = Rank(r)
<1> DEFINE c == [r EXCEPT !.gap = g]
<1>1. c \in Record /\ c.req = r.req /\ c.part = r.part
  BY DEF Record
<1> HIDE DEF c
<1> QED
  BY <1>1 DEF Rank, c

LEMMA RanksAreNumbers ==
    ASSUME NEW s \in Seq(Record)
    PROVE  Ranks(s) \subseteq Nat
<1> SUFFICES ASSUME NEW i \in 1..Len(s) PROVE Rank(s[i]) \in Nat
  BY DEF Ranks
<1>1. s[i] \in Record
  OBVIOUS
<1> QED
  BY <1>1, RankBounds

LEMMA RanksOfTail ==
    ASSUME NEW s \in Seq(Record), s # <<>>
    PROVE  /\ Head(s) \in Record /\ Tail(s) \in Seq(Record)
           /\ Rank(Head(s)) \in Ranks(s)
           /\ Ranks(Tail(s)) \subseteq Ranks(s)
           /\ InLine(s) => /\ InLine(Tail(s))
                           /\ Below({Rank(Head(s))}, Ranks(Tail(s)))
<1>1. /\ Head(s) = s[1] /\ Head(s) \in Record /\ Tail(s) \in Seq(Record)
      /\ Len(s) \in Nat /\ Len(s) >= 1 /\ Len(Tail(s)) = Len(s) - 1
      /\ \A i \in 1..Len(Tail(s)) : Tail(s)[i] = s[i + 1]
  OBVIOUS
<1>2. \A i \in 1..Len(Tail(s)) : i + 1 \in 1..Len(s) /\ 1 < i + 1
  BY <1>1
<1>3. Rank(Head(s)) \in Ranks(s)
  BY <1>1 DEF Ranks
<1>4. Ranks(Tail(s)) \subseteq Ranks(s)
  BY <1>1, <1>2 DEF Ranks
<1>5. ASSUME InLine(s)
      PROVE  InLine(Tail(s)) /\ Below({Rank(Head(s))}, Ranks(Tail(s)))
  <2>1. InLine(Tail(s))
    BY <1>1, <1>2, <1>5 DEF InLine
  <2>2. ASSUME NEW i \in 1..Len(Tail(s)) PROVE Rank(s[1]) < Rank(Tail(s)[i])
    BY <1>1, <1>2, <1>5 DEF InLine
  <2> QED
    BY <1>1, <2>1, <2>2 DEF Below, Ranks
<1> QED
  BY <1>1, <1>3, <1>4, <1>5

LEMMA RanksOfAppend ==
    ASSUME NEW s \in Seq(Record), NEW r \in Record
    PROVE  /\ Append(s, r) \in Seq(Record)
           /\ Ranks(Append(s, r)) = Ranks(s) \cup {Rank(r)}
           /\ InLine(s) /\ Below(Ranks(s), {Rank(r)}) => InLine(Append(s, r))
<1> DEFINE t == Append(s, r)
<1>1. /\ t \in Seq(Record) /\ Len(s) \in Nat /\ Len(t) = Len(s) + 1
      /\ t[Len(s) + 1] = r
      /\ \A i \in 1..Len(s) : t[i] = s[i]
  OBVIOUS
<1> HIDE DEF t
<1>2. \A i : i \in 1..Len(t) <=> i \in 1..Len(s) \/ i = Len(s) + 1
  BY <1>1
<1>3. Ranks(t) = Ranks(s) \cup {Rank(r)}
  BY <1>1, <1>2 DEF Ranks
<1>4. ASSUME InLine(s), Below(Ranks(s), {Rank(r)}),
             NEW i \in 1..Len(t), NEW j \in 1..Len(t), i < j
      PROVE  Rank(t[i]) < Rank(t[j])
  <2>1. i \in 1..Len(s)
    BY <1>1, <1>4
  <2>2. CASE j \in 1..Len(s)
    BY <1>1, <1>4, <2>1, <2>2 DEF InLine
  <2>3. CASE j = Len(s) + 1
    BY <1>1, <1>4, <2>1, <2>3 DEF Below, Ranks
  <2> QED
    BY <1>2, <2>2, <2>3
<1>5. InLine(s) /\ Below(Ranks(s), {Rank(r)}) => InLine(t)
  BY <1>4 DEF InLine
<1> QED
  BY <1>1, <1>3, <1>5 DEF t

LEMMA RanksOfNothing ==
    Ranks(<<>>) = {} /\ InLine(<<>>) /\ Slots(<<>>) = {} /\ Rising(<<>>)
BY DEF Ranks, InLine, Slots, Rising

LEMMA RanksOfParts ==
    ASSUME NEW s \in Seq(Record), NEW n \in 1..Len(s), InLine(s)
    PROVE  LET s1 == SubSeq(s, 1, n)
               s2 == SubSeq(s, n + 1, Len(s))
           IN  /\ s1 \in Seq(Record) /\ s2 \in Seq(Record) /\ Len(s2) <= Len(s)
               /\ InLine(s1) /\ InLine(s2)
               /\ Ranks(s1) \subseteq Ranks(s) /\ Ranks(s2) \subseteq Ranks(s)
               /\ Below(Ranks(s1), Ranks(s2))
<1> DEFINE s1 == SubSeq(s, 1, n)
           s2 == SubSeq(s, n + 1, Len(s))
<1>1. Len(s) \in Nat /\ n \in Nat /\ n >= 1 /\ n <= Len(s)
  OBVIOUS
<1>2. s1 \in Seq(Record) /\ Len(s1) = n /\ \A i \in 1..n : s1[i] = s[i]
  BY <1>1
<1>3. /\ s2 \in Seq(Record) /\ Len(s2) = Len(s) - n
      /\ \A i \in 1..(Len(s) - n) : s2[i] = s[n + i]
  BY <1>1
<1> HIDE DEF s1, s2
<1>4. InLine(s1) /\ Ranks(s1) \subseteq Ranks(s)
  BY <1>1, <1>2 DEF InLine, Ranks
<1>5. \A i \in 1..(Len(s) - n) : n + i \in 1..Len(s)
  BY <1>1
<1>6. InLine(s2)
  <2> SUFFICES ASSUME NEW i \in 1..(Len(s) - n), NEW j \in 1..(Len(s) - n), i < j
               PROVE  Rank(s2[i]) < Rank(s2[j])
    BY <1>3 DEF InLine
  <2>1. n + i \in 1..Len(s) /\ n + j \in 1..Len(s) /\ n + i < n + j
    BY <1>1
  <2> QED
    BY <1>3, <2>1 DEF InLine
<1>7. Ranks(s2) \subseteq Ranks(s)
  BY <1>1, <1>3, <1>5 DEF Ranks
<1>8. ASSUME NEW i \in 1..n, NEW j \in 1..(Len(s) - n)
      PROVE  Rank(s1[i]) < Rank(s2[j])
  <2>1. i \in 1..Len(s) /\ n + j \in 1..Len(s) /\ i < n + j
    BY <1>1
  <2> QED
    BY <1>2, <1>3, <2>1 DEF InLine
<1>9. Below(Ranks(s1), Ranks(s2))
  BY <1>2, <1>3, <1>8 DEF Below, Ranks
<1> QED
  BY <1>1, <1>2, <1>3, <1>4, <1>6, <1>7, <1>9 DEF s1, s2

LEMMA TailFacts ==
    ASSUME NEW S, NEW q \in Seq(S), q # <<>>
    PROVE  /\ Head(q) = q[1] /\ Head(q) \in S /\ Tail(q) \in Seq(S)
           /\ Len(q) \in Nat /\ Len(q) >= 1 /\ Len(Tail(q)) = Len(q) - 1
           /\ \A i \in 1..Len(Tail(q)) : Tail(q)[i] = q[i + 1]
           /\ \A i \in 1..Len(q) : q[i] \in S
OBVIOUS

LEMMA AppendFacts ==
    ASSUME NEW S, NEW q \in Seq(S), NEW n \in S
    PROVE  /\ Append(q, n) \in Seq(S)
           /\ Len(q) \in Nat /\ Len(Append(q, n)) = Len(q) + 1
           /\ Append(q, n)[Len(q) + 1] = n
           /\ \A i \in 1..Len(q) : Append(q, n)[i] = q[i] /\ q[i] \in S
OBVIOUS

LEMMA SlotsOfTail ==
    ASSUME NEW q \in Seq(1..Requests), q # <<>>
    PROVE  /\ Head(q) \in 1..Requests /\ Tail(q) \in Seq(1..Requests)
           /\ 2 * Head(q) \in Slots(q)
           /\ Slots(Tail(q)) \subseteq Slots(q)
           /\ Rising(q) => /\ Rising(Tail(q))
                           /\ Below({2 * Head(q), 2 * Head(q) + 1}, Slots(Tail(q)))
<1>1. /\ Head(q) = q[1] /\ Head(q) \in 1..Requests /\ Tail(q) \in Seq(1..Requests)
      /\ Len(q) \in Nat /\ Len(q) >= 1 /\ Len(Tail(q)) = Len(q) - 1
      /\ \A i \in 1..Len(Tail(q)) : Tail(q)[i] = q[i + 1]
      /\ \A i \in 1..Len(q) : q[i] \in 1..Requests
  BY TailFacts
<1>2. \A i \in 1..Len(Tail(q)) : i + 1 \in 1..Len(q) /\ 1 < i + 1
  BY <1>1
<1>3. 2 * Head(q) \in Slots(q)
  BY <1>1 DEF Slots
<1>4. Slots(Tail(q)) \subseteq Slots(q)
  BY <1>1, <1>2 DEF Slots
<1>5. ASSUME Rising(q)
      PROVE  /\ Rising(Tail(q))
             /\ Below({2 * Head(q), 2 * Head(q) + 1}, Slots(Tail(q)))
  <2>1. Rising(Tail(q))
    BY <1>1, <1>2, <1>5 DEF Rising
  <2>2. ASSUME NEW i \in 1..Len(Tail(q)) PROVE 2 * q[1] + 1 < 2 * Tail(q)[i]
    <3>1. i + 1 \in 1..Len(q) /\ 1 \in 1..Len(q) /\ 1 < i + 1
      BY <1>1, <1>2
    <3>2. q[1] < q[i + 1]
      BY <1>5, <3>1 DEF Rising
    <3>3. q[1] \in 1..Requests /\ q[i + 1] \in 1..Requests
      BY <1>1, <3>1
    <3> QED
      BY <1>1, <3>2, <3>3, CaptureAssumption
  <2>3. 2 * q[1] < 2 * q[1] + 1 /\ 2 * q[1] \in Nat
    BY <1>1, CaptureAssumption
  <2>4. ASSUME NEW i \in 1..Len(Tail(q)) PROVE 2 * Tail(q)[i] \in Nat
    BY <1>1, <1>2, CaptureAssumption
  <2> QED
    BY <1>1, <2>1, <2>2, <2>3, <2>4 DEF Below, Slots
<1> QED
  BY <1>1, <1>3, <1>4, <1>5

LEMMA SlotsOfAppend ==
    ASSUME NEW q \in Seq(1..Requests), NEW n \in 1..Requests
    PROVE  /\ Append(q, n) \in Seq(1..Requests)
           /\ Slots(Append(q, n)) = Slots(q) \cup {2 * n}
           /\ Rising(q) /\ Below(Slots(q), {2 * n}) => Rising(Append(q, n))
<1> DEFINE t == Append(q, n)
<1>1. /\ t \in Seq(1..Requests) /\ Len(q) \in Nat /\ Len(t) = Len(q) + 1
      /\ t[Len(q) + 1] = n
      /\ \A i \in 1..Len(q) : t[i] = q[i] /\ q[i] \in 1..Requests
  BY AppendFacts
<1> HIDE DEF t
<1>2. \A i : i \in 1..Len(t) <=> i \in 1..Len(q) \/ i = Len(q) + 1
  BY <1>1
<1>3. Slots(t) = Slots(q) \cup {2 * n}
  BY <1>1, <1>2 DEF Slots
<1>4. ASSUME Rising(q), Below(Slots(q), {2 * n}),
             NEW i \in 1..Len(t), NEW j \in 1..Len(t), i < j
      PROVE  t[i] < t[j]
  <2>1. i \in 1..Len(q) /\ t[i] = q[i] /\ q[i] \in 1..Requests
    BY <1>1, <1>4
  <2>2. CASE j \in 1..Len(q)
    BY <1>1, <1>4, <2>1, <2>2 DEF Rising
  <2>3. CASE j = Len(q) + 1
    <3>1. 2 * q[i] < 2 * n
      BY <1>4, <2>1 DEF Below, Slots
    <3> QED
      BY <1>1, <2>1, <2>3, <3>1, CaptureAssumption
  <2> QED
    BY <1>2, <2>2, <2>3
<1>5. Rising(q) /\ Below(Slots(q), {2 * n}) => Rising(t)
  BY <1>4 DEF Rising
<1> QED
  BY <1>1, <1>3, <1>5 DEF t

LEMMA SlotsAreNumbers ==
    ASSUME NEW q \in Seq(1..Requests)
    PROVE  \A k \in Slots(q) : k \in Nat /\ \E n \in 1..Requests : k = 2 * n
<1> SUFFICES ASSUME NEW i \in 1..Len(q)
             PROVE  2 * q[i] \in Nat /\ q[i] \in 1..Requests
  BY DEF Slots
<1> QED
  BY CaptureAssumption

(***************************************************************************)
(* The invariant.  BudgetInv: the bound on the requests leaves room for    *)
(* the attempts that a capture may still make, and every attempt that was  *)
(* given up sent one.  PhaseInv: what is empty where.  LineInv: the        *)
(* plaintext, what OpenSSL has, the FIFO, the wire and the requests not    *)
(* answered stand in line.                                                 *)
(***************************************************************************)
Pending == Ranks(bio) \cup Ranks(fifo) \cup Ranks(wire) \cup Slots(asked)

BudgetInv ==
    /\ step \in {"device", "request", "send"} =>
          sent + Attempts - attempt + 1 <= Requests
    /\ step \in {"wait", "read", "decode"} =>
          /\ sent + Attempts - attempt <= Requests
          /\ givenUp < sent
    /\ step # "idle" => attempt >= 1
    /\ givenUp <= sent

PhaseInv ==
    /\ step = "idle" <=> state = "ACTIVE"
    /\ result # "none" => step = "idle"
    /\ step \notin {"wait", "read"} => plain = Empty
    /\ step # "decode" => image = NoImage

Lined(H, B, F, W, A, n) ==
    /\ Below(H, B \cup F \cup W \cup A)
    /\ Below(B, F \cup W \cup A)
    /\ Below(F, W \cup A)
    /\ Below(W, A)
    /\ Below(H \cup B \cup F \cup W \cup A, {2 * n + 2})

LineInv ==
    /\ InLine(bio) /\ InLine(fifo) /\ InLine(wire) /\ Rising(asked)
    /\ Lined(Ranks(plain.held), Ranks(bio), Ranks(fifo), Ranks(wire),
             Slots(asked), sent)

(***************************************************************************)
(* FreshInv: with n = Floor, the latest image handed out, or the image at  *)
(* hand, nothing pending is older than the second half of n's image; and   *)
(* once the parser has begun to wait for more, it is even past that.       *)
(***************************************************************************)
Floor == IF step \in {"wait", "read"} THEN sent - givenUp - 1 ELSE sent - givenUp

Fresh(n) == Below({2 * n}, Pending)

Clean(n) == Below({2 * n + 1}, Ranks(plain.held) \cup Pending)

FreshInv ==
    /\ given <= sent /\ image.req <= sent
    /\ Fresh(Floor) /\ Fresh(given) /\ Fresh(image.req)
    /\ plain # Empty => Clean(Floor) /\ Clean(given)
    /\ image.req # 0 => image.req >= Floor /\ image.req > given

CaptureTypeInv == CaptureTypeOK /\ BudgetInv /\ PhaseInv

CaptureInv == CaptureTypeInv /\ LineInv /\ FreshInv /\ LagIsGivenUp

(***************************************************************************)
(* What the parser makes of one more record.  A half that it keeps is the  *)
(* first of what it has, and it takes nothing else for the start.          *)
(***************************************************************************)
LEMMA FromStartShape ==
    ASSUME NEW held \in Seq(Record)
    PROVE  LET next == FromStart(held) IN
           /\ next.wait = 0
           /\ next.held = <<>> \/ next.held = held
           /\ next.image \in Image
           /\ next.image.found => next.held = <<>> /\ held # <<>>
           /\ ~next.image.found => next.image = NoImage /\ next.held = held
           /\ next.image.req # 0 => next.image.found /\ next.image.req = held[1].req
<1> DEFINE next == FromStart(held)
<1>1. CASE held = <<>> \/ (held[1].part = "head" /\ Len(held) = 1)
  BY <1>1, CaptureAssumption DEF FromStart, NoImage, Image
<1>2. CASE ~(held = <<>> \/ (held[1].part = "head" /\ Len(held) = 1))
  <2>1. held # <<>> /\ held[1] \in Record
    BY <1>2
  <2>2. held[1].req \in 1..Requests
    BY <2>1, RankBounds
  <2>3. held[1].req \in 0..Requests /\ 0 \in 0..Requests
    BY <2>2, CaptureAssumption
  <2>4. CASE held[1].good
    <3>1. next = [wait |-> 0, held |-> <<>>,
                  image |-> [found |-> TRUE, req |-> held[1].req]]
      BY <1>2, <2>4 DEF FromStart
    <3> QED
      BY <3>1, <2>1, <2>3 DEF Image
  <2>5. CASE ~held[1].good
    <3>1. next = [wait |-> 0, held |-> <<>>, image |-> [found |-> TRUE, req |-> 0]]
      BY <1>2, <2>5 DEF FromStart, Spoilt
    <3> QED
      BY <3>1, <2>1, <2>3 DEF Image
  <2> QED
    BY <2>4, <2>5
<1> QED
  BY <1>1, <1>2

LEMMA ParsedShape ==
    ASSUME CaptureTypeOK, NEW record \in Record, NEW next \in Parsed(record)
    PROVE  LET held == Append(plain.held, record) IN
           /\ next.wait \in 0..MaxSpan
           /\ next.held = <<>> \/ next.held = held
           /\ next.image \in Image
           /\ next.image.found => next.wait = 0 /\ next.held = <<>>
           /\ ~next.image.found => next.image = NoImage
           /\ next.image.req # 0 => next.image.found /\ next.image.req = held[1].req
           /\ plain.wait = 0 /\ plain.held = <<>> /\ next.image.found =>
                 record.part # "tail"
<1> DEFINE held == Append(plain.held, record)
<1>1. /\ held \in Seq(Record) /\ held # <<>> /\ <<>> \in Seq(Record)
      /\ plain.wait \in 0..MaxSpan /\ MaxSpan \in Nat
  <2>1. plain.held \in Seq(Record) /\ plain.wait \in 0..MaxSpan /\ MaxSpan \in Nat
    BY CaptureAssumption DEF CaptureTypeOK
  <2>2. held \in Seq(Record) /\ Len(held) = Len(plain.held) + 1 /\ Len(plain.held) \in Nat
    BY <2>1, AppendFacts
  <2> HIDE DEF held
  <2>3. held # <<>> /\ <<>> \in Seq(Record)
    BY <2>2
  <2> QED
    BY <2>1, <2>2, <2>3 DEF held
<1>2. NoImage \in Image /\ ~NoImage.found /\ NoImage.req = 0
  BY CaptureAssumption DEF NoImage, Image
<1>3. Spoilt \in Image /\ Spoilt.found /\ Spoilt.req = 0
  BY CaptureAssumption DEF Spoilt, Image
<1> HIDE DEF held
<1>4. CASE plain.wait > 1
  <2>1. next = [wait |-> plain.wait - 1, held |-> held, image |-> NoImage]
    BY <1>4, <1>1 DEF Parsed, held
  <2>2. plain.wait - 1 \in 0..MaxSpan /\ plain.wait # 0
    BY <1>1, <1>4
  <2> QED
    BY <1>2, <2>1, <2>2 DEF held
<1>5. CASE plain.wait = 1
  <2>1. next \in FalseFrameEnds(held)
    BY <1>1, <1>5 DEF Parsed, held
  <2>2. CASE next = FromStart(held)
    <3>1. /\ next.wait = 0 /\ 0 \in 0..MaxSpan
          /\ next.held = <<>> \/ next.held = held
          /\ next.image \in Image
          /\ next.image.found => next.held = <<>> /\ held # <<>>
          /\ ~next.image.found => next.image = NoImage
          /\ next.image.req # 0 => next.image.found /\ next.image.req = held[1].req
      BY <1>1, <2>2, FromStartShape
    <3> QED
      BY <1>1, <1>2, <1>5, <3>1 DEF held
  <2>3. CASE next \in Waits(held)
    <3>1. PICK n \in 1..MaxSpan : next = [wait |-> n, held |-> held, image |-> NoImage]
      BY <2>3 DEF Waits
    <3> QED
      BY <1>1, <1>2, <3>1, <1>5 DEF held
  <2>4. CASE next = FromStart(<<>>)
    <3>1. next = [wait |-> 0, held |-> <<>>, image |-> NoImage]
      BY <2>4 DEF FromStart
    <3> QED
      BY <1>1, <1>2, <1>5, <3>1 DEF held
  <2>5. CASE next \in Waits(<<>>)
    <3>1. PICK n \in 1..MaxSpan : next = [wait |-> n, held |-> <<>>, image |-> NoImage]
      BY <2>5 DEF Waits
    <3> QED
      BY <1>1, <1>2, <3>1, <1>5 DEF held
  <2>6. CASE next = [wait |-> 0, held |-> <<>>, image |-> Spoilt]
    BY <1>1, <1>3, <2>6, <1>5 DEF held
  <2> QED
    BY <2>1, <2>2, <2>3, <2>4, <2>5, <2>6 DEF FalseFrameEnds
<1>6. CASE plain.wait = 0 /\ plain.held = <<>> /\ record.part = "tail"
  <2>1. next = FromStart(<<>>) \/ next \in Waits(<<>>)
    BY <1>1, <1>6 DEF Parsed
  <2>2. CASE next = FromStart(<<>>)
    BY <1>1, <1>6, <2>2, FromStartShape DEF held
  <2>3. CASE next \in Waits(<<>>)
    <3>1. PICK n \in 1..MaxSpan : next = [wait |-> n, held |-> <<>>, image |-> NoImage]
      BY <2>3 DEF Waits
    <3> QED
      BY <1>1, <1>2, <3>1 DEF held
  <2> QED
    BY <2>1, <2>2, <2>3
<1>7. CASE plain.wait = 0 /\ ~(plain.held = <<>> /\ record.part = "tail")
  <2>1. next = FromStart(held)
    BY <1>1, <1>7 DEF Parsed, held
  <2> QED
    BY <1>1, <1>7, <2>1, FromStartShape DEF held
<1> QED
  BY <1>1, <1>4, <1>5, <1>6, <1>7 DEF held

LEMMA GiveUpTypes ==
    ASSUME CaptureTypeInv, GiveUp, step # "idle", sent' \in 0..Requests,
           sent' + Attempts - attempt <= Requests, givenUp < sent'
    PROVE  /\ step' \in {"idle", "device"} /\ plain' = Empty /\ image' = NoImage
           /\ state' \in {"ACTIVE", "CAPTURING"}
           /\ attempt' \in 0..Attempts
           /\ result' \in {"none", "CAPTURE"} /\ result' # "OK"
           /\ given' \in 0..Requests /\ givenUp' \in 0..Requests
           /\ BudgetInv' /\ PhaseInv'
           /\ given' = given /\ givenUp' = givenUp + 1
<1>1. /\ attempt \in 0..Attempts /\ attempt >= 1 /\ Attempts \in Nat
      /\ Requests \in Nat /\ sent' \in Nat /\ givenUp \in Nat /\ given \in 0..Requests
      /\ state = "CAPTURING" /\ result = "none"
  BY CaptureAssumption DEF CaptureTypeInv, CaptureTypeOK, BudgetInv, PhaseInv
<1>2. /\ image' = NoImage /\ givenUp' = givenUp + 1 /\ given' = given
      /\ Fail("CAPTURE")
  BY DEF GiveUp
<1>3. givenUp' \in 0..Requests /\ givenUp' <= sent'
  BY <1>1, <1>2
<1>4. CASE attempt < Attempts
  <2>1. /\ step' = "device" /\ attempt' = attempt + 1 /\ plain' = Empty
        /\ state' = state /\ result' = result
    BY <1>2, <1>4 DEF Fail
  <2>2. attempt' \in 0..Attempts /\ attempt' >= 1
    BY <1>1, <1>4, <2>1
  <2>3. sent' + Attempts - attempt' + 1 <= Requests
    <3>1. attempt \in Nat /\ sent' + Attempts - (attempt + 1) + 1 = sent' + Attempts - attempt
      BY <1>1
    <3> QED
      BY <2>1, <3>1
  <2> QED
    BY <1>1, <1>2, <1>3, <2>1, <2>2, <2>3 DEF BudgetInv, PhaseInv
<1>5. CASE ~(attempt < Attempts)
  <2>1. /\ step' = "idle" /\ state' = "ACTIVE" /\ result' = "CAPTURE"
        /\ plain' = Empty /\ attempt' = 0
    BY <1>2, <1>5 DEF Fail, End, StateAfter
  <2> QED
    BY <1>1, <1>2, <1>3, <2>1 DEF BudgetInv, PhaseInv
<1> QED
  BY <1>4, <1>5

LEMMA EmptyFacts ==
    /\ Empty.wait = 0 /\ Empty.held = <<>>
    /\ 0 \in 0..MaxSpan /\ <<>> \in Seq(Record) /\ Len(<<>>) <= StrayRoom
    /\ NoImage \in Image /\ NoImage.req = 0 /\ 0 \in 0..Requests /\ 0 \in 0..Attempts
BY CaptureAssumption DEF Empty, NoImage, Image

LEMMA CaptureInitTypes == CaptureInit => CaptureTypeInv
<1> SUFFICES ASSUME CaptureInit PROVE CaptureTypeInv
  OBVIOUS
<1>1. <<>> \in Seq(1..Requests) /\ Len(<<>>) <= FifoRoom
  BY CaptureAssumption
<1>2. CaptureTypeOK
  BY <1>1, EmptyFacts DEF CaptureInit, CaptureTypeOK
<1> QED
  BY <1>2, EmptyFacts DEF CaptureInit, CaptureTypeInv, BudgetInv, PhaseInv

(***************************************************************************)
(* What the link's and the other calls' actions leave alone.               *)
(***************************************************************************)
LEMMA WorkerTypesKept ==
    ASSUME CaptureTypeInv, UNCHANGED workerVars, UNCHANGED countVars,
           asked' \in Seq(1..Requests), wire' \in Seq(Record), fifo' \in Seq(Record),
           bio' \in Seq(Record), Len(fifo') <= FifoRoom, lost' \in BOOLEAN,
           receiver' \in BOOLEAN, tls' \in {"ok", "failed"}, cancel' \in BOOLEAN
    PROVE  CaptureTypeInv'
<1>1. CaptureTypeOK'
  BY DEF CaptureTypeInv, CaptureTypeOK, workerVars, countVars
<1>2. BudgetInv' /\ PhaseInv'
  BY DEF CaptureTypeInv, BudgetInv, PhaseInv, workerVars, countVars
<1> QED
  BY <1>1, <1>2 DEF CaptureTypeInv

LEMMA LinkTypesKept ==
    ASSUME CaptureTypeInv, UNCHANGED <<wire, fifo, lost, receiver, cancel>>,
           asked' \in Seq(1..Requests), bio' \in Seq(Record), tls' \in {"ok", "failed"},
           step' \in {"idle", "device", "request", "send", "wait", "read", "decode"},
           state' \in {"ACTIVE", "CAPTURING"}, attempt' \in 0..Attempts,
           plain'.wait \in 0..MaxSpan, plain'.held \in Seq(Record),
           Len(plain'.held) <= StrayRoom, image' \in Image,
           result' \in {"none", "OK", "CANCELLED", "CAPTURE", "CRC"},
           sent' \in 0..Requests, given' \in 0..Requests, givenUp' \in 0..Requests
    PROVE  CaptureTypeOK'
BY DEF CaptureTypeInv, CaptureTypeOK

LEMMA CaptureStepTypes ==
    CaptureTypeInv /\ [CaptureNext]_captureVars => CaptureTypeInv'
<1> SUFFICES ASSUME CaptureTypeInv, [CaptureNext]_captureVars
             PROVE  CaptureTypeInv'
  OBVIOUS
<1>1. /\ asked \in Seq(1..Requests) /\ wire \in Seq(Record) /\ fifo \in Seq(Record)
      /\ bio \in Seq(Record) /\ Len(fifo) <= FifoRoom /\ lost \in BOOLEAN
      /\ receiver \in BOOLEAN /\ tls \in {"ok", "failed"} /\ cancel \in BOOLEAN
  BY DEF CaptureTypeInv, CaptureTypeOK
<1>2. /\ step \in {"idle", "device", "request", "send", "wait", "read", "decode"}
      /\ state \in {"ACTIVE", "CAPTURING"} /\ attempt \in 0..Attempts
      /\ plain.wait \in 0..MaxSpan /\ plain.held \in Seq(Record)
      /\ Len(plain.held) <= StrayRoom /\ image \in Image
      /\ result \in {"none", "OK", "CANCELLED", "CAPTURE", "CRC"}
      /\ sent \in 0..Requests /\ given \in 0..Requests /\ givenUp \in 0..Requests
      /\ CaptureTypeOK
  BY DEF CaptureTypeInv, CaptureTypeOK
<1>3. Attempts \in Nat /\ Requests \in Nat /\ Attempts >= 1
  BY CaptureAssumption
<1>4. BudgetInv /\ PhaseInv
  BY DEF CaptureTypeInv
<1>5. CASE Answer
  <2>1. asked # <<>> /\ asked' = Tail(asked)
    BY <1>5 DEF Answer
  <2>2. Head(asked) \in 1..Requests /\ asked' \in Seq(1..Requests)
    BY <1>1, <2>1, TailFacts
  <2>3. wire' \in Seq(Record)
    <3>1. PICK good \in BOOLEAN :
             LET piece(part) == [req |-> Head(asked), part |-> part,
                                 good |-> good, gap |-> FALSE]
             IN  wire' \in {wire, Append(wire, piece("whole")),
                            wire \o <<piece("head"), piece("tail")>>}
      BY <1>5 DEF Answer
    <3> DEFINE piece(part) == [req |-> Head(asked), part |-> part,
                               good |-> good, gap |-> FALSE]
    <3>2. piece("whole") \in Record /\ piece("head") \in Record /\ piece("tail") \in Record
      BY <2>2 DEF Record
    <3> HIDE DEF piece
    <3>3. wire' \in {wire, Append(wire, piece("whole")),
                     wire \o <<piece("head"), piece("tail")>>}
      BY <3>1 DEF piece
    <3>4. Append(wire, piece("whole")) \in Seq(Record)
      BY <1>1, <3>2
    <3>5. <<piece("head"), piece("tail")>> \in Seq(Record)
      BY <3>2
    <3> QED
      BY <1>1, <3>3, <3>4, <3>5, ConcatProperties
  <2> QED
    BY <1>1, <1>5, <2>2, <2>3, WorkerTypesKept DEF Answer, tlsVars
<1>6. CASE FileRecord
  <2>1. wire # <<>> /\ wire' = Tail(wire)
    BY <1>6 DEF FileRecord
  <2>2. Head(wire) \in Record /\ wire' \in Seq(Record)
    BY <1>1, <2>1, TailFacts
  <2>3. [Head(wire) EXCEPT !.gap = lost] \in Record
    BY <1>1, <2>2, RankOfCopy
  <2>4. fifo' \in Seq(Record) /\ Len(fifo') <= FifoRoom /\ lost' \in BOOLEAN
    <3>1. CASE HasRoom
      <4>1. /\ fifo' = Append(fifo, [Head(wire) EXCEPT !.gap = lost])
            /\ lost' = FALSE /\ Len(fifo) < FifoRoom
        BY <1>6, <3>1 DEF FileRecord, HasRoom
      <4> HIDE DEF HasRoom
      <4>2. fifo' \in Seq(Record) /\ Len(fifo') = Len(fifo) + 1 /\ Len(fifo) \in Nat
        BY <1>1, <2>3, <4>1, AppendFacts
      <4>3. FifoRoom \in Nat
        BY CaptureAssumption
      <4>4. Len(fifo') <= FifoRoom
        BY <4>1, <4>2, <4>3
      <4> QED
        BY <4>1, <4>2, <4>4
    <3>2. CASE ~HasRoom
      BY <1>1, <1>6, <3>2 DEF FileRecord
    <3> QED
      BY <3>1, <3>2
  <2> QED
    BY <1>1, <1>6, <2>2, <2>4, WorkerTypesKept DEF FileRecord, tlsVars
<1>7. CASE LoseRecord
  <2>1. wire' \in Seq(Record)
    BY <1>1, <1>7, TailFacts DEF LoseRecord
  <2> QED
    BY <1>1, <1>7, <2>1, WorkerTypesKept DEF LoseRecord, tlsVars
<1>8. CASE ReceiverFails
  BY <1>1, <1>8, WorkerTypesKept DEF ReceiverFails, tlsVars
<1>9. CASE RequestCancel \/ ClearCancel
  BY <1>1, <1>9, WorkerTypesKept DEF RequestCancel, ClearCancel, tlsVars, linkVars
<1>10. CASE Fetch
  <2>1. PICK n \in 1..Len(fifo) : /\ bio' = SubSeq(fifo, 1, n)
                                  /\ fifo' = SubSeq(fifo, n + 1, Len(fifo))
    BY <1>10 DEF Fetch
  <2>2. bio' \in Seq(Record) /\ fifo' \in Seq(Record) /\ Len(fifo') <= Len(fifo)
    BY <1>1, <2>1
  <2>3. Len(fifo') \in Nat /\ Len(fifo) \in Nat
    BY <1>1, <2>2
  <2>4. Len(fifo') <= FifoRoom
    BY <1>1, <2>2, <2>3, CaptureAssumption
  <2> QED
    BY <1>1, <1>10, <2>2, <2>4, WorkerTypesKept DEF Fetch
<1>11. CASE Begin
  <2>1. /\ state' = "CAPTURING" /\ step' = "device" /\ attempt' = 1
        /\ result' = "none" /\ sent + Attempts <= Requests /\ state = "ACTIVE"
        /\ plain' = plain /\ image' = image
        /\ UNCHANGED <<linkVars, tlsVars, cancel, countVars>>
    BY <1>11 DEF Begin
  <2>2. step = "idle" /\ plain = Empty /\ image = NoImage
    BY <1>4, <2>1 DEF PhaseInv
  <2>3. CaptureTypeOK'
    <3>1. attempt' \in 0..Attempts
      BY <1>3, <2>1
    <3> QED
      BY <1>1, <1>2, <2>1, <3>1, LinkTypesKept DEF linkVars, tlsVars, countVars
  <2>4. BudgetInv'
    BY <1>2, <1>3, <1>4, <2>1 DEF BudgetInv, countVars
  <2>5. PhaseInv'
    BY <2>1, <2>2 DEF PhaseInv
  <2> QED
    BY <2>3, <2>4, <2>5 DEF CaptureTypeInv
<1>12. CASE Look("device", "request") \/ Look("request", "send") \/ Look("wait", "read")
            \/ ReadTimeout
  <2>1. /\ \/ step = "device" /\ step' = "request"
           \/ step = "request" /\ step' = "send"
           \/ step = "wait" /\ step' = "read"
           \/ step = "read" /\ step' = "wait"
        /\ UNCHANGED <<linkVars, tlsVars, cancel, state, attempt, plain, image,
                       result, countVars>>
    BY <1>12 DEF Look, ReadTimeout
  <2>2. CaptureTypeOK'
    BY <1>1, <1>2, <2>1, LinkTypesKept DEF linkVars, tlsVars, countVars
  <2>3. BudgetInv'
    BY <1>4, <2>1 DEF BudgetInv, countVars
  <2>4. PhaseInv'
    BY <1>4, <2>1 DEF PhaseInv
  <2> QED
    BY <2>2, <2>3, <2>4 DEF CaptureTypeInv
<1>13. CASE Cancelled
  <2>1. /\ step' = "idle" /\ state' = "ACTIVE" /\ result' = "CANCELLED"
        /\ plain' = Empty /\ attempt' = 0 /\ image' = NoImage
        /\ givenUp' = givenUp \/ (step = "wait" /\ givenUp' = givenUp + 1)
        /\ UNCHANGED <<linkVars, tlsVars, cancel, sent, given>>
    BY <1>13 DEF Cancelled, CancelledAfter, End, StateAfter
  <2>2. givenUp' <= sent /\ givenUp' \in 0..Requests
    BY <1>2, <1>3, <1>4, <2>1 DEF BudgetInv
  <2>3. CaptureTypeOK'
    BY <1>1, <1>2, <2>1, <2>2, EmptyFacts, LinkTypesKept DEF linkVars, tlsVars
  <2> QED
    BY <2>1, <2>2, <2>3 DEF CaptureTypeInv, BudgetInv, PhaseInv
<1>14. CASE SendRequest
  <2>1. /\ step = "send" /\ sent' = sent + 1
        /\ UNCHANGED <<wire, fifo, lost, receiver, tlsVars, cancel>>
        /\ asked' = asked \/ asked' = Append(asked, sent + 1)
    BY <1>14 DEF SendRequest, Reached
  <2>2. /\ sent + Attempts - attempt + 1 <= Requests /\ attempt >= 1 /\ givenUp <= sent
        /\ plain = Empty /\ image = NoImage /\ result = "none" /\ state = "CAPTURING"
    BY <1>2, <1>4, <2>1 DEF BudgetInv, PhaseInv
  <2>3. /\ sent' \in 0..Requests /\ sent + 1 \in 1..Requests
        /\ sent' + Attempts - attempt <= Requests /\ givenUp < sent'
    BY <1>2, <1>3, <2>1, <2>2
  <2>4. asked' \in Seq(1..Requests)
    <3>1. Append(asked, sent + 1) \in Seq(1..Requests)
      BY <1>1, <2>3, SlotsOfAppend
    <3> QED
      BY <1>1, <2>1, <3>1
  <2>5. CASE step' = "wait" /\ UNCHANGED <<state, attempt, plain, image, result>>
             /\ UNCHANGED <<given, givenUp>>
    <3>1. CaptureTypeOK'
      BY <1>1, <1>2, <2>1, <2>3, <2>4, <2>5, LinkTypesKept DEF tlsVars
    <3>2. BudgetInv'
      BY <1>2, <2>2, <2>3, <2>5 DEF BudgetInv
    <3>3. PhaseInv'
      BY <2>2, <2>5 DEF PhaseInv
    <3> QED
      BY <3>1, <3>2, <3>3 DEF CaptureTypeInv
  <2>6. CASE GiveUp
    <3>1. /\ step' \in {"idle", "device"} /\ plain' = Empty /\ image' = NoImage
          /\ state' \in {"ACTIVE", "CAPTURING"} /\ attempt' \in 0..Attempts
          /\ result' \in {"none", "CAPTURE"}
          /\ given' \in 0..Requests /\ givenUp' \in 0..Requests
          /\ BudgetInv' /\ PhaseInv'
      BY <2>1, <2>3, <2>6, GiveUpTypes
    <3>2. CaptureTypeOK'
      BY <1>1, <1>2, <2>1, <2>3, <2>4, <3>1, EmptyFacts, LinkTypesKept DEF tlsVars
    <3> QED
      BY <3>1, <3>2 DEF CaptureTypeInv
  <2> QED
    BY <1>14, <2>5, <2>6 DEF SendRequest
<1>15. CASE /\ step \in {"wait", "read"} /\ GiveUp
            /\ UNCHANGED <<linkVars, cancel, sent>>
            /\ bio' \in Seq(Record) /\ tls' \in {"ok", "failed"}
  <2>1. sent + Attempts - attempt <= Requests /\ givenUp < sent
    BY <1>4, <1>15 DEF BudgetInv
  <2>2. /\ step' \in {"idle", "device"} /\ plain' = Empty /\ image' = NoImage
        /\ state' \in {"ACTIVE", "CAPTURING"} /\ attempt' \in 0..Attempts
        /\ result' \in {"none", "CAPTURE"}
        /\ given' \in 0..Requests /\ givenUp' \in 0..Requests
        /\ BudgetInv' /\ PhaseInv'
    BY <1>2, <1>15, <2>1, GiveUpTypes
  <2>3. CaptureTypeOK'
    BY <1>1, <1>2, <1>15, <2>2, EmptyFacts, LinkTypesKept DEF linkVars
  <2> QED
    BY <2>2, <2>3 DEF CaptureTypeInv
<1>16. CASE Deadline
  BY <1>1, <1>15, <1>16 DEF Deadline, tlsVars
<1>17. CASE ReadFails
  BY <1>1, <1>15, <1>17 DEF ReadFails, tlsVars
<1>18. CASE RefuseRecord
  <2>1. bio' \in Seq(Record)
    BY <1>1, <1>18, TailFacts DEF RefuseRecord
  <2> QED
    BY <1>15, <1>18, <2>1 DEF RefuseRecord
<1>19. CASE ReadRecord
  <2>1. /\ step = "read" /\ bio # <<>> /\ bio' = Tail(bio)
        /\ UNCHANGED <<linkVars, tls, cancel, sent>>
    BY <1>19 DEF ReadRecord
  <2>2. bio' \in Seq(Record) /\ Head(bio) \in Record
    BY <1>1, <2>1, TailFacts
  <2>3. CASE Len(plain.held) >= StrayRoom
    BY <1>1, <1>15, <1>19, <2>1, <2>2, <2>3 DEF ReadRecord
  <2>4. CASE ~(Len(plain.held) >= StrayRoom)
    <3>1. PICK next \in Parsed(Head(bio)) :
             /\ plain' = [wait |-> next.wait, held |-> next.held]
             /\ image' = next.image
             /\ step' = IF next.image.found THEN "decode" ELSE "wait"
             /\ UNCHANGED <<state, attempt, result, given, givenUp>>
      BY <1>19, <2>4 DEF ReadRecord
    <3> DEFINE held == Append(plain.held, Head(bio))
    <3>2. /\ held \in Seq(Record) /\ Len(held) = Len(plain.held) + 1
          /\ Len(plain.held) \in Nat
      BY <1>2, <2>2, AppendFacts
    <3>3. Len(held) <= StrayRoom /\ Len(<<>>) <= StrayRoom /\ <<>> \in Seq(Record)
      BY <2>4, <3>2, CaptureAssumption
    <3>4. /\ next.wait \in 0..MaxSpan
          /\ next.held = <<>> \/ next.held = held
          /\ next.image \in Image
          /\ next.image.found => next.wait = 0 /\ next.held = <<>>
          /\ ~next.image.found => next.image = NoImage
      BY <1>2, <2>2, <3>1, ParsedShape
    <3> HIDE DEF held
    <3>5. CaptureTypeOK'
      <4>1. /\ plain'.wait \in 0..MaxSpan /\ plain'.held \in Seq(Record)
            /\ Len(plain'.held) <= StrayRoom /\ step' \in {"decode", "wait"}
        BY <3>1, <3>2, <3>3, <3>4
      <4> QED
        BY <1>1, <1>2, <2>1, <2>2, <3>1, <3>4, <4>1, LinkTypesKept DEF linkVars
    <3>6. BudgetInv'
      BY <1>4, <2>1, <3>1 DEF BudgetInv
    <3>7. PhaseInv'
      BY <1>4, <2>1, <3>1, <3>4 DEF PhaseInv, Empty
    <3> QED
      BY <3>5, <3>6, <3>7 DEF CaptureTypeInv
  <2> QED
    BY <2>3, <2>4
<1>20. CASE DecodeImage
  <2>1. /\ step = "decode" /\ image' = NoImage
        /\ UNCHANGED <<linkVars, tlsVars, cancel, sent, givenUp>>
    BY <1>20 DEF DecodeImage
  <2>2. /\ sent + Attempts - attempt <= Requests /\ attempt >= 1 /\ givenUp < sent
        /\ result = "none" /\ state = "CAPTURING"
    BY <1>2, <1>4, <2>1 DEF BudgetInv, PhaseInv
  <2>3. CASE step' = "idle" /\ state' = "ACTIVE" /\ result' \in {"OK", "CRC"}
             /\ plain' = Empty /\ attempt' = 0 /\ given' \in 0..Requests
    <3>1. CaptureTypeOK'
      BY <1>1, <1>2, <2>1, <2>3, EmptyFacts, LinkTypesKept DEF linkVars, tlsVars
    <3> QED
      BY <2>1, <2>2, <2>3, <3>1 DEF CaptureTypeInv, BudgetInv, PhaseInv
  <2>4. CASE /\ step' = "device" /\ attempt' = attempt + 1 /\ attempt < Attempts
             /\ plain' = Empty /\ given' = given
             /\ UNCHANGED <<state, result>>
    <3>1. attempt' \in 0..Attempts /\ attempt' >= 1
          /\ sent + Attempts - attempt' + 1 <= Requests
      BY <1>2, <1>3, <2>2, <2>4
    <3>2. CaptureTypeOK'
      BY <1>1, <1>2, <2>1, <2>4, <3>1, EmptyFacts, LinkTypesKept DEF linkVars, tlsVars
    <3> QED
      BY <2>1, <2>2, <2>4, <3>1, <3>2 DEF CaptureTypeInv, BudgetInv, PhaseInv
  <2>5. CASE CrcOk
    <3>1. image.req \in 0..Requests
      BY <1>2 DEF Image
    <3> QED
      BY <1>20, <2>3, <2>5, <3>1 DEF DecodeImage, End, StateAfter
  <2>6. CASE ~CrcOk
    <3>1. Fail("CRC") /\ given' = given
      BY <1>20, <2>6 DEF DecodeImage
    <3>2. CASE attempt < Attempts
      BY <2>4, <3>1, <3>2 DEF Fail
    <3>3. CASE ~(attempt < Attempts)
      BY <1>2, <2>3, <3>1, <3>3 DEF Fail, End, StateAfter
    <3> QED
      BY <3>2, <3>3
  <2> QED
    BY <2>5, <2>6
<1>21. CASE Reconnect
  <2>1. /\ state = "ACTIVE" /\ asked' = <<>> /\ wire' = <<>> /\ fifo' = <<>>
        /\ bio' = <<>> /\ lost' = FALSE /\ receiver' = TRUE /\ tls' = "ok"
        /\ cancel' = FALSE /\ sent' = 0 /\ given' = 0 /\ givenUp' = 0
        /\ result' = "none" /\ UNCHANGED <<state, step, attempt, plain, image>>
    BY <1>21 DEF Reconnect
  <2>2. step = "idle" /\ plain = Empty /\ image = NoImage
    BY <1>4, <2>1 DEF PhaseInv
  <2>3. <<>> \in Seq(1..Requests) /\ Len(<<>>) <= FifoRoom
    BY CaptureAssumption
  <2>4. CaptureTypeOK'
    BY <1>2, <2>1, <2>3, EmptyFacts DEF CaptureTypeOK
  <2> QED
    BY <2>1, <2>2, <2>4, EmptyFacts DEF CaptureTypeInv, BudgetInv, PhaseInv
<1>22. CASE UNCHANGED captureVars
  BY <1>1, <1>22, WorkerTypesKept DEF captureVars, linkVars, tlsVars
<1> QED
  BY <1>5, <1>6, <1>7, <1>8, <1>9, <1>10, <1>11, <1>12, <1>13, <1>14, <1>16, <1>17,
     <1>18, <1>19, <1>20, <1>21, <1>22 DEF CaptureNext, Worker

(***************************************************************************)
(* The line under each of the ways it changes.                             *)
(***************************************************************************)
LEMMA LineShrinks ==
    ASSUME NEW H, NEW B, NEW F, NEW W, NEW A, NEW n, Lined(H, B, F, W, A, n),
           NEW H1 \in SUBSET H, NEW B1 \in SUBSET B, NEW F1 \in SUBSET F,
           NEW W1 \in SUBSET W, NEW A1 \in SUBSET A
    PROVE  Lined(H1, B1, F1, W1, A1, n)
BY DEF Lined, Below

LEMMA LineAnswers ==
    ASSUME NEW H \in SUBSET Nat, NEW B \in SUBSET Nat, NEW F \in SUBSET Nat,
           NEW W \in SUBSET Nat, NEW A \in SUBSET Nat, NEW n \in Nat,
           Lined(H, B, F, W, A, n),
           NEW h \in Nat, 2 * h \in A,
           NEW A1 \in SUBSET A, Below({2 * h, 2 * h + 1}, A1),
           NEW W1 \in SUBSET Nat, W1 \subseteq W \cup {2 * h, 2 * h + 1}
    PROVE  Lined(H, B, F, W1, A1, n)
<1>1. \A k \in H \cup B \cup F \cup W : k < 2 * h /\ k < 2 * h + 1
  BY DEF Lined, Below
<1>2. 2 * h + 1 < 2 * n + 2
  <2>1. 2 * h < 2 * n + 2
    BY DEF Lined, Below
  <2> QED
    BY <2>1
<1>3. Below(H, B \cup F \cup W1 \cup A1)
  BY <1>1 DEF Lined, Below
<1>4. Below(B, F \cup W1 \cup A1) /\ Below(F, W1 \cup A1)
  BY <1>1 DEF Lined, Below
<1>5. Below(W1, A1)
  BY DEF Lined, Below
<1>6. Below(H \cup B \cup F \cup W1 \cup A1, {2 * n + 2})
  BY <1>2 DEF Lined, Below
<1> QED
  BY <1>3, <1>4, <1>5, <1>6 DEF Lined

LEMMA LineFiles ==
    ASSUME NEW H, NEW B, NEW F, NEW W, NEW A, NEW n, Lined(H, B, F, W, A, n),
           NEW w \in W, NEW W1 \in SUBSET W, Below({w}, W1)
    PROVE  Lined(H, B, F \cup {w}, W1, A, n)
BY DEF Lined, Below

LEMMA LineFetches ==
    ASSUME NEW H, NEW F, NEW W, NEW A, NEW n, Lined(H, {}, F, W, A, n),
           NEW B1 \in SUBSET F, NEW F1 \in SUBSET F, Below(B1, F1)
    PROVE  Lined(H, B1, F1, W, A, n)
BY DEF Lined, Below

LEMMA LineReads ==
    ASSUME NEW H, NEW B, NEW F, NEW W, NEW A, NEW n, Lined(H, B, F, W, A, n),
           NEW b \in B, NEW B1 \in SUBSET B, Below({b}, B1),
           NEW H1 \in SUBSET (H \cup {b})
    PROVE  Lined(H1, B1, F, W, A, n)
BY DEF Lined, Below

LEMMA LineAsks ==
    ASSUME NEW B \in SUBSET Nat, NEW F \in SUBSET Nat,
           NEW W \in SUBSET Nat, NEW A \in SUBSET Nat, NEW n \in Nat,
           Lined({}, B, F, W, A, n), NEW A1 \in SUBSET (A \cup {2 * (n + 1)})
    PROVE  Lined({}, B, F, W, A1, n + 1)
<1>1. \A k \in B \cup F \cup W \cup A : k < 2 * (n + 1) /\ k < 2 * (n + 1) + 2
  BY DEF Lined, Below
<1>2. \A k \in A1 : k \in Nat /\ k < 2 * (n + 1) + 2
  BY <1>1
<1>3. Below(B, F \cup W \cup A1) /\ Below(F, W \cup A1) /\ Below(W, A1)
  BY <1>1 DEF Lined, Below
<1> QED
  BY <1>1, <1>2, <1>3 DEF Lined, Below

LEMMA CaptureSets ==
    ASSUME CaptureTypeInv
    PROVE  /\ Ranks(plain.held) \in SUBSET Nat /\ Ranks(bio) \in SUBSET Nat
           /\ Ranks(fifo) \in SUBSET Nat /\ Ranks(wire) \in SUBSET Nat
           /\ Slots(asked) \in SUBSET Nat /\ sent \in Nat
           /\ \A k \in Slots(asked) : \E n \in 1..Requests : k = 2 * n
<1>1. /\ asked \in Seq(1..Requests) /\ wire \in Seq(Record) /\ fifo \in Seq(Record)
      /\ bio \in Seq(Record) /\ plain.held \in Seq(Record) /\ sent \in 0..Requests
  BY DEF CaptureTypeInv, CaptureTypeOK
<1>2. /\ Ranks(plain.held) \in SUBSET Nat /\ Ranks(bio) \in SUBSET Nat
      /\ Ranks(fifo) \in SUBSET Nat /\ Ranks(wire) \in SUBSET Nat
  BY <1>1, RanksAreNumbers
<1>3. \A k \in Slots(asked) : k \in Nat /\ \E n \in 1..Requests : k = 2 * n
  BY <1>1, SlotsAreNumbers
<1> QED
  BY <1>1, <1>2, <1>3

(***************************************************************************)
(* The oldest request's answer: what it adds to the wire.                  *)
(***************************************************************************)
LEMMA AnswerRanks ==
    ASSUME CaptureTypeInv, LineInv, Answer
    PROVE  LET h == Head(asked) IN
           /\ h \in Nat /\ 2 * h \in Slots(asked)
           /\ Slots(asked') \subseteq Slots(asked) /\ Rising(asked')
           /\ Below({2 * h, 2 * h + 1}, Slots(asked'))
           /\ wire' \in Seq(Record) /\ InLine(wire')
           /\ Ranks(wire') \subseteq Ranks(wire) \cup {2 * h, 2 * h + 1}
<1> DEFINE h == Head(asked)
<1>1. /\ asked \in Seq(1..Requests) /\ asked # <<>> /\ asked' = Tail(asked)
      /\ wire \in Seq(Record)
  BY DEF CaptureTypeInv, CaptureTypeOK, Answer
<1>2. /\ h \in 1..Requests /\ 2 * h \in Slots(asked)
      /\ Slots(asked') \subseteq Slots(asked) /\ Rising(asked')
      /\ Below({2 * h, 2 * h + 1}, Slots(asked'))
  BY <1>1, SlotsOfTail DEF LineInv
<1>3. h \in Nat
  BY <1>2, CaptureAssumption
<1>4. PICK good \in BOOLEAN :
         LET piece(part) == [req |-> h, part |-> part, good |-> good, gap |-> FALSE]
         IN  wire' \in {wire, Append(wire, piece("whole")),
                        wire \o <<piece("head"), piece("tail")>>}
  BY DEF Answer
<1> DEFINE piece(part) == [req |-> h, part |-> part, good |-> good, gap |-> FALSE]
<1>5. /\ piece("whole") \in Record /\ piece("head") \in Record /\ piece("tail") \in Record
      /\ piece("whole").req = h /\ piece("head").req = h /\ piece("tail").req = h
      /\ piece("whole").part = "whole" /\ piece("head").part = "head"
      /\ piece("tail").part = "tail"
  BY <1>2 DEF Record
<1> HIDE DEF piece
<1>6. wire' \in {wire, Append(wire, piece("whole")),
                 wire \o <<piece("head"), piece("tail")>>}
  BY <1>4 DEF piece
<1> HIDE DEF h
<1>7. /\ Rank(piece("whole")) = 2 * h /\ Rank(piece("head")) = 2 * h
      /\ Rank(piece("tail")) = 2 * h + 1
  BY <1>5, RankBounds
<1>8. Below(Ranks(wire), {2 * h}) /\ InLine(wire)
  BY <1>2 DEF LineInv, Lined, Below
<1>9. CASE wire' = wire
  BY <1>1, <1>2, <1>3, <1>8, <1>9 DEF h
<1>10. CASE wire' = Append(wire, piece("whole"))
  <2>1. /\ wire' \in Seq(Record) /\ InLine(wire')
        /\ Ranks(wire') = Ranks(wire) \cup {2 * h}
    BY <1>1, <1>5, <1>7, <1>8, <1>10, RanksOfAppend
  <2> QED
    BY <1>2, <1>3, <2>1 DEF h
<1>11. CASE wire' = wire \o <<piece("head"), piece("tail")>>
  <2> DEFINE s == Append(wire, piece("head"))
  <2>1. s \in Seq(Record) /\ InLine(s) /\ Ranks(s) = Ranks(wire) \cup {2 * h}
    BY <1>1, <1>5, <1>7, <1>8, RanksOfAppend
  <2>2. wire' = Append(s, piece("tail"))
    BY <1>1, <1>5, <1>11
  <2> HIDE DEF s
  <2>3. Ranks(wire) \subseteq Nat
    BY <1>1, RanksAreNumbers
  <2>4. Below(Ranks(s), {2 * h + 1})
    BY <1>3, <1>8, <2>1, <2>3 DEF Below
  <2>5. /\ wire' \in Seq(Record) /\ InLine(wire')
        /\ Ranks(wire') = Ranks(s) \cup {2 * h + 1}
    BY <1>5, <1>7, <2>1, <2>2, <2>4, RanksOfAppend
  <2> QED
    BY <1>2, <1>3, <2>1, <2>5 DEF h
<1> QED
  BY <1>6, <1>9, <1>10, <1>11

LEMMA CaptureStepInLine ==
    ASSUME CaptureTypeInv, CaptureTypeInv', LineInv, [CaptureNext]_captureVars
    PROVE  LineInv'
<1> DEFINE H == Ranks(plain.held)
           B == Ranks(bio)
           F == Ranks(fifo)
           W == Ranks(wire)
           A == Slots(asked)
<1>1. /\ asked \in Seq(1..Requests) /\ wire \in Seq(Record) /\ fifo \in Seq(Record)
      /\ bio \in Seq(Record) /\ lost \in BOOLEAN /\ plain.held \in Seq(Record)
  BY DEF CaptureTypeInv, CaptureTypeOK
<1>2. /\ H \in SUBSET Nat /\ B \in SUBSET Nat /\ F \in SUBSET Nat
      /\ W \in SUBSET Nat /\ A \in SUBSET Nat /\ sent \in Nat
  BY CaptureSets
<1>3. /\ InLine(bio) /\ InLine(fifo) /\ InLine(wire) /\ Rising(asked)
      /\ Lined(H, B, F, W, A, sent)
  BY DEF LineInv
<1>4. Ranks(Empty.held) = {}
  BY RanksOfNothing DEF Empty
<1> HIDE DEF H, B, F, W, A
<1>5. CASE Answer
  <2>1. LET h == Head(asked) IN
           /\ h \in Nat /\ 2 * h \in A
           /\ Slots(asked') \subseteq A /\ Rising(asked')
           /\ Below({2 * h, 2 * h + 1}, Slots(asked'))
           /\ wire' \in Seq(Record) /\ InLine(wire')
           /\ Ranks(wire') \subseteq W \cup {2 * h, 2 * h + 1}
    BY <1>5, AnswerRanks DEF A, W
  <2>2. /\ plain' = plain /\ bio' = bio /\ fifo' = fifo /\ sent' = sent
    BY <1>5 DEF Answer, tlsVars, workerVars, countVars
  <2>3. Ranks(wire') \in SUBSET Nat
    BY <2>1, RanksAreNumbers
  <2>4. Lined(H, B, F, Ranks(wire'), Slots(asked'), sent)
    BY <1>2, <1>3, <2>1, <2>3, LineAnswers
  <2> QED
    BY <1>3, <2>1, <2>2, <2>4 DEF LineInv, H, B, F
<1>6. CASE /\ UNCHANGED <<asked, bio, sent>> /\ plain' \in {plain, Empty}
           /\ wire' \in {wire, Tail(wire)} /\ (wire' = wire \/ wire # <<>>)
           /\ fifo' = fifo
  <2>1. Ranks(wire') \subseteq W /\ InLine(wire')
    BY <1>1, <1>3, <1>6, RanksOfTail DEF W
  <2>2. Ranks(plain'.held) \subseteq H
    BY <1>4, <1>6 DEF H
  <2>3. Lined(Ranks(plain'.held), B, F, Ranks(wire'), A, sent)
    BY <1>3, <2>1, <2>2, LineShrinks
  <2> QED
    BY <1>3, <1>6, <2>1, <2>3 DEF LineInv, B, F, A
<1>7. CASE FileRecord
  <2>1. /\ wire # <<>> /\ wire' = Tail(wire)
        /\ UNCHANGED <<asked, bio, plain, sent>>
    BY <1>7 DEF FileRecord, tlsVars, workerVars, countVars
  <2>2. CASE HasRoom
    <3> DEFINE r == Head(wire)
               c == [r EXCEPT !.gap = lost]
    <3>1. fifo' = Append(fifo, c)
      BY <1>7, <2>2 DEF FileRecord
    <3>2. /\ r \in Record /\ Rank(r) \in W /\ Ranks(wire') \subseteq W
          /\ InLine(wire') /\ Below({Rank(r)}, Ranks(wire'))
      BY <1>1, <1>3, <2>1, RanksOfTail DEF W
    <3>3. c \in Record /\ Rank(c) = Rank(r)
      BY <1>1, <3>2, RankOfCopy
    <3> HIDE DEF c, r
    <3>4. Below(F, {Rank(c)})
      BY <1>3, <3>2, <3>3 DEF Lined, Below
    <3>5. InLine(fifo') /\ Ranks(fifo') = F \cup {Rank(r)}
      BY <1>1, <1>3, <3>1, <3>3, <3>4, RanksOfAppend DEF F
    <3>6. Lined(H, B, F \cup {Rank(r)}, Ranks(wire'), A, sent)
      BY <1>3, <3>2, LineFiles
    <3> QED
      BY <1>3, <2>1, <3>2, <3>5, <3>6 DEF LineInv, H, B, A
  <2>3. CASE ~HasRoom
    <3>1. fifo' = fifo
      BY <1>7, <2>3 DEF FileRecord
    <3> QED
      BY <1>6, <2>1, <3>1
  <2> QED
    BY <2>2, <2>3
<1>8. CASE LoseRecord
  BY <1>6, <1>8 DEF LoseRecord, tlsVars, workerVars, countVars
<1>9. CASE ReceiverFails \/ RequestCancel \/ ClearCancel \/ Begin
  BY <1>6, <1>9 DEF ReceiverFails, RequestCancel, ClearCancel, Begin,
                    linkVars, tlsVars, workerVars, countVars
<1>10. CASE Look("device", "request") \/ Look("request", "send") \/ Look("wait", "read")
            \/ ReadTimeout
  BY <1>6, <1>10 DEF Look, ReadTimeout, linkVars, tlsVars, countVars
<1>11. CASE Cancelled
  BY <1>6, <1>11 DEF Cancelled, CancelledAfter, End, linkVars, tlsVars
<1>12. ASSUME GiveUp \/ Fail("CRC") \/ End("OK") PROVE plain' = Empty
  BY <1>12 DEF GiveUp, Fail, End
<1>13. CASE SendRequest
  <2>1. /\ sent' = sent + 1 /\ UNCHANGED <<wire, fifo, bio>> /\ step = "send"
        /\ asked' = asked \/ asked' = Append(asked, sent + 1)
        /\ plain' = plain \/ GiveUp
    BY <1>13 DEF SendRequest, Reached, tlsVars
  <2>2. plain = Empty /\ plain' = Empty /\ H = {} /\ Ranks(plain'.held) = {}
    <3>1. plain = Empty
      BY <2>1 DEF CaptureTypeInv, PhaseInv
    <3> QED
      BY <1>4, <1>12, <2>1, <3>1 DEF H
  <2>3. sent + 1 \in 1..Requests
    BY <2>1, CaptureAssumption DEF CaptureTypeInv, CaptureTypeOK
  <2>4. Below(A, {2 * (sent + 1)})
    <3>1. 2 * (sent + 1) = 2 * sent + 2
      BY <1>2
    <3> QED
      BY <1>3, <3>1 DEF Lined, Below
  <2>5. Slots(asked') \in SUBSET (A \cup {2 * (sent + 1)}) /\ Rising(asked')
    BY <1>1, <1>3, <2>1, <2>3, <2>4, SlotsOfAppend DEF A
  <2>6. Lined({}, B, F, W, Slots(asked'), sent + 1)
    BY <1>2, <1>3, <2>2, <2>5, LineAsks
  <2> QED
    BY <1>3, <2>1, <2>2, <2>5, <2>6 DEF LineInv, B, F, W
<1>14. CASE Deadline
  BY <1>6, <1>12, <1>14 DEF Deadline, linkVars, tlsVars
<1>15. CASE Fetch
  <2>1. /\ bio = <<>> /\ UNCHANGED <<asked, wire, plain, sent>>
    BY <1>15 DEF Fetch, workerVars, countVars
  <2>2. PICK n \in 1..Len(fifo) : /\ bio' = SubSeq(fifo, 1, n)
                                  /\ fifo' = SubSeq(fifo, n + 1, Len(fifo))
    BY <1>15 DEF Fetch
  <2>3. /\ InLine(bio') /\ InLine(fifo')
        /\ Ranks(bio') \subseteq F /\ Ranks(fifo') \subseteq F
        /\ Below(Ranks(bio'), Ranks(fifo'))
    BY <1>1, <1>3, <2>2, RanksOfParts DEF F
  <2>4. B = {}
    BY <2>1, RanksOfNothing DEF B
  <2>5. Lined(H, Ranks(bio'), Ranks(fifo'), W, A, sent)
    BY <1>3, <2>3, <2>4, LineFetches
  <2> QED
    BY <1>3, <2>1, <2>3, <2>5 DEF LineInv, H, W, A
<1>16. CASE ReadFails
  BY <1>6, <1>12, <1>16 DEF ReadFails, linkVars, tlsVars
<1>17. CASE /\ bio # <<>> /\ bio' = Tail(bio) /\ UNCHANGED <<linkVars, sent>>
            /\ Ranks(plain'.held) \subseteq H \cup {Rank(Head(bio))}
  <2>1. /\ Rank(Head(bio)) \in B /\ Ranks(bio') \subseteq B /\ InLine(bio')
        /\ Below({Rank(Head(bio))}, Ranks(bio'))
    BY <1>1, <1>3, <1>17, RanksOfTail DEF B
  <2>2. Lined(Ranks(plain'.held), Ranks(bio'), F, W, A, sent)
    BY <1>3, <1>17, <2>1, LineReads
  <2> QED
    BY <1>3, <1>17, <2>1, <2>2 DEF LineInv, F, W, A, linkVars
<1>18. CASE RefuseRecord
  <2>1. Ranks(plain'.held) = {}
    BY <1>4, <1>12, <1>18 DEF RefuseRecord
  <2> QED
    BY <1>17, <1>18, <2>1 DEF RefuseRecord
<1>19. CASE ReadRecord
  <2>1. bio # <<>> /\ bio' = Tail(bio) /\ UNCHANGED <<linkVars, sent>>
    BY <1>19 DEF ReadRecord
  <2>2. Head(bio) \in Record
    BY <1>1, <2>1, TailFacts
  <2>3. CASE Len(plain.held) >= StrayRoom
    <3>1. Ranks(plain'.held) = {}
      BY <1>4, <1>12, <1>19, <2>3 DEF ReadRecord
    <3> QED
      BY <1>17, <2>1, <3>1
  <2>4. CASE ~(Len(plain.held) >= StrayRoom)
    <3>1. PICK next \in Parsed(Head(bio)) :
             plain' = [wait |-> next.wait, held |-> next.held]
      BY <1>19, <2>4 DEF ReadRecord
    <3>2. next.held = <<>> \/ next.held = Append(plain.held, Head(bio))
      BY <2>2, <3>1, ParsedShape DEF CaptureTypeInv
    <3>3. Ranks(plain'.held) \subseteq H \cup {Rank(Head(bio))}
      BY <1>1, <2>2, <3>1, <3>2, RanksOfAppend, RanksOfNothing DEF H
    <3> QED
      BY <1>17, <2>1, <3>3
  <2> QED
    BY <2>3, <2>4
<1>20. CASE DecodeImage
  BY <1>6, <1>12, <1>20 DEF DecodeImage, linkVars, tlsVars
<1>21. CASE Reconnect
  <2>1. /\ asked' = <<>> /\ wire' = <<>> /\ fifo' = <<>> /\ bio' = <<>>
        /\ plain' = plain /\ state = "ACTIVE"
    BY <1>21 DEF Reconnect
  <2>2. Ranks(plain'.held) = {}
    BY <1>4, <2>1 DEF CaptureTypeInv, PhaseInv
  <2> QED
    BY <2>1, <2>2, RanksOfNothing DEF LineInv, Lined, Below
<1>22. CASE UNCHANGED captureVars
  BY <1>6, <1>22 DEF captureVars, linkVars, tlsVars, workerVars, countVars
<1> QED
  BY <1>5, <1>7, <1>8, <1>9, <1>10, <1>11, <1>13, <1>14, <1>15, <1>16,
     <1>18, <1>19, <1>20, <1>21, <1>22 DEF CaptureNext, Worker

(***************************************************************************)
(* What every step but the parser's and an image's end does to the ranks   *)
(* pending: some go, some later ones come, and a new request's is behind   *)
(* them all.                                                               *)
(***************************************************************************)
Later == \A k \in Pending' : /\ k \in Nat
                             /\ \/ k \in Pending
                                \/ \E j \in Pending : j < k
                                \/ k = 2 * sent + 2 /\ plain = Empty

LEMMA FloorBounds ==
    ASSUME CaptureTypeInv
    PROVE  /\ Floor \in Nat /\ Floor <= sent /\ given \in Nat /\ sent \in Nat
           /\ givenUp \in Nat /\ image.req \in Nat /\ Pending \subseteq Nat
           /\ Ranks(plain.held) \subseteq Nat
           /\ plain = Empty => Ranks(plain.held) = {}
<1>1. /\ sent \in 0..Requests /\ givenUp \in 0..Requests /\ given \in 0..Requests
      /\ image \in Image /\ BudgetInv
  BY DEF CaptureTypeInv, CaptureTypeOK
<1>2. sent \in Nat /\ givenUp \in Nat /\ given \in Nat /\ image.req \in Nat
  BY <1>1, CaptureAssumption DEF Image
<1>3. Floor \in Nat /\ Floor <= sent
  BY <1>1, <1>2 DEF Floor, BudgetInv
<1>4. Pending \subseteq Nat /\ Ranks(plain.held) \subseteq Nat
  BY CaptureSets DEF Pending
<1>5. Ranks(Empty.held) = {}
  BY RanksOfNothing DEF Empty
<1> QED
  BY <1>2, <1>3, <1>4, <1>5

LEMMA FreshKept ==
    ASSUME CaptureTypeInv, CaptureTypeInv', FreshInv, Later,
           Floor' = Floor, given' = given, sent' \in {sent, sent + 1},
           plain' \in {plain, Empty}, image' \in {image, NoImage}
    PROVE  FreshInv'
<1>1. /\ Floor \in Nat /\ Floor <= sent /\ given \in Nat /\ sent \in Nat
      /\ image.req \in Nat /\ Pending \subseteq Nat /\ Ranks(plain.held) \subseteq Nat
  BY FloorBounds
<1>2. NoImage.req = 0 /\ Ranks(Empty.held) = {}
  BY RanksOfNothing DEF NoImage, Empty
<1>3. image'.req \in {0, image.req}
  BY <1>2
<1>4. given <= sent /\ image.req <= sent
  BY DEF FreshInv
<1>5. ASSUME NEW n \in Nat, n <= sent, Fresh(n)
      PROVE  Below({2 * n}, Pending')
  <2> SUFFICES ASSUME NEW k \in Pending' PROVE 2 * n < k
    BY DEF Below
  <2>1. \A j \in Pending : 2 * n < j /\ j \in Nat
    BY <1>1, <1>5 DEF Fresh, Below
  <2>2. k \in Nat /\ (k \in Pending \/ (\E j \in Pending : j < k) \/ k = 2 * sent + 2)
    BY DEF Later
  <2> QED
    BY <1>1, <1>5, <2>1, <2>2
<1>6. ASSUME NEW n \in Nat, plain # Empty, plain' = plain, Clean(n)
      PROVE  Below({2 * n + 1}, Ranks(plain'.held) \cup Pending')
  <2>1. \A j \in Pending : 2 * n + 1 < j /\ j \in Nat
    BY <1>1, <1>6 DEF Clean, Below
  <2>2. ASSUME NEW k \in Pending' PROVE 2 * n + 1 < k
    <3>1. k \in Nat /\ (k \in Pending \/ \E j \in Pending : j < k)
      BY <1>6 DEF Later
    <3> QED
      BY <2>1, <3>1
  <2> QED
    BY <1>6, <2>2 DEF Clean, Below
<1>7. Below({2 * Floor'}, Pending') /\ Below({2 * given'}, Pending')
  BY <1>1, <1>4, <1>5 DEF FreshInv
<1>8. Below({2 * image'.req}, Pending')
  <2>1. Fresh(0)
    BY <1>1 DEF FreshInv, Fresh, Below
  <2> QED
    BY <1>1, <1>3, <1>4, <1>5, <2>1 DEF FreshInv
<1>9. plain' # Empty => /\ Below({2 * Floor' + 1}, Ranks(plain'.held) \cup Pending')
                        /\ Below({2 * given' + 1}, Ranks(plain'.held) \cup Pending')
  BY <1>1, <1>6 DEF FreshInv
<1>10. given' <= sent' /\ image'.req <= sent'
  BY <1>1, <1>3, <1>4
<1>11. image'.req # 0 => image'.req >= Floor' /\ image'.req > given'
  BY <1>3 DEF FreshInv
<1> QED
  BY <1>7, <1>8, <1>9, <1>10, <1>11 DEF FreshInv, Fresh, Clean

(***************************************************************************)
(* The parser: a record at its end starts where it may, so an image's      *)
(* rank is not lower than what came first, and a false frame has taken     *)
(* at least one record.                                                    *)
(***************************************************************************)
LEMMA ReadKeepsFresh ==
    ASSUME CaptureTypeInv, CaptureTypeInv', LineInv, FreshInv,
           step = "read", bio # <<>>, bio' = Tail(bio),
           UNCHANGED <<linkVars, sent, given, givenUp>>,
           NEW next \in Parsed(Head(bio)),
           plain' = [wait |-> next.wait, held |-> next.held],
           image' = next.image,
           step' = IF next.image.found THEN "decode" ELSE "wait"
    PROVE  FreshInv'
<1> DEFINE r == Head(bio)
           held == Append(plain.held, r)
           p == Rank(r)
<1>1. /\ Floor \in Nat /\ Floor <= sent /\ given \in Nat /\ sent \in Nat
      /\ givenUp \in Nat /\ Pending \subseteq Nat /\ Ranks(plain.held) \subseteq Nat
  BY FloorBounds
<1>2. bio \in Seq(Record) /\ plain.held \in Seq(Record) /\ CaptureTypeOK
  BY DEF CaptureTypeInv, CaptureTypeOK
<1>3. InLine(bio)
  BY DEF LineInv
<1>4. /\ r \in Record /\ p \in Ranks(bio) /\ Ranks(bio') \subseteq Ranks(bio)
      /\ Below({p}, Ranks(bio'))
  BY <1>2, <1>3, RanksOfTail
<1>5. held \in Seq(Record) /\ Ranks(held) = Ranks(plain.held) \cup {p}
  BY <1>2, <1>4, RanksOfAppend
<1>6. /\ next.held = <<>> \/ next.held = held
      /\ next.image \in Image
      /\ next.image.found => next.wait = 0 /\ next.held = <<>>
      /\ ~next.image.found => next.image = NoImage
      /\ next.image.req # 0 => next.image.found /\ next.image.req = held[1].req
      /\ plain.wait = 0 /\ plain.held = <<>> /\ next.image.found => r.part # "tail"
  BY <1>2, <1>4, ParsedShape
<1>7. /\ p \in Nat /\ p \in Pending /\ r.req \in Nat
      /\ r.part = "tail" => p = 2 * r.req + 1
      /\ r.part # "tail" => p = 2 * r.req
  <2>1. r.req \in 1..Requests
    BY <1>4, RankBounds
  <2>2. r.req \in Nat
    BY <2>1, CaptureAssumption
  <2> QED
    BY <1>4, <2>2, RankBounds DEF Pending
<1>8. Pending' \subseteq Pending /\ Below({p}, Pending')
  <2>1. Pending' = Ranks(bio') \cup Ranks(fifo) \cup Ranks(wire) \cup Slots(asked)
    BY DEF Pending, linkVars
  <2>2. Below({p}, Ranks(fifo) \cup Ranks(wire) \cup Slots(asked))
    BY <1>4 DEF LineInv, Lined, Below
  <2> QED
    BY <1>4, <2>1, <2>2 DEF Pending, Below
<1>9. Ranks(next.held) \subseteq Ranks(plain.held) \cup {p}
  BY <1>5, <1>6, RanksOfNothing
<1>10. held[1] \in Record /\ Rank(held[1]) \in Ranks(plain.held) \cup {p}
  <2>1. Len(held) >= 1 /\ Len(held) \in Nat
    BY <1>2, <1>4, AppendFacts
  <2>2. 1 \in 1..Len(held)
    BY <2>1
  <2> QED
    BY <1>5, <2>2 DEF Ranks
<1>11. plain = Empty \/ (plain # Empty /\ Clean(Floor) /\ Clean(given))
  BY DEF FreshInv
<1>12. plain = Empty => /\ plain.wait = 0 /\ plain.held = <<>>
                        /\ held[1] = r /\ Ranks(plain.held) = {}
  BY <1>2, <1>4, RanksOfNothing DEF Empty
<1> HIDE DEF r, held, p
<1>13. Below({2 * Floor}, Pending) /\ Below({2 * given}, Pending) /\ given <= sent
  BY DEF FreshInv, Fresh
\* A threshold that held of everything pending.
<1>14. ASSUME NEW n \in Nat, Fresh(n), plain = Empty \/ Clean(n)
       PROVE  /\ Below({2 * n + 1}, Pending')
              /\ Below({2 * n + 1}, Ranks(next.held))
              /\ next.image.found => Below({2 * (n + 1)}, Pending')
              /\ next.image.req # 0 => next.image.req > n
  <2>1. \A k \in Pending' : k \in Nat /\ p < k
    BY <1>1, <1>8 DEF Below
  <2>2. 2 * n < p
    BY <1>7, <1>14 DEF Fresh, Below
  <2>3. CASE plain = Empty
    <3>1. Below({2 * n + 1}, Pending')
      BY <1>7, <2>1, <2>2 DEF Below
    <3>2. r.part # "tail" => p >= 2 * (n + 1) /\ r.req > n
      BY <1>7, <2>2
    <3>3. next.image.found => Below({2 * (n + 1)}, Pending')
      BY <1>6, <1>7, <1>12, <2>1, <2>3, <3>2 DEF Below
    <3>4. next.image.req # 0 => next.image.req > n
      BY <1>6, <1>12, <2>3, <3>2
    <3>5. Below({2 * n + 1}, Ranks(next.held))
      <4>1. CASE next.held = <<>>
        BY <4>1, RanksOfNothing DEF Below
      <4>2. CASE next.held # <<>>
        <5>1. r.part # "tail"
          <6> SUFFICES ASSUME r.part = "tail" PROVE FALSE
            OBVIOUS
          <6>1. next = FromStart(<<>>) \/ next \in Waits(<<>>)
            BY <1>12, <2>3 DEF Parsed, r
          <6>2. next.held = <<>>
            BY <6>1 DEF FromStart, Waits
          <6> QED
            BY <4>2, <6>2
        <5> QED
          BY <1>7, <1>9, <1>12, <2>3, <3>2, <5>1 DEF Below
      <4> QED
        BY <4>1, <4>2
    <3> QED
      BY <3>1, <3>3, <3>4, <3>5
  <2>4. CASE Clean(n)
    <3>1. 2 * n + 1 < p /\ \A k \in Ranks(plain.held) \cup {p} : 2 * n + 1 < k
      BY <1>7, <2>4 DEF Clean, Below
    <3>2. Below({2 * n + 1}, Pending') /\ Below({2 * (n + 1)}, Pending')
      BY <1>7, <2>1, <3>1 DEF Below
    <3>3. Below({2 * n + 1}, Ranks(next.held))
      BY <1>9, <3>1 DEF Below
    <3>4. held[1].req > n
      <4>1. 2 * n + 1 < Rank(held[1])
        BY <1>10, <3>1
      <4>2. /\ held[1].req \in Nat
            /\ Rank(held[1]) = 2 * held[1].req \/ Rank(held[1]) = 2 * held[1].req + 1
        BY <1>10, RankBounds, CaptureAssumption
      <4> QED
        BY <4>1, <4>2
    <3> QED
      BY <1>6, <3>2, <3>3, <3>4
  <2> QED
    BY <1>14, <2>3, <2>4
<1>15. /\ Below({2 * Floor + 1}, Pending') /\ Below({2 * given + 1}, Pending')
       /\ Below({2 * Floor + 1}, Ranks(next.held))
       /\ Below({2 * given + 1}, Ranks(next.held))
       /\ next.image.found => Below({2 * (Floor + 1)}, Pending')
       /\ next.image.req # 0 => next.image.req > Floor /\ next.image.req > given
  BY <1>1, <1>11, <1>13, <1>14 DEF Fresh
<1>16. /\ Floor' = IF next.image.found THEN Floor + 1 ELSE Floor
       /\ given' = given /\ sent' = sent
  BY <1>1 DEF Floor
<1>17. Pending' \subseteq Nat /\ next.image.req \in Nat
  BY <1>1, <1>6, <1>8, CaptureAssumption DEF Image
<1>18. Fresh(Floor)' /\ Fresh(given)'
  <2>1. Below({2 * Floor}, Pending') /\ Below({2 * given}, Pending')
    BY <1>8, <1>13 DEF Below
  <2> QED
    BY <1>15, <1>16, <2>1 DEF Fresh
<1>19. Below({2 * next.image.req}, Pending') /\ next.image.req <= sent
  <2>1. CASE next.image.req = 0
    <3>1. \A k \in Pending' : k \in Nat /\ 2 * given < k
      BY <1>8, <1>13, <1>17 DEF Below
    <3>2. \A k \in Pending' : 0 < k
      BY <1>1, <3>1
    <3>3. 2 * next.image.req = 0
      BY <2>1
    <3> QED
      BY <1>1, <2>1, <3>2, <3>3 DEF Below
  <2>2. CASE next.image.req # 0
    <3>1. next.image.req = held[1].req
      BY <1>6, <2>2
    <3>2. held[1].req \in Nat /\ 2 * held[1].req <= Rank(held[1])
      BY <1>10, RankBounds, CaptureAssumption
    <3>3. Below(Ranks(plain.held) \cup {p}, Pending')
      <4>1. Below(Ranks(plain.held), Pending)
        BY DEF LineInv, Lined, Pending
      <4> QED
        BY <1>8, <4>1 DEF Below
    <3>4. Rank(held[1]) < 2 * sent + 2
      BY <1>7, <1>10 DEF LineInv, Lined, Below, Pending
    <3>5. Rank(held[1]) \in Nat
      BY <1>10, RankBounds
    <3>6. Below({Rank(held[1])}, Pending')
      BY <1>10, <3>3 DEF Below
    <3>7. Below({2 * held[1].req}, Pending')
      BY <1>17, <3>2, <3>5, <3>6 DEF Below
    <3>8. held[1].req <= sent
      BY <1>1, <3>2, <3>4, <3>5
    <3> QED
      BY <3>1, <3>7, <3>8
  <2> QED
    BY <2>1, <2>2
<1>20. plain' # Empty => ~next.image.found
  BY <1>6 DEF Empty
<1>21. plain' # Empty => Clean(Floor)' /\ Clean(given)'
  <2>1. ~next.image.found => Floor' = Floor
    BY <1>16
  <2>2. plain'.held = next.held
    OBVIOUS
  <2>3. Below({2 * Floor + 1}, Ranks(next.held) \cup Pending')
    BY <1>15 DEF Below
  <2>4. Below({2 * given + 1}, Ranks(next.held) \cup Pending')
    BY <1>15 DEF Below
  <2> QED
    BY <1>16, <1>20, <2>1, <2>2, <2>3, <2>4 DEF Clean
<1>22. Fresh(image.req)'
  BY <1>19 DEF Fresh
<1>23. image'.req # 0 => image'.req >= Floor' /\ image'.req > given'
  BY <1>1, <1>15, <1>16, <1>17
<1>24. given' <= sent' /\ image'.req <= sent'
  BY <1>13, <1>16, <1>19
<1> QED
  BY <1>18, <1>21, <1>22, <1>23, <1>24 DEF FreshInv

LEMMA LaterOfSubset ==
    ASSUME CaptureTypeInv, Pending' \subseteq Pending
    PROVE  Later
BY FloorBounds DEF Later

LEMMA CaptureStepFresh ==
    ASSUME CaptureTypeInv, CaptureTypeInv', LineInv, FreshInv,
           [CaptureNext]_captureVars
    PROVE  FreshInv'
<1>1. /\ asked \in Seq(1..Requests) /\ wire \in Seq(Record) /\ fifo \in Seq(Record)
      /\ bio \in Seq(Record) /\ lost \in BOOLEAN
  BY DEF CaptureTypeInv, CaptureTypeOK
<1>2. /\ Floor \in Nat /\ given \in Nat /\ sent \in Nat /\ givenUp \in Nat
      /\ Pending \subseteq Nat
  BY FloorBounds
<1>3. BudgetInv /\ PhaseInv
  BY DEF CaptureTypeInv
<1>4. CASE /\ Pending' \subseteq Pending /\ Floor' = Floor /\ given' = given /\ sent' = sent
           /\ plain' \in {plain, Empty} /\ image' \in {image, NoImage}
  BY <1>4, LaterOfSubset, FreshKept
<1>5. CASE /\ Pending' \subseteq Pending /\ UNCHANGED <<workerVars, countVars>>
  BY <1>4, <1>5 DEF workerVars, countVars, Floor
<1>6. CASE Answer
  <2>1. LET h == Head(asked) IN
           /\ h \in Nat /\ 2 * h \in Slots(asked)
           /\ Slots(asked') \subseteq Slots(asked)
           /\ Ranks(wire') \subseteq Ranks(wire) \cup {2 * h, 2 * h + 1}
    BY <1>6, AnswerRanks
  <2>2. bio' = bio /\ fifo' = fifo
    BY <1>6 DEF Answer, tlsVars
  <2>3. Later
    <3> SUFFICES ASSUME NEW k \in Pending'
                 PROVE  k \in Nat /\ (k \in Pending \/ \E j \in Pending : j < k)
      BY DEF Later
    <3>1. k \in Pending \/ k = 2 * Head(asked) + 1
      BY <2>1, <2>2 DEF Pending
    <3>2. 2 * Head(asked) \in Pending /\ 2 * Head(asked) < 2 * Head(asked) + 1
      BY <2>1 DEF Pending
    <3>3. 2 * Head(asked) + 1 \in Nat
      BY <2>1
    <3> QED
      BY <1>2, <3>1, <3>2, <3>3
  <2> QED
    BY <1>6, <2>3, FreshKept DEF Answer, workerVars, countVars, Floor
<1>7. CASE FileRecord
  <2>1. wire # <<>> /\ wire' = Tail(wire) /\ asked' = asked /\ bio' = bio
    BY <1>7 DEF FileRecord, tlsVars
  <2>2. /\ Head(wire) \in Record /\ Rank(Head(wire)) \in Ranks(wire)
        /\ Ranks(wire') \subseteq Ranks(wire)
    BY <1>1, <2>1, RanksOfTail
  <2>3. Ranks(fifo') \subseteq Ranks(fifo) \cup Ranks(wire)
    <3>1. CASE HasRoom
      <4> DEFINE c == [Head(wire) EXCEPT !.gap = lost]
      <4>1. fifo' = Append(fifo, c)
        BY <1>7, <3>1 DEF FileRecord
      <4>2. c \in Record /\ Rank(c) = Rank(Head(wire))
        BY <1>1, <2>2, RankOfCopy
      <4> HIDE DEF c
      <4>3. Ranks(fifo') = Ranks(fifo) \cup {Rank(c)}
        BY <1>1, <4>1, <4>2, RanksOfAppend
      <4> QED
        BY <2>2, <4>2, <4>3
    <3>2. CASE ~HasRoom
      BY <1>7, <3>2 DEF FileRecord
    <3> QED
      BY <3>1, <3>2
  <2>4. Pending' \subseteq Pending
    BY <2>1, <2>2, <2>3 DEF Pending
  <2> QED
    BY <1>5, <1>7, <2>4 DEF FileRecord
<1>8. CASE LoseRecord
  <2>1. Ranks(wire') \subseteq Ranks(wire)
    BY <1>1, <1>8, RanksOfTail DEF LoseRecord
  <2>2. Pending' \subseteq Pending
    BY <1>8, <2>1 DEF LoseRecord, Pending, tlsVars
  <2> QED
    BY <1>5, <1>8, <2>2 DEF LoseRecord
<1>9. CASE ReceiverFails \/ RequestCancel \/ ClearCancel
  <2>1. Pending' = Pending
    BY <1>9 DEF ReceiverFails, RequestCancel, ClearCancel, Pending, linkVars, tlsVars
  <2> QED
    BY <1>5, <1>9, <2>1 DEF ReceiverFails, RequestCancel, ClearCancel
<1>10. CASE Begin
  <2>1. Pending' = Pending
    BY <1>10 DEF Begin, Pending, linkVars, tlsVars
  <2>2. step = "idle" /\ step' = "device"
    BY <1>3, <1>10 DEF Begin, PhaseInv
  <2> QED
    BY <1>4, <1>10, <2>1, <2>2 DEF Begin, Floor, countVars
<1>11. CASE Look("device", "request") \/ Look("request", "send") \/ Look("wait", "read")
            \/ ReadTimeout
  <2>1. Pending' = Pending
    BY <1>11 DEF Look, ReadTimeout, Pending, linkVars, tlsVars
  <2>2. Floor' = Floor
    BY <1>11 DEF Look, ReadTimeout, Floor, countVars
  <2> QED
    BY <1>4, <1>11, <2>1, <2>2 DEF Look, ReadTimeout, countVars
<1>12. CASE Cancelled
  <2>1. /\ Pending' = Pending /\ step' = "idle" /\ plain' = Empty /\ image' = NoImage
        /\ given' = given /\ sent' = sent
        /\ \/ step \in {"device", "request"} /\ givenUp' = givenUp
           \/ step = "wait" /\ givenUp' = givenUp + 1
    BY <1>12 DEF Cancelled, CancelledAfter, End, Pending, linkVars, tlsVars
  <2>2. Floor' = Floor
    BY <1>2, <2>1 DEF Floor
  <2> QED
    BY <1>4, <2>1, <2>2
\* A request was sent when an attempt is given up.
<1>13. ASSUME GiveUp, step # "idle",
              \/ step \in {"wait", "read"} /\ sent' = sent
              \/ step = "send" /\ sent' = sent + 1
       PROVE  Floor' = Floor /\ given' = given /\ plain' = Empty /\ image' = NoImage
  <2>1. /\ step' \in {"idle", "device"} /\ given' = given /\ givenUp' = givenUp + 1
        /\ plain' = Empty /\ image' = NoImage
    BY <1>13 DEF GiveUp, Fail, End
  <2> QED
    BY <1>2, <1>13, <2>1 DEF Floor
<1>14. CASE SendRequest
  <2>1. /\ step = "send" /\ sent' = sent + 1 /\ UNCHANGED <<wire, fifo, bio>>
        /\ asked' = asked \/ asked' = Append(asked, sent + 1)
        /\ \/ /\ step' = "wait" /\ UNCHANGED <<plain, image, given, givenUp>>
           \/ GiveUp
    BY <1>14 DEF SendRequest, Reached, tlsVars
  <2>2. plain = Empty /\ sent + 1 \in 1..Requests
    BY <2>1, CaptureAssumption DEF CaptureTypeInv, CaptureTypeOK, PhaseInv
  <2>3. Slots(asked') \subseteq Slots(asked) \cup {2 * sent + 2}
    <3>1. 2 * (sent + 1) = 2 * sent + 2
      BY <1>2
    <3> QED
      BY <1>1, <2>1, <2>2, <3>1, SlotsOfAppend
  <2>4. Later
    <3>1. Pending' \subseteq Pending \cup {2 * sent + 2}
      BY <2>1, <2>3 DEF Pending
    <3> QED
      BY <1>2, <2>2, <3>1 DEF Later
  <2>5. CASE step' = "wait" /\ UNCHANGED <<plain, image, given, givenUp>>
    <3>1. Floor' = Floor
      BY <1>2, <2>1, <2>5 DEF Floor
    <3> QED
      BY <2>1, <2>4, <2>5, <3>1, FreshKept
  <2>6. CASE GiveUp
    BY <1>13, <2>1, <2>4, <2>6, FreshKept
  <2> QED
    BY <2>1, <2>5, <2>6
<1>15. CASE /\ step \in {"wait", "read"} /\ GiveUp /\ Pending' \subseteq Pending
            /\ sent' = sent
  BY <1>4, <1>13, <1>15
<1>16. CASE Deadline \/ ReadFails
  <2>1. Pending' = Pending
    BY <1>16 DEF Deadline, ReadFails, Pending, linkVars, tlsVars
  <2> QED
    BY <1>15, <1>16, <2>1 DEF Deadline, ReadFails
<1>17. CASE Fetch
  <2>1. PICK n \in 1..Len(fifo) : /\ bio' = SubSeq(fifo, 1, n)
                                  /\ fifo' = SubSeq(fifo, n + 1, Len(fifo))
    BY <1>17 DEF Fetch
  <2>2. Ranks(bio') \subseteq Ranks(fifo) /\ Ranks(fifo') \subseteq Ranks(fifo)
    BY <1>1, <2>1, RanksOfParts DEF LineInv
  <2>3. Pending' \subseteq Pending
    BY <1>17, <2>2 DEF Fetch, Pending
  <2> QED
    BY <1>5, <1>17, <2>3 DEF Fetch
<1>18. ASSUME bio # <<>>, bio' = Tail(bio), UNCHANGED linkVars
       PROVE  Pending' \subseteq Pending
  <2>1. Ranks(bio') \subseteq Ranks(bio)
    BY <1>1, <1>18, RanksOfTail
  <2> QED
    BY <1>18, <2>1 DEF Pending, linkVars
<1>19. CASE RefuseRecord
  BY <1>15, <1>18, <1>19 DEF RefuseRecord
<1>20. CASE ReadRecord
  <2>1. /\ step = "read" /\ bio # <<>> /\ bio' = Tail(bio)
        /\ UNCHANGED <<linkVars, sent>>
    BY <1>20 DEF ReadRecord
  <2>2. CASE Len(plain.held) >= StrayRoom
    BY <1>15, <1>18, <1>20, <2>1, <2>2 DEF ReadRecord
  <2>3. CASE ~(Len(plain.held) >= StrayRoom)
    <3>1. PICK next \in Parsed(Head(bio)) :
             /\ plain' = [wait |-> next.wait, held |-> next.held]
             /\ image' = next.image
             /\ step' = IF next.image.found THEN "decode" ELSE "wait"
             /\ UNCHANGED <<state, attempt, result, given, givenUp>>
      BY <1>20, <2>3 DEF ReadRecord
    <3> QED
      BY <2>1, <3>1, ReadKeepsFresh
  <2> QED
    BY <2>2, <2>3
<1>21. CASE DecodeImage
  <2>1. /\ step = "decode" /\ image' = NoImage /\ plain' = Empty
        /\ step' \in {"idle", "device"} /\ sent' = sent /\ givenUp' = givenUp
        /\ UNCHANGED <<linkVars, tlsVars>>
    BY <1>21 DEF DecodeImage, Fail, End
  <2>2. Floor' = Floor /\ Pending' = Pending
    BY <2>1 DEF Floor, Pending, linkVars, tlsVars
  <2>3. CASE CrcOk
    <3>1. given' = image.req
      BY <1>21, <2>3 DEF DecodeImage
    <3>2. Below({2 * Floor}, Pending) /\ Below({2 * image.req}, Pending)
      BY DEF FreshInv, Fresh
    <3>3. NoImage.req = 0 /\ image.req \in Nat /\ image.req <= sent
      BY FloorBounds DEF NoImage, FreshInv
    <3>4. Below({2 * 0}, Pending)
      BY <1>2, <3>2 DEF Below
    <3> QED
      BY <1>2, <2>1, <2>2, <3>1, <3>2, <3>3, <3>4 DEF FreshInv, Fresh
  <2>4. CASE ~CrcOk
    BY <1>4, <1>21, <2>1, <2>2, <2>4 DEF DecodeImage
  <2> QED
    BY <2>3, <2>4
<1>22. CASE Reconnect
  <2>1. /\ state = "ACTIVE" /\ asked' = <<>> /\ wire' = <<>> /\ fifo' = <<>>
        /\ bio' = <<>> /\ sent' = 0 /\ given' = 0 /\ givenUp' = 0
        /\ UNCHANGED <<step, plain, image>>
    BY <1>22 DEF Reconnect
  <2>2. step = "idle" /\ plain = Empty /\ image = NoImage /\ NoImage.req = 0
    BY <1>3, <2>1 DEF PhaseInv, NoImage
  <2>3. Pending' = {}
    BY <2>1, RanksOfNothing DEF Pending
  <2> QED
    BY <2>1, <2>2, <2>3 DEF FreshInv, Fresh, Below, Floor
<1>23. CASE UNCHANGED captureVars
  <2>1. Pending' = Pending
    BY <1>23 DEF captureVars, Pending, linkVars, tlsVars
  <2> QED
    BY <1>5, <1>23, <2>1 DEF captureVars
<1> QED
  BY <1>6, <1>7, <1>8, <1>9, <1>10, <1>11, <1>12, <1>14, <1>16, <1>17,
     <1>19, <1>20, <1>21, <1>22, <1>23 DEF CaptureNext, Worker

(***************************************************************************)
(* An image is handed out in one place, and the counters move only while   *)
(* no result stands.                                                       *)
(***************************************************************************)
LEMMA CaptureStepLag ==
    ASSUME CaptureTypeInv, FreshInv, LagIsGivenUp, [CaptureNext]_captureVars
    PROVE  /\ LagIsGivenUp'
           /\ ~Reconnect => /\ given' >= given
                            /\ result' = "OK" /\ result # "OK" => given' > given
<1>1. given \in Nat /\ sent \in Nat /\ givenUp \in Nat /\ image.req \in Nat
  BY FloorBounds
<1>2. CASE UNCHANGED <<result, sent, given, givenUp>>
  BY <1>1, <1>2 DEF LagIsGivenUp
<1>3. CASE result' # "OK" /\ given' = given
  BY <1>1, <1>3 DEF LagIsGivenUp
<1>4. CASE Answer \/ FileRecord \/ LoseRecord \/ ReceiverFails \/ RequestCancel
           \/ ClearCancel \/ Fetch
  BY <1>2, <1>4 DEF Answer, FileRecord, LoseRecord, ReceiverFails, RequestCancel,
                    ClearCancel, Fetch, workerVars, countVars
<1>5. CASE Begin
  BY <1>3, <1>5 DEF Begin, countVars
<1>6. CASE Look("device", "request") \/ Look("request", "send") \/ Look("wait", "read")
           \/ ReadTimeout
  BY <1>2, <1>6 DEF Look, ReadTimeout, countVars
<1>7. CASE Cancelled
  BY <1>3, <1>7 DEF Cancelled, CancelledAfter, End
<1>8. ASSUME GiveUp, step # "idle" PROVE result' # "OK" /\ given' = given
  <2>1. result = "none"
    BY <1>8 DEF CaptureTypeInv, PhaseInv
  <2> QED
    BY <1>8, <2>1 DEF GiveUp, Fail, End
<1>9. CASE SendRequest
  <2>1. step = "send" /\ result = "none"
    BY <1>9 DEF SendRequest, CaptureTypeInv, PhaseInv
  <2>2. GiveUp \/ UNCHANGED <<result, given>>
    BY <1>9 DEF SendRequest
  <2> QED
    BY <1>3, <1>8, <2>1, <2>2
<1>10. CASE Deadline \/ ReadFails \/ RefuseRecord
  BY <1>3, <1>8, <1>10 DEF Deadline, ReadFails, RefuseRecord
<1>11. CASE ReadRecord
  <2>1. step = "read"
    BY <1>11 DEF ReadRecord
  <2>2. GiveUp \/ UNCHANGED <<result, sent, given, givenUp>>
    BY <1>11 DEF ReadRecord
  <2> QED
    BY <1>2, <1>3, <1>8, <2>1, <2>2
<1>12. CASE DecodeImage
  <2>1. step = "decode" /\ result = "none" /\ sent' = sent /\ givenUp' = givenUp
    BY <1>12 DEF DecodeImage, CaptureTypeInv, PhaseInv
  <2>2. CASE CrcOk
    <3>1. given' = image.req /\ result' = "OK" /\ image.req # 0
      BY <1>12, <2>2 DEF DecodeImage, End, CrcOk
    <3>2. image.req >= sent - givenUp /\ image.req > given
      BY <2>1, <3>1 DEF FreshInv, Floor
    <3> QED
      BY <1>1, <2>1, <3>1, <3>2 DEF LagIsGivenUp
  <2>3. CASE ~CrcOk
    <3>1. Fail("CRC") /\ given' = given
      BY <1>12, <2>3 DEF DecodeImage
    <3>2. result' # "OK"
      BY <2>1, <3>1 DEF Fail, End
    <3> QED
      BY <1>3, <3>1, <3>2
  <2> QED
    BY <2>2, <2>3
<1>13. CASE Reconnect
  BY <1>13 DEF Reconnect, LagIsGivenUp
<1>14. CASE UNCHANGED captureVars
  BY <1>2, <1>14 DEF captureVars, workerVars, countVars
<1> QED
  BY <1>4, <1>5, <1>6, <1>7, <1>9, <1>10, <1>11, <1>12, <1>13, <1>14
     DEF CaptureNext, Worker

LEMMA CaptureInitHolds == CaptureInit => CaptureInv
<1> SUFFICES ASSUME CaptureInit PROVE CaptureInv
  OBVIOUS
<1>1. CaptureTypeInv
  BY CaptureInitTypes
<1>2. /\ asked = <<>> /\ wire = <<>> /\ fifo = <<>> /\ bio = <<>> /\ plain = Empty
      /\ sent = 0 /\ given = 0 /\ givenUp = 0 /\ step = "idle" /\ image = NoImage
      /\ result = "none"
  BY DEF CaptureInit
<1>3. Pending = {} /\ Ranks(plain.held) = {}
  BY <1>2, RanksOfNothing DEF Pending, Empty
<1>4. LineInv
  BY <1>2, <1>3, RanksOfNothing DEF LineInv, Lined, Below
<1>5. FreshInv
  BY <1>2, <1>3 DEF FreshInv, Fresh, Clean, Below, Floor, NoImage
<1>6. LagIsGivenUp
  BY <1>2 DEF LagIsGivenUp
<1> QED
  BY <1>1, <1>4, <1>5, <1>6 DEF CaptureInv

LEMMA CaptureStepHolds == CaptureInv /\ [CaptureNext]_captureVars => CaptureInv'
<1> SUFFICES ASSUME CaptureInv, [CaptureNext]_captureVars PROVE CaptureInv'
  OBVIOUS
<1>1. CaptureTypeInv /\ LineInv /\ FreshInv /\ LagIsGivenUp
  BY DEF CaptureInv
<1>2. CaptureTypeInv'
  BY <1>1, CaptureStepTypes
<1>3. LineInv'
  BY <1>1, <1>2, CaptureStepInLine
<1>4. FreshInv'
  BY <1>1, <1>2, CaptureStepFresh
<1>5. LagIsGivenUp'
  BY <1>1, CaptureStepLag
<1> QED
  BY <1>2, <1>3, <1>4, <1>5 DEF CaptureInv

(***************************************************************************)
(* The invariant holds throughout.                                         *)
(***************************************************************************)
THEOREM CaptureInvariant == CaptureSpec => []CaptureInv
<1>1. CaptureInit => CaptureInv
  BY CaptureInitHolds
<1>2. CaptureInv /\ [CaptureNext]_captureVars => CaptureInv'
  BY CaptureStepHolds
<1> QED
  BY <1>1, <1>2, PTL DEF CaptureSpec

(***************************************************************************)
(* The types of the queues, of the counters and of what the parser keeps.  *)
(***************************************************************************)
THEOREM CaptureTypeCorrect == CaptureSpec => []CaptureTypeOK
<1>1. CaptureInv => CaptureTypeOK
  BY DEF CaptureInv, CaptureTypeInv
<1> QED
  BY <1>1, CaptureInvariant, PTL

(***************************************************************************)
(* An image is at most as many requests old as attempts were given up on   *)
(* this connection, whatever the sensor answers, drops or spoils.          *)
(***************************************************************************)
THEOREM LagIsBounded == CaptureSpec => []LagIsGivenUp
<1>1. CaptureInv => LagIsGivenUp
  BY DEF CaptureInv
<1> QED
  BY <1>1, CaptureInvariant, PTL

(***************************************************************************)
(* Images are handed out in the order of their requests, none twice.       *)
(***************************************************************************)
THEOREM ImagesKeepOrder == CaptureSpec => ImagesInOrder
<1> DEFINE Order == ~Reconnect => /\ given' >= given
                                  /\ result' = "OK" /\ result # "OK" => given' > given
<1>1. CaptureInv /\ [CaptureNext]_captureVars => [Order]_captureVars
  BY CaptureStepLag DEF CaptureInv
<1> QED
  BY <1>1, CaptureInvariant, PTL DEF CaptureSpec, ImagesInOrder
=============================================================================
