------------------------------- MODULE Framing -------------------------------
(***************************************************************************)
(* The two parsers that find frames in a byte stream which comes in pieces *)
(* and may have lost or gained bytes: gx_stream_parse for the outer frames *)
(* from USB, whose header has a checksum and whose payload has none, and   *)
(* gx_capture_parse_stream for the inner frames in the plaintext, which    *)
(* have a checksum at their end.  One action is one round of their loops.  *)
(*                                                                         *)
(* A byte is 0..Base-1, a length has two of them.  The history variables   *)
(* fed, offset and found relate the buffer to all that came in.            *)
(*                                                                         *)
(* Definitions named ...Mutant are wrong variants of the definition after  *)
(* them, kept to show that the properties notice the difference.           *)
(***************************************************************************)
EXTENDS Integers, Sequences, FiniteSets

CONSTANTS Base,          \* 256
          Families,      \* first bytes of outer frames: 0xa., 0xb., 0xc.
          Block,         \* GX5125_USB_BLOCK_SIZE
          MaxPayload,    \* GX5125_OUTER_MAX_PAYLOAD
          Target,        \* GX5125_INNER_CHECKSUM_TARGET
          Bypass,        \* GX5125_INNER_CHECKSUM_BYPASS
          ImageCommand,  \* command byte of an image, 0x20
          ImageData,     \* least length of an image's data
          StreamRoom,    \* GX5125_STREAM_CAPACITY
          PlainRoom,     \* GX_TLS_PLAINTEXT_STREAM_CAPACITY
          MaxChunk,      \* GX_RX_TRANSFER_CAPACITY, and the most of one SSL_read
          MaxFed         \* bound: bytes in all

Byte == 0..(Base - 1)

ASSUME FramingAssumption ==
    /\ Base \in Nat \ {0, 1}
    /\ Families \subseteq Byte
    /\ Block \in Nat \ {0}
    /\ MaxPayload \in 1..(Base * Base - 1)
    /\ Target \in Byte /\ Bypass \in Byte /\ ImageCommand \in Byte
    /\ ImageData \in Nat
    /\ MaxChunk \in Nat \ {0}
    /\ PlainRoom \in Nat
    /\ StreamRoom \in Nat
    /\ StreamRoom >= 4 + MaxPayload + MaxChunk
    /\ MaxFed \in Nat

VARIABLES
    layer,  \* which parser: "outer" or "plain"
    pc,     \* "read", "parse", or "done" when the capture has its image or fails
    stream, \* the buffer
    fed,    \* every byte that came in
    offset, \* how many of them have left the buffer
    found   \* the frames handed on, as positions in fed

vars == <<layer, pc, stream, fed, offset, found>>

TypeOK ==
    /\ layer \in {"outer", "plain"}
    /\ pc \in {"read", "parse", "done"}
    /\ stream \in Seq(Byte)
    /\ fed \in Seq(Byte)
    /\ offset \in 0..Len(fed)
    /\ found \subseteq (1..Len(fed)) \X (1..Len(fed))

Init ==
    /\ layer \in {"outer", "plain"}
    /\ pc = "read"
    /\ stream = <<>> /\ fed = <<>>
    /\ offset = 0 /\ found = {}

-----------------------------------------------------------------------------
(* The formats.                                                            *)

LengthAt(s, i) == s[i + 1] + Base * s[i + 2]

(***************************************************************************)
(* An outer header starts at position i of s.                              *)
(***************************************************************************)
OuterHeader(s, i) ==
    /\ i + 3 <= Len(s)
    /\ s[i] \in Families
    /\ LengthAt(s, i) <= MaxPayload
    /\ s[i + 3] = (s[i] + s[i + 1] + s[i + 2]) % Base

OuterSize(s, i) == 4 + LengthAt(s, i)

(***************************************************************************)
(* The parser of the plaintext looks at a position with this many bytes,   *)
(* and takes any length in range for a header.                             *)
(***************************************************************************)
PlainHeader(s, i) ==
    /\ i + 3 <= Len(s)
    /\ LengthAt(s, i) \in 1..MaxPayload

PlainSize(s, i) == 3 + LengthAt(s, i)

(***************************************************************************)
(* The lowest bit of a command byte says that no acknowledgement is        *)
(* wanted; neither the checksum nor the dispatch looks at it.              *)
(***************************************************************************)
Command(byte) == byte - (byte % 2)

SumOf(bytes) ==
    LET sum[i \in 0..Len(bytes)] == IF i = 0 THEN 0 ELSE sum[i - 1] + bytes[i]
    IN  sum[Len(bytes)]

Checksum(byte, rest) == (Target - Command(byte) - SumOf(rest)) % Base

InnerChecksum(frame) == Checksum(frame[1], SubSeq(frame, 2, Len(frame) - 1))

(***************************************************************************)
(* gx_inner_decode: the last byte of a frame is its checksum, or the byte  *)
(* that stands for none.                                                   *)
(***************************************************************************)
InnerOk(frame) == frame[Len(frame)] \in {Bypass, InnerChecksum(frame)}

IsImage(s, i) ==
    /\ Command(s[i]) = ImageCommand
    /\ LengthAt(s, i) - 1 >= ImageData

(***************************************************************************)
(* gx_inner_build, which refuses data that do not fit, and gx_outer_build, *)
(* which fills the last block with zeros.                                  *)
(***************************************************************************)
LengthBytes(n) == <<n % Base, n \div Base>>

MayBuild(data) == Len(data) + 4 <= MaxPayload

InnerBuild(byte, data) ==
    LET body == LengthBytes(Len(data) + 1) \o data
    IN  <<byte>> \o body \o <<Checksum(byte, body)>>

WireSize(length) == Block * ((4 + length + Block - 1) \div Block)

OuterHead(type, length) ==
    LET low  == length % Base
        high == length \div Base
    IN  <<type, low, high, (type + low + high) % Base>>

Padding(length) == [i \in 1..(WireSize(length) - (4 + length)) |-> 0]

OuterBuild(type, payload) ==
    OuterHead(type, Len(payload)) \o payload \o Padding(Len(payload))

-----------------------------------------------------------------------------
(* Bytes come in.                                                          *)

Room == IF layer = "outer" THEN StreamRoom ELSE PlainRoom

(***************************************************************************)
(* The receiver starts again with what has come; the capture ends.         *)
(***************************************************************************)
Overflow(chunk) ==
    IF layer = "outer"
    THEN /\ stream' = chunk
         /\ offset' = Len(fed)
         /\ pc' = "parse"
    ELSE /\ stream' = <<>>
         /\ offset' = Len(fed) + Len(chunk)
         /\ pc' = "done"

Feed(chunk) ==
    /\ pc = "read"
    /\ Len(fed) + Len(chunk) <= MaxFed
    /\ fed' = fed \o chunk
    /\ IF Len(stream) + Len(chunk) <= Room
       THEN /\ stream' = stream \o chunk
            /\ pc' = "parse"
            /\ UNCHANGED offset
       ELSE Overflow(chunk)
    /\ UNCHANGED <<layer, found>>

OneTooFarMutant(n) == SubSeq(stream, n + 2, Len(stream))

Remaining(n) == SubSeq(stream, n + 1, Len(stream))

Discard(n) ==
    /\ stream' = Remaining(n)
    /\ offset' = offset + n

-----------------------------------------------------------------------------
(* gx_stream_parse.                                                        *)

OuterStarts == {i \in 1..Len(stream) : OuterHeader(stream, i)}

(***************************************************************************)
(* Bytes that may be the beginning of a header are kept.                   *)
(***************************************************************************)
Kept == 3

OuterRound ==
    /\ layer = "outer" /\ pc = "parse"
    /\ IF OuterStarts = {}
       THEN /\ IF Len(stream) > Kept THEN Discard(Len(stream) - Kept)
               ELSE UNCHANGED <<stream, offset>>
            /\ pc' = "read"
            /\ UNCHANGED found
       ELSE \E i \in OuterStarts :
              /\ \A j \in OuterStarts : i <= j
              /\ LET size == OuterSize(stream, i)
                 IN  IF i + size - 1 > Len(stream)
                     THEN /\ Discard(i - 1)
                          /\ pc' = "read"
                          /\ UNCHANGED found
                     ELSE /\ Discard(i + size - 1)
                          /\ found' = found \cup {<<offset + i, size>>}
                          /\ UNCHANGED pc
    /\ UNCHANGED <<layer, fed>>

-----------------------------------------------------------------------------
(* gx_capture_parse_stream.                                                *)

WholeFrameMutant == PlainSize(stream, 1)

(***************************************************************************)
(* A frame with a wrong checksum may have been none.                       *)
(***************************************************************************)
AfterBadFrame == 1

PlainRound ==
    /\ layer = "plain" /\ pc = "parse"
    /\ \/ /\ Len(stream) < 4
          /\ pc' = "read"
          /\ UNCHANGED <<stream, offset, found>>
       \/ /\ Len(stream) >= 4 /\ ~PlainHeader(stream, 1)
          /\ Discard(1)
          /\ UNCHANGED <<pc, found>>
       \/ /\ PlainHeader(stream, 1)
          /\ Len(stream) < PlainSize(stream, 1)
          /\ pc' = "read"
          /\ UNCHANGED <<stream, offset, found>>
       \/ /\ PlainHeader(stream, 1)
          /\ Len(stream) >= PlainSize(stream, 1)
          /\ IF ~InnerOk(SubSeq(stream, 1, PlainSize(stream, 1)))
             THEN Discard(AfterBadFrame) /\ UNCHANGED <<pc, found>>
             ELSE /\ found' = found \cup {<<offset + 1, PlainSize(stream, 1)>>}
                  /\ IF IsImage(stream, 1)
                     THEN /\ pc' = "done"
                          /\ Discard(Len(stream))
                     ELSE /\ Discard(PlainSize(stream, 1))
                          /\ UNCHANGED pc
    /\ UNCHANGED <<layer, fed>>

Finished ==
    /\ pc = "done" \/ (pc = "read" /\ Len(fed) = MaxFed)
    /\ UNCHANGED vars

Chunks == UNION {[1..n -> Byte] : n \in 1..MaxChunk}

Next ==
    \/ \E chunk \in Chunks : Feed(chunk)
    \/ OuterRound
    \/ PlainRound
    \/ Finished

Spec == Init /\ [][Next]_vars
-----------------------------------------------------------------------------
(* What the session and a capture rely on.                                 *)

(***************************************************************************)
(* A frame of the layer stands in the bytes that came in.                  *)
(***************************************************************************)
FrameAt(i) ==
    IF layer = "outer"
    THEN OuterHeader(fed, i) /\ i + OuterSize(fed, i) - 1 <= Len(fed)
    ELSE /\ PlainHeader(fed, i)
         /\ i + PlainSize(fed, i) - 1 <= Len(fed)
         /\ InnerOk(SubSeq(fed, i, i + PlainSize(fed, i) - 1))

SizeAt(i) == IF layer = "outer" THEN OuterSize(fed, i) ELSE PlainSize(fed, i)

Under(i, start, size) == start < i /\ i < start + size

(***************************************************************************)
(* What is handed on are frames that came in, each once, none overlapping  *)
(* another, however the bytes were cut into reads.                         *)
(***************************************************************************)
FoundAreFrames ==
    \A f \in found :
        /\ FrameAt(f[1]) /\ f[2] = SizeAt(f[1])
        /\ \A g \in found : ~Under(g[1], f[1], f[2]) /\ (g[1] = f[1] => g = f)

(***************************************************************************)
(* The parsers find their place again: when they have read all that there  *)
(* is, a frame that came in has been handed on, unless a frame that was    *)
(* handed on covers its start, or a header that still waits for its        *)
(* length does.                                                            *)
(***************************************************************************)
Waiting(i) ==
    /\ offset + 4 <= Len(fed)
    /\ IF layer = "outer" THEN OuterHeader(fed, offset + 1)
                          ELSE PlainHeader(fed, offset + 1)
    /\ Under(i, offset + 1, SizeAt(offset + 1))

NoFrameMissed ==
    pc = "read" =>
        \A i \in 1..Len(fed) :
            FrameAt(i) => \/ \E f \in found : f[1] = i \/ Under(i, f[1], f[2])
                          \/ Waiting(i)

(***************************************************************************)
(* The buffer holds the latest bytes, and between two reads less than one  *)
(* frame: the reset of a full buffer, which would drop good frames, is     *)
(* never taken by the receiver.                                            *)
(***************************************************************************)
BufferIsTail ==
    /\ stream = SubSeq(fed, offset + 1, Len(fed))
    /\ pc = "read" => Len(stream) < 4 + MaxPayload
=============================================================================
