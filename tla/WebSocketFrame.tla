---------------------------- MODULE WebSocketFrame ----------------------------
(***************************************************************************)
(* WebSocket frames as CurlTransport writes and reads them when libcurl    *)
(* does not: the encoder in send(), sendCloseFrame() and the pong, and the *)
(* decoder of dispatchFramedBuffer(), over bytes.                          *)
(*                                                                         *)
(* A byte is scaled down to five bits: the top bit (FIN in the first byte, *)
(* MASK in the second) and four low bits (opcode, length). The lengths 126 *)
(* and 127 that announce two and eight bytes become 14 and 15, announcing  *)
(* ShortBytes and LongBytes; the mask has MaskBytes.                       *)
(***************************************************************************)
EXTENDS Naturals, Sequences, SequencesExt

CONSTANTS
  ShortBytes,   \* bytes of a 16-bit length (2 in the code)
  ShortMax,     \* longest payload whose length is written in them (0xFFFF)
  LongBytes,    \* bytes of a 64-bit length (8)
  MaskBytes     \* bytes of a mask (4)

ByteMod == 32
Bytes == 0 .. ByteMod - 1
TopBit == 16
Short == 14
Long == 15

\* The number that bytes spell, and the weight of the byte k places from the
\* last: a one and k zeros.
Number(s) ==
  LET n[i \in 0 .. Len(s)] == IF i = 0 THEN 0 ELSE n[i - 1] * ByteMod + s[i]
  IN n[Len(s)]
Weight(k) == Number([i \in 1 .. k + 1 |-> IF i = 1 THEN 1 ELSE 0])
SizeMod == Weight(LongBytes)        \* size_t is as wide as the longest length

ASSUME WidthAssumption ==
  /\ ShortBytes \in Nat \ {0} /\ LongBytes \in Nat /\ MaskBytes \in Nat \ {0}
  /\ ShortBytes < LongBytes
  /\ ShortMax \in Nat /\ Short <= ShortMax /\ ShortMax < Weight(ShortBytes)

ContinuationOp == 0
TextOp == 1
BinaryOp == 2
CloseOp == 8
PingOp == 9
PongOp == 10
-----------------------------------------------------------------------------
(* Writing                                                                 *)

Xor(a, b) ==
  LET bit(w) == w * ((((a \div w) % 2) + ((b \div w) % 2)) % 2)
  IN bit(1) + bit(2) + bit(4) + bit(8) + bit(16)

\* A mask that is added.
FaultyApplyMask(s, mask) == [i \in DOMAIN s |-> s[i] + mask[((i - 1) % MaskBytes) + 1]]

ApplyMask(s, mask) == [i \in DOMAIN s |-> Xor(s[i], mask[((i - 1) % MaskBytes) + 1])]

BigEndian(n, k) == [i \in 1 .. k |-> (n \div Weight(k - i)) % ByteMod]

\* The longest length of the first form, 125, taken for the next one's marker.
FaultyLengthBytes(n) ==
  IF n <= Short THEN <<TopBit + n>>
  ELSE IF n <= ShortMax THEN <<TopBit + Short>> \o BigEndian(n, ShortBytes)
  ELSE <<TopBit + Long>> \o BigEndian(n, LongBytes)

\* The second byte, with MASK, and the bytes of a longer length.
LengthBytes(n) ==
  IF n < Short THEN <<TopBit + n>>
  ELSE IF n <= ShortMax THEN <<TopBit + Short>> \o BigEndian(n, ShortBytes)
  ELSE <<TopBit + Long>> \o BigEndian(n, LongBytes)

TextFrame(payload, mask) ==
  <<TopBit + TextOp>> \o LengthBytes(Len(payload)) \o mask \o ApplyMask(payload, mask)

\* Status 1000, the bytes 0x03 and 0xE8.
CloseReason == <<3, 8>>
CloseFrame(mask) ==
  <<TopBit + CloseOp, TopBit + Len(CloseReason)>> \o mask \o ApplyMask(CloseReason, mask)

\* A pong that is not masked with the key it announces.
FaultyPongFrame(payload, mask) ==
  <<TopBit + PongOp, TopBit + (Len(payload) % TopBit)>> \o mask \o payload

\* The length is one byte, whatever the size of the ping.
PongFrame(payload, mask) ==
  <<TopBit + PongOp, TopBit + (Len(payload) % TopBit)>> \o mask
    \o ApplyMask(payload, mask)
-----------------------------------------------------------------------------
(* Reading: the frame at the beginning of a buffer                         *)

IsMasked(b) == b[2] >= TopBit
LengthSize(b) ==
  CASE b[2] % TopBit = Short -> ShortBytes
    [] b[2] % TopBit = Long  -> LongBytes
    [] OTHER -> 0
PayloadLen(b) ==
  IF LengthSize(b) = 0 THEN b[2] % TopBit ELSE Number(SubSeq(b, 3, 2 + LengthSize(b)))
HeaderSize(b) == 2 + LengthSize(b) + IF IsMasked(b) THEN MaskBytes ELSE 0

\* The sum is taken in size_t.
IsWhole(b) ==
  /\ Len(b) >= 2 /\ Len(b) >= 2 + LengthSize(b)
  /\ Len(b) >= (HeaderSize(b) + PayloadLen(b)) % SizeMod

Opcode(b) == b[1] % TopBit
Payload(b) ==
  LET h == HeaderSize(b)
      raw == SubSeq(b, h + 1, h + PayloadLen(b))
  IN IF IsMasked(b) THEN ApplyMask(raw, SubSeq(b, h - MaskBytes + 1, h)) ELSE raw

Rest(b) == SubSeq(b, HeaderSize(b) + PayloadLen(b) + 1, Len(b))
-----------------------------------------------------------------------------
(* A reader by the rules of RFC 6455, a byte at a time: a frame is its     *)
(* opcode and its payload.                                                 *)

RfcExtended(g) == CASE g[2] % TopBit = Short -> ShortBytes [] g[2] % TopBit = Long -> LongBytes [] OTHER -> 0
RfcHeader(g) == 2 + RfcExtended(g) + IF g[2] >= TopBit THEN MaskBytes ELSE 0
RfcLength(g) ==
  IF g[2] % TopBit \in {Short, Long} THEN Number(SubSeq(g, 3, 2 + RfcExtended(g))) ELSE g[2] % TopBit
RfcPayload(g) ==
  LET h == RfcHeader(g)
  IN [i \in 1 .. RfcLength(g) |->
        IF g[2] < TopBit THEN g[h + i]
        ELSE Xor(g[h + i], g[h - MaskBytes + 1 + ((i - 1) % MaskBytes)])]

\* The bytes are one frame, and which.
OneFrame(g) == Len(g) >= 2 /\ Len(g) >= RfcHeader(g) /\ Len(g) = RfcHeader(g) + RfcLength(g)
FrameIn(g) == <<g[1] % TopBit, RfcPayload(g)>>
IsFrame(g, frame) == g \in Seq(Bytes) /\ OneFrame(g) /\ FrameIn(g) = frame

NothingRead == [got |-> <<>>, frames |-> <<>>]
ReadByte(p, byte) ==
  LET g == Append(p.got, byte)
  IN IF OneFrame(g) THEN [got |-> <<>>, frames |-> Append(p.frames, FrameIn(g))]
     ELSE [got |-> g, frames |-> p.frames]
Read(p, bytes) ==
  LET r[i \in 0 .. Len(bytes)] == IF i = 0 THEN p ELSE ReadByte(r[i - 1], bytes[i])
  IN r[Len(bytes)]
=============================================================================
