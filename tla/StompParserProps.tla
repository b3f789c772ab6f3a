--------------------------- MODULE StompParserProps ---------------------------
(***************************************************************************)
(* A reference for StompParser, and what the parser promises.  The         *)
(* reference reads one byte at a time and never looks back, so it cannot   *)
(* depend on how a stream is cut; StompParser searches a buffer again and  *)
(* again.                                                                  *)
(***************************************************************************)
EXTENDS StompParser

CONSTANT Sent    \* sequences of frames that are written one after the other

Frames ==
  [command : Seq(Bytes), headers : Seq(Seq(Bytes) \X Seq(Bytes)), body : Seq(Bytes)]

TypeOK ==
  /\ m_state \in States
  /\ m_buffer \in Seq(Bytes)
  /\ m_currentFrame \in Frames
  /\ m_contentLength \in 0 .. SizeMod - 1
  /\ m_state # "READ_BODY_BY_LENGTH" => m_contentLength = 0
  /\ call \in {"none", "feed", "onHeartbeat", "onFrame"}
  /\ rest \in Seq(Bytes) /\ fed \in Seq(Bytes)
-----------------------------------------------------------------------------
(* The reference: mode is what is being read, text the line or the body so *)
(* far, frame the frame so far.                                            *)

RefStart == [mode |-> "command", text |-> <<>>, frame |-> EmptyFrame, out |-> <<>>]

RefDeliver(r, ended) ==
  [RefStart EXCEPT !.out = Append(r.out, Delivered([r.frame EXCEPT !.body = r.text], ended))]

Grown(r, b) == [r EXCEPT !.text = Append(@, b)]

RefCommand(r, b) ==
  IF r.text = <<>> /\ b \in {CR, LF}
    THEN [r EXCEPT !.out = IF b = LF THEN Append(@, Heartbeat) ELSE @]
  ELSE IF b = LF
    THEN [r EXCEPT !.mode = "headers", !.text = <<>>, !.frame = NewFrame(Chomp(r.text))]
  ELSE Grown(r, b)

RefHeaders(r, b) ==
  IF b # LF THEN Grown(r, b)
  ELSE IF Chomp(r.text) # <<>>
    THEN [r EXCEPT !.text = <<>>, !.frame = parseHeaderLine(@, Chomp(r.text))]
  ELSE [r EXCEPT !.text = <<>>, !.mode = IF HasLength(r.frame) THEN "length" ELSE "null"]

RefNull(r, b) == IF b = NUL THEN RefDeliver(r, TRUE) ELSE Grown(r, b)

\* The byte after the body is its NUL, or the first byte of what follows.
RefLength(r, b) ==
  IF Len(r.text) < Length(r.frame) THEN Grown(r, b)
  ELSE IF b = NUL THEN RefDeliver(r, TRUE)
  ELSE RefCommand(RefDeliver(r, FALSE), b)

RefByte(r, b) ==
  CASE r.mode = "command" -> RefCommand(r, b)
    [] r.mode = "headers" -> RefHeaders(r, b)
    [] r.mode = "null"    -> RefNull(r, b)
    [] r.mode = "length"  -> RefLength(r, b)

\* The reference after n of the bytes, and after all of them.
Run(bytes) ==
  LET r[n \in 0 .. Len(bytes)] == IF n = 0 THEN RefStart ELSE RefByte(r[n - 1], bytes[n])
  IN r
Reference(bytes) == Run(bytes)[Len(bytes)]
-----------------------------------------------------------------------------
\* Whenever feed() has returned, exactly those frames and heartbeats have been
\* called back, in their order, that the bytes since the last reset() contain:
\* however they were cut, nothing is early, late, lost or left from before.
ChunksDoNotMatter == call = "none" => out = Reference(fed).out

\* feed() returns: the loop of processBuffer() ends.
FeedEnds == call = "feed" ~> call = "none"

\* What serialize() writes and the parser can read back: no line of the frame
\* has a line feed in it or a CR at its end, no key a colon, and the body has
\* the length the headers give it or, without one, no NUL.
Sendable(f) ==
  /\ f.command # <<>> /\ f.command[1] # CR
  /\ LF \notin Range(f.command) /\ Chomp(f.command) = f.command
  /\ \A k \in DOMAIN f.headers :
       /\ Range(f.headers[k][1]) \cap {LF, COLON} = {}
       /\ LF \notin Range(f.headers[k][2]) /\ Chomp(f.headers[k][2]) = f.headers[k][2]
  /\ IF HasLength(f) THEN Length(f) = Len(f.body) ELSE NUL \notin Range(f.body)

ASSUME SentAssumption ==
  \A fs \in Sent : fs \in Seq(Frames) /\ \A i \in DOMAIN fs : Sendable(fs[i])

Written == [fs \in Sent |-> FlattenSeq([i \in DOMAIN fs |-> serialize(fs[i])])]
WrittenBytes == Range(Written)

\* Frames written by serialize() one after the other are called back as they
\* were, whatever is in their bodies and however the bytes are cut.
RoundTripOfSent ==
  call = "none" /\ fed \in WrittenBytes => \A fs \in Sent :
    fed = Written[fs] => out = [i \in DOMAIN fs |-> Delivered(fs[i], TRUE)]
-----------------------------------------------------------------------------
\* "Set callback invoked whenever a full valid STOMP frame is parsed": every
\* frame called back was ended by a NUL.
FramesAreEnded == \A k \in DOMAIN out : out[k] # Heartbeat => out[k].ended

\* "We need m_contentLength bytes + 1 byte for NULL": a frame with a length is
\* called back with a body of that length.
BodiesHaveTheirLength ==
  \A k \in DOMAIN out :
    out[k] # Heartbeat /\ HasLength(out[k].frame)
      => Len(out[k].frame.body) = Length(out[k].frame)
-----------------------------------------------------------------------------
(* The inductive invariant: the reference, stopped after the bytes that    *)
(* the parser has used, is where the parser is.                            *)

Used == Len(fed) - Len(m_buffer)

\* The buffer is the end of what was fed: no byte is lost, changed or read twice.
BufferIsTail ==
  /\ Len(m_buffer) <= Len(fed)
  /\ \A i \in 1 .. Len(m_buffer) : m_buffer[i] = fed[Used + i]

\* A frame is being read only where there is one, the length is its own, and
\* feed() returns when it needs more.
FrameInHand ==
  /\ m_state = "WAIT_COMMAND" \/ call = "onFrame" => m_currentFrame = EmptyFrame
  /\ m_state = "READ_BODY_BY_LENGTH" /\ call # "onFrame" =>
       HasLength(m_currentFrame) /\ m_contentLength = Length(m_currentFrame)
  /\ call = "none" => NeedsMore

Mode == [WAIT_COMMAND |-> "command", READ_HEADERS |-> "headers",
         READ_BODY_BY_LENGTH |-> "length", READ_BODY_UNTIL_NULL |-> "null"]
Expected ==
  [mode |-> IF call = "onFrame" THEN "command" ELSE Mode[m_state],
   text |-> <<>>, frame |-> m_currentFrame, out |-> out]

\* Where a body was not ended by a NUL the reference is a byte behind: it sees
\* that when it reads the byte after the body.
InStep ==
  LET r == Run(fed)[Used]
  IN \/ r = Expected
     \/ /\ Expected.mode = "command" /\ m_buffer # <<>> /\ m_buffer[1] # NUL
        /\ r.mode = "length" /\ ~(Len(r.text) < Length(r.frame))
        /\ RefDeliver(r, FALSE) = Expected

\* The next byte after the body is counted without an overflow.
LengthFits == m_contentLength # SizeMod - 1

ParserInv == TypeOK /\ BufferIsTail /\ FrameInHand

\* The bytes that are fed are bytes of one stream, and a heartbeat is called
\* back between frames.
Room == Len(fed) + Len(rest) < SizeMod
Between == call = "onHeartbeat" => m_state = "WAIT_COMMAND"

\* What the reference has come through announces no length that overflows.
Fits(bytes) ==
  \A n \in 0 .. Len(bytes) :
    Run(bytes)[n].mode = "length" => Length(Run(bytes)[n].frame) # SizeMod - 1

\* What processBuffer() has still to do, at most: for each byte of the buffer a
\* step that uses it, and callbacks that return.
Work ==
  4 * Len(m_buffer) +
    CASE call = "none" -> 0
      [] call = "feed" -> IF m_state = "READ_BODY_BY_LENGTH" THEN 3 ELSE 1
      [] OTHER -> 2
===============================================================================
