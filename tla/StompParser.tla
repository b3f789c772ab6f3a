----------------------------- MODULE StompParser -----------------------------
(***************************************************************************)
(* StompParser: the incremental parser of StompParser.cpp.  A byte stream, *)
(* cut into chunks in any way, is fed to it; it keeps what it cannot use   *)
(* yet in m_buffer and calls back for every frame and every heartbeat.     *)
(***************************************************************************)
EXTENDS StompFrame

CONSTANTS
  Streams,    \* the byte sequences the peer may send
  SizeMod,    \* 2^64 in the program: size_t counts modulo this number
  MayReset    \* whether reset() is called in the middle of a stream

ASSUME ParserAssumption ==
  /\ Streams \subseteq Seq(Bytes)
  /\ SizeMod \in Nat \ {0} /\ \A s \in Streams : Len(s) < SizeMod
  /\ MayReset \in BOOLEAN

VARIABLES
  m_state, m_buffer, m_currentFrame, m_contentLength,
  call,       \* "none", in "feed", or in a callback: "onHeartbeat", "onFrame"
  rest,       \* the part of the stream still to come
  fed,        \* history: the bytes fed since the last reset()
  out         \* history: what was called back since the last reset()

parser == <<m_state, m_buffer, m_currentFrame, m_contentLength>>
vars == <<parser, call, rest, fed, out>>

States == {"WAIT_COMMAND", "READ_HEADERS", "READ_BODY_BY_LENGTH", "READ_BODY_UNTIL_NULL"}

Heartbeat == [heartbeat |-> TRUE]
\* A delivered frame, and whether a NUL followed its body.
Delivered(f, ended) == [frame |-> f, ended |-> ended]

Init ==
  /\ m_state = "WAIT_COMMAND" /\ m_buffer = <<>>
  /\ m_currentFrame = EmptyFrame /\ m_contentLength = 0
  /\ call = "none" /\ rest \in Streams /\ fed = <<>> /\ out = <<>>
-----------------------------------------------------------------------------
\* std::string: find() with 0 for npos, erase(0, n), substr(0, n).
Find(s, b) == SelectInSeq(s, LAMBDA x : x = b)
Erase(s, n) == SubSeq(s, n + 1, Len(s))
Substr(s, n) == IF n < Len(s) THEN SubSeq(s, 1, n) ELSE s

\* A line without its final CR.
Chomp(line) == IF line # <<>> /\ Last(line) = CR THEN Front(line) ELSE line

HasLine == Find(m_buffer, LF) # 0
FirstLine == Chomp(Substr(m_buffer, Find(m_buffer, LF) - 1))
EraseLine == m_buffer' = Erase(m_buffer, Find(m_buffer, LF))

\* parseHeaderLine(): a line without a colon is ignored.
parseHeaderLine(f, line) ==
  LET colon == Find(line, COLON)
  IN  IF colon = 0 THEN f
      ELSE addHeader(f, Substr(line, colon - 1), Erase(line, colon))

\* std::from_chars() into a size_t: the number the leading digits spell.
Leading(value) == SelectInSeq(value \o <<LF>>, LAMBDA b : b \notin DOMAIN Digits) - 1
Number(value) ==
  FoldLeft(LAMBDA n, d : 10 * n + Digits[d], 0, Substr(value, Leading(value)))
Parsable(value) == Leading(value) > 0 /\ Number(value) \in 0 .. SizeMod - 1

HasLength(f) == hasHeader(f, <<CL>>) /\ Parsable(getHeader(f, <<CL>>))
Length(f) == Number(getHeader(f, <<CL>>))
-----------------------------------------------------------------------------
\* The data is appended to the buffer and processed before feed() returns.
Feed(n) ==
  /\ call = "none" /\ n \in 1 .. Len(rest)
  /\ m_buffer' = m_buffer \o Substr(rest, n)
  /\ fed' = fed \o Substr(rest, n)
  /\ rest' = Erase(rest, n)
  /\ call' = "feed"
  /\ UNCHANGED <<m_state, m_currentFrame, m_contentLength, out>>

Processing(state) == call = "feed" /\ m_state = state
EolFirst == m_buffer # <<>> /\ Head(m_buffer) \in {CR, LF}

\* Ends of line in front of a command are skipped, one after the other; a line
\* feed is a heartbeat.
SkipCr ==
  /\ Processing("WAIT_COMMAND") /\ EolFirst /\ Head(m_buffer) = CR
  /\ m_buffer' = Tail(m_buffer)
  /\ UNCHANGED <<m_state, m_currentFrame, m_contentLength, call, rest, fed, out>>

SkipLf ==
  /\ Processing("WAIT_COMMAND") /\ EolFirst /\ Head(m_buffer) = LF
  /\ m_buffer' = Tail(m_buffer)
  /\ out' = Append(out, Heartbeat) /\ call' = "onHeartbeat"
  /\ UNCHANGED <<m_state, m_currentFrame, m_contentLength, rest, fed>>

OnHeartbeatReturns ==
  /\ call = "onHeartbeat" /\ call' = "feed"
  /\ UNCHANGED <<parser, rest, fed, out>>

FaultyReadCommand ==
  /\ Processing("WAIT_COMMAND") /\ ~EolFirst /\ m_buffer # <<>>
  /\ m_currentFrame' = NewFrame(Chomp(m_buffer))
  /\ m_buffer' = <<>>
  /\ m_state' = "READ_HEADERS" /\ m_contentLength' = 0
  /\ UNCHANGED <<call, rest, fed, out>>

ReadCommand ==
  /\ Processing("WAIT_COMMAND") /\ ~EolFirst /\ HasLine
  /\ m_currentFrame' = NewFrame(FirstLine)
  /\ EraseLine
  /\ m_state' = "READ_HEADERS" /\ m_contentLength' = 0
  /\ UNCHANGED <<call, rest, fed, out>>

FaultyReadHeader ==
  /\ Processing("READ_HEADERS") /\ HasLine /\ FirstLine # <<>>
  /\ m_currentFrame' = parseHeaderLine(m_currentFrame, FirstLine)
  /\ IF Find(FirstLine, COLON) = 0 THEN UNCHANGED m_buffer ELSE EraseLine
  /\ UNCHANGED <<m_state, m_contentLength, call, rest, fed, out>>

ReadHeader ==
  /\ Processing("READ_HEADERS") /\ HasLine /\ FirstLine # <<>>
  /\ m_currentFrame' = parseHeaderLine(m_currentFrame, FirstLine)
  /\ EraseLine
  /\ UNCHANGED <<m_state, m_contentLength, call, rest, fed, out>>

\* An empty line ends the headers; a content-length that is a number decides
\* how the body is read.
EndHeaders ==
  /\ Processing("READ_HEADERS") /\ HasLine /\ FirstLine = <<>>
  /\ EraseLine
  /\ \/ /\ HasLength(m_currentFrame)
        /\ m_contentLength' = Length(m_currentFrame)
        /\ m_state' = "READ_BODY_BY_LENGTH"
     \/ /\ ~HasLength(m_currentFrame)
        /\ m_state' = "READ_BODY_UNTIL_NULL"
        /\ UNCHANGED m_contentLength
  /\ UNCHANGED <<m_currentFrame, call, rest, fed, out>>

\* The frame is moved into the callback.
Deliver(body, ended) ==
  /\ m_currentFrame' = EmptyFrame
  /\ out' = Append(out, Delivered([m_currentFrame EXCEPT !.body = body], ended))
  /\ call' = "onFrame"
  /\ UNCHANGED <<m_state, m_contentLength, rest, fed>>

\* The sum is one of size_t.
BodyIsThere == Len(m_buffer) >= (m_contentLength + 1) % SizeMod

\* Where m_contentLength + 1 wrapped around, m_buffer[m_contentLength] is a
\* read outside the string: it may or may not find a NUL.
IsNul(b) ==
  IF m_contentLength < Len(m_buffer) THEN b = (m_buffer[m_contentLength + 1] = NUL)
                                     ELSE b \in BOOLEAN

ReadBodyByLength ==
  /\ Processing("READ_BODY_BY_LENGTH") /\ BodyIsThere
  /\ \E ended \in BOOLEAN :
       /\ IsNul(ended)
       /\ m_buffer' = Erase(m_buffer, IF ended THEN (m_contentLength + 1) % SizeMod
                                               ELSE m_contentLength)
       /\ Deliver(Substr(m_buffer, m_contentLength), ended)

ReadBodyUntilNull ==
  /\ Processing("READ_BODY_UNTIL_NULL")
  /\ LET nullPos == Find(m_buffer, NUL)
     IN  /\ nullPos # 0
         /\ m_buffer' = Erase(m_buffer, nullPos)
         /\ Deliver(Substr(m_buffer, nullPos - 1), TRUE)

FaultyOnFrameReturns ==
  /\ call = "onFrame" /\ call' = "feed"
  /\ m_state' = "WAIT_COMMAND"
  /\ m_currentFrame' = EmptyFrame
  /\ UNCHANGED <<m_buffer, m_contentLength, rest, fed, out>>

\* Only the branch for a body by length sets m_contentLength; it is 0 in the
\* other one.
OnFrameReturns ==
  /\ call = "onFrame" /\ call' = "feed"
  /\ m_state' = "WAIT_COMMAND"
  /\ m_currentFrame' = EmptyFrame /\ m_contentLength' = 0
  /\ UNCHANGED <<m_buffer, rest, fed, out>>

\* What is in the buffer does not complete a line or a body.
NeedsMore ==
  CASE m_state = "WAIT_COMMAND" -> ~EolFirst /\ ~HasLine
    [] m_state = "READ_HEADERS" -> ~HasLine
    [] m_state = "READ_BODY_BY_LENGTH" -> ~BodyIsThere
    [] m_state = "READ_BODY_UNTIL_NULL" -> Find(m_buffer, NUL) = 0

FeedReturns ==
  /\ call = "feed" /\ NeedsMore
  /\ call' = "none"
  /\ UNCHANGED <<parser, rest, fed, out>>

\* Between two calls of feed(), or in a callback (user code that connects its
\* client again); processBuffer() goes on when the callback returns.
Reset ==
  /\ MayReset /\ call # "feed"
  /\ m_state' = "WAIT_COMMAND" /\ m_buffer' = <<>>
  /\ m_currentFrame' = EmptyFrame /\ m_contentLength' = 0
  /\ fed' = <<>> /\ out' = <<>>
  /\ UNCHANGED <<call, rest>>

Process ==
  SkipCr \/ SkipLf \/ OnHeartbeatReturns \/ ReadCommand \/ ReadHeader \/ EndHeaders
    \/ ReadBodyByLength \/ ReadBodyUntilNull \/ OnFrameReturns \/ FeedReturns

Next == (\E n \in 1 .. Len(rest) : Feed(n)) \/ Process \/ Reset

Spec == Init /\ [][Next]_vars
FairSpec == Spec /\ WF_vars(Process)
===============================================================================
