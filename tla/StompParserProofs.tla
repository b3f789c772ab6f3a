-------------------------- MODULE StompParserProofs --------------------------
(***************************************************************************)
(* Proofs about the parser, for any streams, chunks and width of size_t:   *)
(* what is called back does not depend on how the stream is cut.           *)
(***************************************************************************)
EXTENDS StompParserProps, Lemmas

USE ParserAssumption

\* Find() is the first byte of its kind, or 0.
LEMMA FindFirst ==
  ASSUME NEW s, Len(s) \in Nat, NEW b
  PROVE  /\ Find(s, b) \in 0 .. Len(s)
         /\ Find(s, b) # 0 => s[Find(s, b)] = b
         /\ \A i \in 1 .. Len(s) : s[i] = b => Find(s, b) # 0 /\ Find(s, b) <= i
  <1> DEFINE I == {i \in 1 .. Len(s) : s[i] = b}
  <1>1. Find(s, b) = IF I # {} THEN Min(I) ELSE 0 BY DEF Find, SelectInSeq
  <1>2. I # {} => Min(I) \in I /\ \A i \in I : Min(I) <= i
    <2>1. I \in SUBSET Nat OBVIOUS
    <2>2. QED BY <2>1, Least DEF Min
  <1>3. CASE I = {} BY <1>1, <1>3
  <1>4. CASE I # {}
    <2>1. Find(s, b) \in I /\ \A i \in I : Find(s, b) <= i BY <1>1, <1>2, <1>4
    <2>2. QED BY <2>1
  <1>5. QED BY <1>3, <1>4

\* A part of a byte sequence is one.
LEMMA Parts ==
  ASSUME NEW s \in Seq(Bytes), NEW n \in Nat
  PROVE  /\ Substr(s, n) \in Seq(Bytes) /\ Erase(s, n) \in Seq(Bytes)
         /\ n <= Len(s) =>
              /\ Len(Substr(s, n)) = n /\ Substr(s, n) = SubSeq(s, 1, n)
              /\ Len(Erase(s, n)) = Len(s) - n
              /\ \A i \in 1 .. Len(s) - n : Erase(s, n)[i] = s[n + i]
         /\ n > Len(s) => Erase(s, n) = <<>>
         /\ Chomp(s) \in Seq(Bytes)
  <1>1. Substr(s, n) \in Seq(Bytes) BY DEF Substr
  <1>2. Erase(s, n) \in Seq(Bytes) BY DEF Erase
  <1>3. n <= Len(s) => Len(Substr(s, n)) = n /\ Substr(s, n) = SubSeq(s, 1, n)
    BY DEF Substr
  <1>4. n <= Len(s) => /\ Len(Erase(s, n)) = Len(s) - n
                       /\ \A i \in 1 .. Len(s) - n : Erase(s, n)[i] = s[n + i]
    BY DEF Erase
  <1>5. n > Len(s) => Erase(s, n) = <<>> BY DEF Erase
  <1>6. Chomp(s) \in Seq(Bytes) BY DEF Chomp, Front
  <1>7. QED BY <1>1, <1>2, <1>3, <1>4, <1>5, <1>6

\* The first line, where there is one, ends before the first LF.
LEMMA Line ==
  ASSUME m_buffer \in Seq(Bytes), HasLine
  PROVE  /\ Find(m_buffer, LF) \in 1 .. Len(m_buffer)
         /\ FirstLine \in Seq(Bytes)
         /\ FirstLine = Chomp(SubSeq(m_buffer, 1, Find(m_buffer, LF) - 1))
  <1>1. Find(m_buffer, LF) \in 1 .. Len(m_buffer) BY FindFirst DEF HasLine
  <1>2. Find(m_buffer, LF) - 1 \in Nat /\ Find(m_buffer, LF) - 1 <= Len(m_buffer)
    BY <1>1
  <1>3. Substr(m_buffer, Find(m_buffer, LF) - 1) \in Seq(Bytes) BY <1>2, Parts
  <1>4. FirstLine \in Seq(Bytes) BY <1>3, Parts DEF FirstLine
  <1>5. QED BY <1>1, <1>2, <1>4, Parts DEF FirstLine

LEMMA HeaderLine ==
  ASSUME NEW f \in Frames, NEW line \in Seq(Bytes)
  PROVE  parseHeaderLine(f, line) \in Frames
  <1>1. CASE Find(line, COLON) = 0 BY <1>1 DEF parseHeaderLine
  <1>2. CASE Find(line, COLON) # 0
    <2>1. Find(line, COLON) \in Nat /\ Find(line, COLON) - 1 \in Nat
      BY <1>2, FindFirst
    <2>2. PICK key, value \in Seq(Bytes) : parseHeaderLine(f, line) = addHeader(f, key, value)
      BY <1>2, <2>1, Parts DEF parseHeaderLine
    <2>3. <<key, value>> \in Seq(Bytes) \X Seq(Bytes) OBVIOUS
    <2>4. Append(f.headers, <<key, value>>) \in Seq(Seq(Bytes) \X Seq(Bytes))
      BY <2>3 DEF Frames
    <2>5. QED BY <2>2, <2>4 DEF addHeader, Frames
  <1>3. QED BY <1>1, <1>2

LEMMA Fresh == EmptyFrame \in Frames /\ \A c \in Seq(Bytes) : NewFrame(c) \in Frames
  <1>1. \A S : <<>> \in Seq(S) OBVIOUS
  <1>2. EmptyFrame \in Frames BY <1>1 DEF EmptyFrame, Frames
  <1>3. ASSUME NEW c \in Seq(Bytes) PROVE NewFrame(c) \in Frames
    BY <1>2 DEF NewFrame, Frames
  <1>4. QED BY <1>2, <1>3

\* The buffer after bytes have been used is still the end of what was fed.
LEMMA Taken ==
  ASSUME TypeOK, BufferIsTail, UNCHANGED fed, NEW n \in Nat, m_buffer' = Erase(m_buffer, n)
  PROVE  /\ m_buffer' \in Seq(Bytes) /\ BufferIsTail'
         /\ n <= Len(m_buffer) =>
              /\ Used' = Used + n
              /\ \A i \in 1 .. Len(m_buffer') : m_buffer'[i] = m_buffer[n + i]
  <1> USE DEF TypeOK, BufferIsTail, Used
  <1>1. m_buffer' \in Seq(Bytes) BY Parts
  <1>2. CASE n <= Len(m_buffer)
    <2>1. /\ Len(m_buffer') = Len(m_buffer) - n
          /\ \A i \in 1 .. Len(m_buffer) - n : m_buffer'[i] = m_buffer[n + i]
      BY <1>2, Parts
    <2>2. Used' = Used + n BY <2>1
    <2>3. \A i \in 1 .. Len(m_buffer') : m_buffer'[i] = fed'[Used' + i]
      <3> TAKE i \in 1 .. Len(m_buffer')
      <3>1. n + i \in 1 .. Len(m_buffer) /\ Used' + i = Used + (n + i) BY <2>1, <2>2
      <3>2. QED BY <2>1, <3>1
    <2>4. QED BY <1>1, <2>1, <2>2, <2>3
  <1>3. CASE n > Len(m_buffer)
    <2>1. m_buffer' = <<>> BY <1>3, Parts
    <2>2. QED BY <1>1, <1>3, <2>1
  <1>4. QED BY <1>2, <1>3

\* Bytes appended to others.
LEMMA Joined ==
  ASSUME NEW s \in Seq(Bytes), NEW t \in Seq(Bytes)
  PROVE  /\ s \o t \in Seq(Bytes) /\ Len(s \o t) = Len(s) + Len(t)
         /\ \A i \in 1 .. Len(s) : (s \o t)[i] = s[i]
         /\ \A i \in 1 .. Len(t) : (s \o t)[Len(s) + i] = t[i]
  BY TwoInOne

\* The first byte of a sequence that has one.
LEMMA First ==
  ASSUME NEW s \in Seq(Bytes), 1 <= Len(s)
  PROVE  SubSeq(s, 1, 1) = Append(<<>>, s[1])
  <1>1. SubSeq(s, 1, 0) = <<>> OBVIOUS
  <1>2. Append(SubSeq(s, 1, 0), s[0 + 1]) = SubSeq(s, 1, 0 + 1) OBVIOUS
  <1>3. 0 + 1 = 1 OBVIOUS
  <1>4. QED BY <1>1, <1>2, <1>3
-----------------------------------------------------------------------------
\* The initial state has the invariant.
LEMMA InitInv == Init => ParserInv
  <1> SUFFICES ASSUME Init PROVE ParserInv OBVIOUS
  <1> USE DEF Init
  <1>1. TypeOK BY Fresh DEF TypeOK, States
  <1>2. BufferIsTail BY DEF BufferIsTail
  <1>3. Find(<<>>, LF) = 0 BY FindFirst
  <1>4. FrameInHand BY <1>3 DEF FrameInHand, NeedsMore, EolFirst, HasLine
  <1>5. QED BY <1>1, <1>2, <1>4 DEF ParserInv

\* Feeding keeps it.
LEMMA FeedInv ==
  ASSUME ParserInv, NEW n \in 1 .. Len(rest), Feed(n)
  PROVE  /\ ParserInv' /\ Used' = Used /\ Len(fed') = Len(fed) + n
         /\ \A i \in 1 .. Len(fed) : fed'[i] = fed[i]
         /\ m_buffer # <<>> => m_buffer' # <<>> /\ m_buffer'[1] = m_buffer[1]
  <1> USE DEF ParserInv, TypeOK
  <1> DEFINE chunk == Substr(rest, n)
  <1>1. chunk \in Seq(Bytes) /\ Len(chunk) = n /\ Erase(rest, n) \in Seq(Bytes)
    BY Parts DEF Feed
  <1>2. m_buffer' = m_buffer \o chunk /\ fed' = fed \o chunk BY DEF Feed
  <1> HIDE DEF chunk
  <1>3. TypeOK' BY <1>1, <1>2 DEF Feed
  <1>4. /\ Len(fed') = Len(fed) + n /\ \A i \in 1 .. Len(fed) : fed'[i] = fed[i]
        /\ \A i \in 1 .. n : fed'[Len(fed) + i] = chunk[i]
    BY <1>1, <1>2, Joined
  <1>5. /\ Len(m_buffer') = Len(m_buffer) + n
        /\ \A i \in 1 .. Len(m_buffer) : m_buffer'[i] = m_buffer[i]
        /\ \A i \in 1 .. n : m_buffer'[Len(m_buffer) + i] = chunk[i]
    <2>1. m_buffer \in Seq(Bytes) OBVIOUS
    <2>2. QED BY ONLY <1>1, <1>2, <2>1, Joined
  <1>6. Used' = Used BY <1>4, <1>5 DEF Used
  <1>7. BufferIsTail'
    <2>1. Len(m_buffer') <= Len(fed') BY <1>4, <1>5 DEF BufferIsTail
    <2>2. ASSUME NEW i \in 1 .. Len(m_buffer') PROVE m_buffer'[i] = fed'[Used' + i]
      <3>1. CASE i \in 1 .. Len(m_buffer)
        <4>1. Used + i \in 1 .. Len(fed) BY <3>1 DEF BufferIsTail, Used
        <4>2. QED BY <1>4, <1>5, <1>6, <3>1, <4>1 DEF BufferIsTail
      <3>2. CASE i \notin 1 .. Len(m_buffer)
        <4>1. i - Len(m_buffer) \in 1 .. n /\ Len(m_buffer) + (i - Len(m_buffer)) = i
          BY <1>5, <3>2
        <4>2. Used' + i = Len(fed) + (i - Len(m_buffer))
          <5>1. Len(fed) \in Nat /\ Len(m_buffer) \in Nat /\ i \in Nat BY <1>5
          <5>2. Used' = Len(fed) - Len(m_buffer) BY <1>6 DEF Used
          <5>3. QED BY ONLY <5>1, <5>2
        <4>3. QED BY <1>4, <1>5, <4>1, <4>2
      <3>3. QED BY <3>1, <3>2
    <2>3. QED BY <2>1, <2>2 DEF BufferIsTail
  <1>8. FrameInHand' BY DEF FrameInHand, Feed
  <1>9. m_buffer # <<>> => m_buffer' # <<>> /\ m_buffer'[1] = m_buffer[1] BY <1>5
  <1>10. QED BY <1>3, <1>4, <1>6, <1>7, <1>8, <1>9

\* So does a step of processBuffer().
LEMMA ProcessInv ==
  ASSUME ParserInv, Process
  PROVE  ParserInv'
  <1> USE DEF ParserInv
  <1>1. CASE SkipCr
    <2> USE <1>1 DEF SkipCr, Processing
    <2>1. m_buffer' = Erase(m_buffer, 1) BY DEF EolFirst, Erase, TypeOK
    <2>2. m_buffer' \in Seq(Bytes) /\ BufferIsTail' BY <2>1, Taken
    <2>3. TypeOK' BY <2>2 DEF TypeOK
    <2>4. FrameInHand' BY DEF FrameInHand
    <2>5. QED BY <2>2, <2>3, <2>4
  <1>2. CASE SkipLf
    <2> USE <1>2 DEF SkipLf, Processing
    <2>1. m_buffer' = Erase(m_buffer, 1) BY DEF EolFirst, Erase, TypeOK
    <2>2. m_buffer' \in Seq(Bytes) /\ BufferIsTail' BY <2>1, Taken
    <2>3. TypeOK' BY <2>2 DEF TypeOK
    <2>4. FrameInHand' BY DEF FrameInHand
    <2>5. QED BY <2>2, <2>3, <2>4
  <1>3. CASE OnHeartbeatReturns
    <2> USE <1>3 DEF OnHeartbeatReturns, parser
    <2>1. TypeOK' BY DEF TypeOK
    <2>2. BufferIsTail' BY DEF BufferIsTail, Used
    <2>3. FrameInHand' BY DEF FrameInHand
    <2>4. QED BY <2>1, <2>2, <2>3
  <1>4. CASE ReadCommand
    <2> USE <1>4 DEF ReadCommand, Processing
    <2>1. Find(m_buffer, LF) \in Nat /\ FirstLine \in Seq(Bytes) BY Line DEF TypeOK
    <2>2. m_buffer' \in Seq(Bytes) /\ BufferIsTail' BY <2>1, Taken DEF EraseLine
    <2>3. TypeOK' BY <2>1, <2>2, Fresh DEF TypeOK, States
    <2>4. FrameInHand' BY DEF FrameInHand
    <2>5. QED BY <2>2, <2>3, <2>4
  <1>5. CASE ReadHeader
    <2> USE <1>5 DEF ReadHeader, Processing
    <2>1. Find(m_buffer, LF) \in Nat /\ FirstLine \in Seq(Bytes) BY Line DEF TypeOK
    <2>2. m_buffer' \in Seq(Bytes) /\ BufferIsTail' BY <2>1, Taken DEF EraseLine
    <2>3. TypeOK' BY <2>1, <2>2, HeaderLine DEF TypeOK
    <2>4. FrameInHand' BY DEF FrameInHand
    <2>5. QED BY <2>2, <2>3, <2>4
  <1>6. CASE EndHeaders
    <2> USE <1>6 DEF EndHeaders, Processing
    <2>1. Find(m_buffer, LF) \in Nat BY Line DEF TypeOK
    <2>2. m_buffer' \in Seq(Bytes) /\ BufferIsTail' BY <2>1, Taken DEF EraseLine
    <2>3. HasLength(m_currentFrame) => Length(m_currentFrame) \in 0 .. SizeMod - 1
      BY DEF HasLength, Length, Parsable
    <2>4. TypeOK' BY <2>2, <2>3 DEF TypeOK, States
    <2>5. FrameInHand' BY DEF FrameInHand
    <2>6. QED BY <2>2, <2>4, <2>5
  <1>7. CASE ReadBodyByLength
    <2>1. PICK ended \in BOOLEAN :
            /\ m_buffer' = Erase(m_buffer, IF ended THEN (m_contentLength + 1) % SizeMod
                                                     ELSE m_contentLength)
            /\ Deliver(Substr(m_buffer, m_contentLength), ended)
      BY <1>7 DEF ReadBodyByLength
    <2>2. m_contentLength \in Nat /\ (m_contentLength + 1) % SizeMod \in Nat
      BY DEF TypeOK
    <2>3. m_buffer' \in Seq(Bytes) /\ BufferIsTail' BY <2>1, <2>2, Taken DEF Deliver
    <2>4. TypeOK' BY <2>1, <2>3, Fresh DEF TypeOK, Deliver
    <2>5. FrameInHand' BY <2>1 DEF FrameInHand, Deliver
    <2>6. QED BY <2>3, <2>4, <2>5
  <1>8. CASE ReadBodyUntilNull
    <2>1. /\ m_buffer' = Erase(m_buffer, Find(m_buffer, NUL))
          /\ Deliver(Substr(m_buffer, Find(m_buffer, NUL) - 1), TRUE)
      BY <1>8 DEF ReadBodyUntilNull
    <2>2. Find(m_buffer, NUL) \in Nat BY FindFirst DEF TypeOK
    <2>3. m_buffer' \in Seq(Bytes) /\ BufferIsTail' BY <2>1, <2>2, Taken DEF Deliver
    <2>4. TypeOK' BY <2>1, <2>3, Fresh DEF TypeOK, Deliver
    <2>5. FrameInHand' BY <2>1 DEF FrameInHand, Deliver
    <2>6. QED BY <2>3, <2>4, <2>5
  <1>9. CASE OnFrameReturns
    <2> USE <1>9 DEF OnFrameReturns
    <2>1. TypeOK' BY Fresh DEF TypeOK, States
    <2>2. BufferIsTail' BY DEF BufferIsTail, Used
    <2>3. FrameInHand' BY DEF FrameInHand
    <2>4. QED BY <2>1, <2>2, <2>3
  <1>10. CASE FeedReturns
    <2> USE <1>10 DEF FeedReturns, parser
    <2>1. TypeOK' BY DEF TypeOK
    <2>2. BufferIsTail' BY DEF BufferIsTail, Used
    <2>3. NeedsMore' BY DEF NeedsMore, EolFirst, HasLine, BodyIsThere
    <2>4. FrameInHand' BY <2>3 DEF FrameInHand
    <2>5. QED BY <2>1, <2>2, <2>4
  <1>11. QED
    BY <1>1, <1>2, <1>3, <1>4, <1>5, <1>6, <1>7, <1>8, <1>9, <1>10 DEF Process

\* And reset().
LEMMA ResetInv ==
  ASSUME ParserInv, Reset
  PROVE  ParserInv'
  <1> USE DEF ParserInv, Reset
  <1>1. TypeOK' BY Fresh DEF TypeOK, States
  <1>2. BufferIsTail' BY DEF BufferIsTail
  <1>3. Find(<<>>, LF) = 0 BY FindFirst
  <1>4. NeedsMore' BY <1>3 DEF NeedsMore, EolFirst, HasLine
  <1>5. FrameInHand' BY <1>4 DEF FrameInHand
  <1>6. QED BY <1>1, <1>2, <1>5

\* And a step of somebody else.
LEMMA StutterInv ==
  ASSUME ParserInv, UNCHANGED vars
  PROVE  ParserInv'
  <1> USE DEF ParserInv, vars, parser
  <1>1. TypeOK' BY DEF TypeOK
  <1>2. BufferIsTail' BY DEF BufferIsTail, Used
  <1>3. NeedsMore' = NeedsMore BY DEF NeedsMore, EolFirst, HasLine, BodyIsThere
  <1>4. FrameInHand' BY <1>3 DEF FrameInHand
  <1>5. QED BY <1>1, <1>2, <1>4

\* The parser keeps the invariant for ever.
THEOREM Invariance == Spec => []ParserInv
  <1>1. ParserInv /\ [Next]_vars => ParserInv'
    BY FeedInv, ProcessInv, ResetInv, StutterInv DEF Next
  <1>2. QED BY InitInv, <1>1, PTL DEF Spec

\* Every variable of the parser has its type: a content-length fits size_t, and
\* is 0 where no body is read by length.
THEOREM TypeCorrect == Spec => []TypeOK
  <1>1. ParserInv => TypeOK BY DEF ParserInv
  <1>2. QED BY <1>1, Invariance, PTL
-----------------------------------------------------------------------------
(* Progress.                                                               *)

\* A stream is no longer than size_t can count, whatever part of it was fed.
LEMMA RoomKept == ParserInv /\ Room /\ Between /\ [Next]_vars => Room' /\ Between'
  <1> SUFFICES ASSUME ParserInv, Room, Between, [Next]_vars PROVE Room' /\ Between'
    OBVIOUS
  <1> USE DEF Room, Between
  <1>1. CASE \E n \in 1 .. Len(rest) : Feed(n)
    <2>1. PICK n \in 1 .. Len(rest) : Feed(n) BY <1>1
    <2>2. Len(fed') = Len(fed) + n BY <2>1, FeedInv
    <2>3. rest' = Erase(rest, n) /\ call' = "feed" BY <2>1 DEF Feed
    <2>4. rest \in Seq(Bytes) /\ n \in Nat /\ n <= Len(rest) BY DEF ParserInv, TypeOK
    <2>5. Len(rest') = Len(rest) - n BY <2>3, <2>4, Parts
    <2>6. QED BY <2>2, <2>3, <2>4, <2>5 DEF ParserInv, TypeOK
  <1>2. CASE Process
    <2>1. UNCHANGED <<fed, rest>>
      BY <1>2 DEF Process, SkipCr, SkipLf, OnHeartbeatReturns, ReadCommand, ReadHeader,
                  EndHeaders, ReadBodyByLength, ReadBodyUntilNull, Deliver, OnFrameReturns,
                  FeedReturns
    <2>2. call' = "onHeartbeat" => m_state' = "WAIT_COMMAND"
      BY <1>2 DEF Process, SkipCr, SkipLf, OnHeartbeatReturns, ReadCommand, ReadHeader,
                  EndHeaders, ReadBodyByLength, ReadBodyUntilNull, Deliver, OnFrameReturns,
                  FeedReturns, Processing
    <2>3. QED BY <2>1, <2>2
  <1>3. CASE Reset BY <1>3 DEF Reset, ParserInv, TypeOK
  <1>4. CASE UNCHANGED vars BY <1>4 DEF vars, parser
  <1>5. QED BY <1>1, <1>2, <1>3, <1>4 DEF Next

THEOREM RoomInvariance == Spec => [](Room /\ Between)
  <1>1. Init => Room /\ Between
    <2> SUFFICES ASSUME Init PROVE Room /\ Between OBVIOUS
    <2>1. rest \in Streams /\ Len(fed) = 0 /\ call = "none" BY DEF Init
    <2>2. QED BY <2>1 DEF Room, Between
  <1>2. QED BY <1>1, RoomKept, Invariance, PTL DEF Spec

\* What is erased from the buffer makes it shorter.
LEMMA Shorter ==
  ASSUME NEW s \in Seq(Bytes), NEW n \in Nat
  PROVE  /\ Len(Erase(s, n)) \in Nat /\ Len(Erase(s, n)) <= Len(s)
         /\ 1 <= n /\ s # <<>> => Len(Erase(s, n)) <= Len(s) - 1
  <1>1. CASE n <= Len(s)
    <2>1. Len(Erase(s, n)) = Len(s) - n /\ Erase(s, n) \in Seq(Bytes) BY <1>1, Parts
    <2>2. QED BY <1>1, <2>1
  <1>2. CASE n > Len(s)
    <2>1. Len(Erase(s, n)) = 0 BY <1>2, Parts
    <2>2. QED BY <2>1
  <1>3. QED BY <1>1, <1>2

\* A step of processBuffer() leaves less to do.
LEMMA ProcessWorks ==
  ASSUME ParserInv, Between, Process
  PROVE  Work \in Nat /\ Work' \in Nat /\ Work' < Work
  <1> USE DEF Work
  <1>1. /\ m_buffer \in Seq(Bytes) /\ Len(m_buffer) \in Nat
        /\ call \in {"none", "feed", "onHeartbeat", "onFrame"} /\ m_state \in States
    BY DEF ParserInv, TypeOK
  <1>2. ParserInv' BY ProcessInv
  <1>3. m_buffer' \in Seq(Bytes) /\ Len(m_buffer') \in Nat BY <1>2 DEF ParserInv, TypeOK
  <1>4. CASE SkipCr \/ SkipLf
    <2>1. Len(m_buffer') = Len(m_buffer) - 1
      BY <1>1, <1>4 DEF SkipCr, SkipLf, EolFirst
    <2>2. /\ call = "feed" /\ m_state = "WAIT_COMMAND" /\ m_state' = m_state
          /\ call' \in {"feed", "onHeartbeat"}
      BY <1>4 DEF SkipCr, SkipLf, Processing
    <2>3. QED BY <1>1, <1>3, <2>1, <2>2
  <1>5. CASE OnHeartbeatReturns
    <2>1. call = "onHeartbeat" /\ call' = "feed" /\ m_state' = "WAIT_COMMAND" /\ m_buffer' = m_buffer
      BY <1>5 DEF OnHeartbeatReturns, parser, Between
    <2>2. QED BY <1>1, <2>1
  <1>6. CASE ReadCommand \/ ReadHeader \/ EndHeaders
    <2>1. m_buffer' = Erase(m_buffer, Find(m_buffer, LF)) /\ HasLine
      BY <1>6 DEF ReadCommand, ReadHeader, EndHeaders, EraseLine
    <2>2. Find(m_buffer, LF) \in 1 .. Len(m_buffer) BY <1>1, <2>1, Line
    <2>3. Find(m_buffer, LF) \in Nat /\ 1 <= Find(m_buffer, LF) /\ m_buffer # <<>>
      BY <1>1, <2>2
    <2>4. Len(m_buffer') <= Len(m_buffer) - 1 BY <1>1, <2>1, <2>3, Shorter
    <2>5. call = "feed" /\ call' = "feed" /\ m_state # "READ_BODY_BY_LENGTH"
      BY <1>6 DEF ReadCommand, ReadHeader, EndHeaders, Processing
    <2>6. QED BY <1>1, <1>3, <2>4, <2>5
  <1>7. CASE ReadBodyByLength
    <2>1. PICK n \in Nat : m_buffer' = Erase(m_buffer, n)
      BY <1>7 DEF ReadBodyByLength, ParserInv, TypeOK
    <2>2. Len(m_buffer') <= Len(m_buffer) BY <1>1, <2>1, Shorter
    <2>3. call = "feed" /\ m_state = "READ_BODY_BY_LENGTH" /\ call' = "onFrame"
      BY <1>7 DEF ReadBodyByLength, Processing, Deliver
    <2>4. QED BY <1>1, <1>3, <2>2, <2>3
  <1>8. CASE ReadBodyUntilNull
    <2>1. m_buffer' = Erase(m_buffer, Find(m_buffer, NUL)) /\ Find(m_buffer, NUL) # 0
      BY <1>8 DEF ReadBodyUntilNull
    <2>2. Find(m_buffer, NUL) \in 1 .. Len(m_buffer) BY <1>1, <2>1, FindFirst
    <2>3. Find(m_buffer, NUL) \in Nat /\ 1 <= Find(m_buffer, NUL) /\ m_buffer # <<>>
      BY <1>1, <2>2
    <2>4. Len(m_buffer') <= Len(m_buffer) - 1 BY <1>1, <2>1, <2>3, Shorter
    <2>5. call = "feed" /\ m_state = "READ_BODY_UNTIL_NULL" /\ call' = "onFrame"
      BY <1>8 DEF ReadBodyUntilNull, Processing, Deliver
    <2>6. QED BY <1>1, <1>3, <2>4, <2>5
  <1>9. CASE OnFrameReturns
    <2>1. call = "onFrame" /\ call' = "feed" /\ m_state' = "WAIT_COMMAND" /\ m_buffer' = m_buffer
      BY <1>9 DEF OnFrameReturns
    <2>2. QED BY <1>1, <2>1
  <1>10. CASE FeedReturns
    <2>1. call = "feed" /\ call' = "none" /\ m_buffer' = m_buffer /\ m_state' = m_state
      BY <1>10 DEF FeedReturns, parser
    <2>2. QED BY <1>1, <2>1
  <1>11. QED BY <1>4, <1>5, <1>6, <1>7, <1>8, <1>9, <1>10 DEF Process

\* The loop of processBuffer() makes progress: every step it takes, callbacks
\* included, leaves it less to do, so it cannot go round for ever.
THEOREM LoopProgresses == Spec => [][Process => Work' < Work]_vars
  <1>1. ParserInv /\ Between /\ [Next]_vars => [Process => Work' < Work]_vars
    BY ProcessWorks
  <1>2. QED BY <1>1, Invariance, RoomInvariance, PTL DEF Spec
-----------------------------------------------------------------------------
(* The reference.                                                          *)

\* From any point on, after each of some bytes, and after all of them.
Steps(r0, bytes) ==
  LET r[n \in 0 .. Len(bytes)] == IF n = 0 THEN r0 ELSE RefByte(r[n - 1], bytes[n])
  IN r
From(r0, bytes) == Steps(r0, bytes)[Len(bytes)]

\* It is what it was one byte before, after one byte.
LEMMA Step ==
  ASSUME NEW r0, NEW bytes, Len(bytes) \in Nat
  PROVE  /\ Steps(r0, bytes)[0] = r0
         /\ \A n \in 1 .. Len(bytes) : Steps(r0, bytes)[n] = RefByte(Steps(r0, bytes)[n - 1], bytes[n])
  <1> DEFINE Is(r, N) ==
        r = [n \in 0 .. N |-> IF n = 0 THEN r0 ELSE RefByte(r[n - 1], bytes[n])]
  <1>1. \E r : Is(r, 0)
    <2> DEFINE r == [n \in 0 .. 0 |-> r0]
    <2>1. Is(r, 0) OBVIOUS
    <2>2. QED BY <2>1
  <1>2. ASSUME NEW N \in Nat, NEW r, Is(r, N) PROVE \E t : Is(t, N + 1)
    <2> DEFINE t == [n \in 0 .. N + 1 |-> IF n = N + 1 THEN RefByte(r[N], bytes[N + 1]) ELSE r[n]]
    <2>1. \A n \in 0 .. N : r[n] = IF n = 0 THEN r0 ELSE RefByte(r[n - 1], bytes[n])
      BY <1>2
    <2>2. \A n \in 0 .. N + 1 : t[n] = IF n = 0 THEN r0 ELSE RefByte(t[n - 1], bytes[n])
      <3> TAKE n \in 0 .. N + 1
      <3>1. CASE n = N + 1
        <4>1. n # 0 /\ N \in 0 .. N + 1 /\ N # N + 1 /\ n - 1 = N BY <3>1
        <4>2. t[n] = RefByte(r[N], bytes[N + 1]) /\ t[N] = r[N] BY <3>1, <4>1
        <4>3. QED BY <3>1, <4>1, <4>2
      <3>2. CASE n # N + 1
        <4>1. n \in 0 .. N /\ (n # 0 => n - 1 \in 0 .. N + 1 /\ n - 1 # N + 1)
          BY <3>2
        <4>2. t[n] = r[n] /\ (n # 0 => t[n - 1] = r[n - 1]) BY <3>2, <4>1
        <4>3. QED BY <2>1, <4>1, <4>2
      <3>3. QED BY <3>1, <3>2
    <2>3. Is(t, N + 1) BY <2>2
    <2>4. QED BY <2>3
  <1> DEFINE S == {N \in Nat : \E r : Is(r, N)}
  <1> HIDE DEF Is
  <1>3. 0 \in S /\ \A N \in S : N + 1 \in S BY <1>1, <1>2
  <1>4. Len(bytes) \in S BY <1>3, Induct
  <1>5. Is(Steps(r0, bytes), Len(bytes)) BY <1>4 DEF Steps, Is
  <1>6. QED BY <1>5 DEF Is

\* What it has read does not depend on what follows.
LEMMA SameSteps ==
  ASSUME NEW r0, NEW s, NEW t, Len(s) \in Nat, Len(t) \in Nat, Len(s) <= Len(t),
         \A i \in 1 .. Len(s) : t[i] = s[i], NEW n \in 0 .. Len(s)
  PROVE  Steps(r0, t)[n] = Steps(r0, s)[n]
  <1> DEFINE S == {N \in Nat : N <= Len(s) => Steps(r0, t)[N] = Steps(r0, s)[N]}
  <1>1. 0 \in S BY Step
  <1>2. ASSUME NEW N \in S PROVE N + 1 \in S
    <2> SUFFICES ASSUME N + 1 <= Len(s) PROVE Steps(r0, t)[N + 1] = Steps(r0, s)[N + 1] OBVIOUS
    <2>1. N + 1 \in 1 .. Len(s) /\ N + 1 \in 1 .. Len(t) /\ N + 1 - 1 = N /\ N <= Len(s) OBVIOUS
    <2>2. Steps(r0, t)[N + 1] = RefByte(Steps(r0, t)[N], t[N + 1]) BY <2>1, Step
    <2>3. Steps(r0, s)[N + 1] = RefByte(Steps(r0, s)[N], s[N + 1]) BY <2>1, Step
    <2>4. QED BY <2>1, <2>2, <2>3
  <1> HIDE DEF S
  <1>3. S = Nat BY <1>1, <1>2, Induct DEF S
  <1>4. QED BY <1>3 DEF S

\* From its beginning on.
LEMMA RunStep ==
  ASSUME NEW bytes, Len(bytes) \in Nat
  PROVE  /\ Run(bytes)[0] = RefStart
         /\ \A n \in 1 .. Len(bytes) : Run(bytes)[n] = RefByte(Run(bytes)[n - 1], bytes[n])
  <1>1. Run(bytes) = Steps(RefStart, bytes) BY DEF Run, Steps
  <1>2. QED BY <1>1, Step

LEMMA SamePrefix ==
  ASSUME NEW s, NEW t, Len(s) \in Nat, Len(t) \in Nat, Len(s) <= Len(t),
         \A i \in 1 .. Len(s) : t[i] = s[i], NEW n \in 0 .. Len(s)
  PROVE  Run(t)[n] = Run(s)[n]
  <1>1. Run(s) = Steps(RefStart, s) /\ Run(t) = Steps(RefStart, t) BY DEF Run, Steps
  <1>2. QED BY <1>1, SameSteps

State(mode, text, frame, o) == [mode |-> mode, text |-> text, frame |-> frame, out |-> o]

LEMMA Different == LF # CR /\ LF # NUL /\ CR # NUL BY DEF LF, CR, NUL

\* What a byte does to it between frames,
LEMMA RefBetween ==
  ASSUME NEW f, NEW o, NEW b
  PROVE  /\ b \notin {CR, LF} =>
              RefCommand(State("command", <<>>, f, o), b) = State("command", Append(<<>>, b), f, o)
         /\ RefCommand(State("command", <<>>, f, o), CR) = State("command", <<>>, f, o)
         /\ RefCommand(State("command", <<>>, f, o), LF) = State("command", <<>>, f, Append(o, Heartbeat))
  <1>1. b \notin {CR, LF} =>
          RefCommand(State("command", <<>>, f, o), b) = State("command", Append(<<>>, b), f, o)
    BY DEF State, RefCommand, Grown
  <1>2. RefCommand(State("command", <<>>, f, o), CR) = State("command", <<>>, f, o)
    BY Different DEF State, RefCommand
  <1>3. RefCommand(State("command", <<>>, f, o), LF) = State("command", <<>>, f, Append(o, Heartbeat))
    BY Different DEF State, RefCommand
  <1>4. QED BY ONLY <1>1, <1>2, <1>3

\* in a command,
LEMMA RefInCommand ==
  ASSUME NEW t, NEW f, NEW o, NEW b
  PROVE  /\ RefByte(State("command", t, f, o), b) = RefCommand(State("command", t, f, o), b)
         /\ b # LF /\ (t = <<>> => b # CR) =>
              RefCommand(State("command", t, f, o), b) = State("command", Append(t, b), f, o)
  <1>1. RefByte(State("command", t, f, o), b) = RefCommand(State("command", t, f, o), b)
    BY DEF State, RefByte
  <1>2. b # LF /\ (t = <<>> => b # CR) =>
          RefCommand(State("command", t, f, o), b) = State("command", Append(t, b), f, o)
    BY DEF State, RefCommand, Grown
  <1>3. QED BY ONLY <1>1, <1>2

LEMMA RefCommandEnd ==
  ASSUME NEW t, t # <<>>, NEW f, NEW o
  PROVE  RefCommand(State("command", t, f, o), LF) = State("headers", <<>>, NewFrame(Chomp(t)), o)
  BY DEF State, RefCommand

\* in a header,
LEMMA RefInHeaders ==
  ASSUME NEW t, NEW f, NEW o
  PROVE  /\ \A b : b # LF =>
              RefByte(State("headers", t, f, o), b) = State("headers", Append(t, b), f, o)
         /\ Chomp(t) # <<>> =>
              RefByte(State("headers", t, f, o), LF) = State("headers", <<>>, parseHeaderLine(f, Chomp(t)), o)
         /\ Chomp(t) = <<>> =>
              RefByte(State("headers", t, f, o), LF) =
                State(IF HasLength(f) THEN "length" ELSE "null", <<>>, f, o)
  <1> USE DEF State, RefByte, RefHeaders, Grown
  <1>1. \A b : b # LF => RefByte(State("headers", t, f, o), b) = State("headers", Append(t, b), f, o)
    OBVIOUS
  <1>2. Chomp(t) # <<>> =>
          RefByte(State("headers", t, f, o), LF) = State("headers", <<>>, parseHeaderLine(f, Chomp(t)), o)
    OBVIOUS
  <1>3. Chomp(t) = <<>> =>
          RefByte(State("headers", t, f, o), LF) =
            State(IF HasLength(f) THEN "length" ELSE "null", <<>>, f, o)
    OBVIOUS
  <1>4. QED BY ONLY <1>1, <1>2, <1>3

\* and in a body,
LEMMA RefInBody ==
  ASSUME NEW t, NEW f, NEW o, NEW b
  PROVE  /\ b # NUL => RefByte(State("null", t, f, o), b) = State("null", Append(t, b), f, o)
         /\ Len(t) < Length(f) =>
              RefByte(State("length", t, f, o), b) = State("length", Append(t, b), f, o)
  BY DEF State, RefByte, RefNull, RefLength, Grown

\* and what its end does.
LEMMA RefAtEnd ==
  ASSUME NEW t, NEW f, NEW o
  PROVE  /\ RefByte(State("null", t, f, o), NUL) = RefDeliver(State("null", t, f, o), TRUE)
         /\ ~(Len(t) < Length(f)) =>
              RefByte(State("length", t, f, o), NUL) = RefDeliver(State("length", t, f, o), TRUE)
  BY DEF State, RefByte, RefNull, RefLength

WithBody(f, body) == [f EXCEPT !.body = body]

LEMMA RefDelivered ==
  ASSUME NEW mode, NEW t, NEW f, NEW o, NEW e
  PROVE  RefDeliver(State(mode, t, f, o), e) =
           State("command", <<>>, EmptyFrame, Append(o, Delivered(WithBody(f, t), e)))
  <1>1. PICK r : r = State(mode, t, f, o) OBVIOUS
  <1>2. r.frame = f /\ r.text = t /\ r.out = o BY <1>1 DEF State
  <1>3. RefDeliver(r, e) =
          [RefStart EXCEPT !.out = Append(o, Delivered(WithBody(f, t), e))]
    BY <1>2, Zenon DEF RefDeliver, WithBody
  <1>4. \A x : [RefStart EXCEPT !.out = x] = State("command", <<>>, EmptyFrame, x)
    BY DEF RefStart, State
  <1>5. QED BY <1>1, <1>3, <1>4
-----------------------------------------------------------------------------
(* The parser in step with it.                                             *)

\* Where the reference is when it has read n bytes of the buffer, and where it is
\* when these are the text so far.
After(n) == Run(fed)[Used + n]
Reading(mode, n) == State(mode, SubSeq(m_buffer, 1, n), m_currentFrame, out)

\* From byte m of the buffer on, any byte but LF is only added to the text.
Grows(mode, m) ==
  \A t, b : b # LF /\ (t = <<>> => m = 0) =>
    RefByte(State(mode, t, m_currentFrame, out), b) = State(mode, Append(t, b), m_currentFrame, out)

USE DEF After, Reading, Grows

\* It reads the bytes of the buffer one after the other.
LEMMA NextByte ==
  ASSUME TypeOK, BufferIsTail, NEW j \in Nat, j < Len(m_buffer)
  PROVE  After(j + 1) = RefByte(After(j), m_buffer[j + 1])
  <1>1. Len(fed) \in Nat /\ Len(m_buffer) \in Nat /\ Len(m_buffer) <= Len(fed)
    BY DEF TypeOK, BufferIsTail
  <1>2. PICK k \in 1 .. Len(fed) : k = Used + (j + 1) /\ k - 1 = Used + j
    BY <1>1 DEF Used
  <1>3. j + 1 \in 1 .. Len(m_buffer) BY <1>1
  <1>4. m_buffer[j + 1] = fed[k] BY <1>2, <1>3 DEF BufferIsTail
  <1>5. Run(fed)[k] = RefByte(Run(fed)[k - 1], fed[k]) BY <1>1, RunStep
  <1>6. QED BY <1>2, <1>4, <1>5

\* Bytes that change no more than the text make it grow.
LEMMA Grow ==
  ASSUME TypeOK, BufferIsTail, NEW mode,
         NEW m \in Nat, NEW n \in Nat, m <= n, n <= Len(m_buffer),
         After(m) = Reading(mode, m),
         \A j \in m .. n - 1 :
           RefByte(Reading(mode, j), m_buffer[j + 1]) =
             State(mode, Append(SubSeq(m_buffer, 1, j), m_buffer[j + 1]), m_currentFrame, out)
  PROVE  /\ After(n) = Reading(mode, n)
         /\ n < Len(m_buffer) => After(n + 1) =
              RefByte(Reading(mode, n), m_buffer[n + 1])
  <1> DEFINE S == {i \in Nat : m + i <= n =>
                     After(m + i) = Reading(mode, m + i)}
  <1>1. 0 \in S
    <2>1. m + 0 = m OBVIOUS
    <2>2. QED BY <2>1
  <1>2. ASSUME NEW i \in S PROVE i + 1 \in S
    <2> SUFFICES ASSUME m + (i + 1) <= n
                 PROVE  After(m + (i + 1)) = Reading(mode, m + (i + 1))
      OBVIOUS
    <2>1. i \in Nat /\ m + i \in m .. n - 1 /\ m + i + 1 = m + (i + 1) /\ m + i <= n OBVIOUS
    <2>2. m + i < Len(m_buffer) BY <2>1 DEF TypeOK
    <2>3. Append(SubSeq(m_buffer, 1, m + i), m_buffer[m + i + 1]) = SubSeq(m_buffer, 1, m + i + 1)
      BY <2>1, <2>2 DEF TypeOK
    <2>4. After(m + i) = Reading(mode, m + i) BY <2>1
    <2> HIDE DEF S
    <2>5. After(m + i + 1) = RefByte(After(m + i), m_buffer[m + i + 1])
      BY <2>1, <2>2, NextByte
    <2>6. QED BY <2>1, <2>3, <2>4, <2>5
  <1> HIDE DEF S
  <1>3. S = Nat BY <1>1, <1>2, Induct DEF S
  <1>4. n - m \in S /\ m + (n - m) = n BY <1>3
  <1>5. After(n) = Reading(mode, n) BY <1>4 DEF S
  <1>6. QED BY <1>5, NextByte

\* Between frames it is ready for the first byte of the buffer, whether or not
\* the body before was ended by a NUL.
LEMMA FirstByte ==
  ASSUME ParserInv, InStep, m_state = "WAIT_COMMAND", call # "onFrame", m_buffer # <<>>
  PROVE  /\ Expected = State("command", <<>>, m_currentFrame, out)
         /\ After(1) = RefCommand(Expected, m_buffer[1])
  <1>1. Expected = State("command", <<>>, m_currentFrame, out)
    BY DEF Expected, State, Mode
  <1>2. After(1) = RefByte(Run(fed)[Used], m_buffer[1])
    <2>1. 0 < Len(m_buffer) /\ 0 + 1 = 1 BY DEF ParserInv, TypeOK
    <2>2. Used + 0 = Used BY DEF ParserInv, TypeOK, Used
    <2>3. QED BY <2>1, <2>2, NextByte DEF ParserInv
  <1>3. CASE Run(fed)[Used] = Expected BY <1>1, <1>2, <1>3, RefInCommand
  <1>4. CASE Run(fed)[Used] # Expected
    <2> DEFINE r == Run(fed)[Used]
    <2>1. /\ m_buffer[1] # NUL /\ r.mode = "length" /\ ~(Len(r.text) < Length(r.frame))
          /\ RefDeliver(r, FALSE) = Expected
      BY <1>4 DEF InStep
    <2>2. RefByte(r, m_buffer[1]) = RefCommand(RefDeliver(r, FALSE), m_buffer[1])
      BY <2>1 DEF RefByte, RefLength
    <2>3. RefByte(r, m_buffer[1]) = RefCommand(Expected, m_buffer[1]) BY <2>1, <2>2
    <2>4. QED BY <1>1, <1>2, <2>3
  <1>5. QED BY <1>3, <1>4

\* Where that is the first byte of a command, it is the command so far.
LEMMA CommandStarts ==
  ASSUME ParserInv, InStep, m_state = "WAIT_COMMAND", call # "onFrame", m_buffer # <<>>,
         m_buffer[1] \notin {CR, LF}
  PROVE  After(1) = Reading("command", 1)
  <1>1. SubSeq(m_buffer, 1, 1) = Append(<<>>, m_buffer[1])
    BY First DEF ParserInv, TypeOK
  <1>2. RefCommand(State("command", <<>>, m_currentFrame, out), m_buffer[1]) =
          State("command", Append(<<>>, m_buffer[1]), m_currentFrame, out)
    BY RefBetween
  <1>3. QED BY <1>1, <1>2, FirstByte

\* In a frame it is where the parser is.
LEMMA InFrame ==
  ASSUME ParserInv, InStep, m_state # "WAIT_COMMAND", call # "onFrame"
  PROVE  After(0) = Reading(Mode[m_state], 0)
  <1>1. Used + 0 = Used /\ SubSeq(m_buffer, 1, 0) = <<>>
    BY DEF ParserInv, TypeOK, Used
  <1>2. Expected = State(Mode[m_state], <<>>, m_currentFrame, out)
    BY DEF Expected, State
  <1>3. Mode[m_state] # "command" BY DEF ParserInv, TypeOK, States, Mode
  <1>4. Expected.mode # "command" BY <1>2, <1>3 DEF State
  <1>5. QED BY <1>1, <1>2, <1>4 DEF InStep

\* A line is read when the reference has read it.
LEMMA LineRead ==
  ASSUME ParserInv, HasLine, NEW mode, NEW m \in {0, 1}, m < Find(m_buffer, LF),
         After(m) = Reading(mode, m),
         Grows(mode, m)
  PROVE  After(Find(m_buffer, LF)) =
           RefByte(Reading(mode, Find(m_buffer, LF) - 1), LF)
  <1>1. PICK p \in 1 .. Len(m_buffer) :
          /\ p = Find(m_buffer, LF) /\ m_buffer[p] = LF
          /\ \A i \in 1 .. p - 1 : m_buffer[i] # LF
    <2>1. Len(m_buffer) \in Nat BY DEF ParserInv, TypeOK
    <2>2. /\ Find(m_buffer, LF) \in 1 .. Len(m_buffer) /\ m_buffer[Find(m_buffer, LF)] = LF
          /\ \A i \in 1 .. Len(m_buffer) : m_buffer[i] = LF => Find(m_buffer, LF) <= i
      BY <2>1, FindFirst DEF HasLine
    <2>3. \A i \in 1 .. Find(m_buffer, LF) - 1 : i \in 1 .. Len(m_buffer) /\ ~(Find(m_buffer, LF) <= i)
      BY <2>1, <2>2
    <2>4. QED BY <2>2, <2>3
  <1>2. p - 1 \in Nat /\ m <= p - 1 /\ p - 1 < Len(m_buffer) /\ p - 1 + 1 = p /\ m \in Nat
    BY <1>1 DEF ParserInv, TypeOK
  <1>3. ASSUME NEW j \in m .. p - 1 - 1
        PROVE  RefByte(Reading(mode, j), m_buffer[j + 1]) =
                 State(mode, Append(SubSeq(m_buffer, 1, j), m_buffer[j + 1]), m_currentFrame, out)
    <2>1. m_buffer[j + 1] # LF BY <1>1
    <2>2. Len(SubSeq(m_buffer, 1, j)) = j BY <1>1, <1>2 DEF ParserInv, TypeOK
    <2>3. SubSeq(m_buffer, 1, j) = <<>> => m = 0 BY <2>2
    <2>4. QED BY <2>1, <2>3
  <1>4. After(p - 1 + 1) =
          RefByte(Reading(mode, p - 1), m_buffer[p - 1 + 1])
    BY <1>2, <1>3, Grow DEF ParserInv
  <1>5. QED BY <1>1, <1>2, <1>4

\* Where no line ends, no more than the text grows.
LEMMA NoLine ==
  ASSUME ParserInv, Find(m_buffer, LF) = 0, NEW mode, NEW m \in {0, 1}, m <= Len(m_buffer),
         After(m) = Reading(mode, m),
         Grows(mode, m)
  PROVE  After(Len(m_buffer)).out = out
  <1>1. Len(m_buffer) \in Nat /\ m \in Nat BY DEF ParserInv, TypeOK
  <1>2. ASSUME NEW j \in m .. Len(m_buffer) - 1
        PROVE  RefByte(Reading(mode, j), m_buffer[j + 1]) =
                 State(mode, Append(SubSeq(m_buffer, 1, j), m_buffer[j + 1]), m_currentFrame, out)
    <2>1. m_buffer[j + 1] # LF BY <1>1, FindFirst
    <2>2. Len(SubSeq(m_buffer, 1, j)) = j BY <1>1 DEF ParserInv, TypeOK
    <2>3. SubSeq(m_buffer, 1, j) = <<>> => m = 0 BY <2>2
    <2>4. QED BY <2>1, <2>3
  <1>3. After(Len(m_buffer)) =
          Reading(mode, Len(m_buffer))
    BY <1>1, <1>2, Grow DEF ParserInv
  <1>4. QED BY <1>3 DEF State

\* The bytes of a body are read up to its length, or to the NUL.
LEMMA BodyRead ==
  ASSUME ParserInv, NEW mode, NEW n \in Nat, n <= Len(m_buffer),
         After(0) = Reading(mode, 0),
         \/ mode = "length" /\ n <= Length(m_currentFrame) /\ Length(m_currentFrame) \in Nat
         \/ mode = "null" /\ \A i \in 1 .. n : m_buffer[i] # NUL
  PROVE  /\ After(n) = Reading(mode, n)
         /\ n < Len(m_buffer) => After(n + 1) =
              RefByte(Reading(mode, n), m_buffer[n + 1])
  <1>1. ASSUME NEW j \in 0 .. n - 1
        PROVE  RefByte(Reading(mode, j), m_buffer[j + 1]) =
                 State(mode, Append(SubSeq(m_buffer, 1, j), m_buffer[j + 1]), m_currentFrame, out)
    <2>1. Len(SubSeq(m_buffer, 1, j)) = j BY DEF ParserInv, TypeOK
    <2>2. CASE mode = "length"
      <3>1. Len(SubSeq(m_buffer, 1, j)) < Length(m_currentFrame) BY <2>1, <2>2
      <3>2. \A t, b : Len(t) < Length(m_currentFrame) =>
              RefByte(State("length", t, m_currentFrame, out), b) =
                State("length", Append(t, b), m_currentFrame, out)
        BY RefInBody
      <3>3. QED BY <2>2, <3>1, <3>2
    <2>3. CASE mode = "null"
      <3>1. m_buffer[j + 1] # NUL BY <2>3
      <3>2. \A t, b : b # NUL =>
              RefByte(State("null", t, m_currentFrame, out), b) =
                State("null", Append(t, b), m_currentFrame, out)
        BY RefInBody
      <3>3. QED BY <2>3, <3>1, <3>2
    <2>4. QED BY <2>2, <2>3
  <1>2. 0 \in Nat /\ 0 <= n OBVIOUS
  <1>3. QED BY <1>1, <1>2, Grow DEF ParserInv

\* A line of the headers.
LEMMA HeadersRead ==
  ASSUME ParserInv, InStep, HasLine, m_state = "READ_HEADERS", call # "onFrame"
  PROVE  After(Find(m_buffer, LF)) =
           RefByte(Reading("headers", Find(m_buffer, LF) - 1), LF)
  <1>1. Find(m_buffer, LF) \in 1 .. Len(m_buffer) BY Line DEF ParserInv, TypeOK
  <1>2. After(0) = Reading("headers", 0)
    BY InFrame DEF Mode
  <1>3. \A t, b : b # LF =>
          RefByte(State("headers", t, m_currentFrame, out), b) =
            State("headers", Append(t, b), m_currentFrame, out)
    BY RefInHeaders
  <1>4. 0 < Find(m_buffer, LF) BY <1>1
  <1>5. QED BY <1>2, <1>3, <1>4, LineRead

\* A step of processBuffer() that uses n bytes, and where the reference has to be.
LEMMA Moved ==
  ASSUME ParserInv, UNCHANGED fed,
         NEW n \in Nat, n <= Len(m_buffer), m_buffer' = Erase(m_buffer, n),
         After(n) = Expected'
  PROVE  InStep'
  <1>1. Used' = Used + n BY Taken DEF ParserInv
  <1>2. Run(fed')[Used'] = After(n) BY <1>1
  <1>3. QED BY <1>2 DEF InStep

\* A frame the parser delivers is the one the reference delivers.
LEMMA Delivering ==
  ASSUME NEW text, NEW ended, NEW mode, Deliver(text, ended)
  PROVE  RefDeliver(State(mode, text, m_currentFrame, out), ended) = Expected'
  <1> DEFINE o == Append(out, Delivered(WithBody(m_currentFrame, text), ended))
  <1>1. call' = "onFrame" /\ m_currentFrame' = EmptyFrame /\ out' = o
    BY Zenon DEF Deliver, WithBody
  <1> HIDE DEF o
  <1>2. Expected' = State("command", <<>>, EmptyFrame, o) BY <1>1 DEF Expected, State
  <1>3. QED BY <1>2, RefDelivered DEF o

\* A body that is read by its length,
LEMMA BodyByLength ==
  ASSUME ParserInv, InStep, LengthFits, ReadBodyByLength
  PROVE  InStep'
  <1>1. PICK n \in Nat : /\ n = m_contentLength /\ n = Length(m_currentFrame)
                         /\ n + 1 <= Len(m_buffer) /\ (n + 1) % SizeMod = n + 1
    <2> DEFINE n == m_contentLength
    <2>1. n \in 0 .. SizeMod - 1 /\ n # SizeMod - 1 /\ SizeMod \in Nat /\ Len(m_buffer) \in Nat
      BY DEF ParserInv, TypeOK, LengthFits
    <2>2. n \in Nat /\ (n + 1) % SizeMod = n + 1 BY ONLY <2>1
    <2>3. n + 1 <= Len(m_buffer) BY <2>2 DEF ReadBodyByLength, BodyIsThere
    <2>4. n = Length(m_currentFrame)
      BY DEF ReadBodyByLength, Processing, ParserInv, FrameInHand
    <2>5. QED BY <2>2, <2>3, <2>4
  <1>2. Len(m_buffer) \in Nat /\ n < Len(m_buffer) /\ n <= Len(m_buffer) /\ n + 1 \in Nat
    BY <1>1 DEF ParserInv, TypeOK
  <1>3. PICK text : text = SubSeq(m_buffer, 1, n) /\ text = Substr(m_buffer, n) /\ Len(text) = n
    BY <1>2, Parts DEF ParserInv, TypeOK
  <1>4. PICK ended \in BOOLEAN :
          /\ ended = (m_buffer[n + 1] = NUL)
          /\ m_buffer' = Erase(m_buffer, IF ended THEN n + 1 ELSE n)
          /\ Deliver(text, ended)
    BY <1>1, <1>2, <1>3 DEF ReadBodyByLength, IsNul
  <1>5. PICK r : r = State("length", text, m_currentFrame, out) OBVIOUS
  <1>6. After(n) = r /\ After(n + 1) = RefByte(r, m_buffer[n + 1])
    <2>1. After(0) = Reading("length", 0)
      BY InFrame DEF Mode, ReadBodyByLength, Processing
    <2>2. n <= Length(m_currentFrame) /\ Length(m_currentFrame) \in Nat BY <1>1
    <2>3. QED BY <1>2, <1>3, <1>5, <2>1, <2>2, BodyRead
  <1>7. RefDeliver(r, ended) = Expected' BY <1>4, <1>5, Delivering
  <1>8. UNCHANGED fed BY <1>4 DEF Deliver
  <1>9. CASE ended
    <2>1. m_buffer[n + 1] = NUL /\ m_buffer' = Erase(m_buffer, n + 1) BY <1>4, <1>9
    <2>2. ~(Len(text) < Length(m_currentFrame)) BY <1>1, <1>3
    <2>3. RefByte(r, NUL) = RefDeliver(r, TRUE) BY <1>5, <2>2, RefAtEnd
    <2>4. After(n + 1) = Expected' BY <1>6, <1>7, <1>9, <2>1, <2>3
    <2>5. QED BY <1>2, <1>1, <1>8, <2>1, <2>4, Moved
  <1>10. CASE ~ended
    <2>1. m_buffer[n + 1] # NUL /\ m_buffer' = Erase(m_buffer, n) BY <1>4, <1>10
    <2>2. /\ Used' = Used + n
          /\ \A i \in 1 .. Len(m_buffer') : m_buffer'[i] = m_buffer[n + i]
      BY <1>2, <1>8, <2>1, Taken DEF ParserInv
    <2>3. Len(m_buffer') = Len(m_buffer) - n
      BY <1>2, <2>1, Parts DEF ParserInv, TypeOK
    <2>4. 1 \in 1 .. Len(m_buffer') /\ m_buffer' # <<>> BY <1>1, <1>2, <2>3
    <2>5. m_buffer'[1] # NUL BY <2>1, <2>2, <2>4
    <2>6. Expected'.mode = "command" BY <1>4 DEF Deliver, Expected
    <2>7. r.mode = "length" /\ ~(Len(r.text) < Length(r.frame))
      BY <1>1, <1>3, <1>5 DEF State
    <2>8. RefDeliver(r, FALSE) = Expected' BY <1>7, <1>10
    <2>9. QED BY <1>6, <1>8, <2>2, <2>4, <2>5, <2>6, <2>7, <2>8 DEF InStep
  <1>11. QED BY <1>9, <1>10

\* or up to the NUL.
LEMMA BodyUntilNull ==
  ASSUME ParserInv, InStep, ReadBodyUntilNull
  PROVE  InStep'
  <1>1. PICK n \in Nat : /\ n + 1 = Find(m_buffer, NUL) /\ n + 1 <= Len(m_buffer)
                         /\ m_buffer[n + 1] = NUL /\ \A i \in 1 .. n : m_buffer[i] # NUL
    <2> DEFINE n == Find(m_buffer, NUL) - 1
    <2>1. Len(m_buffer) \in Nat BY DEF ParserInv, TypeOK
    <2>2. /\ Find(m_buffer, NUL) \in 1 .. Len(m_buffer) /\ m_buffer[Find(m_buffer, NUL)] = NUL
          /\ \A i \in 1 .. Len(m_buffer) : m_buffer[i] = NUL => Find(m_buffer, NUL) <= i
      BY <2>1, FindFirst DEF ReadBodyUntilNull
    <2>3. n \in Nat /\ n + 1 = Find(m_buffer, NUL) BY <2>1, <2>2
    <2>4. QED BY <2>1, <2>2, <2>3
  <1>2. Len(m_buffer) \in Nat /\ n < Len(m_buffer) /\ n <= Len(m_buffer) /\ n + 1 \in Nat
        /\ n + 1 - 1 = n
    BY <1>1 DEF ParserInv, TypeOK
  <1>3. PICK text : text = SubSeq(m_buffer, 1, n) /\ text = Substr(m_buffer, n)
    BY <1>2, Parts DEF ParserInv, TypeOK
  <1>4. m_buffer' = Erase(m_buffer, n + 1) /\ Deliver(text, TRUE)
    <2>1. Find(m_buffer, NUL) - 1 = n BY <1>1, <1>2
    <2>2. QED BY <1>1, <1>3, <2>1 DEF ReadBodyUntilNull
  <1>5. PICK r : r = State("null", text, m_currentFrame, out) OBVIOUS
  <1>6. After(n + 1) = RefByte(r, m_buffer[n + 1])
    <2>1. After(0) = Reading("null", 0)
      BY InFrame DEF Mode, ReadBodyUntilNull, Processing
    <2>2. QED BY <1>1, <1>2, <1>3, <1>5, <2>1, BodyRead
  <1>7. RefDeliver(r, TRUE) = Expected' BY <1>4, <1>5, Delivering
  <1>8. RefByte(r, NUL) = RefDeliver(r, TRUE) BY <1>5, RefAtEnd
  <1>9. After(n + 1) = Expected' BY <1>1, <1>6, <1>7, <1>8
  <1>10. UNCHANGED fed BY <1>4 DEF Deliver
  <1>11. QED BY <1>1, <1>2, <1>4, <1>9, <1>10, Moved

\* A step of processBuffer() keeps the parser in step.
LEMMA ProcessStep ==
  ASSUME ParserInv, InStep, ReadBodyByLength => LengthFits, Process
  PROVE  InStep'
  <1>1. CASE SkipCr
    <2> USE <1>1 DEF SkipCr, Processing
    <2>1. m_buffer # <<>> /\ m_buffer[1] = CR /\ m_buffer' = Erase(m_buffer, 1) /\ 1 <= Len(m_buffer)
      BY DEF EolFirst, Erase, ParserInv, TypeOK
    <2>2. After(1) = Expected BY <2>1, FirstByte, RefBetween
    <2>3. Expected' = Expected BY DEF Expected
    <2>4. QED BY <2>1, <2>2, <2>3, Moved
  <1>2. CASE SkipLf
    <2> USE <1>2 DEF SkipLf, Processing
    <2>1. m_buffer # <<>> /\ m_buffer[1] = LF /\ m_buffer' = Erase(m_buffer, 1) /\ 1 <= Len(m_buffer)
      BY DEF EolFirst, Erase, ParserInv, TypeOK
    <2>2. After(1) = State("command", <<>>, m_currentFrame, Append(out, Heartbeat))
      BY <2>1, FirstByte, RefBetween
    <2>3. Expected' = State("command", <<>>, m_currentFrame, Append(out, Heartbeat))
      BY DEF Expected, State, Mode
    <2>4. QED BY <2>1, <2>2, <2>3, Moved
  <1>3. CASE OnHeartbeatReturns
    <2> USE <1>3 DEF OnHeartbeatReturns, parser
    <2>1. Expected' = Expected BY DEF Expected
    <2>2. Used' = Used BY DEF Used
    <2>3. QED BY <2>1, <2>2 DEF InStep
  <1>4. CASE ReadCommand
    <2> USE <1>4 DEF ReadCommand, Processing
    <2> DEFINE p == Find(m_buffer, LF)
    <2>1. p \in 1 .. Len(m_buffer) /\ FirstLine = Chomp(SubSeq(m_buffer, 1, p - 1))
      BY Line DEF ParserInv, TypeOK
    <2>2. m_buffer # <<>> /\ m_buffer[1] \notin {CR, LF} /\ m_buffer[p] = LF
      BY <2>1, FindFirst DEF EolFirst, ParserInv, TypeOK
    <2>3. 1 < p /\ SubSeq(m_buffer, 1, p - 1) # <<>>
      <3>1. p # 1 BY <2>2
      <3>2. Len(SubSeq(m_buffer, 1, p - 1)) = p - 1 /\ 1 < p
        BY <2>1, <3>1 DEF ParserInv, TypeOK
      <3>3. QED BY <2>1, <3>2
    <2>4. After(1) = Reading("command", 1)
      BY <2>2, CommandStarts
    <2>5. After(p) =
            RefByte(Reading("command", p - 1), LF)
      <3>1. Grows("command", 1) BY RefInCommand
      <3>2. QED BY <2>3, <2>4, <3>1, LineRead
    <2>6. After(p) = State("headers", <<>>, NewFrame(FirstLine), out)
      <3> DEFINE t == SubSeq(m_buffer, 1, p - 1)
      <3> HIDE DEF t
      <3>1. After(p) = RefCommand(State("command", t, m_currentFrame, out), LF)
        BY <2>5, RefInCommand DEF t
      <3>2. RefCommand(State("command", t, m_currentFrame, out), LF) =
              State("headers", <<>>, NewFrame(Chomp(t)), out)
        BY <2>3, RefCommandEnd DEF t
      <3>3. FirstLine = Chomp(t) BY <2>1 DEF t
      <3>4. QED BY <3>1, <3>2, <3>3
    <2>7. Expected' = State("headers", <<>>, NewFrame(FirstLine), out)
      BY DEF Expected, State, Mode
    <2>8. QED BY <2>1, <2>6, <2>7, Moved DEF EraseLine
  <1>5. CASE ReadHeader
    <2> USE <1>5 DEF ReadHeader, Processing
    <2> DEFINE p == Find(m_buffer, LF)
    <2>1. p \in 1 .. Len(m_buffer) /\ FirstLine = Chomp(SubSeq(m_buffer, 1, p - 1))
      BY Line DEF ParserInv, TypeOK
    <2>2. After(p) =
            RefByte(Reading("headers", p - 1), LF)
      BY HeadersRead
    <2>3. After(p) = State("headers", <<>>, parseHeaderLine(m_currentFrame, FirstLine), out)
      BY <2>1, <2>2, RefInHeaders
    <2>4. Expected' = State("headers", <<>>, parseHeaderLine(m_currentFrame, FirstLine), out)
      BY DEF Expected, State, Mode
    <2>5. QED BY <2>1, <2>3, <2>4, Moved DEF EraseLine
  <1>6. CASE EndHeaders
    <2> USE <1>6 DEF EndHeaders, Processing
    <2> DEFINE p == Find(m_buffer, LF)
    <2>1. p \in 1 .. Len(m_buffer) /\ FirstLine = Chomp(SubSeq(m_buffer, 1, p - 1))
      BY Line DEF ParserInv, TypeOK
    <2>2. After(p) =
            RefByte(Reading("headers", p - 1), LF)
      BY HeadersRead
    <2>3. After(p) =
            State(IF HasLength(m_currentFrame) THEN "length" ELSE "null", <<>>, m_currentFrame, out)
      BY <2>1, <2>2, RefInHeaders
    <2>4. Expected' =
            State(IF HasLength(m_currentFrame) THEN "length" ELSE "null", <<>>, m_currentFrame, out)
      BY DEF Expected, State, Mode
    <2>5. QED BY <2>1, <2>3, <2>4, Moved DEF EraseLine
  <1>7. CASE ReadBodyByLength BY <1>7, BodyByLength
  <1>8. CASE ReadBodyUntilNull BY <1>8, BodyUntilNull
  <1>9. CASE OnFrameReturns
    <2> USE <1>9 DEF OnFrameReturns
    <2>1. Expected' = Expected BY DEF Expected, Mode, ParserInv, FrameInHand
    <2>2. Used' = Used BY DEF Used
    <2>3. QED BY <2>1, <2>2 DEF InStep
  <1>10. CASE FeedReturns
    <2> USE <1>10 DEF FeedReturns, parser
    <2>1. Expected' = Expected BY DEF Expected
    <2>2. Used' = Used BY DEF Used
    <2>3. QED BY <2>1, <2>2 DEF InStep
  <1>11. QED
    BY <1>1, <1>2, <1>3, <1>4, <1>5, <1>6, <1>7, <1>8, <1>9, <1>10 DEF Process

\* Bytes that are fed change nothing of what the reference has read.
LEMMA FeedStep ==
  ASSUME ParserInv, InStep, NEW n \in 1 .. Len(rest), Feed(n)
  PROVE  InStep'
  <1>1. /\ Used' = Used /\ Len(fed') = Len(fed) + n
        /\ \A i \in 1 .. Len(fed) : fed'[i] = fed[i]
        /\ m_buffer # <<>> => m_buffer' # <<>> /\ m_buffer'[1] = m_buffer[1]
    BY FeedInv
  <1>2. Len(fed) \in Nat /\ Len(fed') \in Nat /\ Len(fed) <= Len(fed') /\ Used \in 0 .. Len(fed)
    BY <1>1 DEF ParserInv, TypeOK, BufferIsTail, Used
  <1>3. Run(fed')[Used'] = Run(fed)[Used] BY <1>1, <1>2, SamePrefix
  <1>4. Expected' = Expected BY DEF Expected, Feed
  <1>5. QED BY <1>1, <1>3, <1>4 DEF InStep

\* When the parser is at rest, what is left in the buffer calls nothing back.
LEMMA AtRest ==
  ASSUME ParserInv, InStep
  PROVE  ChunksDoNotMatter
  <1> SUFFICES ASSUME call = "none" PROVE out = Run(fed)[Len(fed)].out
    BY DEF ChunksDoNotMatter, Reference
  <1>1. Len(m_buffer) \in Nat /\ Used + Len(m_buffer) = Len(fed) /\ NeedsMore
    BY DEF ParserInv, TypeOK, Used, FrameInHand
  <1>2. CASE m_state = "WAIT_COMMAND"
    <2>1. CASE m_buffer = <<>>
      <3>1. Run(fed)[Used] = Expected BY <2>1 DEF InStep
      <3>2. Len(m_buffer) = 0 BY <2>1
      <3>3. Used = Len(fed) BY <3>2 DEF ParserInv, TypeOK, Used
      <3>4. QED BY <3>1, <3>3 DEF Expected
    <2>2. CASE m_buffer # <<>>
      <3>1. m_buffer[1] \notin {CR, LF} /\ Find(m_buffer, LF) = 0 /\ 1 <= Len(m_buffer)
        BY <1>1, <1>2, <2>2 DEF NeedsMore, EolFirst, HasLine, ParserInv, TypeOK
      <3>2. After(1) = Reading("command", 1)
        BY <1>2, <2>2, <3>1, CommandStarts
      <3>3. Grows("command", 1) BY RefInCommand
      <3>4. QED BY <1>1, <3>1, <3>2, <3>3, NoLine
    <2>3. QED BY <2>1, <2>2
  <1>3. CASE m_state = "READ_HEADERS"
    <2>1. After(0) = Reading("headers", 0)
      BY <1>3, InFrame DEF Mode
    <2>2. \A t, b : b # LF =>
            RefByte(State("headers", t, m_currentFrame, out), b) =
              State("headers", Append(t, b), m_currentFrame, out)
      BY RefInHeaders
    <2>3. Find(m_buffer, LF) = 0 BY <1>1, <1>3 DEF NeedsMore, HasLine
    <2>4. QED BY <1>1, <2>1, <2>2, <2>3, NoLine
  <1>4. CASE m_state = "READ_BODY_BY_LENGTH"
    <2>1. After(0) = Reading("length", 0)
      BY <1>4, InFrame DEF Mode
    <2>2. m_contentLength = Length(m_currentFrame) /\ m_contentLength \in 0 .. SizeMod - 1
      BY <1>4 DEF ParserInv, FrameInHand, TypeOK
    <2>3. Len(m_buffer) < (m_contentLength + 1) % SizeMod
      BY <1>1, <1>4, <2>2 DEF NeedsMore, BodyIsThere
    <2>4. Len(m_buffer) <= Length(m_currentFrame) /\ Length(m_currentFrame) \in Nat
      BY <1>1, <2>2, <2>3
    <2>5. After(Len(m_buffer)) =
            Reading("length", Len(m_buffer))
      BY <1>1, <2>1, <2>4, BodyRead
    <2>6. QED BY <1>1, <2>5 DEF State
  <1>5. CASE m_state = "READ_BODY_UNTIL_NULL"
    <2>1. After(0) = Reading("null", 0)
      BY <1>5, InFrame DEF Mode
    <2>2. \A i \in 1 .. Len(m_buffer) : m_buffer[i] # NUL
      BY <1>1, <1>5, FindFirst DEF NeedsMore
    <2>3. After(Len(m_buffer)) =
            Reading("null", Len(m_buffer))
      BY <1>1, <2>1, <2>2, BodyRead
    <2>4. QED BY <1>1, <2>3 DEF State
  <1>6. QED BY <1>2, <1>3, <1>4, <1>5 DEF ParserInv, TypeOK, States

\* It is in step at the beginning, and again after reset().
LEMMA Starts == Init => InStep
  <1> SUFFICES ASSUME Init PROVE InStep OBVIOUS
  <1>1. Used = 0 /\ fed = <<>> BY DEF Init, Used
  <1>2. Run(<<>>)[0] = RefStart BY RunStep
  <1>3. Expected = RefStart BY DEF Init, Expected, RefStart, Mode
  <1>4. QED BY <1>1, <1>2, <1>3 DEF InStep

LEMMA Restarts == ParserInv /\ Reset => InStep'
  <1> SUFFICES ASSUME ParserInv, Reset PROVE InStep' OBVIOUS
  <1>1. Used' = 0 /\ fed' = <<>> BY DEF Reset, Used
  <1>2. Run(<<>>)[0] = RefStart BY RunStep
  <1>3. Expected' = RefStart
    BY DEF Reset, Expected, RefStart, Mode, ParserInv, FrameInHand
  <1>4. QED BY <1>1, <1>2, <1>3 DEF InStep

\* Whenever feed() has returned, exactly those frames and heartbeats have been
\* called back that a reader of single bytes finds in what was fed, however it
\* was cut, as long as no frame announces the largest length size_t holds.
THEOREM ChunksAreForgotten == Spec /\ []LengthFits => []ChunksDoNotMatter
  <1>1. ParserInv /\ InStep /\ LengthFits /\ [Next]_vars => InStep'
    <2> SUFFICES ASSUME ParserInv, InStep, LengthFits, [Next]_vars PROVE InStep' OBVIOUS
    <2>1. CASE \E n \in 1 .. Len(rest) : Feed(n) BY <2>1, FeedStep
    <2>2. CASE Process BY <2>2, ProcessStep
    <2>3. CASE Reset BY <2>3, Restarts
    <2>4. CASE UNCHANGED vars BY <2>4 DEF InStep, Used, Expected, vars, parser
    <2>5. QED BY <2>1, <2>2, <2>3, <2>4 DEF Next
  <1>2. ParserInv /\ InStep => ChunksDoNotMatter BY AtRest
  <1>3. QED BY Invariance, Starts, <1>1, <1>2, PTL DEF Spec
-----------------------------------------------------------------------------
(* What serialize() writes, read by the reference.                         *)

\* It reads nothing, one byte more, and bytes in two parts.
LEMMA FromNothing == \A r : From(r, <<>>) = r
  <1> SUFFICES ASSUME NEW r PROVE From(r, <<>>) = r OBVIOUS
  <1>1. Len(<<>>) = 0 OBVIOUS
  <1>2. QED BY <1>1, Step DEF From

LEMMA FromAppended ==
  ASSUME NEW r, NEW s \in Seq(Bytes), NEW b \in Bytes
  PROVE  From(r, Append(s, b)) = RefByte(From(r, s), b)
  <1> DEFINE t == Append(s, b)
             n == Len(s)
  <1>1. n \in Nat /\ Len(t) = n + 1 /\ Len(t) \in Nat /\ n <= Len(t) /\ t[n + 1] = b
    OBVIOUS
  <1>2. \A i \in 1 .. n : t[i] = s[i] OBVIOUS
  <1> HIDE DEF t
  <1>3. Steps(r, t)[n] = Steps(r, s)[n] BY <1>1, <1>2, SameSteps
  <1>4. PICK m \in 1 .. Len(t) : m = n + 1 /\ m - 1 = n BY <1>1
  <1>5. Steps(r, t)[m] = RefByte(Steps(r, t)[m - 1], t[m]) BY <1>1, Step
  <1>6. From(r, t) = Steps(r, t)[m] /\ From(r, s) = Steps(r, s)[n] BY <1>1, <1>4 DEF From
  <1>7. QED BY <1>1, <1>3, <1>4, <1>5, <1>6 DEF t

LEMMA FromJoined ==
  ASSUME NEW r, NEW s \in Seq(Bytes), NEW t \in Seq(Bytes)
  PROVE  From(r, s \o t) = From(From(r, s), t)
  <1> DEFINE u(n) == SubSeq(t, 1, n)
             T == {n \in Nat : n <= Len(t) => From(r, s \o u(n)) = From(From(r, s), u(n))}
  <1>1. 0 \in T
    <2>1. u(0) = <<>> /\ s \o <<>> = s OBVIOUS
    <2> HIDE DEF u
    <2>2. QED BY <2>1, FromNothing
  <1>2. ASSUME NEW n \in T PROVE n + 1 \in T
    <2> SUFFICES ASSUME n + 1 <= Len(t)
                 PROVE  From(r, s \o u(n + 1)) = From(From(r, s), u(n + 1))
      OBVIOUS
    <2>1. n \in Nat /\ n <= Len(t) /\ From(r, s \o u(n)) = From(From(r, s), u(n)) OBVIOUS
    <2>2. u(n) \in Seq(Bytes) /\ t[n + 1] \in Bytes /\ u(n + 1) = Append(u(n), t[n + 1])
      BY <2>1, FirstAndNext
    <2> HIDE DEF u, T
    <2>3. /\ s \o Append(u(n), t[n + 1]) = Append(s \o u(n), t[n + 1])
          /\ s \o u(n) \in Seq(Bytes)
      BY <2>2
    <2>4. PICK v \in Seq(Bytes), b \in Bytes, w \in Seq(Bytes) :
            v = u(n) /\ b = t[n + 1] /\ w = s \o u(n)
      BY <2>2, <2>3
    <2>5. From(r, Append(w, b)) = RefByte(From(r, w), b) BY FromAppended
    <2>6. From(From(r, s), Append(v, b)) = RefByte(From(From(r, s), v), b)
      BY FromAppended
    <2>7. From(r, w) = From(From(r, s), v) BY <2>1, <2>4
    <2>8. Append(w, b) = s \o u(n + 1) /\ Append(v, b) = u(n + 1) BY <2>2, <2>3, <2>4
    <2>9. QED BY <2>5, <2>6, <2>7, <2>8
  <1> HIDE DEF T
  <1>3. T = Nat BY <1>1, <1>2, Induct DEF T
  <1>4. Len(t) \in T /\ u(Len(t)) = t BY <1>3
  <1> HIDE DEF u
  <1>5. QED BY <1>4 DEF T

\* Bytes that are only added to the text are the text.
LEMMA TextIsRead ==
  ASSUME NEW mode, NEW f, NEW o, NEW t \in Seq(Bytes),
         \A n \in 0 .. Len(t) - 1 :
           RefByte(State(mode, SubSeq(t, 1, n), f, o), t[n + 1]) =
             State(mode, Append(SubSeq(t, 1, n), t[n + 1]), f, o)
  PROVE  From(State(mode, <<>>, f, o), t) = State(mode, t, f, o)
  <1> DEFINE u(n) == SubSeq(t, 1, n)
             T == {n \in Nat : n <= Len(t) =>
                     From(State(mode, <<>>, f, o), u(n)) = State(mode, u(n), f, o)}
  <1>1. 0 \in T
    <2>1. u(0) = <<>> OBVIOUS
    <2> HIDE DEF u
    <2>2. QED BY <2>1, FromNothing
  <1>2. ASSUME NEW n \in T PROVE n + 1 \in T
    <2> SUFFICES ASSUME n + 1 <= Len(t)
                 PROVE  From(State(mode, <<>>, f, o), u(n + 1)) = State(mode, u(n + 1), f, o)
      OBVIOUS
    <2>1. n \in Nat /\ n <= Len(t) /\ n \in 0 .. Len(t) - 1
          /\ From(State(mode, <<>>, f, o), u(n)) = State(mode, u(n), f, o)
      OBVIOUS
    <2>2. u(n) \in Seq(Bytes) /\ t[n + 1] \in Bytes /\ u(n + 1) = Append(u(n), t[n + 1])
      BY <2>1, FirstAndNext
    <2>3. RefByte(State(mode, u(n), f, o), t[n + 1]) = State(mode, Append(u(n), t[n + 1]), f, o)
      BY <2>1
    <2> HIDE DEF u, T
    <2>4. From(State(mode, <<>>, f, o), u(n + 1)) =
            RefByte(From(State(mode, <<>>, f, o), u(n)), t[n + 1])
      BY <2>2, FromAppended
    <2>5. QED BY <2>1, <2>2, <2>3, <2>4
  <1> HIDE DEF T
  <1>3. T = Nat BY <1>1, <1>2, Induct DEF T
  <1>4. Len(t) \in T /\ u(Len(t)) = t BY <1>3
  <1> HIDE DEF u
  <1>5. QED BY <1>4 DEF T

\* A command, after which headers are read;
LEMMA CommandIsRead ==
  ASSUME NEW c \in Seq(Bytes), c # <<>>, c[1] # CR, LF \notin Range(c), Chomp(c) = c,
         NEW f, NEW o
  PROVE  From(State("command", <<>>, f, o), Append(c, LF)) = State("headers", <<>>, NewFrame(c), o)
  <1>1. ASSUME NEW n \in 0 .. Len(c) - 1
        PROVE  RefByte(State("command", SubSeq(c, 1, n), f, o), c[n + 1]) =
                 State("command", Append(SubSeq(c, 1, n), c[n + 1]), f, o)
    <2>1. n + 1 \in DOMAIN c /\ Len(SubSeq(c, 1, n)) = n OBVIOUS
    <2>2. c[n + 1] # LF BY <2>1 DEF Range
    <2>3. SubSeq(c, 1, n) = <<>> => c[n + 1] # CR
      <3>1. SubSeq(c, 1, n) = <<>> => n = 0 BY <2>1
      <3>2. n = 0 => n + 1 = 1 OBVIOUS
      <3>3. QED BY <3>1, <3>2
    <2>4. PICK t, b : t = SubSeq(c, 1, n) /\ b = c[n + 1] OBVIOUS
    <2>5. b # LF /\ (t = <<>> => b # CR) BY <2>2, <2>3, <2>4
    <2>6. RefByte(State("command", t, f, o), b) = State("command", Append(t, b), f, o)
      BY ONLY <2>5, RefInCommand
    <2>7. QED BY <2>4, <2>6
  <1>2. From(State("command", <<>>, f, o), c) = State("command", c, f, o) BY <1>1, TextIsRead
  <1>3. LF \in Bytes BY DEF Bytes
  <1>4. From(State("command", <<>>, f, o), Append(c, LF)) = RefByte(State("command", c, f, o), LF)
    BY <1>2, <1>3, FromAppended
  <1>5. RefByte(State("command", c, f, o), LF) = RefCommand(State("command", c, f, o), LF)
    BY RefInCommand
  <1>6. QED BY <1>4, <1>5, RefCommandEnd

\* a line of the headers, which is taken apart at its first colon,
LEMMA KeyAndValue ==
  ASSUME NEW key \in Seq(Bytes), NEW value \in Seq(Bytes), COLON \notin Range(key), NEW f
  PROVE  parseHeaderLine(f, key \o <<COLON>> \o value) = addHeader(f, key, value)
  <1> DEFINE n == Len(key)
             line == key \o <<COLON>> \o value
  <1>1. COLON \in Bytes BY DEF Bytes
  <1>2. /\ line \in Seq(Bytes) /\ Len(line) = n + 1 + Len(value) /\ n \in Nat /\ Len(value) \in Nat
        /\ line[n + 1] = COLON
    BY <1>1
  <1>3. \A i \in 1 .. n : line[i] = key[i] BY <1>1
  <1>4. \A i \in 1 .. Len(value) : line[n + 1 + i] = value[i]
    <2> DEFINE front == key \o <<COLON>>
    <2>1. front \in Seq(Bytes) /\ Len(front) = n + 1 BY <1>1
    <2> HIDE DEF front
    <2>2. \A i \in 1 .. Len(value) : (front \o value)[Len(front) + i] = value[i]
      BY <2>1, Joined
    <2>3. QED BY <2>1, <2>2 DEF front
  <1> HIDE DEF line, n
  <1>5. Find(line, COLON) = n + 1
    <2>1. n + 1 \in 1 .. Len(line) /\ Len(line) \in Nat BY <1>2
    <2>2. /\ Find(line, COLON) \in 0 .. Len(line)
          /\ Find(line, COLON) # 0 /\ line[Find(line, COLON)] = COLON
          /\ Find(line, COLON) <= n + 1
      BY <1>2, <2>1, FindFirst
    <2>3. \A i \in 1 .. n : line[i] # COLON
      <3>1. \A i \in 1 .. n : key[i] \in Range(key) BY DEF Range, n
      <3>2. QED BY <1>3, <3>1
    <2>4. ~(Find(line, COLON) \in 1 .. n) BY <2>2, <2>3
    <2>5. QED BY <1>2, <2>1, <2>2, <2>4
  <1>6. Substr(line, n) = key
    <2>1. n <= Len(line) BY <1>2
    <2>2. Substr(line, n) = SubSeq(line, 1, n) /\ Len(Substr(line, n)) = n
          /\ Substr(line, n) \in Seq(Bytes)
      BY <1>2, <2>1, Parts
    <2>3. \A i \in 1 .. n : SubSeq(line, 1, n)[i] = line[i] BY <1>2, <2>1
    <2>4. \A i \in 1 .. n : Substr(line, n)[i] = key[i] BY <1>3, <2>2, <2>3
    <2>5. QED BY <2>2, <2>4, SeqEqual DEF n
  <1>7. Erase(line, n + 1) = value
    <2>1. PICK m \in Nat : m = n + 1 /\ m <= Len(line) /\ Len(line) - m = Len(value) BY <1>2
    <2>2. /\ Len(Erase(line, m)) = Len(line) - m /\ Erase(line, m) \in Seq(Bytes)
          /\ \A i \in 1 .. Len(line) - m : Erase(line, m)[i] = line[m + i]
      BY <1>2, <2>1, Parts
    <2>3. /\ Len(Erase(line, m)) = Len(value)
          /\ \A i \in 1 .. Len(value) : Erase(line, m)[i] = value[i]
      BY <1>4, <2>1, <2>2
    <2>4. QED BY <2>1, <2>2, <2>3, SeqEqual
  <1>8. PICK p : p = Find(line, COLON) /\ p # 0 /\ p - 1 = n /\ p = n + 1 BY <1>2, <1>5
  <1>9. parseHeaderLine(f, line) = addHeader(f, Substr(line, p - 1), Erase(line, p))
    BY <1>8, Zenon DEF parseHeaderLine
  <1>10. QED BY <1>6, <1>7, <1>8, <1>9 DEF line

LEMMA NoCr ==
  ASSUME NEW s \in Seq(Bytes), s # <<>>, Chomp(s) = s
  PROVE  Last(s) # CR
  <1> SUFFICES ASSUME Last(s) = CR PROVE FALSE OBVIOUS
  <1>1. SubSeq(s, 1, Len(s) - 1) = s BY DEF Chomp, Front
  <1>2. PICK k \in Nat : k = Len(s) - 1
    <2>1. Len(s) \in Nat /\ Len(s) # 0 OBVIOUS
    <2>2. QED BY <2>1
  <1>3. Len(SubSeq(s, 1, k)) = k BY <1>2
  <1>4. QED BY <1>1, <1>2, <1>3

HeaderBytes(h) == h[1] \o <<COLON>> \o h[2] \o <<LF>>

LEMMA HeaderIsRead ==
  ASSUME NEW h \in Seq(Bytes) \X Seq(Bytes), Range(h[1]) \cap {LF, COLON} = {},
         LF \notin Range(h[2]), Chomp(h[2]) = h[2], NEW f, NEW o
  PROVE  /\ HeaderBytes(h) \in Seq(Bytes)
         /\ From(State("headers", <<>>, f, o), HeaderBytes(h)) =
              State("headers", <<>>, addHeader(f, h[1], h[2]), o)
  <1> DEFINE line == h[1] \o <<COLON>> \o h[2]
  <1>1. COLON \in Bytes /\ LF \in Bytes /\ COLON # LF /\ COLON # CR
    BY DEF Bytes, COLON, LF, CR
  <1>2. line \in Seq(Bytes) /\ line # <<>> BY <1>1
  <1>3. HeaderBytes(h) = Append(line, LF) BY <1>1, <1>2 DEF HeaderBytes
  <1>4. \A i \in 1 .. Len(line) : line[i] # LF
    <2> TAKE i \in 1 .. Len(line)
    <2> DEFINE n == Len(h[1])
    <2>1. CASE i <= n
      <3>1. i \in DOMAIN h[1] /\ line[i] = h[1][i] BY <1>1, <2>1
      <3>2. QED BY <3>1 DEF Range
    <2>2. CASE i = n + 1 BY <1>1, <2>2
    <2>3. CASE i > n + 1
      <3>1. i - (n + 1) \in DOMAIN h[2] /\ line[i] = h[2][i - (n + 1)] BY <1>1, <2>3
      <3>2. QED BY <3>1 DEF Range
    <2>4. QED BY <2>1, <2>2, <2>3
  <1>5. Chomp(line) = line
    <2>1. CASE h[2] = <<>>
      <3>1. Last(line) = COLON BY <1>1, <2>1 DEF Last
      <3>2. QED BY <1>1, <3>1 DEF Chomp
    <2>2. CASE h[2] # <<>>
      <3>1. Last(line) = Last(h[2]) BY <1>1, <2>2 DEF Last
      <3>2. Last(h[2]) # CR BY <2>2, NoCr
      <3>3. QED BY <3>1, <3>2 DEF Chomp
    <2>3. QED BY <2>1, <2>2
  <1>6. parseHeaderLine(f, line) = addHeader(f, h[1], h[2]) BY KeyAndValue
  <1> HIDE DEF line
  <1>7. ASSUME NEW n \in 0 .. Len(line) - 1
        PROVE  RefByte(State("headers", SubSeq(line, 1, n), f, o), line[n + 1]) =
                 State("headers", Append(SubSeq(line, 1, n), line[n + 1]), f, o)
    <2>1. line[n + 1] # LF BY <1>2, <1>4
    <2>2. QED BY <2>1, RefInHeaders
  <1>8. From(State("headers", <<>>, f, o), line) = State("headers", line, f, o)
    BY <1>2, <1>7, TextIsRead
  <1>9. From(State("headers", <<>>, f, o), Append(line, LF)) =
          RefByte(State("headers", line, f, o), LF)
    BY <1>1, <1>2, <1>8, FromAppended
  <1>10. RefByte(State("headers", line, f, o), LF) =
           State("headers", <<>>, addHeader(f, h[1], h[2]), o)
    BY <1>2, <1>5, <1>6, RefInHeaders
  <1>11. HeaderBytes(h) \in Seq(Bytes) BY <1>1, <1>2, <1>3
  <1>12. QED BY <1>3, <1>9, <1>10, <1>11

\* One piece after the other.
LEMMA PiecesAreRead ==
  ASSUME NEW pieces \in Seq(Seq(Bytes)), NEW r,
         \A n \in 0 .. Len(pieces) - 1 : From(r[n], pieces[n + 1]) = r[n + 1]
  PROVE  /\ FlattenSeq(pieces) \in Seq(Bytes)
         /\ From(r[0], FlattenSeq(pieces)) = r[Len(pieces)]
  <1> DEFINE u(n) == SubSeq(pieces, 1, n)
             T == {n \in Nat : n <= Len(pieces) =>
                     FlattenSeq(u(n)) \in Seq(Bytes) /\ From(r[0], FlattenSeq(u(n))) = r[n]}
  <1>1. 0 \in T
    <2>1. u(0) = <<>> OBVIOUS
    <2> HIDE DEF u
    <2>2. FlattenSeq(u(0)) = <<>>
      <3>1. Len(<<>>) = 0 OBVIOUS
      <3>2. QED BY <2>1, <3>1 DEF FlattenSeq
    <2>3. FlattenSeq(u(0)) \in Seq(Bytes)
      <3>1. <<>> \in Seq(Bytes) OBVIOUS
      <3>2. QED BY ONLY <2>2, <3>1
    <2>4. From(r[0], FlattenSeq(u(0))) = r[0] BY <2>2, FromNothing
    <2>5. QED BY <2>3, <2>4
  <1>2. ASSUME NEW n \in T PROVE n + 1 \in T
    <2> SUFFICES ASSUME n + 1 <= Len(pieces)
                 PROVE  /\ FlattenSeq(u(n + 1)) \in Seq(Bytes)
                        /\ From(r[0], FlattenSeq(u(n + 1))) = r[n + 1]
      OBVIOUS
    <2>1. n \in Nat /\ n <= Len(pieces) /\ n \in 0 .. Len(pieces) - 1
          /\ FlattenSeq(u(n)) \in Seq(Bytes) /\ From(r[0], FlattenSeq(u(n))) = r[n]
      OBVIOUS
    <2>2. u(n) \in Seq(Seq(Bytes)) /\ pieces[n + 1] \in Seq(Bytes)
          /\ u(n + 1) = Append(u(n), pieces[n + 1])
      BY <2>1, FirstAndNext
    <2> HIDE DEF u, T
    <2>3. FlattenSeq(u(n + 1)) = FlattenSeq(u(n)) \o pieces[n + 1] BY <2>2, FlattenAppended
    <2>4. From(r[0], FlattenSeq(u(n)) \o pieces[n + 1]) =
            From(From(r[0], FlattenSeq(u(n))), pieces[n + 1])
      BY <2>1, <2>2, FromJoined
    <2>5. From(r[n], pieces[n + 1]) = r[n + 1] BY <2>1
    <2>6. FlattenSeq(u(n + 1)) \in Seq(Bytes)
      <3>1. FlattenSeq(u(n)) \o pieces[n + 1] \in Seq(Bytes) BY <2>1, <2>2, Joined
      <3>2. QED BY <2>3, <3>1
    <2>7. QED BY <2>1, <2>3, <2>4, <2>5, <2>6
  <1> HIDE DEF T
  <1>3. T = Nat BY <1>1, <1>2, Induct DEF T
  <1>4. Len(pieces) \in T /\ u(Len(pieces)) = pieces BY <1>3
  <1> HIDE DEF u
  <1>5. QED BY <1>4 DEF T

\* all headers,
LEMMA HeadersAreRead ==
  ASSUME NEW f \in Frames, Sendable(f), NEW o
  PROVE  LET lines == [k \in DOMAIN f.headers |->
                         f.headers[k][1] \o <<COLON>> \o f.headers[k][2] \o <<LF>>]
         IN /\ FlattenSeq(lines) \in Seq(Bytes)
            /\ From(State("headers", <<>>, NewFrame(f.command), o), FlattenSeq(lines)) =
                 State("headers", <<>>, [f EXCEPT !.body = <<>>], o)
  <1> DEFINE hs == f.headers
             N == Len(hs)
             lines == [k \in DOMAIN hs |-> HeaderBytes(hs[k])]
             g(n) == [NewFrame(f.command) EXCEPT !.headers = SubSeq(hs, 1, n)]
             r == [n \in 0 .. N |-> State("headers", <<>>, g(n), o)]
  <1>1. hs \in Seq(Seq(Bytes) \X Seq(Bytes)) /\ N \in Nat /\ DOMAIN hs = 1 .. N
    BY DEF Frames
  <1>2. ASSUME NEW k \in 1 .. N
        PROVE  /\ hs[k] \in Seq(Bytes) \X Seq(Bytes) /\ HeaderBytes(hs[k]) \in Seq(Bytes)
               /\ \A gg : From(State("headers", <<>>, gg, o), HeaderBytes(hs[k])) =
                            State("headers", <<>>, addHeader(gg, hs[k][1], hs[k][2]), o)
    <2>1. hs[k] \in Seq(Bytes) \X Seq(Bytes) BY <1>1
    <2>2. /\ Range(hs[k][1]) \cap {LF, COLON} = {}
          /\ LF \notin Range(hs[k][2]) /\ Chomp(hs[k][2]) = hs[k][2]
      BY <1>1 DEF Sendable
    <2> HIDE DEF hs
    <2>3. QED BY <2>1, <2>2, HeaderIsRead
  <1>3. lines \in Seq(Seq(Bytes)) /\ Len(lines) = N
    <2>1. lines \in [1 .. N -> Seq(Bytes)] BY <1>1, <1>2
    <2> HIDE DEF lines, N
    <2>2. QED BY <1>1, <2>1
  <1>4. \A n \in 0 .. N - 1 : From(r[n], lines[n + 1]) = r[n + 1]
    <2> TAKE n \in 0 .. N - 1
    <2>1. n \in 0 .. N /\ n + 1 \in 0 .. N /\ n + 1 \in 1 .. N /\ n \in Nat /\ n + 1 <= Len(hs)
      <3>1. PICK m \in Nat : m = Len(hs) BY ONLY <1>1, Zenon
      <3>2. n \in 0 .. m - 1 BY ONLY <3>1, n \in 0 .. N - 1, Zenon
      <3>3. n \in 0 .. m /\ n + 1 \in 0 .. m /\ n + 1 \in 1 .. m /\ n \in Nat /\ n + 1 <= m
        BY ONLY <3>1, <3>2, SMT
      <3>4. QED BY ONLY <3>1, <3>3, Zenon
    <2>2. SubSeq(hs, 1, n + 1) = Append(SubSeq(hs, 1, n), hs[n + 1])
      BY <1>1, <2>1, FirstAndNext
    <2>3. hs[n + 1] = <<hs[n + 1][1], hs[n + 1][2]>> BY <1>2, <2>1
    <2> HIDE DEF hs, N
    <2>4. addHeader(g(n), hs[n + 1][1], hs[n + 1][2]) = g(n + 1)
      BY <2>2, <2>3 DEF addHeader, NewFrame, EmptyFrame
    <2>5. lines[n + 1] = HeaderBytes(hs[n + 1]) BY <1>1, <2>1
    <2>6. r[n] = State("headers", <<>>, g(n), o) /\ r[n + 1] = State("headers", <<>>, g(n + 1), o)
      BY <2>1
    <2> HIDE DEF g, lines, r
    <2>7. From(State("headers", <<>>, g(n), o), HeaderBytes(hs[n + 1])) =
            State("headers", <<>>, addHeader(g(n), hs[n + 1][1], hs[n + 1][2]), o)
      BY <1>2, <2>1
    <2>8. QED BY <2>4, <2>5, <2>6, <2>7
  <1>5. r[0] = State("headers", <<>>, NewFrame(f.command), o)
    <2>1. SubSeq(hs, 1, 0) = <<>> BY <1>1
    <2> HIDE DEF hs
    <2>2. g(0) = NewFrame(f.command)
      <3>1. g(0) = [NewFrame(f.command) EXCEPT !.headers = <<>>] BY <2>1
      <3>2. NewFrame(f.command) = [command |-> f.command, headers |-> <<>>, body |-> <<>>]
        BY DEF NewFrame, EmptyFrame
      <3>3. QED BY <3>1, <3>2
    <2>3. 0 \in 0 .. N BY <1>1
    <2>4. QED BY <2>2, <2>3
  <1>6. r[N] = State("headers", <<>>, [f EXCEPT !.body = <<>>], o)
    <2>1. SubSeq(hs, 1, N) = hs BY <1>1
    <2>2. g(N) = [f EXCEPT !.body = <<>>]
      <3>1. g(N) = [NewFrame(f.command) EXCEPT !.headers = f.headers] BY <2>1
      <3>2. f = [command |-> f.command, headers |-> f.headers, body |-> f.body]
        BY DEF Frames
      <3>3. NewFrame(f.command) = [command |-> f.command, headers |-> <<>>, body |-> <<>>]
        BY DEF NewFrame, EmptyFrame
      <3> HIDE DEF g
      <3>4. [NewFrame(f.command) EXCEPT !.headers = f.headers] =
              [command |-> f.command, headers |-> f.headers, body |-> <<>>]
        BY <3>3
      <3>5. [f EXCEPT !.body = <<>>] =
              [command |-> f.command, headers |-> f.headers, body |-> <<>>]
        BY <3>2
      <3>6. QED BY <3>1, <3>4, <3>5
    <2>3. N \in 0 .. N BY <1>1
    <2>4. QED BY <2>2, <2>3
  <1> HIDE DEF r, lines, N
  <1>7. FlattenSeq(lines) \in Seq(Bytes) /\ From(r[0], FlattenSeq(lines)) = r[N]
    BY <1>3, <1>4, PiecesAreRead
  <1>8. QED BY <1>5, <1>6, <1>7 DEF lines, HeaderBytes

\* and a frame up to its NUL.
LEMMA FrameIsRead ==
  ASSUME NEW f \in Frames, Sendable(f), NEW o
  PROVE  /\ serialize(f) \in Seq(Bytes)
         /\ From(State("command", <<>>, EmptyFrame, o), serialize(f)) =
              State("command", <<>>, EmptyFrame, Append(o, Delivered(f, TRUE)))
  <1>1. /\ f.command \in Seq(Bytes) /\ f.body \in Seq(Bytes)
        /\ f = [command |-> f.command, headers |-> f.headers, body |-> f.body]
    BY DEF Frames
  <1>2. PICK lines : lines = FlattenSeq([k \in DOMAIN f.headers |->
                       f.headers[k][1] \o <<COLON>> \o f.headers[k][2] \o <<LF>>])
    OBVIOUS
  <1> DEFINE start == State("command", <<>>, EmptyFrame, o)
             head == [f EXCEPT !.body = <<>>]
             mode == IF HasLength(f) THEN "length" ELSE "null"
             a == Append(f.command, LF)
             b == a \o lines
             c == Append(b, LF)
             d == c \o f.body
  <1>3. LF \in Bytes /\ NUL \in Bytes BY DEF Bytes
  <1>4. a \in Seq(Bytes) /\ From(start, a) = State("headers", <<>>, NewFrame(f.command), o)
    <2>1. a \in Seq(Bytes) BY <1>1, <1>3
    <2>2. QED BY <1>1, <2>1, CommandIsRead DEF Sendable
  <1>5. /\ lines \in Seq(Bytes)
        /\ From(State("headers", <<>>, NewFrame(f.command), o), lines) =
             State("headers", <<>>, head, o)
    BY <1>2, HeadersAreRead
  <1>6. serialize(f) = Append(d, NUL)
    <2>1. serialize(f) = f.command \o <<LF>> \o lines \o <<LF>> \o f.body \o <<NUL>>
      BY <1>2 DEF serialize
    <2>2. f.command \o <<LF>> = a BY <1>1, <1>3
    <2> HIDE DEF a
    <2>3. b \in Seq(Bytes) BY <1>4, <1>5, Joined
    <2> HIDE DEF b
    <2>4. b \o <<LF>> = c /\ c \in Seq(Bytes) BY <1>3, <2>3
    <2> HIDE DEF c
    <2>5. d \in Seq(Bytes) BY <1>1, <2>4, Joined
    <2> HIDE DEF d
    <2>6. d \o <<NUL>> = Append(d, NUL) BY <1>3, <2>5
    <2>7. QED BY <2>1, <2>2, <2>4, <2>6 DEF b, d
  <1> HIDE DEF start, head, mode, a
  <1>7. b \in Seq(Bytes) /\ From(start, b) = State("headers", <<>>, head, o)
    BY <1>4, <1>5, FromJoined, Joined
  <1> HIDE DEF b
  <1>8. c \in Seq(Bytes) /\ From(start, c) = State(mode, <<>>, head, o)
    <2>1. c \in Seq(Bytes) BY <1>3, <1>7
    <2>2. Chomp(<<>>) = <<>> BY DEF Chomp
    <2>3. RefByte(State("headers", <<>>, head, o), LF) =
            State(IF HasLength(head) THEN "length" ELSE "null", <<>>, head, o)
      BY <2>2, RefInHeaders
    <2>4. HasLength(head) = HasLength(f)
      <3>1. head.headers = f.headers BY <1>1 DEF head
      <3>2. QED BY <3>1, Zenon DEF HasLength, hasHeader, getHeader, HeaderIndex
    <2>5. QED BY <1>3, <1>7, <2>1, <2>3, <2>4, FromAppended DEF mode
  <1> HIDE DEF c
  <1>9. Length(head) = Length(f)
    <2>1. head.headers = f.headers BY <1>1 DEF head
    <2>2. QED BY <2>1, Zenon DEF Length, getHeader, HeaderIndex
  <1>10. d \in Seq(Bytes) /\ From(start, d) = State(mode, f.body, head, o)
    <2>1. ASSUME NEW n \in 0 .. Len(f.body) - 1
          PROVE  RefByte(State(mode, SubSeq(f.body, 1, n), head, o), f.body[n + 1]) =
                   State(mode, Append(SubSeq(f.body, 1, n), f.body[n + 1]), head, o)
      <3>1. PICK t, x : /\ t = SubSeq(f.body, 1, n) /\ x = f.body[n + 1]
                        /\ Len(t) = n /\ x \in Range(f.body)
        <4>1. Len(SubSeq(f.body, 1, n)) = n /\ n + 1 \in DOMAIN f.body BY <1>1
        <4>2. QED BY <4>1 DEF Range
      <3>2. CASE HasLength(f)
        <4>1. Len(t) < Length(head) BY <1>1, <1>9, <3>1, <3>2 DEF Sendable
        <4>2. RefByte(State("length", t, head, o), x) = State("length", Append(t, x), head, o)
          BY <4>1, RefInBody
        <4>3. QED BY <3>1, <3>2, <4>2 DEF mode
      <3>3. CASE ~HasLength(f)
        <4>1. x # NUL BY <3>1, <3>3 DEF Sendable
        <4>2. QED BY <3>1, <3>3, <4>1, RefInBody DEF mode
      <3>4. QED BY <3>2, <3>3
    <2>2. From(State(mode, <<>>, head, o), f.body) = State(mode, f.body, head, o)
      BY <1>1, <2>1, TextIsRead
    <2>3. QED BY <1>1, <1>8, <2>2, FromJoined, Joined
  <1> HIDE DEF d
  <1>11. From(start, Append(d, NUL)) = RefByte(State(mode, f.body, head, o), NUL)
    BY <1>3, <1>10, FromAppended
  <1>12. RefByte(State(mode, f.body, head, o), NUL) = RefDeliver(State(mode, f.body, head, o), TRUE)
    <2>1. CASE HasLength(f)
      <3>1. ~(Len(f.body) < Length(head)) BY <1>1, <1>9, <2>1 DEF Sendable
      <3>2. QED BY <2>1, <3>1, RefAtEnd DEF mode
    <2>2. CASE ~HasLength(f) BY <2>2, RefAtEnd DEF mode
    <2>3. QED BY <2>1, <2>2
  <1>13. RefDeliver(State(mode, f.body, head, o), TRUE) =
           State("command", <<>>, EmptyFrame, Append(o, Delivered(f, TRUE)))
    <2>1. WithBody(head, f.body) = f BY <1>1 DEF head, WithBody
    <2>2. \A t, g, e : RefDeliver(State(mode, t, g, o), e) =
            State("command", <<>>, EmptyFrame, Append(o, Delivered(WithBody(g, t), e)))
      BY RefDelivered
    <2>3. RefDeliver(State(mode, f.body, head, o), TRUE) =
            State("command", <<>>, EmptyFrame, Append(o, Delivered(WithBody(head, f.body), TRUE)))
      BY ONLY <2>2, Zenon
    <2>4. QED BY ONLY <2>1, <2>3, Zenon
  <1>14. Append(d, NUL) \in Seq(Bytes) BY <1>3, <1>10
  <1>15. QED BY <1>6, <1>11, <1>12, <1>13, <1>14 DEF start

\* Frames one after the other.
LEMMA FramesAreRead ==
  ASSUME NEW fs \in Seq(Frames), \A i \in DOMAIN fs : Sendable(fs[i])
  PROVE  LET bytes == FlattenSeq([i \in DOMAIN fs |-> serialize(fs[i])])
         IN /\ bytes \in Seq(Bytes)
            /\ Reference(bytes) =
                 State("command", <<>>, EmptyFrame, [i \in DOMAIN fs |-> Delivered(fs[i], TRUE)])
  <1> DEFINE N == Len(fs)
             pieces == [i \in DOMAIN fs |-> serialize(fs[i])]
             os(n) == [i \in 1 .. n |-> Delivered(fs[i], TRUE)]
             r == [n \in 0 .. N |-> State("command", <<>>, EmptyFrame, os(n))]
  <1>1. N \in Nat /\ DOMAIN fs = 1 .. N /\ \A i \in 1 .. N : fs[i] \in Frames /\ Sendable(fs[i])
    OBVIOUS
  <1>2. \A i \in 1 .. N : serialize(fs[i]) \in Seq(Bytes) BY <1>1, FrameIsRead
  <1>3. pieces \in Seq(Seq(Bytes)) /\ Len(pieces) = N
    <2>1. pieces \in [1 .. N -> Seq(Bytes)] BY <1>1, <1>2
    <2> HIDE DEF pieces, N
    <2>2. QED BY <1>1, <2>1
  <1>4. \A n \in 0 .. N - 1 : From(r[n], pieces[n + 1]) = r[n + 1]
    <2> TAKE n \in 0 .. N - 1
    <2>1. n \in 0 .. N /\ n + 1 \in 0 .. N /\ n + 1 \in 1 .. N /\ n \in Nat BY <1>1
    <2>2. pieces[n + 1] = serialize(fs[n + 1]) BY <1>1, <2>1
    <2>3. /\ r[n] = State("command", <<>>, EmptyFrame, os(n))
          /\ r[n + 1] = State("command", <<>>, EmptyFrame, os(n + 1))
      BY <2>1
    <2>4. Append(os(n), Delivered(fs[n + 1], TRUE)) = os(n + 1)
      <3> DEFINE S == {Delivered(fs[i], TRUE) : i \in 1 .. n + 1}
                 x == Delivered(fs[n + 1], TRUE)
      <3>1. os(n) \in [1 .. n -> S] /\ x \in S /\ os(n + 1) \in [1 .. n + 1 -> S]
        <4>1. \A i \in 1 .. n + 1 : Delivered(fs[i], TRUE) \in S OBVIOUS
        <4>2. n + 1 \in 1 .. n + 1 /\ 1 .. n \subseteq 1 .. n + 1 BY ONLY <2>1
        <4> HIDE DEF S
        <4>3. QED BY ONLY <4>1, <4>2
      <3>2. os(n + 1)[n + 1] = x /\ \A i \in 1 .. n : os(n + 1)[i] = os(n)[i]
        <4>1. n + 1 \in 1 .. n + 1 /\ 1 .. n \subseteq 1 .. n + 1 BY ONLY <2>1
        <4>2. QED BY ONLY <4>1
      <3> HIDE DEF S, x, os
      <3>3. os(n) \in Seq(S) /\ Len(os(n)) = n /\ os(n + 1) \in Seq(S) /\ Len(os(n + 1)) = n + 1
        BY <2>1, <3>1
      <3>4. Append(os(n), x) \in Seq(S) /\ Len(Append(os(n), x)) = n + 1 BY <3>1, <3>3
      <3>5. \A i \in 1 .. n + 1 : Append(os(n), x)[i] = os(n + 1)[i] BY <2>1, <3>2, <3>3
      <3>6. Append(os(n), x) = os(n + 1) BY <3>3, <3>4, <3>5, SeqEqual
      <3>7. QED BY <3>6 DEF x
    <2> HIDE DEF os, r, pieces
    <2>5. From(State("command", <<>>, EmptyFrame, os(n)), serialize(fs[n + 1])) =
            State("command", <<>>, EmptyFrame, Append(os(n), Delivered(fs[n + 1], TRUE)))
      BY <1>1, <2>1, FrameIsRead
    <2>6. QED BY <2>2, <2>3, <2>4, <2>5
  <1>5. r[0] = RefStart
    <2>1. os(0) = <<>> OBVIOUS
    <2>2. r[0] = State("command", <<>>, EmptyFrame, <<>>) BY <1>1, <2>1
    <2>3. QED BY <2>2 DEF State, RefStart
  <1>6. r[N] = State("command", <<>>, EmptyFrame, [i \in DOMAIN fs |-> Delivered(fs[i], TRUE)])
    BY <1>1
  <1> HIDE DEF r, pieces, N
  <1>7. FlattenSeq(pieces) \in Seq(Bytes) /\ From(r[0], FlattenSeq(pieces)) = r[N]
    BY <1>3, <1>4, PiecesAreRead
  <1>8. \A bytes : Reference(bytes) = From(RefStart, bytes)
    BY DEF Reference, From, Run, Steps
  <1>9. QED BY <1>5, <1>6, <1>7, <1>8 DEF pieces
-----------------------------------------------------------------------------
(* A length that overflows.                                                *)

Modes == {"command", "headers", "null", "length"}
\* It holds n bytes of text at most.
Holds(n, r) ==
  \E m \in Modes, u \in Seq(Bytes) : Len(u) <= n /\ \E f, o : r = State(m, u, f, o)

LEMMA HoldsOf ==
  ASSUME NEW n, NEW m \in Modes, NEW u \in Seq(Bytes), Len(u) <= n, NEW f, NEW o
  PROVE  Holds(n, State(m, u, f, o))
  BY DEF Holds

LEMMA CommandByte ==
  ASSUME NEW t \in Seq(Bytes), NEW f, NEW o, NEW b \in Bytes
  PROVE  Holds(Len(t) + 1, RefCommand(State("command", t, f, o), b))
  <1>1. <<>> \in Seq(Bytes) /\ Len(<<>>) <= Len(t) + 1 OBVIOUS
  <1>2. Append(t, b) \in Seq(Bytes) /\ Len(Append(t, b)) <= Len(t) + 1 OBVIOUS
  <1>3. "command" \in Modes /\ "headers" \in Modes BY DEF Modes
  <1>4. CASE t = <<>> /\ b \in {CR, LF}
    <2>1. CASE b = CR
      <3>1. RefCommand(State("command", <<>>, f, o), b) = State("command", <<>>, f, o)
        BY <2>1, RefBetween
      <3>2. QED BY <1>1, <1>3, <1>4, <3>1, HoldsOf
    <2>2. CASE b = LF
      <3>1. RefCommand(State("command", <<>>, f, o), b) =
              State("command", <<>>, f, Append(o, Heartbeat))
        BY <2>2, RefBetween
      <3>2. QED BY <1>1, <1>3, <1>4, <3>1, HoldsOf
    <2>3. QED BY <1>4, <2>1, <2>2
  <1>5. CASE t # <<>> /\ b = LF
    <2>1. RefCommand(State("command", t, f, o), b) = State("headers", <<>>, NewFrame(Chomp(t)), o)
      BY <1>5, RefCommandEnd
    <2>2. QED BY <1>1, <1>3, <2>1, HoldsOf
  <1>6. CASE b # LF /\ (t = <<>> => b # CR)
    <2>1. RefCommand(State("command", t, f, o), b) = State("command", Append(t, b), f, o)
      BY <1>6, RefInCommand
    <2>2. QED BY <1>2, <1>3, <2>1, HoldsOf
  <1>7. QED BY <1>4, <1>5, <1>6

\* What the reference has read of a line or a body is no more than its bytes.
LEMMA ByteRead ==
  ASSUME NEW mode \in Modes, NEW t \in Seq(Bytes), NEW f, NEW o, NEW b \in Bytes
  PROVE  Holds(Len(t) + 1, RefByte(State(mode, t, f, o), b))
  <1> DEFINE q == RefByte(State(mode, t, f, o), b)
  <1>1. <<>> \in Seq(Bytes) /\ Len(<<>>) <= Len(t) + 1 OBVIOUS
  <1>2. Append(t, b) \in Seq(Bytes) /\ Len(Append(t, b)) <= Len(t) + 1 OBVIOUS
  <1>3. \A m \in Modes : \A f1, o1 : Holds(Len(t) + 1, State(m, <<>>, f1, o1)) BY <1>1, HoldsOf
  <1>4. \A e : \E o1 : RefDeliver(State(mode, t, f, o), e) = State("command", <<>>, EmptyFrame, o1)
    <2> TAKE e
    <2>1. RefDeliver(State(mode, t, f, o), e) =
            State("command", <<>>, EmptyFrame, Append(o, Delivered(WithBody(f, t), e)))
      BY RefDelivered
    <2>2. QED BY ONLY <2>1
  <1>5. Holds(Len(t) + 1, State(mode, Append(t, b), f, o)) BY <1>2, HoldsOf
  <1>6. "command" \in Modes /\ "headers" \in Modes /\ "null" \in Modes /\ "length" \in Modes
    BY DEF Modes
  <1>7. CASE mode = "command"
    <2>1. q = RefCommand(State("command", t, f, o), b) BY <1>7, RefInCommand
    <2>2. QED BY <2>1, CommandByte
  <1>8. CASE mode = "headers"
    <2>1. CASE b # LF
      <3>1. q = State(mode, Append(t, b), f, o) BY <1>8, <2>1, RefInHeaders
      <3>2. QED BY <1>5, <3>1
    <2>2. CASE b = LF /\ Chomp(t) # <<>>
      <3>1. q = State("headers", <<>>, parseHeaderLine(f, Chomp(t)), o)
        BY <1>8, <2>2, RefInHeaders
      <3>2. QED BY <1>3, <1>6, <3>1
    <2>3. CASE b = LF /\ Chomp(t) = <<>>
      <3>1. q = State(IF HasLength(f) THEN "length" ELSE "null", <<>>, f, o)
        BY <1>8, <2>3, RefInHeaders
      <3>2. (IF HasLength(f) THEN "length" ELSE "null") \in Modes BY <1>6
      <3>3. QED BY <1>3, <3>1, <3>2
    <2>4. QED BY <2>1, <2>2, <2>3
  <1>9. CASE mode = "null"
    <2>1. CASE b = NUL
      <3>1. q = RefDeliver(State(mode, t, f, o), TRUE) BY <1>9, <2>1, RefAtEnd
      <3>2. QED BY <1>3, <1>4, <1>6, <3>1
    <2>2. CASE b # NUL
      <3>1. q = State(mode, Append(t, b), f, o) BY <1>9, <2>2, RefInBody
      <3>2. QED BY <1>5, <3>1
    <2>3. QED BY <2>1, <2>2
  <1>10. CASE mode = "length"
    <2>1. CASE Len(t) < Length(f)
      <3>1. q = State(mode, Append(t, b), f, o) BY <1>10, <2>1, RefInBody
      <3>2. QED BY <1>5, <3>1
    <2>2. CASE ~(Len(t) < Length(f)) /\ b = NUL
      <3>1. q = RefDeliver(State(mode, t, f, o), TRUE) BY <1>10, <2>2, RefAtEnd
      <3>2. QED BY <1>3, <1>4, <1>6, <3>1
    <2>3. CASE ~(Len(t) < Length(f)) /\ b # NUL
      <3>1. q = RefCommand(RefDeliver(State(mode, t, f, o), FALSE), b)
        BY <1>10, <2>3 DEF RefByte, RefLength, State
      <3>2. PICK o1 : q = RefCommand(State("command", <<>>, EmptyFrame, o1), b)
        BY <1>4, <3>1
      <3>3. Holds(Len(<<>>) + 1, q) BY <1>1, <3>2, CommandByte
      <3>4. Len(<<>>) = 0 /\ Len(t) \in Nat OBVIOUS
      <3>5. QED BY <3>3, <3>4 DEF Holds
    <2>4. QED BY <2>1, <2>2, <2>3
  <1>11. QED BY <1>7, <1>8, <1>9, <1>10 DEF Modes

LEMMA TextIsShort ==
  ASSUME NEW bytes \in Seq(Bytes), NEW n \in 0 .. Len(bytes)
  PROVE  Holds(n, Run(bytes)[n])
  <1> DEFINE S == {k \in Nat : k <= Len(bytes) => Holds(k, Run(bytes)[k])}
  <1>1. 0 \in S
    <2>1. Run(bytes)[0] = State("command", <<>>, EmptyFrame, <<>>)
      BY RunStep DEF RefStart, State
    <2>2. "command" \in Modes /\ <<>> \in Seq(Bytes) /\ Len(<<>>) <= 0 BY DEF Modes
    <2>3. Holds(0, Run(bytes)[0]) BY <2>1, <2>2, HoldsOf
    <2>4. QED BY <2>3
  <1>2. ASSUME NEW k \in S PROVE k + 1 \in S
    <2> SUFFICES ASSUME k + 1 <= Len(bytes) PROVE Holds(k + 1, Run(bytes)[k + 1]) OBVIOUS
    <2>1. k \in Nat /\ k <= Len(bytes) /\ Holds(k, Run(bytes)[k]) OBVIOUS
    <2>2. PICK j \in 1 .. Len(bytes) : j = k + 1 /\ j - 1 = k BY <2>1
    <2>3. bytes[j] \in Bytes /\ Run(bytes)[j] = RefByte(Run(bytes)[k], bytes[j])
      BY <2>2, RunStep
    <2> HIDE DEF S
    <2>4. PICK m \in Modes, u \in Seq(Bytes) :
            Len(u) <= k /\ \E f, o : Run(bytes)[k] = State(m, u, f, o)
      BY <2>1 DEF Holds
    <2>5. PICK f, o : Run(bytes)[k] = State(m, u, f, o) BY <2>4
    <2>6. Holds(Len(u) + 1, Run(bytes)[j]) BY <2>3, <2>5, ByteRead
    <2>7. Len(u) \in Nat /\ \A t \in Seq(Bytes) : Len(t) \in Nat OBVIOUS
    <2>8. QED BY <2>1, <2>2, <2>4, <2>6, <2>7 DEF Holds
  <1> HIDE DEF S
  <1>3. S = Nat BY <1>1, <1>2, Induct DEF S
  <1>4. QED BY <1>3 DEF S

\* A body whose length overflows is read to the end of the stream.
LEMMA Stuck ==
  ASSUME NEW bytes \in Seq(Bytes), Len(bytes) < SizeMod, NEW n \in 0 .. Len(bytes),
         Run(bytes)[n].mode = "length", Length(Run(bytes)[n].frame) = SizeMod - 1
  PROVE  Reference(bytes).mode = "length"
  <1> DEFINE f == Run(bytes)[n].frame
             S == {k \in Nat : n + k <= Len(bytes) =>
                     Run(bytes)[n + k].mode = "length" /\ Run(bytes)[n + k].frame = f}
  <1>1. 0 \in S
    <2>1. n + 0 = n OBVIOUS
    <2>2. QED BY <2>1
  <1>2. ASSUME NEW k \in S PROVE k + 1 \in S
    <2> SUFFICES ASSUME n + (k + 1) <= Len(bytes)
                 PROVE  /\ Run(bytes)[n + (k + 1)].mode = "length"
                        /\ Run(bytes)[n + (k + 1)].frame = f
      OBVIOUS
    <2>1. PICK j \in 1 .. Len(bytes), i \in 0 .. Len(bytes) :
            i = n + k /\ j = n + (k + 1) /\ j - 1 = i
      OBVIOUS
    <2>2. Run(bytes)[i].mode = "length" /\ Run(bytes)[i].frame = f BY <2>1
    <2>3. PICK m \in Modes, u \in Seq(Bytes) :
            Len(u) <= i /\ \E g, o : Run(bytes)[i] = State(m, u, g, o)
      BY TextIsShort DEF Holds
    <2> HIDE DEF f, S
    <2> PICK g, o : Run(bytes)[i] = State(m, u, g, o) BY <2>3
    <2>4. m = "length" /\ g = f BY <2>2 DEF State
    <2>5. Len(u) < Length(f)
      BY <2>1, <2>3, ParserAssumption DEF f
    <2>6. Run(bytes)[j] = State("length", Append(u, bytes[j]), f, o)
      BY <2>1, <2>4, <2>5, RunStep, RefInBody
    <2>7. QED BY <2>1, <2>6 DEF State
  <1> HIDE DEF S, f
  <1>3. S = Nat BY <1>1, <1>2, Induct DEF S
  <1>4. Len(bytes) - n \in S /\ n + (Len(bytes) - n) = Len(bytes) BY <1>3
  <1>5. QED BY <1>4 DEF S, Reference

LEMMA FitsBefore ==
  ASSUME NEW s \in Seq(Bytes), NEW t \in Seq(Bytes), Len(s) <= Len(t),
         \A i \in 1 .. Len(s) : t[i] = s[i], Fits(t)
  PROVE  Fits(s)
  <1> SUFFICES ASSUME NEW n \in 0 .. Len(s), Run(s)[n].mode = "length"
               PROVE  Length(Run(s)[n].frame) # SizeMod - 1
    BY DEF Fits
  <1>1. Run(t)[n] = Run(s)[n] /\ n \in 0 .. Len(t) BY SamePrefix
  <1>2. QED BY <1>1 DEF Fits

\* A length that the parser has read is one the reference has come through.
LEMMA OneThatFits ==
  ASSUME ParserInv, InStep, Fits(fed), ReadBodyByLength
  PROVE  LengthFits
  <1>1. m_state = "READ_BODY_BY_LENGTH" /\ call = "feed" BY DEF ReadBodyByLength, Processing
  <1>2. After(0) = Reading("length", 0) BY <1>1, InFrame DEF Mode
  <1>3. Used \in 0 .. Len(fed) /\ Used + 0 = Used
    BY DEF ParserInv, TypeOK, BufferIsTail, Used
  <1>4. Length(m_currentFrame) # SizeMod - 1 BY <1>2, <1>3 DEF Fits, State
  <1>5. QED BY <1>1, <1>4 DEF ParserInv, FrameInHand, LengthFits

\* Whenever feed() has returned, exactly those frames and heartbeats have been
\* called back that a reader of single bytes finds in what was fed, as long as
\* none of its frames announces the largest length size_t holds.
THEOREM ChunksNeverMatter == Spec => [](Fits(fed) => InStep /\ ChunksDoNotMatter)
  <1>1. Init => InStep BY Starts
  <1>2. ParserInv /\ (Fits(fed) => InStep) /\ [Next]_vars => (Fits(fed) => InStep)'
    <2> SUFFICES ASSUME ParserInv, Fits(fed) => InStep, [Next]_vars, Fits(fed') PROVE InStep'
      OBVIOUS
    <2>1. CASE \E n \in 1 .. Len(rest) : Feed(n)
      <3> PICK n \in 1 .. Len(rest) : Feed(n) BY <2>1
      <3>1. fed \in Seq(Bytes) /\ fed' \in Seq(Bytes) BY FeedInv DEF ParserInv, TypeOK
      <3>2. Len(fed) <= Len(fed') /\ \A i \in 1 .. Len(fed) : fed'[i] = fed[i]
        BY FeedInv DEF ParserInv, TypeOK
      <3>3. Fits(fed) BY <3>1, <3>2, FitsBefore
      <3>4. QED BY <3>3, FeedStep
    <2>2. CASE Process
      <3>1. UNCHANGED fed
        BY <2>2 DEF Process, SkipCr, SkipLf, OnHeartbeatReturns, ReadCommand, ReadHeader,
                    EndHeaders, ReadBodyByLength, ReadBodyUntilNull, Deliver, OnFrameReturns,
                    FeedReturns
      <3>2. InStep BY <3>1
      <3>3. QED BY <2>2, <3>1, <3>2, OneThatFits, ProcessStep
    <2>3. CASE Reset BY <2>3, Restarts
    <2>4. CASE UNCHANGED vars
      <3>1. UNCHANGED fed BY <2>4 DEF vars
      <3>2. QED BY <2>4, <3>1 DEF InStep, Used, Expected, vars, parser
    <2>5. QED BY <2>1, <2>2, <2>3, <2>4 DEF Next
  <1>3. ParserInv /\ InStep => ChunksDoNotMatter BY AtRest
  <1>4. QED BY Invariance, <1>1, <1>2, <1>3, PTL DEF Spec

\* Frames that are written one after the other by serialize() are called back
\* as they were written, and nothing else, however the bytes are cut.
THEOREM FramesComeBack == Spec => []RoundTripOfSent
  <1>1. ParserInv /\ Room /\ (Fits(fed) => ChunksDoNotMatter) => RoundTripOfSent
    <2> SUFFICES ASSUME ParserInv, Room, Fits(fed) => ChunksDoNotMatter, call = "none",
                        NEW fs \in Sent, fed = Written[fs]
                 PROVE  out = [i \in DOMAIN fs |-> Delivered(fs[i], TRUE)]
      BY DEF RoundTripOfSent
    <2>1. fs \in Seq(Frames) /\ \A i \in DOMAIN fs : Sendable(fs[i]) BY SentAssumption
    <2>2. fed = FlattenSeq([i \in DOMAIN fs |-> serialize(fs[i])]) BY DEF Written
    <2>3. Reference(fed) =
            State("command", <<>>, EmptyFrame, [i \in DOMAIN fs |-> Delivered(fs[i], TRUE)])
      BY <2>1, <2>2, FramesAreRead
    <2>4. fed \in Seq(Bytes) /\ Len(fed) < SizeMod
      BY ParserAssumption DEF ParserInv, TypeOK, Room
    <2>5. /\ Reference(fed).mode = "command"
          /\ Reference(fed).out = [i \in DOMAIN fs |-> Delivered(fs[i], TRUE)]
      BY ONLY <2>3 DEF State
    <2>6. Fits(fed)
      <3>1. "command" # "length" OBVIOUS
      <3>2. QED BY ONLY <2>4, <2>5, <3>1, Stuck DEF Fits
    <2>7. QED BY <2>5, <2>6 DEF ChunksDoNotMatter
  <1>2. QED BY Invariance, RoomInvariance, ChunksNeverMatter, <1>1, PTL
=============================================================================
