------------------------- MODULE WebSocketTunnelProofs -------------------------
(***************************************************************************)
(* Proofs about the raw tunnel, for any senders, payloads, masks, cuts and *)
(* peers.                                                                  *)
(***************************************************************************)
EXTENDS WebSocketTunnelProps, WebSocketFrameProofs

\* What is being written has a rest, the bytes and a frame.
LEMMA Shape ==
  ASSUME WritingInv
  PROVE  /\ DOMAIN writing = Writers
         /\ \A w \in Writers : writing[w] = [rest |-> writing[w].rest, bytes |-> writing[w].bytes,
                                             frame |-> writing[w].frame]
  BY DEF WritingInv

LEMMA BeginShape ==
  ASSUME WritingInv, NEW w \in Writers, NEW f, NEW b, Begin(w, f, b)
  PROVE  /\ writing'[w] = [rest |-> b, bytes |-> b, frame |-> f]
         /\ \A v \in Writers \ {w} : writing'[v] = writing[v]
         /\ writing' = [v \in Writers |-> [rest |-> writing'[v].rest, bytes |-> writing'[v].bytes,
                                           frame |-> writing'[v].frame]]
  <1>1. writing' = [v \in Writers |->
          IF v = w THEN [rest |-> b, bytes |-> b, frame |-> f] ELSE writing[v]]
    BY Shape DEF Begin
  <1>2. \A v \in Writers : writing'[v] = [rest |-> writing'[v].rest, bytes |-> writing'[v].bytes,
                                           frame |-> writing'[v].frame]
    BY <1>1, Shape
  <1>3. QED BY <1>1, <1>2

\* A step of tunnelWrite() ends the frame or leaves less of it.
LEMMA WorkShape ==
  ASSUME WritingInv, NEW w \in Writers, WritePart(w) \/ WriteFails(w)
  PROVE  /\ ~Idle(w)
         /\ \A v \in Writers \ {w} : writing'[v] = writing[v]
         /\ \/ writing'[w] = Nothing
            \/ /\ writing'[w].bytes = writing[w].bytes
               /\ writing'[w].frame = writing[w].frame
         /\ writing' = [v \in Writers |-> [rest |-> writing'[v].rest, bytes |-> writing'[v].bytes,
                                           frame |-> writing'[v].frame]]
  <1>1. PICK n : \/ writing' = [writing EXCEPT ![w] = Nothing]
                 \/ writing' = [writing EXCEPT ![w] =
                       [@ EXCEPT !.rest = SubSeq(writing[w].rest, n + 1, Len(writing[w].rest))]]
    BY DEF WritePart, WriteFails
  <1>2. PICK x : \/ writing' = [writing EXCEPT ![w] = Nothing]
                 \/ writing' = [writing EXCEPT ![w] = [@ EXCEPT !.rest = x]]
    BY <1>1
  <1>3. \/ writing' = [v \in Writers |-> IF v = w THEN Nothing ELSE writing[v]]
        \/ writing' = [v \in Writers |->
              IF v = w THEN [rest |-> x, bytes |-> writing[w].bytes, frame |-> writing[w].frame]
              ELSE writing[v]]
    BY <1>2, Shape
  <1>4. \A v \in Writers : writing'[v] = [rest |-> writing'[v].rest, bytes |-> writing'[v].bytes,
                                           frame |-> writing'[v].frame]
    BY <1>3, Shape DEF Nothing
  <1>5. ~Idle(w) BY DEF WritePart, WriteFails
  <1>6. \A v \in Writers \ {w} : writing'[v] = writing[v] BY <1>3
  <1>7. \/ writing'[w] = Nothing
        \/ writing'[w] = [rest |-> x, bytes |-> writing[w].bytes, frame |-> writing[w].frame]
    BY <1>3
  <1>8. writing'[w] = Nothing \/ (/\ writing'[w].bytes = writing[w].bytes
                                  /\ writing'[w].frame = writing[w].frame)
    BY <1>7
  <1>9. writing' = [v \in Writers |-> writing'[v]] BY <1>3
  <1>10. QED BY <1>4, <1>5, <1>6, <1>8, <1>9

LEMMA Apart ==
  /\ Closer # Worker /\ TextOp # CloseOp /\ PongOp # CloseOp
  /\ \A s \in Senders : s \in Writers /\ s # Closer /\ s # Worker
  /\ Closer \in Writers /\ Worker \in Writers
  BY TunnelAssumption DEF Closer, Worker, TextOp, CloseOp, PongOp, Writers

LEMMA WritingStep ==
  ASSUME WritingInv, UpgradeInv, [Next]_vars
  PROVE  WritingInv'
  <1> DEFINE Good(w) == ~Idle(w) =>
               /\ writing[w].frame = <<writing[w].frame[1], writing[w].frame[2], w>>
               /\ writing[w].frame[1] = CloseOp => w = Closer
  <1>1. (\A w \in Writers : Good(w)) /\ (~Idle(Closer) => lifecycle = "closing")
    BY DEF WritingInv
  <1>2. ASSUME NEW w \in Writers, WritePart(w) \/ WriteFails(w) PROVE WritingInv'
    <2>1. \A v \in Writers : Good(v)'
      <3> TAKE v \in Writers
      <3>1. CASE v = w BY <1>1, <1>2, <3>1, WorkShape DEF Idle
      <3>2. CASE v # w BY <1>1, <1>2, <3>2, WorkShape DEF Idle
      <3>3. QED BY <3>1, <3>2
    <2>2. UNCHANGED lifecycle BY <1>2 DEF WritePart, WriteFails
    <2>3. ~Idle(Closer)' => lifecycle' = "closing"
      <3>1. CASE w = Closer BY <1>1, <1>2, <2>2, <3>1, WorkShape
      <3>2. CASE w # Closer BY <1>1, <1>2, <2>2, <3>2, WorkShape, Apart DEF Idle
      <3>3. QED BY <3>1, <3>2
    <2>4. QED BY <1>2, <2>1, <2>3, WorkShape DEF WritingInv
  <1>3. ASSUME NEW w \in Writers, NEW f, NEW b, Begin(w, f, b),
               f = <<f[1], f[2], w>>, f[1] = CloseOp => w = Closer,
               w = Closer => lifecycle' = "closing", w # Closer => UNCHANGED lifecycle
        PROVE  WritingInv'
    <2>1. writing'[w] = [rest |-> b, bytes |-> b, frame |-> f] BY <1>3, BeginShape
    <2>2. \A v \in Writers \ {w} : writing'[v] = writing[v] BY <1>3, BeginShape
    <2>3. writing'[w].frame = f /\ \A v \in Writers \ {w} : writing'[v] = writing[v]
      BY <2>1, <2>2
    <2>4. \A v \in Writers : Good(v)'
      <3> TAKE v \in Writers
      <3>1. CASE v = w BY <1>3, <2>3, <3>1
      <3>2. CASE v # w BY <1>1, <2>3, <3>2 DEF Idle
      <3>3. QED BY <3>1, <3>2
    <2>5. ~Idle(Closer)' => lifecycle' = "closing"
      <3>1. CASE w = Closer BY <1>3, <3>1
      <3>2. CASE w # Closer BY <1>1, <1>3, <2>3, <3>2, Apart DEF Idle
      <3>3. QED BY <3>1, <3>2
    <2>6. QED BY <1>3, <2>4, <2>5, BeginShape DEF WritingInv
  <1>4. ASSUME UNCHANGED writing, ~Idle(Closer) => UNCHANGED lifecycle
        PROVE  WritingInv'
    BY <1>1, <1>4 DEF WritingInv, Idle
  <1>5. CASE \E s \in Senders : Send(s)
    <2>1. PICK s \in Senders : Send(s) BY <1>5
    <2>2. PICK payload, mask :
            UNCHANGED lifecycle /\ Begin(s, <<TextOp, payload, s>>, TextFrame(payload, mask))
      BY <2>1 DEF Send
    <2>3. QED BY <1>3, <2>2, Apart
  <1>6. CASE Close
    <2>1. CASE m_connected
      <3>1. PICK mask : /\ lifecycle' = "closing"
                        /\ Begin(Closer, <<CloseOp, CloseReason, Closer>>, CloseFrame(mask))
        BY <1>6, <2>1 DEF Close
      <3>2. QED BY <1>3, <3>1, Apart
    <2>2. CASE ~m_connected BY <1>1, <1>4, <1>6, <2>2 DEF Close
    <2>3. QED BY <2>1, <2>2
  <1>7. CASE Dispatch
    <2>1. CASE Opcode(assembled) = PingOp
      <3>1. PICK payload, mask :
              /\ UNCHANGED lifecycle
              /\ Begin(Worker, <<PongOp, payload, Worker>>, PongFrame(payload, mask))
        BY <1>7, <2>1 DEF Dispatch
      <3>2. QED BY <1>3, <3>1, Apart
    <2>2. CASE Opcode(assembled) # PingOp BY <1>4, <1>7, <2>2 DEF Dispatch
    <2>3. QED BY <2>1, <2>2
  <1>8. CASE WriteRequest \/ ReadResponse \/ Upgraded \/ UpgradeFails
    BY <1>1, <1>4, <1>8 DEF WriteRequest, ReadResponse, Upgraded, UpgradeFails
  <1>9. CASE (\E u \in Urls, key \in Keys : Open(u, key)) \/ StopWorker \/ JoinAndFree
    BY <1>1, <1>4, <1>9 DEF Open, StopWorker, JoinAndFree
  <1>10. CASE PeerSends \/ Recv \/ WorkerEnds \/ PongWritten \/ NeedsMore \/ UNCHANGED vars
    BY <1>4, <1>10 DEF PeerSends, Recv, WorkerEnds, PongWritten, NeedsMore, vars
  <1>11. QED BY <1>2, <1>5, <1>6, <1>7, <1>8, <1>9, <1>10 DEF Next
-----------------------------------------------------------------------------
(* Late frames.                                                            *)

LEMMA LateAfter ==
  ASSUME written \in Seq(Range(written)), NEW x, written' = Append(written, x), NEW s
  PROVE  /\ Late(s)' \subseteq Late(s) \cup {Len(written) + 1}
         /\ x[3] # s => Late(s)' \subseteq Late(s)
  <1>1. ASSUME NEW i \in Late(s)' PROVE (i = Len(written) + 1 /\ x[3] = s) \/ i \in Late(s)
    <2>1. /\ i \in 1 .. Len(written) + 1 /\ written'[i][3] = s
          /\ Len(written) \in Nat
          /\ \A j \in 1 .. Len(written) : written'[j] = written[j]
          /\ written'[Len(written) + 1] = x
      BY <1>1, Appended DEF Late
    <2>2. PICK j \in 1 .. i - 1 : written'[j][1] = CloseOp BY <1>1 DEF Late
    <2>3. j \in 1 .. Len(written) /\ written[j][1] = CloseOp BY <2>1, <2>2
    <2>4. CASE i = Len(written) + 1 BY <2>1, <2>4
    <2>5. CASE i # Len(written) + 1
      <3>1. i \in 1 .. Len(written) /\ written[i][3] = s BY <2>1, <2>5
      <3>2. i \in DOMAIN written BY <3>1, Appended
      <3>3. QED BY <2>2, <2>3, <3>1, <3>2 DEF Late
    <2>6. QED BY <2>4, <2>5
  <1>2. QED BY <1>1

\* Nobody is late before close() has begun.
LEMMA NoneLate ==
  ASSUME WrittenInv, lifecycle \notin {"closing", "stopping"}, NEW s
  PROVE  Late(s) = {}
  <1>1. ASSUME NEW i \in Late(s) PROVE FALSE
    <2>1. PICK j \in 1 .. i - 1 : written[j][1] = CloseOp BY <1>1 DEF Late
    <2>2. i \in DOMAIN written BY <1>1 DEF Late
    <2>3. DOMAIN written = 1 .. Len(written) /\ Len(written) \in Nat
      BY Appended DEF WrittenInv
    <2>4. j \in DOMAIN written BY <2>1, <2>2, <2>3
    <2>5. QED BY <2>1, <2>4 DEF WrittenInv
  <1>2. QED BY <1>1

LEMMA WrittenStep ==
  ASSUME WritingInv, WrittenInv, OneLateFrameEach, UpgradeInv, [Next]_vars
  PROVE  WrittenInv' /\ OneLateFrameEach'
  <1> DEFINE Before == {"closed", "requesting", "upgrading"}
             After == {"closing", "stopping"}
             NoClose == \A i \in DOMAIN written : written[i][1] = CloseOp => lifecycle \in After
             LateIdle == \A s \in Senders : Late(s) # {} => Idle(s)
  <1> USE DEF Before, After
  <1>1. /\ written \in Seq(Range(written))
        /\ m_connected => lifecycle = "open"
        /\ lifecycle \in Before => written = <<>>
        /\ NoClose /\ LateIdle
    BY DEF WrittenInv
  <1>2. ASSUME UNCHANGED written, m_connected' => lifecycle' = "open",
               lifecycle' \in Before => written = <<>>,
               lifecycle \in After => lifecycle' \in After \/ written = <<>>,
               \A s \in Senders : Idle(s) => Idle(s)' \/ Late(s) = {}
        PROVE  WrittenInv' /\ OneLateFrameEach'
    <2>1. \A s \in Senders : Late(s)' = Late(s) BY <1>2 DEF Late
    <2>2. NoClose' BY <1>1, <1>2, Empty
    <2>3. LateIdle' BY <1>1, <1>2, <2>1
    <2>4. OneLateFrameEach' BY <2>1 DEF OneLateFrameEach
    <2>5. (written \in Seq(Range(written)))' BY <1>1, <1>2
    <2>6. QED BY <1>2, <2>2, <2>3, <2>4, <2>5 DEF WrittenInv
  <1>3. ASSUME written' = <<>>, m_connected' => lifecycle' = "open"
        PROVE  WrittenInv' /\ OneLateFrameEach'
    <2>1. written' \in Seq(Range(written')) /\ DOMAIN written' = {} BY <1>3, Empty
    <2>2. \A s \in Senders : Late(s)' = {} BY <2>1 DEF Late
    <2>3. QED BY <1>3, <2>1, <2>2 DEF WrittenInv, OneLateFrameEach
  <1>4. ASSUME NEW w \in Writers, ~Idle(w), Idle(w)', \A v \in Writers \ {w} : writing'[v] = writing[v],
               written' = Append(written, writing[w].frame),
               UNCHANGED <<m_connected, lifecycle>>, lifecycle \notin Before
        PROVE  WrittenInv' /\ OneLateFrameEach'
    <2> DEFINE x == writing[w].frame
    <2>1. x[3] = w /\ (x[1] = CloseOp => lifecycle = "closing")
      BY <1>4 DEF WritingInv
    <2>2. /\ written' \in Seq(Range(written'))
          /\ DOMAIN written = 1 .. Len(written) /\ Len(written) \in Nat
          /\ DOMAIN written' = 1 .. Len(written) + 1
          /\ \A i \in 1 .. Len(written) : written'[i] = written[i]
          /\ written'[Len(written) + 1] = x
      BY <1>1, <1>4, Appended
    <2>3. NoClose'
      <3> SUFFICES ASSUME NEW i \in DOMAIN written', written'[i][1] = CloseOp
                   PROVE  lifecycle \in After
        BY <1>4
      <3>1. CASE i = Len(written) + 1 BY <2>1, <2>2, <3>1
      <3>2. CASE i # Len(written) + 1 BY <1>1, <2>2, <3>2
      <3>3. QED BY <3>1, <3>2
    <2>4. ASSUME NEW s \in Senders
          PROVE  (Late(s) # {} => Idle(s))' /\ \A i, j \in Late(s)' : i = j
      <3>1. CASE s = w
        <4>1. Late(s) = {} BY <1>1, <1>4, <3>1
        <4>2. Late(s)' \subseteq {Len(written) + 1} BY <1>1, <1>4, <4>1, LateAfter
        <4>3. QED BY <1>4, <3>1, <4>2
      <3>2. CASE s # w
        <4>1. Late(s)' \subseteq Late(s) BY <1>1, <1>4, <2>1, <3>2, LateAfter
        <4>2. Idle(s)' = Idle(s) BY <1>4, <3>2, Apart DEF Idle
        <4>3. QED BY <1>1, <4>1, <4>2 DEF OneLateFrameEach
      <3>3. QED BY <3>1, <3>2
    <2>5. LateIdle' /\ OneLateFrameEach' BY <2>4 DEF OneLateFrameEach
    <2>6. QED BY <1>1, <1>4, <2>2, <2>3, <2>5 DEF WrittenInv
  <1>5. ASSUME NEW w \in Writers, WritePart(w) PROVE WrittenInv' /\ OneLateFrameEach'
    <2>1. /\ ~Idle(w) /\ lifecycle # "closed" /\ UNCHANGED <<m_connected, lifecycle>>
          /\ \A v \in Writers \ {w} : writing'[v] = writing[v]
      BY <1>5, WorkShape DEF WritePart
    <2>2. CASE ~InTurn(w) BY <1>1, <1>3, <1>5, <2>1, <2>2 DEF WritePart
    <2>3. CASE InTurn(w)
      <3>1. PICK n : /\ writing' = [writing EXCEPT ![w] =
                          IF n = Len(writing[w].rest) THEN Nothing
                          ELSE [@ EXCEPT !.rest = SubSeq(writing[w].rest, n + 1, Len(writing[w].rest))]]
                     /\ written' = IF n = Len(writing[w].rest) THEN Append(written, writing[w].frame)
                                   ELSE written
        BY <1>5, <2>3 DEF WritePart
      <3>2. lifecycle \notin Before BY <2>1, <2>3 DEF InTurn
      <3>3. CASE n = Len(writing[w].rest)
        <4>1. Idle(w)' BY <3>1, <3>3, Shape DEF Idle
        <4>2. QED BY <1>4, <2>1, <3>1, <3>2, <3>3, <4>1
      <3>4. CASE n # Len(writing[w].rest)
        <4>1. \A s \in Senders : Idle(s) => Idle(s)' BY <2>1, Apart DEF Idle
        <4>2. QED BY <1>1, <1>2, <2>1, <3>1, <3>4, <4>1
      <3>5. QED BY <3>3, <3>4
    <2>4. QED BY <2>2, <2>3
  <1>6. ASSUME NEW w \in Writers, WriteFails(w) PROVE WrittenInv' /\ OneLateFrameEach'
    <2>1. /\ ~Idle(w) /\ UNCHANGED <<m_connected, lifecycle>>
          /\ \A v \in Writers \ {w} : writing'[v] = writing[v]
      BY <1>6, WorkShape DEF WriteFails
    <2>2. CASE lifecycle = "closed"
      <3>1. \A s \in Senders : Idle(s) => Idle(s)' BY <2>1, Apart DEF Idle
      <3>2. UNCHANGED written BY <1>6, <2>2 DEF WriteFails, wire
      <3>3. QED BY <1>1, <1>2, <2>1, <3>1, <3>2
    <2>3. CASE lifecycle # "closed" BY <1>1, <1>3, <1>6, <2>1, <2>3 DEF WriteFails
    <2>4. QED BY <2>2, <2>3
  <1>7. CASE \E s \in Senders : Send(s)
    <2>1. m_connected /\ UNCHANGED <<m_connected, lifecycle, written>>
      BY <1>7 DEF Send, wire
    <2>2. \A s \in Senders : Late(s) = {} BY <1>1, <2>1, NoneLate
    <2>3. QED BY <1>1, <1>2, <2>1, <2>2
  <1>8. ASSUME UNCHANGED writing PROVE \A s \in Senders : Idle(s) => Idle(s)'
    BY <1>8 DEF Idle
  <1>9. CASE Close
    <2>1. /\ lifecycle = "open" /\ lifecycle' \in After /\ ~m_connected' /\ UNCHANGED written
      BY <1>9 DEF Close, wire
    <2>2. \A s \in Senders : Late(s) = {} BY <2>1, NoneLate
    <2>3. QED BY <1>2, <2>1, <2>2
  <1>10. CASE Dispatch
    <2>1. UNCHANGED <<m_connected, lifecycle, written>> BY <1>10 DEF Dispatch, wire
    <2>2. \A s \in Senders : Idle(s) => Idle(s)'
      <3>1. CASE Opcode(assembled) = PingOp
        <4>1. PICK f, b : Begin(Worker, f, b) BY <1>10, <3>1 DEF Dispatch
        <4>2. \A v \in Writers \ {Worker} : writing'[v] = writing[v]
          BY <4>1, BeginShape, Apart
        <4>3. QED BY <4>2, Apart DEF Idle
      <3>2. CASE Opcode(assembled) # PingOp BY <1>8, <1>10, <3>2 DEF Dispatch
      <3>3. QED BY <3>1, <3>2
    <2>3. QED BY <1>1, <1>2, <2>1, <2>2
  <1>11. CASE WriteRequest \/ ReadResponse \/ Upgraded
    BY <1>1, <1>2, <1>8, <1>11 DEF WriteRequest, ReadResponse, Upgraded, wire
  <1>12. CASE UpgradeFails \/ JoinAndFree
    BY <1>1, <1>3, <1>12 DEF UpgradeFails, JoinAndFree
  <1>13. CASE (\E u \in Urls, key \in Keys : Open(u, key)) \/ StopWorker
    BY <1>1, <1>2, <1>8, <1>13 DEF Open, StopWorker, wire
  <1>14. CASE PeerSends \/ Recv \/ WorkerEnds \/ PongWritten \/ NeedsMore \/ UNCHANGED vars
    BY <1>1, <1>2, <1>8, <1>14
    DEF PeerSends, Recv, WorkerEnds, PongWritten, NeedsMore, vars, wire
  <1>15. QED
    BY <1>5, <1>6, <1>7, <1>9, <1>10, <1>11, <1>12, <1>13, <1>14 DEF Next
-----------------------------------------------------------------------------
(* The upgrade.                                                            *)

LEMMA ResponseParts ==
  ASSUME NEW r \in Responses
  PROVE  /\ r \in Seq(Bytes) /\ Len(r) = 8
         /\ r[2] = 13 /\ r[3] = 10 /\ r[4] = 2 /\ r[5] = 13 /\ r[6] = 10 /\ r[7] = 13 /\ r[8] = 10
  <1>1. PICK st \in {Accepted, 2} : r = <<st, 13, 10, 2>> \o EndOfHeaders
    BY DEF Responses
  <1>2. st \in Bytes BY DEF Accepted, Bytes, ByteMod
  <1> DEFINE u == <<st, 13, 10, 2>>
             v == <<13, 10, 13, 10>>
  <1>3. r = u \o v BY <1>1 DEF EndOfHeaders
  <1>4. u \in Seq(Bytes) /\ v \in Seq(Bytes) BY <1>2 DEF Bytes, ByteMod
  <1>5. Len(u) = 4 /\ Len(v) = 4 OBVIOUS
  <1>6. u[2] = 13 /\ u[3] = 10 /\ u[4] = 2 /\ v[1] = 13 /\ v[2] = 10 /\ v[3] = 13 /\ v[4] = 10
    OBVIOUS
  <1> HIDE DEF u, v
  <1>7. /\ r \in Seq(Bytes) /\ Len(r) = 8
        /\ \A i \in 1 .. 4 : r[i] = u[i] /\ r[4 + i] = v[i]
    <2>1. /\ u \o v \in Seq(Bytes) /\ Len(u \o v) = Len(u) + Len(v)
          /\ \A i \in 1 .. Len(u) : (u \o v)[i] = u[i]
          /\ \A i \in 1 .. Len(v) : (u \o v)[Len(u) + i] = v[i]
      BY <1>4, Joined
    <2>2. 4 + 4 = 8 OBVIOUS
    <2>3. QED BY <1>3, <1>5, <2>1, <2>2
  <1>8. /\ r[2] = u[2] /\ r[3] = u[3] /\ r[4] = u[4]
        /\ r[4 + 1] = v[1] /\ r[4 + 2] = v[2] /\ r[4 + 3] = v[3] /\ r[4 + 4] = v[4]
    BY <1>7
  <1>9. QED BY <1>6, <1>7, <1>8

\* The headers end where all of the response has been read, and not before.
LEMMA Complete ==
  ASSUME NEW s \in Seq(Bytes), NEW t \in Seq(Bytes), s \o t \in Responses
  PROVE  HeadersEnd(s) <=> t = <<>>
  <1> DEFINE r == s \o t
  <1>1. /\ Len(r) = 8 /\ Len(r) = Len(s) + Len(t) /\ Len(s) \in Nat /\ Len(t) \in Nat
        /\ \A i \in 1 .. Len(s) : s[i] = r[i]
    <2>1. s \o t \in Responses OBVIOUS
    <2>2. Len(s \o t) = 8 BY <2>1, ResponseParts
    <2>3. QED BY <2>2, Joined
  <1>2. /\ r[2] = 13 /\ r[3] = 10 /\ r[4] = 2 /\ r[5] = 13 /\ r[6] = 10 /\ r[7] = 13 /\ r[8] = 10
    BY ResponseParts
  <1>3. \A k \in 1 .. Len(s) :
          IsPrefix(EndOfHeaders, SubSeq(s, k, Len(s))) <=>
            /\ k + 3 <= Len(s)
            /\ s[k] = 13 /\ s[k + 1] = 10 /\ s[k + 2] = 13 /\ s[k + 3] = 10
    <2> TAKE k \in 1 .. Len(s)
    <2> DEFINE u == SubSeq(s, k, Len(s))
    <2>1. u \in Seq(Bytes) /\ Len(u) = Len(s) - k + 1 /\ \A i \in 1 .. Len(u) : u[i] = s[k + i - 1]
      BY <1>1
    <2>2. EndOfHeaders = <<13, 10, 13, 10>> /\ Len(EndOfHeaders) = 4
      BY DEF EndOfHeaders
    <2> HIDE DEF u
    <2>3. SubSeq(EndOfHeaders, 1, 4) = EndOfHeaders
      <3>1. EndOfHeaders \in Seq(Nat) BY <2>2
      <3>2. QED BY <2>2, <3>1, SubSeqFull
    <2>4. IsPrefix(EndOfHeaders, u) <=> (4 <= Len(u) /\ EndOfHeaders = SubSeq(u, 1, 4))
      BY <2>2, <2>3 DEF IsPrefix
    <2>5. 4 <= Len(u) => (EndOfHeaders = SubSeq(u, 1, 4) <=>
                            u[1] = 13 /\ u[2] = 10 /\ u[3] = 13 /\ u[4] = 10)
      <3> HAVE 4 <= Len(u)
      <3>1. /\ Len(SubSeq(u, 1, 4)) = 4
            /\ \A i \in 1 .. 4 : SubSeq(u, 1, 4)[i] = u[i]
        BY <2>1
      <3>2. /\ EndOfHeaders[1] = 13 /\ EndOfHeaders[2] = 10
            /\ EndOfHeaders[3] = 13 /\ EndOfHeaders[4] = 10
            /\ EndOfHeaders \in Seq(Nat)
        BY <2>2
      <3>3. ASSUME u[1] = 13, u[2] = 10, u[3] = 13, u[4] = 10
            PROVE  EndOfHeaders = SubSeq(u, 1, 4)
        <4>1. \A i \in 1 .. 4 : SubSeq(u, 1, 4)[i] = EndOfHeaders[i]
          <5> TAKE i \in 1 .. 4
          <5>1. i = 1 \/ i = 2 \/ i = 3 \/ i = 4 OBVIOUS
          <5>2. QED BY <3>1, <3>2, <3>3, <5>1
        <4>2. SubSeq(u, 1, 4) \in Seq(Nat)
          <5>1. Bytes \subseteq Nat BY DEF Bytes, ByteMod
          <5>2. SubSeq(u, 1, 4) \in Seq(Bytes) BY <2>1
          <5>3. QED BY <5>1, <5>2, SeqMonotonic
        <4>3. QED BY <2>2, <3>1, <3>2, <4>1, <4>2, SeqEqual
      <3>4. QED BY <3>1, <3>2, <3>3
    <2>6. 4 <= Len(u) <=> k + 3 <= Len(s) BY <1>1, <2>1
    <2>7. 4 <= Len(u) => u[1] = s[k] /\ u[2] = s[k + 1] /\ u[3] = s[k + 2] /\ u[4] = s[k + 3]
      BY <1>1, <2>1
    <2>8. QED BY <2>4, <2>5, <2>6, <2>7 DEF u
  <1> HIDE DEF r
  <1>4. ASSUME t = <<>> PROVE HeadersEnd(s)
    <2>1. Len(s) = 8 BY <1>1, <1>4
    <2>2. 5 \in 1 .. Len(s) /\ s[5] = 13 /\ s[5 + 1] = 10 /\ s[5 + 2] = 13 /\ s[5 + 3] = 10
      BY <1>1, <1>2, <2>1
    <2>3. IsPrefix(EndOfHeaders, SubSeq(s, 5, Len(s))) BY <1>3, <2>1, <2>2
    <2>4. 5 \in DOMAIN s BY <2>2
    <2>5. QED BY <2>3, <2>4 DEF HeadersEnd
  <1>5. ASSUME HeadersEnd(s) PROVE t = <<>>
    <2>1. PICK k \in DOMAIN s : IsPrefix(EndOfHeaders, SubSeq(s, k, Len(s)))
      BY <1>5 DEF HeadersEnd
    <2>2. /\ k \in 1 .. Len(s) /\ k + 3 <= Len(s)
          /\ s[k] = 13 /\ s[k + 1] = 10 /\ s[k + 2] = 13 /\ s[k + 3] = 10
      BY <1>3, <2>1
    <2>3. Len(s) \in Nat /\ Len(t) \in Nat /\ Len(s) + Len(t) = 8 BY <1>1
    <2>4. k \in 1 .. 5 BY <2>3, <2>2
    <2>5. r[k] = 13 /\ r[k + 1] = 10 /\ r[k + 2] = 13 /\ r[k + 3] = 10
      <3>1. /\ k \in 1 .. Len(s) /\ k + 1 \in 1 .. Len(s)
            /\ k + 2 \in 1 .. Len(s) /\ k + 3 \in 1 .. Len(s)
        BY <1>1, <2>2
      <3>2. QED BY <1>1, <2>2, <3>1
    <2>6. CASE k = 5
      <3>1. 5 + 3 <= Len(s) BY <2>2, <2>6
      <3>2. 5 + 3 = 8 OBVIOUS
      <3>3. 8 <= Len(s) BY <3>1, <3>2
      <3>4. \A a, b \in Nat : a + b = 8 /\ 8 <= a => b = 0 OBVIOUS
      <3>5. Len(t) = 0 BY <2>3, <3>4, <3>3
      <3>6. QED BY <3>5
    <2>7. CASE k = 1 BY <1>2, <2>5, <2>7
    <2>8. CASE k = 2 BY <1>2, <2>5, <2>8
    <2>9. CASE k = 3 BY <1>2, <2>5, <2>9
    <2>10. CASE k = 4 BY <1>2, <2>5, <2>10
    <2>11. QED BY <2>4, <2>6, <2>7, <2>8, <2>9, <2>10
  <1>6. QED BY <1>4, <1>5

\* What a read takes from one sequence and gives to another.
LEMMA Split ==
  ASSUME NEW s \in Seq(Bytes), NEW t \in Seq(Bytes), NEW n \in 1 .. Len(t)
  PROVE  LET s1 == s \o SubSeq(t, 1, n)
             t1 == SubSeq(t, n + 1, Len(t))
         IN  /\ s1 \in Seq(Bytes) /\ t1 \in Seq(Bytes)
             /\ s1 \o t1 = s \o t
             /\ Len(s1) = Len(s) + n /\ Len(t1) = Len(t) - n
  <1> DEFINE a == SubSeq(t, 1, n)
             t1 == SubSeq(t, n + 1, Len(t))
  <1>1. a \in Seq(Bytes) /\ t1 \in Seq(Bytes) /\ Len(a) = n /\ Len(t1) = Len(t) - n OBVIOUS
  <1>2. /\ \A i \in 1 .. n : a[i] = t[i]
        /\ \A i \in 1 .. Len(t) - n : t1[i] = t[n + i]
        /\ Len(t) \in Nat
    OBVIOUS
  <1> HIDE DEF a, t1
  <1> DEFINE s1 == s \o a
  <1>3. /\ s1 \in Seq(Bytes) /\ Len(s1) = Len(s) + n /\ Len(s) \in Nat
        /\ \A i \in 1 .. Len(s) : s1[i] = s[i]
        /\ \A i \in 1 .. n : s1[Len(s) + i] = t[i]
    BY <1>1, <1>2, Joined
  <1> HIDE DEF s1
  <1> DEFINE x == s1 \o t1
             y == s \o t
  <1>4. /\ x \in Seq(Bytes) /\ Len(x) = Len(s1) + Len(t1)
        /\ \A i \in 1 .. Len(s1) : x[i] = s1[i]
        /\ \A i \in 1 .. Len(t1) : x[Len(s1) + i] = t1[i]
    BY <1>1, <1>3, Joined
  <1>5. /\ y \in Seq(Bytes) /\ Len(y) = Len(s) + Len(t)
        /\ \A i \in 1 .. Len(s) : y[i] = s[i]
        /\ \A i \in 1 .. Len(t) : y[Len(s) + i] = t[i]
    BY Joined
  <1> HIDE DEF x, y
  <1>6. Len(x) = Len(y) BY <1>1, <1>2, <1>3, <1>4, <1>5
  <1>7. ASSUME NEW i \in 1 .. Len(x) PROVE x[i] = y[i]
    <2>1. CASE i <= Len(s) BY <1>1, <1>2, <1>3, <1>4, <1>5, <1>6, <2>1
    <2>2. CASE Len(s) < i /\ i <= Len(s) + n
      <3>1. PICK j \in 1 .. n : i = Len(s) + j
        <4>1. i - Len(s) \in 1 .. n /\ i = Len(s) + (i - Len(s)) BY <1>3, <2>2
        <4>2. QED BY <4>1
      <3>2. j \in 1 .. Len(t) BY <1>2
      <3>3. i \in 1 .. Len(s1) BY <1>3, <2>2
      <3>4. QED BY <1>3, <1>4, <1>5, <3>1, <3>2, <3>3
    <2>3. CASE Len(s) + n < i
      <3>1. PICK j \in 1 .. Len(t) - n : i = Len(s) + n + j
        <4>1. i - Len(s) - n \in 1 .. Len(t) - n /\ i = Len(s) + n + (i - Len(s) - n)
          BY <1>1, <1>2, <1>3, <1>4, <2>3
        <4>2. QED BY <4>1
      <3>2. i = Len(s1) + j /\ j \in 1 .. Len(t1) BY <1>1, <1>3, <3>1
      <3>3. x[i] = t[n + j] BY <1>2, <1>4, <3>1, <3>2
      <3>4. n + j \in 1 .. Len(t) /\ i = Len(s) + (n + j) BY <1>2, <1>3, <3>1
      <3>5. y[i] = t[n + j] BY <1>5, <3>4
      <3>6. QED BY <3>3, <3>5
    <2>4. QED BY <1>3, <2>1, <2>2, <2>3
  <1>8. x = y BY <1>4, <1>5, <1>6, <1>7, SeqEqual
  <1>9. QED BY <1>1, <1>3, <1>8 DEF s1, t1, a, x, y

LEMMA UpgradeStep ==
  ASSUME UpgradeInv, [Next]_vars
  PROVE  UpgradeInv'
  <1> DEFINE Before == {"closed", "requesting", "upgrading"}
             Typed == response \in Seq(Bytes) /\ incoming \in Seq(Bytes)
             Whole == IF lifecycle = "upgrading" THEN response \o incoming \in Responses
                      ELSE response = <<>>
             Working == worker # "done" => lifecycle \in {"open", "closing", "stopping"}
  <1>1. Typed /\ Whole /\ Working BY DEF UpgradeInv
  <1>2. CASE WriteRequest
    <2>1. PICK r \in Responses : incoming' = r BY <1>2 DEF WriteRequest
    <2>2. response = <<>> /\ response' = <<>> /\ r \in Seq(Bytes)
      BY <1>1, <1>2, ResponseParts DEF WriteRequest
    <2>3. response' \o incoming' = r BY <2>1, <2>2
    <2>4. QED BY <1>1, <1>2, <2>1, <2>2, <2>3 DEF WriteRequest, UpgradeInv
  <1>3. CASE ReadResponse
    <2>1. PICK n \in 1 .. Len(incoming) : /\ response' = response \o SubSeq(incoming, 1, n)
                                          /\ incoming' = SubSeq(incoming, n + 1, Len(incoming))
      BY <1>3 DEF ReadResponse
    <2>2. Typed' /\ response' \o incoming' = response \o incoming
      BY <1>1, <2>1, Split
    <2>3. QED BY <1>1, <1>3, <2>2 DEF ReadResponse, UpgradeInv
  <1>4. CASE Recv
    <2>1. PICK n \in 1 .. Len(incoming) : incoming' = SubSeq(incoming, n + 1, Len(incoming))
      BY <1>4 DEF Recv
    <2>2. incoming' \in Seq(Bytes) BY <1>1, <2>1
    <2>3. lifecycle # "upgrading" BY <1>1, <1>4 DEF Recv
    <2>4. QED BY <1>1, <1>4, <2>2, <2>3 DEF Recv, UpgradeInv, upgrade
  <1>5. CASE PeerSends
    <2>1. PICK t \in Streams : incoming' = incoming \o t BY <1>5 DEF PeerSends
    <2>2. incoming' \in Seq(Bytes) BY <1>1, <2>1, PeerAssumption
    <2>3. QED BY <1>1, <1>5, <2>2 DEF PeerSends, UpgradeInv, upgrade
  <1>6. CASE Upgraded \/ UpgradeFails \/ JoinAndFree
    <2>1. <<>> \in Seq(Bytes) OBVIOUS
    <2>2. QED
      BY <1>1, <1>6, <2>1
      DEF Upgraded, UpgradeFails, JoinAndFree, UpgradeInv, upgrade
  <1>7. CASE Close \/ StopWorker \/ (\E u \in Urls, key \in Keys : Open(u, key))
    BY <1>1, <1>7 DEF Close, StopWorker, Open, UpgradeInv, upgrade, reading
  <1>8. CASE WorkerEnds \/ Dispatch \/ PongWritten \/ NeedsMore
    BY <1>1, <1>8 DEF WorkerEnds, Dispatch, PongWritten, NeedsMore, UpgradeInv, upgrade
  <1>9. CASE UNCHANGED <<lifecycle, upgrade, reading>>
    BY <1>1, <1>9 DEF UpgradeInv, upgrade, reading
  <1>10. ASSUME NEW w \in Writers, WritePart(w) \/ WriteFails(w) PROVE UpgradeInv'
    BY <1>9, <1>10 DEF WritePart, WriteFails
  <1>11. CASE (\E s \in Senders : Send(s)) \/ UNCHANGED vars
    BY <1>9, <1>11 DEF Send, vars
  <1>12. QED
    BY <1>2, <1>3, <1>4, <1>5, <1>6, <1>7, <1>8, <1>10, <1>11 DEF Next
-----------------------------------------------------------------------------
(* The payloads of frames.                                                 *)

Chosen(F, ops) ==
  CHOOSE p : p = [i \in 0 .. Len(F) |->
    IF i = 0 THEN <<>>
    ELSE IF F[i][1] \in ops THEN Append(p[i - 1], F[i][2]) ELSE p[i - 1]]

LEMMA PayloadsAreChosen == \A F, ops : PayloadsOf(F, ops) = Chosen(F, ops)[Len(F)]
  BY DEF PayloadsOf, Chosen

\* The recursive function of PayloadsOf() exists.
LEMMA ChosenStep ==
  ASSUME NEW F, NEW ops, Len(F) \in Nat
  PROVE  /\ Chosen(F, ops)[0] = <<>>
         /\ \A i \in 1 .. Len(F) :
              Chosen(F, ops)[i] = IF F[i][1] \in ops THEN Append(Chosen(F, ops)[i - 1], F[i][2])
                                  ELSE Chosen(F, ops)[i - 1]
  <1> DEFINE Val(x, i) == IF F[i][1] \in ops THEN Append(x, F[i][2]) ELSE x
             Is(p, N) == p = [i \in 0 .. N |-> IF i = 0 THEN <<>> ELSE Val(p[i - 1], i)]
  <1> HIDE DEF Val
  <1>1. \E p : Is(p, 0)
    <2> DEFINE p == [i \in 0 .. 0 |-> <<>>]
    <2>1. Is(p, 0) OBVIOUS
    <2>2. QED BY <2>1
  <1>2. ASSUME NEW N \in Nat, NEW p, Is(p, N) PROVE \E t : Is(t, N + 1)
    <2> DEFINE t == [i \in 0 .. N + 1 |-> IF i = N + 1 THEN Val(p[N], N + 1) ELSE p[i]]
    <2>1. \A i \in 0 .. N : p[i] = IF i = 0 THEN <<>> ELSE Val(p[i - 1], i) BY <1>2
    <2>2. \A i \in 0 .. N + 1 : t[i] = IF i = 0 THEN <<>> ELSE Val(t[i - 1], i)
      <3> TAKE i \in 0 .. N + 1
      <3>1. CASE i = N + 1
        <4>1. i # 0 /\ N \in 0 .. N + 1 /\ N # N + 1 /\ i - 1 = N BY <3>1
        <4>2. t[i] = Val(p[N], N + 1) /\ t[N] = p[N] BY <3>1, <4>1
        <4>3. QED BY <3>1, <4>1, <4>2
      <3>2. CASE i # N + 1
        <4>1. i \in 0 .. N /\ (i # 0 => i - 1 \in 0 .. N + 1 /\ i - 1 # N + 1)
          BY <3>2
        <4>2. t[i] = p[i] /\ (i # 0 => t[i - 1] = p[i - 1]) BY <3>2, <4>1
        <4>3. QED BY <2>1, <4>1, <4>2
      <3>3. QED BY <3>1, <3>2
    <2>3. Is(t, N + 1) BY <2>2
    <2>4. QED BY <2>3
  <1> DEFINE S == {N \in Nat : \E p : Is(p, N)}
  <1> HIDE DEF Is
  <1>3. 0 \in S /\ \A N \in S : N + 1 \in S BY <1>1, <1>2
  <1>4. Len(F) \in S BY <1>3, Induct
  <1>5. Is(Chosen(F, ops), Len(F)) BY <1>4 DEF Chosen, Is, Val
  <1>6. /\ Chosen(F, ops)[0] = <<>>
        /\ \A i \in 1 .. Len(F) : Chosen(F, ops)[i] = Val(Chosen(F, ops)[i - 1], i)
    BY <1>5 DEF Is
  <1>7. QED BY <1>6 DEF Val

\* The payloads of frames begin with those of the first of them.
LEMMA PayloadsGrow ==
  ASSUME NEW F, NEW G, Leads(F, G), NEW ops
  PROVE  Leads(PayloadsOf(F, ops), PayloadsOf(G, ops))
  <1> DEFINE p == Chosen(F, ops)
             q == Chosen(G, ops)
             Val(H, x, i) == IF H[i][1] \in ops THEN Append(x, H[i][2]) ELSE x
  <1>1. Len(F) \in Nat /\ Len(G) \in Nat /\ Len(F) <= Len(G) /\ \A i \in 1 .. Len(F) : F[i] = G[i]
    BY DEF Leads, IsSeq
  <1>2. /\ p[0] = <<>> /\ q[0] = <<>>
        /\ \A i \in 1 .. Len(F) : p[i] = Val(F, p[i - 1], i)
        /\ \A i \in 1 .. Len(G) : q[i] = Val(G, q[i - 1], i)
    BY <1>1, ChosenStep
  <1> HIDE DEF p, q, Val
  <1>3. \A i \in 1 .. Len(F) : \A x : Val(F, x, i) = Val(G, x, i) BY <1>1 DEF Val
  <1>4. ASSUME NEW H, NEW x, IsSeq(x), NEW i
        PROVE  Leads(x, Val(H, x, i)) /\ IsSeq(Val(H, x, i))
    BY <1>4, LeadsItself, LeadsAppended DEF Val
  <1> DEFINE S == {n \in Nat : n <= Len(F) => p[n] = q[n]}
             T == {n \in Nat : n <= Len(G) => IsSeq(q[n])}
             U == {n \in Nat : Len(F) + n <= Len(G) => Leads(q[Len(F)], q[Len(F) + n])}
  <1>5. S = Nat
    <2>1. 0 \in S BY <1>2
    <2>2. ASSUME NEW n \in S PROVE n + 1 \in S
      <3>1. SUFFICES ASSUME n + 1 <= Len(F) PROVE p[n + 1] = q[n + 1] OBVIOUS
      <3>2. n + 1 \in 1 .. Len(F) /\ n + 1 \in 1 .. Len(G) /\ n + 1 - 1 = n /\ n <= Len(F)
        BY <1>1, <3>1
      <3>3. p[n + 1] = Val(F, p[n], n + 1) /\ q[n + 1] = Val(G, q[n], n + 1)
        BY <1>2, <3>2
      <3>4. p[n] = q[n] BY <3>2
      <3>5. QED BY <1>3, <3>2, <3>3, <3>4
    <2> HIDE DEF S
    <2>3. S \in SUBSET Nat BY DEF S
    <2>4. QED BY <2>1, <2>2, <2>3, Induct
  <1>6. T = Nat
    <2>1. 0 \in T
      <3>1. IsSeq(<<>>) BY Empty DEF IsSeq
      <3>2. QED BY <1>2, <3>1
    <2>2. ASSUME NEW n \in T PROVE n + 1 \in T
      <3>1. SUFFICES ASSUME n + 1 <= Len(G) PROVE IsSeq(q[n + 1]) OBVIOUS
      <3>2. n + 1 \in 1 .. Len(G) /\ n + 1 - 1 = n /\ n <= Len(G) BY <1>1, <3>1
      <3>3. q[n + 1] = Val(G, q[n], n + 1) BY <1>2, <3>2
      <3>4. IsSeq(q[n]) BY <3>2
      <3>5. QED BY <1>4, <3>3, <3>4
    <2> HIDE DEF T
    <2>3. T \in SUBSET Nat BY DEF T
    <2>4. QED BY <2>1, <2>2, <2>3, Induct
  <1>7. \A n \in 0 .. Len(G) : IsSeq(q[n]) BY <1>1, <1>6
  <1>8. U = Nat
    <2>1. 0 \in U
      <3>1. Leads(q[Len(F)], q[Len(F)]) BY <1>1, <1>7, LeadsItself
      <3>2. Len(F) + 0 = Len(F) BY <1>1
      <3>3. QED BY <3>1, <3>2
    <2>2. ASSUME NEW n \in U PROVE n + 1 \in U
      <3>1. SUFFICES ASSUME Len(F) + (n + 1) <= Len(G)
                     PROVE  Leads(q[Len(F)], q[Len(F) + (n + 1)])
        OBVIOUS
      <3>2. PICK m \in Nat : /\ m = Len(F) + n /\ Len(F) + (n + 1) = m + 1
                             /\ m + 1 \in 1 .. Len(G) /\ m + 1 - 1 = m /\ m \in 0 .. Len(G)
        BY <1>1, <3>1
      <3>3. q[m + 1] = Val(G, q[m], m + 1) BY <1>2, <3>2
      <3>4. Leads(q[Len(F)], q[m]) BY <1>1, <3>2
      <3>5. Leads(q[m], q[m + 1]) BY <1>4, <1>7, <3>2, <3>3
      <3>6. QED BY <3>2, <3>4, <3>5, LeadsFurther
    <2> HIDE DEF U
    <2>3. U \in SUBSET Nat BY DEF U
    <2>4. QED BY <2>1, <2>2, <2>3, Induct
  <1>9. p[Len(F)] = q[Len(F)] BY <1>1, <1>5
  <1>10. Leads(q[Len(F)], q[Len(G)])
    <2>1. PICK n \in Nat : Len(F) + n = Len(G)
      <3>1. Len(G) - Len(F) \in Nat /\ Len(F) + (Len(G) - Len(F)) = Len(G) BY <1>1
      <3>2. QED BY <3>1
    <2>2. Len(F) + n <= Len(G) BY <1>1, <2>1
    <2>3. QED BY <1>8, <2>1, <2>2
  <1>11. QED BY <1>9, <1>10, PayloadsAreChosen DEF p, q

LEMMA PayloadsOfNone == \A ops : PayloadsOf(<<>>, ops) = <<>>
  <1> TAKE ops
  <1>1. Len(<<>>) = 0 OBVIOUS
  <1>2. QED BY <1>1, ChosenStep, PayloadsAreChosen

LEMMA PayloadsOfMore ==
  ASSUME NEW F, IsSeq(F), NEW f, NEW ops
  PROVE  PayloadsOf(Append(F, f), ops) =
           IF f[1] \in ops THEN Append(PayloadsOf(F, ops), f[2]) ELSE PayloadsOf(F, ops)
  <1> DEFINE G == Append(F, f)
             p == Chosen(F, ops)
             q == Chosen(G, ops)
             Val(H, x, i) == IF H[i][1] \in ops THEN Append(x, H[i][2]) ELSE x
  <1>1. /\ Leads(F, G) /\ Len(F) \in Nat /\ Len(G) = Len(F) + 1 /\ G[Len(F) + 1] = f
        /\ \A i \in 1 .. Len(F) : F[i] = G[i]
    BY LeadsAppended DEF Leads, IsSeq
  <1> HIDE DEF G
  <1>2. /\ p[0] = <<>> /\ q[0] = <<>>
        /\ \A i \in 1 .. Len(F) : p[i] = Val(F, p[i - 1], i)
        /\ \A i \in 1 .. Len(F) + 1 : q[i] = Val(G, q[i - 1], i)
    BY <1>1, ChosenStep
  <1> HIDE DEF p, q, Val
  <1>3. \A i \in 1 .. Len(F) : \A x : Val(F, x, i) = Val(G, x, i) BY <1>1 DEF Val
  <1> DEFINE S == {n \in Nat : n <= Len(F) => p[n] = q[n]}
  <1>4. S = Nat
    <2>1. 0 \in S BY <1>2
    <2>2. ASSUME NEW n \in S PROVE n + 1 \in S
      <3>1. SUFFICES ASSUME n + 1 <= Len(F) PROVE p[n + 1] = q[n + 1] OBVIOUS
      <3>2. n + 1 \in 1 .. Len(F) /\ n + 1 \in 1 .. Len(F) + 1 /\ n + 1 - 1 = n /\ n <= Len(F)
        BY <1>1, <3>1
      <3>3. p[n + 1] = Val(F, p[n], n + 1) /\ q[n + 1] = Val(G, q[n], n + 1)
        BY <1>2, <3>2
      <3>4. p[n] = q[n] BY <3>2
      <3>5. QED BY <1>3, <3>2, <3>3, <3>4
    <2> HIDE DEF S
    <2>3. S \in SUBSET Nat BY DEF S
    <2>4. QED BY <2>1, <2>2, <2>3, Induct
  <1>5. p[Len(F)] = q[Len(F)] BY <1>1, <1>4
  <1>6. q[Len(F) + 1] = Val(G, q[Len(F)], Len(F) + 1)
    <2>1. Len(F) + 1 \in 1 .. Len(F) + 1 /\ Len(F) + 1 - 1 = Len(F) BY <1>1
    <2>2. QED BY <1>2, <2>1
  <1>7. q[Len(F) + 1] = IF f[1] \in ops THEN Append(p[Len(F)], f[2]) ELSE p[Len(F)]
    BY <1>1, <1>5, <1>6 DEF Val
  <1>8. QED BY <1>1, <1>7, PayloadsAreChosen DEF p, q, G
-----------------------------------------------------------------------------
(* What has been read of a part of a stream.                               *)

LEMMA ReadPart ==
  ASSUME NEW s \in Seq(Bytes), NEW n \in 0 .. Len(s), NEW p
  PROVE  Read(p, SubSeq(s, 1, n)) = Reading(p, s)[n]
  <1> DEFINE t == SubSeq(s, 1, n)
             q == Reading(p, t)
             r == Reading(p, s)
  <1>1. t \in Seq(Bytes) /\ Len(t) = n /\ (\A i \in 1 .. n : t[i] = s[i]) /\ n <= Len(s) /\ Len(s) \in Nat
    OBVIOUS
  <1> HIDE DEF t
  <1>2. /\ q[0] = p /\ \A i \in 1 .. n : q[i] = ReadByte(q[i - 1], t[i])
        /\ r[0] = p /\ \A i \in 1 .. Len(s) : r[i] = ReadByte(r[i - 1], s[i])
    BY <1>1, ReadingStep
  <1>3. Read(p, t) = q[n] BY <1>1, ReadIsReading
  <1> HIDE DEF q, r
  <1> DEFINE S == {i \in Nat : i <= n => q[i] = r[i]}
  <1>4. 0 \in S BY <1>2
  <1>5. ASSUME NEW i \in S PROVE i + 1 \in S
    <2>1. SUFFICES ASSUME i + 1 <= n PROVE q[i + 1] = r[i + 1] OBVIOUS
    <2>2. i + 1 \in 1 .. n /\ i + 1 \in 1 .. Len(s) /\ i + 1 - 1 = i /\ i <= n
      BY <1>1, <2>1
    <2>3. q[i + 1] = ReadByte(q[i], t[i + 1]) /\ r[i + 1] = ReadByte(r[i], s[i + 1])
      BY <1>2, <2>2
    <2>4. QED BY <1>1, <2>2, <2>3
  <1> HIDE DEF S
  <1>6. S = Nat
    <2>1. S \in SUBSET Nat BY DEF S
    <2>2. QED BY <1>4, <1>5, <2>1, Induct
  <1>7. q[n] = r[n] BY <1>6 DEF S
  <1>8. QED BY <1>3, <1>7 DEF r, t

\* Reading on adds frames and takes none away.
LEMMA FramesGrow ==
  ASSUME NEW s \in Seq(Bytes), NEW u \in 0 .. Len(s), NEW n \in u .. Len(s)
  PROVE  Leads(Reading(NothingRead, s)[u].frames, Reading(NothingRead, s)[n].frames)
  <1> DEFINE r == Reading(NothingRead, s)
  <1>1. Len(s) \in Nat OBVIOUS
  <1>2. r[0] = NothingRead /\ \A i \in 1 .. Len(s) : r[i] = ReadByte(r[i - 1], s[i])
    BY <1>1, ReadingStep
  <1> HIDE DEF r
  <1>3. ASSUME NEW p, IsSeq(p.frames), NEW byte
        PROVE  Leads(p.frames, ReadByte(p, byte).frames)
    <2>1. \/ ReadByte(p, byte).frames = p.frames
          \/ \E f : ReadByte(p, byte).frames = Append(p.frames, f)
      BY DEF ReadByte
    <2>2. QED BY <1>3, <2>1, LeadsItself, LeadsAppended
  <1> DEFINE T == {i \in Nat : i <= Len(s) => IsSeq(r[i].frames)}
             U == {i \in Nat : u + i <= Len(s) => Leads(r[u].frames, r[u + i].frames)}
  <1>4. T = Nat
    <2>1. 0 \in T
      <3>1. IsSeq(<<>>) BY Empty DEF IsSeq
      <3>2. NothingRead.frames = <<>> BY DEF NothingRead
      <3>3. QED BY <1>2, <3>1, <3>2
    <2>2. ASSUME NEW i \in T PROVE i + 1 \in T
      <3>1. SUFFICES ASSUME i + 1 <= Len(s) PROVE IsSeq(r[i + 1].frames) OBVIOUS
      <3>2. i + 1 \in 1 .. Len(s) /\ i + 1 - 1 = i /\ i <= Len(s) BY <1>1, <3>1
      <3>3. r[i + 1] = ReadByte(r[i], s[i + 1]) BY <1>2, <3>2
      <3>4. Leads(r[i].frames, r[i + 1].frames) BY <1>3, <3>2, <3>3
      <3>5. QED BY <3>4 DEF Leads
    <2> HIDE DEF T
    <2>3. T \in SUBSET Nat BY DEF T
    <2>4. QED BY <2>1, <2>2, <2>3, Induct
  <1>5. \A i \in 0 .. Len(s) : IsSeq(r[i].frames) BY <1>1, <1>4
  <1>6. U = Nat
    <2>1. 0 \in U
      <3>1. Leads(r[u].frames, r[u].frames) BY <1>5, LeadsItself
      <3>2. u + 0 = u OBVIOUS
      <3>3. QED BY <3>1, <3>2
    <2>2. ASSUME NEW i \in U PROVE i + 1 \in U
      <3>1. SUFFICES ASSUME u + (i + 1) <= Len(s)
                     PROVE  Leads(r[u].frames, r[u + (i + 1)].frames)
        OBVIOUS
      <3>2. PICK m \in Nat : /\ m = u + i /\ u + (i + 1) = m + 1
                             /\ m + 1 \in 1 .. Len(s) /\ m + 1 - 1 = m /\ m \in 0 .. Len(s)
        BY <1>1, <3>1
      <3>3. r[m + 1] = ReadByte(r[m], s[m + 1]) BY <1>2, <3>2
      <3>4. Leads(r[u].frames, r[m].frames) BY <1>1, <3>2
      <3>5. Leads(r[m].frames, r[m + 1].frames) BY <1>3, <1>5, <3>2, <3>3
      <3>6. QED BY <3>2, <3>4, <3>5, LeadsFurther
    <2> HIDE DEF U
    <2>3. U \in SUBSET Nat BY DEF U
    <2>4. QED BY <2>1, <2>2, <2>3, Induct
  <1>7. PICK i \in Nat : u + i = n
    <2>1. n - u \in Nat /\ u + (n - u) = n OBVIOUS
    <2>2. QED BY <2>1
  <1>8. u + i <= Len(s) BY <1>7
  <1>9. QED BY <1>6, <1>7, <1>8 DEF r
-----------------------------------------------------------------------------
(* Where the client is in a stream.                                        *)

\* Of the stream s, n bytes have arrived and u are dispatched: they are the
\* frames F; a is in the buffer and i on its way.
At(s, a, i, u, n, F) ==
  /\ s \in Seq(Bytes) /\ u \in Nat /\ n \in Nat /\ u <= n /\ n <= Len(s)
  /\ a = SubSeq(s, u + 1, n) /\ i = SubSeq(s, n + 1, Len(s))
  /\ Reading(NothingRead, s)[u] = [got |-> <<>>, frames |-> F]

\* A part is found by its bytes.
LEMMA PartIs ==
  ASSUME NEW s \in Seq(Bytes), NEW u \in Nat, NEW n \in Nat, u <= n, n <= Len(s),
         NEW t, NEW k \in Nat, n = u + k, IsPart(t, s, u, k)
  PROVE  t = SubSeq(s, u + 1, n)
  <1> DEFINE x == SubSeq(s, u + 1, n)
  <1>1. PICK l \in Nat : n = u + l /\ IsPart(x, s, u, l) BY PartBetween
  <1>2. l = k BY <1>1
  <1> HIDE DEF x
  <1>3. x \in Seq(Bytes) /\ Len(x) = k /\ \A j \in 1 .. k : x[j] = s[u + j]
    BY <1>1, <1>2 DEF IsPart
  <1>4. t \in Seq(Bytes) /\ Len(t) = k /\ \A j \in 1 .. k : t[j] = s[u + j]
    BY DEF IsPart
  <1>5. \A j \in 1 .. k : t[j] = x[j] BY <1>3, <1>4
  <1>6. t = x BY <1>3, <1>4, <1>5, SameBytes
  <1>7. QED BY <1>6 DEF x

AtLengths(s, a, i, u, n) ==
  /\ u <= n /\ n <= Len(s) /\ Len(s) \in Nat
  /\ a \in Seq(Bytes) /\ i \in Seq(Bytes)
  /\ Len(i) = Len(s) - n /\ Len(a) = n - u

LEMMA AtMeans ==
  ASSUME NEW s \in Seq(Bytes), NEW a, NEW i, NEW u \in Nat, NEW n \in Nat, NEW F,
         At(s, a, i, u, n, F)
  PROVE  /\ AtLengths(s, a, i, u, n)
         /\ IsSeq(F)
         /\ Read(NothingRead, SubSeq(s, 1, u)) = [got |-> <<>>, frames |-> F]
  <1>1. u <= n /\ n <= Len(s) /\ Len(s) \in Nat /\ Len(s) <= Len(s) BY DEF At
  <1>2. a \in Seq(Bytes) /\ Len(a) = n - u
    <2>1. PICK k \in Nat : n = u + k /\ IsPart(a, s, u, k)
      BY <1>1, PartBetween DEF At
    <2>2. QED BY <2>1 DEF IsPart
  <1>3. i \in Seq(Bytes) /\ Len(i) = Len(s) - n
    <2>1. PICK l \in Nat : Len(s) = n + l /\ IsPart(i, s, n, l)
      BY <1>1, PartBetween DEF At
    <2>2. QED BY <2>1 DEF IsPart
  <1>4. IsSeq(F)
    <2>1. u \in 0 .. Len(s) /\ u \in u .. Len(s) BY <1>1
    <2>2. Leads(Reading(NothingRead, s)[u].frames, Reading(NothingRead, s)[u].frames)
      BY <2>1, FramesGrow
    <2>3. QED BY <2>2 DEF At, Leads
  <1>5. Read(NothingRead, SubSeq(s, 1, u)) = [got |-> <<>>, frames |-> F]
    <2>1. u \in 0 .. Len(s) BY <1>1
    <2>2. QED BY <2>1, ReadPart DEF At
  <1>6. QED BY <1>1, <1>2, <1>3, <1>4, <1>5 DEF AtLengths

LEMMA Placed ==
  ASSUME NEW s \in Seq(Bytes), NEW a \in Seq(Bytes), NEW i \in Seq(Bytes),
         Len(a) + Len(i) <= Len(s), NEW n, n = Len(s) - Len(i), NEW u, u = n - Len(a),
         i = SubSeq(s, n + 1, Len(s)), a = SubSeq(s, u + 1, n),
         Read(NothingRead, SubSeq(s, 1, u)).got = <<>>
  PROVE  At(s, a, i, u, n, Read(NothingRead, SubSeq(s, 1, u)).frames)
  <1>1. Len(s) \in Nat /\ Len(a) \in Nat /\ Len(i) \in Nat OBVIOUS
  <1>2. u \in Nat /\ n \in Nat /\ u <= n /\ n <= Len(s) /\ u \in 0 .. Len(s)
    BY ONLY <1>1, Len(a) + Len(i) <= Len(s), n = Len(s) - Len(i), u = n - Len(a)
  <1> DEFINE r == Reading(NothingRead, s)
  <1>3. r[0] = NothingRead /\ \A j \in 1 .. Len(s) : r[j] = ReadByte(r[j - 1], s[j])
    BY ONLY <1>1, ReadingStep
  <1>4. Read(NothingRead, SubSeq(s, 1, u)) = r[u] BY <1>2, ReadPart
  <1> HIDE DEF r
  <1>5. r[u] = [got |-> r[u].got, frames |-> r[u].frames]
    <2>1. \A p, byte : ReadByte(p, byte) = [got |-> ReadByte(p, byte).got,
                                            frames |-> ReadByte(p, byte).frames]
      BY DEF ReadByte
    <2>2. CASE u = 0 BY <1>3, <2>2 DEF NothingRead
    <2>3. CASE u # 0
      <3>1. u \in 1 .. Len(s) BY ONLY <1>1, <1>2, <2>3
      <3>2. r[u] = ReadByte(r[u - 1], s[u]) BY <1>3, <3>1
      <3>3. QED BY ONLY <2>1, <3>2
    <2>4. QED BY <2>2, <2>3
  <1>6. QED BY <1>2, <1>4, <1>5 DEF At, r

\* A stream that has just been sent.
LEMMA AtTheBeginning ==
  ASSUME NEW s \in Seq(Bytes)
  PROVE  At(s, <<>>, s, 0, 0, <<>>)
  <1>1. Len(s) \in Nat /\ 0 <= Len(s) OBVIOUS
  <1>2. Reading(NothingRead, s)[0] = NothingRead BY <1>1, ReadingStep
  <1>3. SubSeq(s, 0 + 1, Len(s)) = s
    <2>1. 0 + 1 = 1 OBVIOUS
    <2>2. QED BY <2>1, SubSeqFull
  <1>4. SubSeq(s, 0 + 1, 0) = <<>> OBVIOUS
  <1>5. QED BY <1>1, <1>2, <1>3, <1>4 DEF At, NothingRead

\* recv() moves k bytes into the buffer.
LEMMA AtMoreBytes ==
  ASSUME NEW s \in Seq(Bytes), NEW a, NEW i, NEW u \in Nat, NEW n \in Nat, NEW F,
         At(s, a, i, u, n, F), NEW k \in 1 .. Len(i)
  PROVE  At(s, a \o SubSeq(i, 1, k), SubSeq(i, k + 1, Len(i)), u, n + k, F)
  <1>1. u <= n /\ n <= Len(s) /\ Len(s) \in Nat BY AtMeans DEF AtLengths
  <1>2. PICK m \in Nat : n = u + m /\ IsPart(a, s, u, m) BY <1>1, PartBetween DEF At
  <1>3. PICK d \in Nat : Len(s) = n + d /\ IsPart(i, s, n, d)
    <2>1. Len(s) <= Len(s) BY <1>1
    <2>2. QED BY <1>1, <2>1, PartBetween DEF At
  <1>4. i \in Seq(Bytes) /\ Len(i) = d /\ \A j \in 1 .. d : i[j] = s[n + j]
    BY <1>3 DEF IsPart
  <1>5. PICK e \in Nat : e = n + k /\ e <= Len(s) /\ u <= e /\ k \in Nat /\ k <= d /\ 1 <= k
    BY <1>1, <1>3, <1>4
  <1> DEFINE x == SubSeq(i, 1, k)
             y == SubSeq(i, k + 1, Len(i))
             b == a \o x
  <1>6. IsPart(x, s, n, k)
    <2>1. x \in Seq(Bytes) /\ Len(x) = k /\ \A j \in 1 .. k : x[j] = i[j]
      BY <1>4, <1>5
    <2>2. \A j \in 1 .. k : j \in 1 .. d BY <1>5
    <2> HIDE DEF x
    <2>3. QED BY <1>4, <2>1, <2>2 DEF IsPart
  <1>7. y = SubSeq(s, e + 1, Len(s))
    <2>1. k <= Len(i) /\ Len(i) <= Len(i) /\ Len(i) \in Nat /\ k \in Nat
      BY <1>4, <1>5
    <2>2. PICK l \in Nat : Len(i) = k + l /\ IsPart(y, i, k, l)
      BY <1>4, <2>1, PartBetween
    <2> HIDE DEF y
    <2>3. y \in Seq(Bytes) /\ Len(y) = l /\ \A j \in 1 .. l : y[j] = i[k + j]
      BY <2>2 DEF IsPart
    <2>4. ASSUME NEW j \in 1 .. l PROVE y[j] = s[e + j]
      <3>1. k + j \in 1 .. d BY <1>4, <1>5, <2>2
      <3>2. n + (k + j) = e + j BY <1>5
      <3>3. y[j] = i[k + j] /\ i[k + j] = s[n + (k + j)] BY <1>4, <2>3, <3>1
      <3>4. QED BY <3>2, <3>3
    <2>5. IsPart(y, s, e, l) BY <2>3, <2>4 DEF IsPart
    <2>6. Len(s) = e + l /\ Len(s) <= Len(s) BY <1>1, <1>3, <1>4, <1>5, <2>2
    <2>7. QED BY <1>1, <1>5, <2>5, <2>6, PartIs
  <1>8. b = SubSeq(s, u + 1, e)
    <2> HIDE DEF x
    <2>1. a \in Seq(Bytes) /\ Len(a) = m /\ \A j \in 1 .. m : a[j] = s[u + j]
      BY <1>2 DEF IsPart
    <2>2. x \in Seq(Bytes) /\ Len(x) = k /\ \A j \in 1 .. k : x[j] = s[n + j]
      BY <1>6 DEF IsPart
    <2>3. /\ b \in Seq(Bytes) /\ Len(b) = m + k
          /\ \A j \in 1 .. m : b[j] = a[j]
          /\ \A j \in 1 .. k : b[m + j] = x[j]
      <3>1. /\ a \o x \in Seq(Bytes) /\ Len(a \o x) = Len(a) + Len(x)
            /\ \A j \in 1 .. Len(a) : (a \o x)[j] = a[j]
            /\ \A j \in 1 .. Len(x) : (a \o x)[Len(a) + j] = x[j]
        BY <2>1, <2>2, Joined
      <3>2. QED BY <2>1, <2>2, <3>1
    <2> HIDE DEF b
    <2>4. ASSUME NEW j \in 1 .. m + k PROVE b[j] = s[u + j]
      <3>1. CASE j <= m
        <4>1. j \in 1 .. m BY <3>1
        <4>2. QED BY <2>1, <2>3, <4>1
      <3>2. CASE ~(j <= m)
        <4>1. PICK h \in 1 .. k : j = m + h
          <5>1. j - m \in 1 .. k /\ j = m + (j - m) BY <1>5, <3>2
          <5>2. QED BY <5>1
        <4>2. n + h = u + j BY <1>2, <1>5, <4>1
        <4>3. b[j] = x[h] BY <2>3, <4>1
        <4>4. x[h] = s[n + h] BY <2>2
        <4>5. QED BY <4>2, <4>3, <4>4
      <3>3. QED BY <3>1, <3>2
    <2>5. PICK l \in Nat : l = m + k /\ e = u + l BY <1>2, <1>5
    <2>6. IsPart(b, s, u, l) BY <2>3, <2>4, <2>5 DEF IsPart
    <2>7. QED BY <1>5, <2>5, <2>6, PartIs
  <1>9. At(s, b, y, u, e, F) BY <1>1, <1>5, <1>7, <1>8 DEF At
  <1>10. QED BY <1>5, <1>9

\* Of a peer that keeps to RFC 6455, a frame at the beginning of the buffer is
\* shorter than the client can count, and a ping no longer than it can echo.
LEMMA PeersFrame ==
  ASSUME NEW s \in Seq(Bytes), KeepsRfc(s), NEW a, NEW i, NEW u \in Nat, NEW n \in Nat, NEW F,
         At(s, a, i, u, n, F), IsWhole(a)
  PROVE  Fits(a) /\ (Opcode(a) = PingOp => PayloadLen(a) < Short)
  <1> DEFINE b == SubSeq(s, u + 1, Len(s))
  <1>1. /\ u <= n /\ n <= Len(s) /\ Len(s) \in Nat
        /\ Read(NothingRead, SubSeq(s, 1, u)).got = <<>>
    <2>1. Read(NothingRead, SubSeq(s, 1, u)) = [got |-> <<>>, frames |-> F]
      BY AtMeans
    <2>2. QED BY <2>1 DEF At
  <1>2. PICK m \in Nat : n = u + m /\ IsPart(a, s, u, m) BY <1>1, PartBetween DEF At
  <1>3. PICK l \in Nat : Len(s) = u + l /\ IsPart(b, s, u, l)
    <2>1. u <= Len(s) /\ Len(s) <= Len(s) BY <1>1
    <2>2. QED BY <1>1, <2>1, PartBetween
  <1>4. a \in Seq(Bytes) /\ Len(a) = m /\ \A j \in 1 .. m : a[j] = s[u + j]
    BY <1>2 DEF IsPart
  <1>5. u \in 0 .. Len(s) BY <1>1
  <1>6. /\ Len(b) >= 2 /\ Len(b) >= 2 + RfcExtended(b)
        => /\ RfcHeader(b) + RfcLength(b) < SizeMod
           /\ b[1] % TopBit = PingOp => RfcLength(b) < Short
    BY <1>1, <1>5 DEF KeepsRfc
  <1> HIDE DEF b
  <1>7. b \in Seq(Bytes) /\ Len(b) = l /\ \A j \in 1 .. l : b[j] = s[u + j]
    BY <1>3 DEF IsPart
  <1>8. Len(a) >= 2 /\ Len(a) >= 2 + LengthSize(a) BY DEF IsWhole
  <1>9. LengthSize(a) = RfcExtended(a) /\ HeaderSize(a) = RfcHeader(a) /\ PayloadLen(a) = RfcLength(a)
    BY <1>4, <1>8, SameReading
  <1>10. Len(a) <= Len(b) /\ Len(a) \in Nat /\ m <= l
    BY <1>1, <1>2, <1>3, <1>4, <1>7
  <1>11. \A j \in 1 .. Len(a) : a[j] = b[j]
    <2> TAKE j \in 1 .. Len(a)
    <2>1. j \in 1 .. m /\ j \in 1 .. l BY <1>4, <1>10
    <2>2. QED BY <1>4, <1>7, <2>1
  <1>12. Begins(a, b) BY <1>4, <1>10, <1>11, <1>7 DEF Begins
  <1>13. /\ RfcExtended(b) = RfcExtended(a) /\ RfcHeader(b) = RfcHeader(a)
         /\ RfcLength(b) = RfcLength(a)
    BY <1>8, <1>9, <1>12, SameHeader
  <1>14. RfcExtended(a) \in Nat BY <1>4, <1>8, HeaderIsNatural
  <1>15. Len(b) >= 2 /\ Len(b) >= 2 + RfcExtended(b)
    <2>1. Len(b) \in Nat BY <1>7
    <2>2. QED BY <1>8, <1>9, <1>10, <1>13, <1>14, <2>1
  <1>16. a[1] = b[1] BY <1>8, <1>10, <1>11
  <1>17. QED BY <1>6, <1>9, <1>13, <1>15, <1>16 DEF Fits, Opcode

\* dispatchFramedBuffer() takes the next frame of the stream.
LEMMA AtNextFrame ==
  ASSUME NEW s \in Seq(Bytes), KeepsRfc(s), NEW a, NEW i, NEW u \in Nat, NEW n \in Nat, NEW F,
         At(s, a, i, u, n, F), IsWhole(a)
  PROVE  /\ \E v \in Nat : At(s, Rest(a), i, v, n, Append(F, <<Opcode(a), Payload(a)>>))
         /\ Payload(a) \in Seq(Bytes)
         /\ Opcode(a) = PingOp => Len(Payload(a)) < Short
  <1>1. u <= n /\ n <= Len(s) /\ Len(s) \in Nat BY AtMeans DEF AtLengths
  <1>2. a \in Seq(Bytes) BY AtMeans DEF AtLengths
  <1>3. Fits(a) /\ (Opcode(a) = PingOp => PayloadLen(a) < Short) BY PeersFrame
  <1>4. Payload(a) \in Seq(Bytes) /\ Len(Payload(a)) = PayloadLen(a)
    BY <1>2, <1>3, WholeIsFrame
  <1>5. PICK c \in 2 .. n - u :
          /\ Rest(a) = SubSeq(s, u + c + 1, n)
          /\ Reading(NothingRead, s)[u + c] =
               [got |-> <<>>, frames |-> Append(F, <<Opcode(a), Payload(a)>>)]
    <2>1. Reading(NothingRead, s)[u] = [got |-> <<>>, frames |-> F] /\ a = SubSeq(s, u + 1, n)
      BY DEF At
    <2>2. ReadsNext(NothingRead, s, u, n, F, a) BY <1>1, <1>3, <2>1, DecodedIsRead
    <2>3. QED BY <2>2 DEF ReadsNext
  <1>6. u + c \in Nat /\ u + c <= n BY <1>1, <1>5
  <1>7. At(s, Rest(a), i, u + c, n, Append(F, <<Opcode(a), Payload(a)>>))
    BY <1>1, <1>5, <1>6 DEF At
  <1>8. QED BY <1>3, <1>4, <1>7
-----------------------------------------------------------------------------
(* The worker.                                                             *)

\* Nothing is dispatched behind a close frame.
NoneBehind(F) == \A j \in 1 .. Len(F) - 1 : F[j][1] # CloseOp
EndsClosed(F) == F # <<>> /\ F[Len(F)][1] = CloseOp

LEMMA Position ==
  ASSUME ReadInv, UpgradeInv, ~Upgrading
  PROVE  /\ stream \in Seq(Bytes) /\ KeepsRfc(stream)
         /\ Used \in Nat /\ Arrived \in Nat
         /\ At(stream, assembled, incoming, Used, Arrived, Taken)
  <1>1. stream \in Seq(Bytes) /\ KeepsRfc(stream)
    <2>1. CASE stream \in Streams BY <2>1, PeerAssumption
    <2>2. CASE stream = <<>>
      <3>1. \A u \in 0 .. 0 : Len(SubSeq(<<>>, u + 1, 0)) = 0 OBVIOUS
      <3>2. Len(<<>>) = 0 /\ ~(0 >= 2) OBVIOUS
      <3>3. KeepsRfc(<<>>) BY <3>1, <3>2 DEF KeepsRfc
      <3>4. QED BY <2>2, <3>3
    <2>3. QED BY <2>1, <2>2 DEF ReadInv
  <1>2. assembled \in Seq(Bytes) /\ incoming \in Seq(Bytes)
    BY DEF ReadInv, UpgradeInv
  <1>3. At(stream, assembled, incoming, Used, Arrived, Taken)
    <2>1. /\ Len(assembled) + Len(incoming) <= Len(stream)
          /\ incoming = SubSeq(stream, Arrived + 1, Len(stream))
          /\ assembled = SubSeq(stream, Used + 1, Arrived)
          /\ Read(NothingRead, SubSeq(stream, 1, Used)).got = <<>>
      BY DEF ReadInv, ReadBy
    <2>2. Arrived = Len(stream) - Len(incoming) /\ Used = Arrived - Len(assembled)
      BY DEF Arrived, Used
    <2>3. Taken = Read(NothingRead, SubSeq(stream, 1, Used)).frames
      BY DEF Taken, ReadBy
    <2>4. QED BY <1>1, <1>2, <2>1, <2>2, <2>3, Placed
  <1>4. Used \in Nat /\ Arrived \in Nat BY <1>3 DEF At
  <1>5. QED BY <1>1, <1>3, <1>4

LEMMA NowAt ==
  ASSUME NEW u \in Nat, NEW n \in Nat, NEW F, stream' \in Seq(Bytes),
         At(stream', assembled', incoming', u, n, F)
  PROVE  /\ Taken' = F /\ Used' = u /\ Arrived' = n /\ ReadBy(Used)'.got = <<>>
         /\ assembled' \in Seq(Bytes) /\ Len(assembled') + Len(incoming') <= Len(stream')
  <1>1. /\ u <= n /\ n <= Len(stream') /\ Len(stream') \in Nat
        /\ assembled' \in Seq(Bytes) /\ incoming' \in Seq(Bytes)
        /\ Len(incoming') = Len(stream') - n /\ Len(assembled') = n - u
        /\ Read(NothingRead, SubSeq(stream', 1, u)) = [got |-> <<>>, frames |-> F]
    <2>1. /\ AtLengths(stream', assembled', incoming', u, n)
          /\ Read(NothingRead, SubSeq(stream', 1, u)) = [got |-> <<>>, frames |-> F]
      BY AtMeans
    <2>2. QED BY <2>1 DEF AtLengths
  <1>2. Arrived' = n /\ Used' = u BY <1>1 DEF Arrived, Used
  <1>3. ReadBy(Used)' = [got |-> <<>>, frames |-> F] BY <1>1, <1>2 DEF ReadBy
  <1>4. Taken' = F /\ ReadBy(Used)'.got = <<>> BY <1>3 DEF Taken
  <1>5. Len(assembled') + Len(incoming') <= Len(stream') BY <1>1
  <1>6. QED BY <1>1, <1>2, <1>4, <1>5

LEMMA RecvMoves ==
  ASSUME ReadInv, UpgradeInv, Recv
  PROVE  /\ ~Upgrading /\ ~Upgrading' /\ UNCHANGED stream /\ stream \in Seq(Bytes) /\ Used \in Nat
         /\ \E n \in Nat : At(stream, assembled', incoming', Used, n, Taken)
  <1>1. ~Upgrading BY DEF Recv, UpgradeInv, Upgrading
  <1>2. PICK k \in 1 .. Len(incoming) :
          /\ assembled' = assembled \o SubSeq(incoming, 1, k)
          /\ incoming' = SubSeq(incoming, k + 1, Len(incoming))
    BY DEF Recv
  <1>3. UNCHANGED <<stream, lifecycle>> BY DEF Recv
  <1>4. /\ stream \in Seq(Bytes) /\ Used \in Nat /\ Arrived \in Nat
        /\ At(stream, assembled, incoming, Used, Arrived, Taken)
    BY <1>1, Position
  <1>5. At(stream, assembled', incoming', Used, Arrived + k, Taken)
    BY <1>2, <1>4, AtMoreBytes
  <1>6. Arrived + k \in Nat
    <2>1. k \in Nat OBVIOUS
    <2>2. QED BY <1>4, <2>1
  <1>7. QED BY <1>1, <1>3, <1>4, <1>5, <1>6 DEF Upgrading

LEMMA DispatchMoves ==
  ASSUME ReadInv, UpgradeInv, Dispatch
  PROVE  /\ ~Upgrading /\ ~Upgrading' /\ UNCHANGED stream /\ stream \in Seq(Bytes) /\ IsSeq(Taken)
         /\ Payload(assembled) \in Seq(Bytes)
         /\ Opcode(assembled) = PingOp => Len(Payload(assembled)) < Short
         /\ \E u \in Nat, n \in Nat :
              At(stream, assembled', incoming', u, n,
                 Append(Taken, <<Opcode(assembled), Payload(assembled)>>))
  <1>1. ~Upgrading /\ IsWhole(assembled) BY DEF Dispatch, UpgradeInv, Upgrading
  <1>2. assembled' = Rest(assembled) /\ UNCHANGED <<lifecycle, incoming, stream>>
    BY DEF Dispatch
  <1>3. /\ stream \in Seq(Bytes) /\ KeepsRfc(stream) /\ Used \in Nat /\ Arrived \in Nat
        /\ At(stream, assembled, incoming, Used, Arrived, Taken)
    BY <1>1, Position
  <1>4. /\ Payload(assembled) \in Seq(Bytes)
        /\ Opcode(assembled) = PingOp => Len(Payload(assembled)) < Short
        /\ \E v \in Nat : At(stream, Rest(assembled), incoming, v, Arrived,
                             Append(Taken, <<Opcode(assembled), Payload(assembled)>>))
    BY <1>1, <1>3, AtNextFrame
  <1>5. IsSeq(Taken) BY <1>3, AtMeans
  <1>6. QED BY <1>1, <1>2, <1>3, <1>4, <1>5 DEF Upgrading

\* Before the peer's first bytes there is nothing to dispatch.
LEMMA NothingTaken ==
  ASSUME ReadInv, UpgradeInv, ~Upgrading, stream = <<>>
  PROVE  Taken = <<>> /\ assembled = <<>> /\ incoming = <<>> /\ delivered = <<>>
  <1>1. PICK u \in Nat, n \in Nat : u = Used /\ n = Arrived BY Position
  <1>2. stream \in Seq(Bytes) /\ At(stream, assembled, incoming, u, n, Taken)
    BY <1>1, Position
  <1>3. AtLengths(stream, assembled, incoming, u, n)
    BY ONLY <1>2, u \in Nat, n \in Nat, AtMeans
  <1>4. Read(NothingRead, SubSeq(stream, 1, u)) = [got |-> <<>>, frames |-> Taken]
    BY ONLY <1>2, u \in Nat, n \in Nat, AtMeans
  <1>5. Len(stream) = 0 OBVIOUS
  <1>6. u = 0 /\ assembled = <<>> /\ incoming = <<>> BY <1>3, <1>5 DEF AtLengths
  <1>7. Taken = <<>>
    <2>1. SubSeq(stream, 1, 0) = <<>> BY <1>2
    <2>2. Read(NothingRead, <<>>) = NothingRead
      <3>1. Len(<<>>) = 0 /\ 0 \in Nat OBVIOUS
      <3>2. QED BY <3>1, ReadIsReading, ReadingStep
    <2>3. Read(NothingRead, SubSeq(stream, 1, u)) = NothingRead BY <1>6, <2>1, <2>2
    <2>4. NothingRead.frames = <<>> BY DEF NothingRead
    <2>5. QED BY <1>4, <2>3, <2>4
  <1>8. delivered = <<>> BY <1>7, PayloadsOfNone DEF ReadInv
  <1>9. QED BY <1>6, <1>7, <1>8

LEMMA PeerBegins ==
  ASSUME ReadInv, UpgradeInv, PeerSends
  PROVE  /\ ~Upgrading /\ ~Upgrading' /\ Taken = <<>> /\ delivered' = <<>> /\ assembled' = <<>>
         /\ stream' \in Streams /\ stream' \in Seq(Bytes) /\ incoming' = stream'
         /\ At(stream', assembled', incoming', 0, 0, <<>>)
  <1>1. /\ ~Upgrading /\ stream = <<>> /\ stream' \in Streams /\ incoming' = incoming \o stream'
        /\ UNCHANGED <<lifecycle, assembled, delivered>>
    BY DEF PeerSends, Upgrading
  <1>2. Taken = <<>> /\ assembled = <<>> /\ incoming = <<>> /\ delivered = <<>>
    BY <1>1, NothingTaken
  <1>3. stream' \in Seq(Bytes) BY <1>1, PeerAssumption
  <1>4. incoming' = stream' BY <1>1, <1>2, <1>3
  <1>5. At(stream', <<>>, stream', 0, 0, <<>>) BY <1>3, AtTheBeginning
  <1>6. QED BY <1>1, <1>2, <1>3, <1>4, <1>5 DEF Upgrading

LEMMA UpgradedEmpty ==
  ASSUME ReadInv, UpgradeInv, Upgraded
  PROVE  /\ ~Upgrading' /\ stream' = <<>> /\ stream' \in Seq(Bytes) /\ incoming' = <<>>
         /\ assembled' = <<>> /\ delivered' = <<>>
         /\ At(stream', assembled', incoming', 0, 0, <<>>)
  <1>1. Upgrading /\ ~Upgrading' /\ lifecycle = "upgrading"
    BY DEF Upgraded, Upgrading
  <1>2. assembled = <<>> /\ stream = <<>> /\ delivered = <<>> BY <1>1 DEF ReadInv
  <1>3. incoming = <<>>
    <2>1. HeadersEnd(response) BY DEF Upgraded
    <2>2. /\ response \in Seq(Bytes) /\ incoming \in Seq(Bytes)
          /\ response \o incoming \in Responses
      BY <1>1 DEF UpgradeInv
    <2>3. QED BY <2>1, <2>2, Complete
  <1>4. UNCHANGED <<assembled, stream, delivered, incoming>> BY DEF Upgraded
  <1>5. <<>> \in Seq(Bytes) OBVIOUS
  <1>6. At(<<>>, <<>>, <<>>, 0, 0, <<>>) BY <1>5, AtTheBeginning
  <1>7. QED BY <1>1, <1>2, <1>3, <1>4, <1>5, <1>6

LEMMA ReadStep ==
  ASSUME ReadInv, UpgradeInv, [Next]_vars
  PROVE  ReadInv'
  <1> DEFINE Data == {TextOp, BinaryOp}
  <1>1. assembled \in Seq(Bytes) /\ stream \in Streams \cup {<<>>} BY DEF ReadInv
  <1>2. ASSUME NEW u \in Nat, NEW n \in Nat, NEW F, ~Upgrading', stream' \in Streams \cup {<<>>},
               stream' \in Seq(Bytes), At(stream', assembled', incoming', u, n, F),
               delivered' = PayloadsOf(F, Data), NoneBehind(F),
               EndsClosed(F) => worker' \in {"recv", "done"} /\ ~m_running',
               worker' = "recv" => ~IsWhole(assembled') \/ EndsClosed(F)
        PROVE  ReadInv'
    <2>1. /\ Taken' = F /\ Used' = u /\ Arrived' = n /\ ReadBy(Used)'.got = <<>>
          /\ assembled' \in Seq(Bytes) /\ Len(assembled') + Len(incoming') <= Len(stream')
      BY <1>2, NowAt
    <2>2. incoming' = SubSeq(stream', n + 1, Len(stream')) /\ assembled' = SubSeq(stream', u + 1, n)
      BY <1>2 DEF At
    <2>3. Closed' = EndsClosed(F) BY <2>1 DEF Closed, EndsClosed
    <2>4. QED BY <1>2, <2>1, <2>2, <2>3 DEF ReadInv, NoneBehind
  <1>3. ASSUME UNCHANGED <<assembled, stream, delivered>>, Upgrading' = Upgrading,
               ~Upgrading => UNCHANGED incoming,
               worker \in {"recv", "done"} => worker' \in {"recv", "done"},
               worker' = "recv" => worker = "recv" \/ ~IsWhole(assembled),
               m_running' => m_running
        PROVE  ReadInv'
    <2>1. CASE Upgrading BY <1>1, <1>3, <2>1 DEF ReadInv
    <2>2. CASE ~Upgrading
      <3>1. Arrived' = Arrived /\ Used' = Used BY <1>3, <2>2 DEF Arrived, Used
      <3>2. ReadBy(Used)' = ReadBy(Used) BY <1>3, <3>1 DEF ReadBy
      <3>3. Taken' = Taken BY <3>2 DEF Taken
      <3>4. Closed' = Closed BY <3>3 DEF Closed
      <3>5. QED BY <1>1, <1>3, <2>2, <3>1, <3>2, <3>3, <3>4 DEF ReadInv
    <2>3. QED BY <2>1, <2>2
  <1>4. ~Upgrading => /\ delivered = PayloadsOf(Taken, Data) /\ NoneBehind(Taken)
                      /\ EndsClosed(Taken) => worker \in {"recv", "done"} /\ ~m_running
    <2>1. Closed = EndsClosed(Taken) BY DEF Closed, EndsClosed
    <2>2. QED BY <2>1 DEF ReadInv, NoneBehind
  <1>5. CASE Recv
    <2>1. worker = "recv" /\ m_running /\ worker' = "dispatch" /\ UNCHANGED delivered
      BY <1>5 DEF Recv
    <2>2. /\ ~Upgrading /\ ~Upgrading' /\ UNCHANGED stream /\ stream \in Seq(Bytes) /\ Used \in Nat
          /\ \E n \in Nat : At(stream, assembled', incoming', Used, n, Taken)
      BY <1>5, RecvMoves
    <2>3. ~EndsClosed(Taken) /\ delivered' = PayloadsOf(Taken, Data) /\ NoneBehind(Taken)
      BY <1>4, <2>1, <2>2
    <2>4. QED BY <1>1, <1>2, <2>1, <2>2, <2>3
  <1>6. CASE Dispatch
    <2> DEFINE f == <<Opcode(assembled), Payload(assembled)>>
               G == Append(Taken, f)
    <2>1. /\ worker = "dispatch"
          /\ delivered' = IF f[1] \in Data THEN Append(delivered, f[2]) ELSE delivered
          /\ m_running' = (m_running /\ f[1] # CloseOp)
          /\ worker' = CASE f[1] = PingOp -> "pong" [] f[1] = CloseOp -> "recv" [] OTHER -> "dispatch"
      BY <1>6 DEF Dispatch
    <2>2. /\ ~Upgrading /\ ~Upgrading' /\ UNCHANGED stream /\ stream \in Seq(Bytes) /\ IsSeq(Taken)
          /\ \E u \in Nat, n \in Nat : At(stream, assembled', incoming', u, n, G)
      BY <1>6, DispatchMoves
    <2> HIDE DEF f
    <2>3. delivered' = PayloadsOf(G, Data) BY <1>4, <2>1, <2>2, PayloadsOfMore
    <2>4. /\ Len(Taken) \in Nat /\ Len(G) = Len(Taken) + 1 /\ G[Len(Taken) + 1] = f
          /\ \A j \in 1 .. Len(Taken) : Taken[j] = G[j]
      BY <2>2, LeadsAppended DEF Leads, IsSeq
    <2>5. ~EndsClosed(Taken) /\ NoneBehind(Taken) BY <1>4, <2>1, <2>2
    <2> HIDE DEF G
    <2>6. NoneBehind(G)
      <3>1. SUFFICES ASSUME NEW j \in 1 .. Len(Taken) PROVE Taken[j][1] # CloseOp
        <4>1. Len(G) - 1 = Len(Taken) BY <2>4
        <4>2. QED BY <2>4, <3>1, <4>1 DEF NoneBehind
      <3>2. CASE j = Len(Taken)
        <4>1. Taken # <<>> BY <2>4, <3>2
        <4>2. QED BY <2>5, <3>2, <4>1 DEF EndsClosed
      <3>3. CASE j # Len(Taken)
        <4>1. j \in 1 .. Len(Taken) - 1 BY <2>4, <3>3
        <4>2. QED BY <2>5, <4>1 DEF NoneBehind
      <3>4. QED BY <3>2, <3>3
    <2>7. EndsClosed(G) <=> f[1] = CloseOp
      <3>1. G[Len(G)] = f /\ G # <<>> BY <2>4
      <3>2. QED BY <3>1 DEF EndsClosed
    <2>8. CloseOp # PingOp BY DEF CloseOp, PingOp
    <2>9. EndsClosed(G) => worker' \in {"recv", "done"} /\ ~m_running'
      BY <2>1, <2>7, <2>8
    <2>10. worker' = "recv" => EndsClosed(G) BY <2>1, <2>7
    <2>11. QED BY <1>1, <1>2, <2>2, <2>3, <2>6, <2>9, <2>10
  <1>7. ASSUME ~Upgrading', stream' \in Streams \cup {<<>>}, stream' \in Seq(Bytes),
               assembled' = <<>>, delivered' = <<>>,
               At(stream', assembled', incoming', 0, 0, <<>>)
        PROVE  ReadInv'
    <2>1. 0 \in Nat /\ delivered' = PayloadsOf(<<>>, Data) BY <1>7, PayloadsOfNone
    <2>2. NoneBehind(<<>>) /\ ~EndsClosed(<<>>)
      <3>1. Len(<<>>) = 0 /\ 1 .. 0 - 1 = {} OBVIOUS
      <3>2. QED BY <3>1 DEF NoneBehind, EndsClosed
    <2>3. ~IsWhole(<<>>)
      <3>1. Len(<<>>) = 0 /\ ~(0 >= 2) OBVIOUS
      <3>2. QED BY <3>1 DEF IsWhole
    <2>4. QED BY <1>2, <1>7, <2>1, <2>2, <2>3
  <1>8. CASE PeerSends BY <1>7, <1>8, PeerBegins
  <1>9. CASE Upgraded BY <1>7, <1>9, UpgradedEmpty
  <1>10. CASE JoinAndFree
    <2>1. Upgrading' /\ stream' = <<>> /\ assembled' = <<>> /\ delivered' = <<>>
      BY <1>10 DEF JoinAndFree, Upgrading
    <2>2. <<>> \in Seq(Bytes) OBVIOUS
    <2>3. QED BY <2>1, <2>2 DEF ReadInv
  <1>11. CASE WriteRequest \/ ReadResponse \/ UpgradeFails \/ (\E u \in Urls, key \in Keys : Open(u, key))
    BY <1>3, <1>11 DEF WriteRequest, ReadResponse, UpgradeFails, Open, Upgrading, reading
  <1>12. CASE Close \/ StopWorker
    BY <1>3, <1>12 DEF Close, StopWorker, Upgrading, reading
  <1>13. CASE WorkerEnds \/ PongWritten \/ NeedsMore
    BY <1>3, <1>13 DEF WorkerEnds, PongWritten, NeedsMore, Upgrading
  <1>14. CASE (\E w \in Writers : WritePart(w) \/ WriteFails(w)) \/ (\E s \in Senders : Send(s)) \/ UNCHANGED vars
    BY <1>3, <1>14 DEF WritePart, WriteFails, Send, vars, reading, Upgrading
  <1>15. QED
    BY <1>5, <1>6, <1>8, <1>9, <1>10, <1>11, <1>12, <1>13, <1>14 DEF Next

\* What has been dispatched are the first frames received, and all of them
\* when the worker reads on.
LEMMA ReceivedIs ==
  ASSUME ReadInv, UpgradeInv, ~Upgrading
  PROVE  Leads(Taken, Received) /\ (worker = "recv" => Received = Taken)
  <1> DEFINE r == Reading(NothingRead, stream)
             G == ReadBy(Arrived).frames
             C == {i \in DOMAIN G : G[i][1] = CloseOp}
  <1>1. PICK u \in Nat, n \in Nat : u = Used /\ n = Arrived BY Position
  <1>2. stream \in Seq(Bytes) /\ At(stream, assembled, incoming, u, n, Taken)
    BY <1>1, Position
  <1>3. /\ u <= n /\ n <= Len(stream) /\ Len(stream) \in Nat /\ assembled = SubSeq(stream, u + 1, n)
        /\ r[u] = [got |-> <<>>, frames |-> Taken]
    BY <1>2 DEF At
  <1>4. G = r[n].frames
    <2>1. n \in 0 .. Len(stream) BY <1>3
    <2>2. QED BY <1>1, <1>2, <2>1, ReadPart DEF ReadBy
  <1>5. Leads(Taken, G)
    <2>1. u \in 0 .. Len(stream) /\ n \in u .. Len(stream) BY <1>3
    <2>2. Leads(r[u].frames, r[n].frames) BY <1>2, <2>1, FramesGrow
    <2>3. QED BY <1>3, <1>4, <2>2
  <1>6. ~IsWhole(assembled) => G = Taken
    <2>1. Reading(NothingRead, stream)[u] = [got |-> <<>>, frames |-> Taken] BY <1>3
    <2>2. ~IsWhole(assembled) => HasRead(NothingRead, stream, n, assembled, Taken)
      BY <1>2, <1>3, <2>1, DecodedIsRead
    <2>3. QED BY <1>4, <2>2 DEF HasRead
  <1>7. Received = IF C = {} THEN G ELSE SubSeq(G, 1, CHOOSE i \in C : \A j \in C : i <= j)
    BY DEF Received, Arrived
  <1>8. worker = "recv" => G = Taken \/ EndsClosed(Taken)
    BY <1>6 DEF ReadInv, Closed, EndsClosed
  <1>9. NoneBehind(Taken) BY DEF ReadInv, NoneBehind
  <1> HIDE DEF r, G, C
  <1>10. /\ Len(G) \in Nat /\ Len(Taken) \in Nat /\ Len(Taken) <= Len(G)
         /\ \A i \in 1 .. Len(Taken) : Taken[i] = G[i]
         /\ DOMAIN G = 1 .. Len(G)
    BY <1>5 DEF Leads, IsSeq
  <1>11. EndsClosed(Taken) => Len(Taken) \in C
    <2> HAVE EndsClosed(Taken)
    <2>1. Taken # <<>> /\ Taken[Len(Taken)][1] = CloseOp BY DEF EndsClosed
    <2>2. Len(Taken) # 0 BY <1>5, <2>1 DEF Leads, IsSeq
    <2>3. Len(Taken) \in 1 .. Len(Taken) /\ Len(Taken) \in 1 .. Len(G)
      BY <1>10, <2>2
    <2>4. QED BY <1>10, <2>1, <2>3 DEF C
  <1>12. CASE C = {}
    <2>1. Received = G BY <1>7, <1>12
    <2>2. QED BY <1>5, <1>8, <1>11, <1>12, <2>1
  <1>13. CASE C # {}
    <2>1. C \subseteq Nat BY <1>10 DEF C
    <2>2. \E i \in C : \A j \in C : i <= j BY <1>13, <2>1, Least
    <2>3. PICK e \in C : (\A j \in C : e <= j) /\ Received = SubSeq(G, 1, e)
      BY <1>7, <1>13, <2>2
    <2>4. e \in 1 .. Len(G) /\ G[e][1] = CloseOp BY <1>10, <2>3 DEF C
    <2>5. Len(Taken) <= e
      <3> SUFFICES ASSUME ~(Len(Taken) <= e) PROVE FALSE OBVIOUS
      <3>1. e \in 1 .. Len(Taken) - 1 /\ e \in 1 .. Len(Taken) BY <1>10, <2>4
      <3>2. QED BY <1>9, <1>10, <2>4, <3>1 DEF NoneBehind
    <2>6. /\ IsSeq(Received) /\ Len(Received) = e
          /\ \A i \in 1 .. e : Received[i] = G[i]
      <3>1. G \in Seq(Range(G)) BY <1>5 DEF Leads, IsSeq
      <3>2. /\ SubSeq(G, 1, e) \in Seq(Range(G)) /\ Len(SubSeq(G, 1, e)) = e
            /\ \A i \in 1 .. e : SubSeq(G, 1, e)[i] = G[i]
        BY <2>4, <3>1
      <3>3. SubSeq(G, 1, e) \in Seq(Range(SubSeq(G, 1, e))) BY <3>2, SeqOfRange
      <3>4. QED BY <2>3, <3>2, <3>3 DEF IsSeq
    <2>7. Leads(Taken, Received)
      <3>1. \A i \in 1 .. Len(Taken) : i \in 1 .. e BY <1>10, <2>4, <2>5
      <3>2. \A i \in 1 .. Len(Taken) : Taken[i] = Received[i] BY <1>10, <2>6, <3>1
      <3>3. IsSeq(Taken) BY <1>5 DEF Leads
      <3>4. QED BY <2>5, <2>6, <3>2, <3>3 DEF Leads
    <2>8. ASSUME worker = "recv" PROVE Received = Taken
      <3>1. e <= Len(Taken)
        <4>1. CASE G = Taken BY <2>4, <4>1
        <4>2. CASE EndsClosed(Taken) BY <1>11, <2>3, <4>2
        <4>3. QED BY <1>8, <2>8, <4>1, <4>2
      <3>2. Len(Received) = Len(Taken) BY <1>10, <2>4, <2>5, <2>6, <3>1
      <3>3. QED BY <2>7, <3>2, SameSeq DEF Leads
    <2>9. QED BY <2>7, <2>8
  <1>14. QED BY <1>12, <1>13

LEMMA Delivered == ReadInv /\ UpgradeInv => DataIsDelivered
  <1> SUFFICES ASSUME ReadInv, UpgradeInv, lifecycle \in {"open", "closing", "stopping"}
               PROVE  /\ IsPrefix(delivered, PayloadsOf(Received, {TextOp, BinaryOp}))
                      /\ worker = "recv" => delivered = PayloadsOf(Received, {TextOp, BinaryOp})
    BY DEF DataIsDelivered
  <1>1. ~Upgrading BY DEF Upgrading
  <1>2. delivered = PayloadsOf(Taken, {TextOp, BinaryOp}) BY <1>1 DEF ReadInv
  <1>3. Leads(Taken, Received) /\ (worker = "recv" => Received = Taken)
    BY <1>1, ReceivedIs
  <1>4. IsPrefix(PayloadsOf(Taken, {TextOp, BinaryOp}), PayloadsOf(Received, {TextOp, BinaryOp}))
    BY <1>3, PayloadsGrow, LeadsIsPrefix
  <1>5. QED BY <1>2, <1>3, <1>4
-----------------------------------------------------------------------------
(* What is left to write.                                                  *)

LEMMA MeantOf == \A a, b, c : SubSeq(<<a, b, c>>, 1, 2) = <<a, b>>
  <1> TAKE a, b, c
  <1> DEFINE s == <<a, b, c>>
             t == SubSeq(s, 1, 2)
             S == {a, b, c}
  <1>1. s \in Seq(S) /\ Len(s) = 3 /\ s[1] = a /\ s[2] = b OBVIOUS
  <1> HIDE DEF s, S
  <1>2. t \in Seq(S) /\ Len(t) = 2 /\ t[1] = s[1] /\ t[2] = s[2] BY <1>1
  <1> HIDE DEF t
  <1>3. t = <<a, b>> BY <1>1, <1>2
  <1>4. QED BY <1>3 DEF t, s

LEMMA NoneMeant == Meant(<<>>) = <<>>
  BY Empty DEF Meant

LEMMA MoreMeant ==
  ASSUME NEW W, IsSeq(W), NEW x
  PROVE  /\ IsSeq(Meant(W))
         /\ Meant(Append(W, x)) = Append(Meant(W), SubSeq(x, 1, 2))
  <1> DEFINE M(V) == Meant(V)
             y == SubSeq(x, 1, 2)
             G == Append(W, x)
  <1>1. /\ Len(W) \in Nat /\ Len(G) = Len(W) + 1 /\ IsSeq(G) /\ G[Len(W) + 1] = x
        /\ \A i \in 1 .. Len(W) : W[i] = G[i]
    BY LeadsAppended DEF Leads, IsSeq
  <1>2. ASSUME NEW V, IsSeq(V)
        PROVE  IsSeq(M(V)) /\ Len(M(V)) = Len(V) /\ \A i \in 1 .. Len(V) : M(V)[i] = SubSeq(V[i], 1, 2)
    <2>1. M(V) = [i \in 1 .. Len(V) |-> SubSeq(V[i], 1, 2)] /\ Len(V) \in Nat
      BY <1>2 DEF Meant, IsSeq
    <2> HIDE DEF M
    <2>2. \A i \in 1 .. Len(V) : SubSeq(V[i], 1, 2) \in {SubSeq(V[j], 1, 2) : j \in 1 .. Len(V)}
      OBVIOUS
    <2>3. M(V) \in Seq({SubSeq(V[j], 1, 2) : j \in 1 .. Len(V)}) /\ Len(M(V)) = Len(V)
      BY <2>1, <2>2
    <2>4. M(V) \in Seq(Range(M(V))) BY <2>3, SeqOfRange
    <2>5. QED BY <2>1, <2>3, <2>4 DEF IsSeq
  <1>3. IsSeq(M(W)) /\ Len(M(W)) = Len(W) BY <1>2
  <1>4. /\ IsSeq(Append(M(W), y)) /\ Len(Append(M(W), y)) = Len(W) + 1
        /\ Append(M(W), y)[Len(W) + 1] = y
        /\ \A i \in 1 .. Len(W) : M(W)[i] = Append(M(W), y)[i]
    BY <1>3, LeadsAppended DEF Leads
  <1>5. IsSeq(M(G)) /\ Len(M(G)) = Len(W) + 1 BY <1>1, <1>2
  <1>6. ASSUME NEW i \in 1 .. Len(W) + 1 PROVE M(G)[i] = Append(M(W), y)[i]
    <2>1. M(G)[i] = SubSeq(G[i], 1, 2) BY <1>1, <1>2
    <2>2. CASE i = Len(W) + 1 BY <1>1, <1>4, <2>1, <2>2
    <2>3. CASE i # Len(W) + 1
      <3>1. i \in 1 .. Len(W) BY <1>1, <2>3
      <3>2. M(W)[i] = SubSeq(W[i], 1, 2) BY <1>2, <3>1
      <3>3. QED BY <1>1, <1>4, <2>1, <3>1, <3>2
    <2>4. QED BY <2>2, <2>3
  <1> HIDE DEF M, G
  <1>7. M(G) = Append(M(W), y) BY <1>4, <1>5, <1>6, SameSeq
  <1>8. QED BY <1>3, <1>7 DEF M, G

\* A step of tunnelWrite() writes n of the bytes b, of which k are written: all
\* that is left, or a beginning.
Piece(b, k, rest, n) ==
  /\ n \in Nat \ {0} /\ k + n <= Len(b)
  /\ SubSeq(rest, 1, n) = SubSeq(b, k + 1, k + n)
  /\ n = Len(rest) <=> k + n = Len(b)
  /\ rest = b <=> k = 0
  /\ n = Len(rest) \/ k = 0

LEMMA PieceOf ==
  ASSUME NEW b \in Seq(Bytes), NEW k \in Nat, k < Len(b), NEW rest,
         rest = SubSeq(b, k + 1, Len(b)),
         NEW n, n = Len(rest) \/ (rest = b /\ n \in Nat \ {0} /\ n < Len(rest))
  PROVE  Piece(b, k, rest, n)
  <1>1. Len(b) \in Nat /\ Len(b) <= Len(b) /\ k <= Len(b) BY DEF Bytes
  <1>2. PICK l \in Nat : Len(b) = k + l /\ IsPart(rest, b, k, l)
    BY <1>1, PartBetween
  <1>3. rest \in Seq(Bytes) /\ Len(rest) = l /\ l # 0 BY <1>2 DEF IsPart
  <1>4. rest = b => k = 0 BY <1>1, <1>2, <1>3
  <1>5. k = 0 => rest = b
    <2>1. SubSeq(b, 1, Len(b)) = b BY SubSeqFull
    <2>2. 0 + 1 = 1 OBVIOUS
    <2>3. QED BY <2>1, <2>2
  <1>6. n \in Nat \ {0} /\ k + n <= Len(b) /\ (n = Len(rest) <=> k + n = Len(b))
    BY ONLY <1>1, <1>2, <1>3, <1>4, k \in Nat,
            n = Len(rest) \/ (rest = b /\ n \in Nat \ {0} /\ n < Len(rest))
  <1>7. SubSeq(rest, 1, n) = SubSeq(b, k + 1, k + n)
    <2>1. CASE n = Len(rest)
      <3>1. SubSeq(rest, 1, n) = rest BY <1>3, <2>1, SubSeqFull
      <3>2. k + n = Len(b) BY <1>6, <2>1
      <3>3. QED BY <3>1, <3>2
    <2>2. CASE n # Len(rest)
      <3>1. rest = b /\ k = 0 BY <1>4, <2>2
      <3>2. 0 + 1 = 1 /\ 0 + n = n BY <1>6
      <3>3. QED BY <3>1, <3>2
    <2>3. QED BY <2>1, <2>2
  <1>8. QED BY <1>4, <1>5, <1>6, <1>7 DEF Piece
-----------------------------------------------------------------------------
(* The wire.                                                               *)

\* What a writer that is not idle has to write.
LEMMA LeftOf ==
  ASSUME RestInv, NEW w \in Writers, ~Idle(w)
  PROVE  /\ writing[w].bytes \in Seq(Bytes) /\ OneFrame(writing[w].bytes)
         /\ FrameIn(writing[w].bytes) = SubSeq(writing[w].frame, 1, 2)
         /\ Sent(w) \in Nat /\ Sent(w) < Len(writing[w].bytes)
         /\ writing[w].rest = SubSeq(writing[w].bytes, Sent(w) + 1, Len(writing[w].bytes))
  <1>1. /\ IsFrame(writing[w].bytes, SubSeq(writing[w].frame, 1, 2))
        /\ Sent(w) \in 0 .. Len(writing[w].bytes) - 1
        /\ writing[w].rest = SubSeq(writing[w].bytes, Sent(w) + 1, Len(writing[w].bytes))
    BY DEF RestInv, Writes
  <1>2. writing[w].bytes \in Seq(Bytes) BY <1>1 DEF IsFrame
  <1>3. Len(writing[w].bytes) \in Nat BY <1>2
  <1>4. Sent(w) \in Nat /\ Sent(w) < Len(writing[w].bytes) BY <1>1, <1>3
  <1>5. QED BY <1>1, <1>2, <1>4 DEF IsFrame

\* A step of tunnelWrite() in full.
LEMMA PartWritten ==
  ASSUME WritingInv, RestInv, NEW w \in Writers, WritePart(w)
  PROVE  \E n \in Nat :
           /\ Piece(writing[w].bytes, Sent(w), writing[w].rest, n)
           /\ writing'[w] =
                IF n = Len(writing[w].rest) THEN Nothing
                ELSE [rest |-> SubSeq(writing[w].rest, n + 1, Len(writing[w].rest)),
                      bytes |-> writing[w].bytes, frame |-> writing[w].frame]
           /\ IF InTurn(w)
              THEN /\ turn' = IF n = Len(writing[w].rest) THEN None ELSE w
                   /\ peer' = Read(peer, SubSeq(writing[w].rest, 1, n))
                   /\ written' = IF n = Len(writing[w].rest) THEN Append(written, writing[w].frame)
                                 ELSE written
              ELSE turn' = Torn /\ peer' = NothingRead /\ written' = <<>>
  <1> DEFINE rest == writing[w].rest
             cuts == IF rest = writing[w].bytes THEN {n \in Cuts : n < Len(rest)} ELSE {}
  <1>1. ~Idle(w) BY DEF WritePart
  <1>2. PICK n \in cuts \cup {Len(rest)} :
          /\ writing' = [writing EXCEPT ![w] =
               IF n = Len(rest) THEN Nothing ELSE [@ EXCEPT !.rest = SubSeq(rest, n + 1, Len(rest))]]
          /\ IF InTurn(w)
             THEN /\ turn' = IF n = Len(rest) THEN None ELSE w
                  /\ peer' = Read(peer, SubSeq(rest, 1, n))
                  /\ written' = IF n = Len(rest) THEN Append(written, writing[w].frame) ELSE written
             ELSE turn' = Torn /\ peer' = NothingRead /\ written' = <<>>
    BY DEF WritePart
  <1>3. n = Len(rest) \/ (rest = writing[w].bytes /\ n \in Nat \ {0} /\ n < Len(rest))
    BY <1>2, TunnelAssumption
  <1>4. Piece(writing[w].bytes, Sent(w), rest, n) BY <1>1, <1>3, LeftOf, PieceOf
  <1>5. n \in Nat BY <1>4 DEF Piece
  <1>6. PICK x : x = SubSeq(rest, n + 1, Len(rest)) OBVIOUS
  <1>7. writing' = [writing EXCEPT ![w] = IF n = Len(rest) THEN Nothing ELSE [@ EXCEPT !.rest = x]]
    BY <1>2, <1>6
  <1>8. writing'[w] = IF n = Len(rest) THEN Nothing
                      ELSE [rest |-> x, bytes |-> writing[w].bytes, frame |-> writing[w].frame]
    <2>1. writing[w] = [rest |-> writing[w].rest, bytes |-> writing[w].bytes,
                        frame |-> writing[w].frame] /\ w \in DOMAIN writing
      BY Shape
    <2>2. CASE n = Len(rest)
      <3>1. writing' = [writing EXCEPT ![w] = Nothing] BY <1>7, <2>2
      <3>2. QED BY <2>1, <2>2, <3>1
    <2>3. CASE n # Len(rest)
      <3>1. writing' = [writing EXCEPT ![w] = [@ EXCEPT !.rest = x]] BY <1>7, <2>3
      <3>2. writing'[w] = [writing[w] EXCEPT !.rest = x] BY <2>1, <3>1
      <3>3. QED BY <2>1, <2>3, <3>2
    <2>4. QED BY <2>2, <2>3
  <1>9. QED BY <1>2, <1>4, <1>5, <1>6, <1>8

\* What a writer has left depends on nothing but what it is writing.
LEMMA SameRest ==
  ASSUME NEW w, writing'[w] = writing[w]
  PROVE  Sent(w)' = Sent(w) /\ Idle(w)' = Idle(w)
  BY DEF Sent, Idle

\* A frame that is begun is all left to write.
LEMMA RestBegins ==
  ASSUME WritingInv, RestInv, NEW w \in Writers, NEW x, NEW y, NEW b,
         Begin(w, <<x, y, w>>, b), IsFrame(b, <<x, y>>)
  PROVE  RestInv'
  <1>1. writing'[w] = [rest |-> b, bytes |-> b, frame |-> <<x, y, w>>] BY BeginShape
  <1>2. \A v \in Writers \ {w} : writing'[v] = writing[v] BY BeginShape
  <1>3. b \in Seq(Bytes) /\ OneFrame(b) BY DEF IsFrame
  <1>4. Len(b) \in Nat /\ Len(b) > 0 BY <1>3 DEF OneFrame
  <1>5. Sent(w)' = 0 BY <1>1, <1>4 DEF Sent
  <1>6. Writes(w)'
    <2>1. IsFrame(b, SubSeq(<<x, y, w>>, 1, 2)) BY MeantOf
    <2>2. 0 \in 0 .. Len(b) - 1 BY <1>4
    <2>3. b = SubSeq(b, 0 + 1, Len(b))
      <3>1. 0 + 1 = 1 OBVIOUS
      <3>2. QED BY <1>3, <3>1, SubSeqFull
    <2>4. QED BY <1>1, <1>5, <2>1, <2>2, <2>3 DEF Writes
  <1>7. ASSUME NEW v \in Writers, ~Idle(v)', v # w PROVE Writes(v)'
    <2>1. writing'[v] = writing[v] BY <1>2, <1>7
    <2>2. Sent(v)' = Sent(v) /\ ~Idle(v) BY <1>7, <2>1, SameRest
    <2>3. QED BY <2>1, <2>2 DEF RestInv, Writes
  <1>8. QED BY <1>6, <1>7 DEF RestInv

\* A frame is cut only where it begins.
LEMMA CutAt ==
  ASSUME RestInv, NEW w \in Writers, ~Idle(w), NEW n \in Nat,
         Piece(writing[w].bytes, Sent(w), writing[w].rest, n), n # Len(writing[w].rest),
         writing'[w] = [rest |-> SubSeq(writing[w].rest, n + 1, Len(writing[w].rest)),
                        bytes |-> writing[w].bytes, frame |-> writing[w].frame]
  PROVE  /\ Sent(w) = 0 /\ Sent(w)' = n /\ n # 0
         /\ ~Idle(w)' /\ Writes(w)'
         /\ writing'[w].bytes = writing[w].bytes /\ writing'[w].frame = writing[w].frame
  <1> DEFINE b == writing[w].bytes
             rest == writing[w].rest
  <1>1. /\ b \in Seq(Bytes) /\ IsFrame(b, SubSeq(writing[w].frame, 1, 2))
        /\ Sent(w) \in Nat /\ Sent(w) < Len(b)
        /\ rest = SubSeq(b, Sent(w) + 1, Len(b)) /\ Len(b) \in Nat
    BY LeftOf DEF IsFrame
  <1>2. /\ n # 0 /\ Sent(w) + n <= Len(b) /\ (n = Len(rest) <=> Sent(w) + n = Len(b))
        /\ Sent(w) = 0 /\ rest = b
    BY DEF Piece
  <1>3. n < Len(b) BY <1>1, <1>2
  <1>4. writing'[w] = [rest |-> SubSeq(b, n + 1, Len(b)), bytes |-> b, frame |-> writing[w].frame]
    BY <1>2
  <1>5. Sent(w)' = n
    <2>1. PICK k \in Nat : Len(b) = n + k /\ IsPart(SubSeq(b, n + 1, Len(b)), b, n, k)
      <3>1. n <= Len(b) /\ Len(b) <= Len(b) BY <1>1, <1>3
      <3>2. QED BY <1>1, <3>1, PartBetween
    <2>2. Len(SubSeq(b, n + 1, Len(b))) = k BY <2>1 DEF IsPart
    <2>3. Len(b) - k = n BY <2>1
    <2>4. writing'[w].bytes = b /\ writing'[w].rest = SubSeq(b, n + 1, Len(b))
      BY ONLY <1>4
    <2>5. Sent(w)' = Len(writing'[w].bytes) - Len(writing'[w].rest) BY DEF Sent
    <2>6. Sent(w)' = Len(b) - k BY <2>2, <2>4, <2>5
    <2>7. QED BY <2>3, <2>6
  <1>6. Writes(w)'
    <2>1. n \in 0 .. Len(b) - 1 BY <1>1, <1>3
    <2>2. QED BY ONLY <1>1, <1>4, <1>5, <2>1 DEF Writes
  <1>7. ~Idle(w)'
    <2>1. b # <<>> BY <1>1
    <2>2. writing'[w].bytes = b /\ Nothing.bytes = <<>> BY <1>4 DEF Nothing
    <2>3. QED BY <2>1, <2>2 DEF Idle
  <1>8. QED BY <1>2, <1>4, <1>5, <1>6, <1>7

\* Whoever begins a frame has its bytes.
LEMMA RestStep ==
  ASSUME WritingInv, ReadInv, UpgradeInv, RestInv, [Next]_vars
  PROVE  RestInv'
  <1>1. CASE UNCHANGED writing BY <1>1 DEF RestInv, Writes, Sent, Idle
  <1>2. ASSUME NEW w \in Writers, writing'[w] = Nothing \/ Writes(w)',
               \A v \in Writers \ {w} : writing'[v] = writing[v]
        PROVE  RestInv'
    <2>1. ASSUME NEW v \in Writers, ~Idle(v)', v # w PROVE Writes(v)'
      <3>1. writing'[v] = writing[v] BY <1>2, <2>1
      <3>2. Sent(v)' = Sent(v) /\ ~Idle(v) BY <2>1, <3>1, SameRest
      <3>3. QED BY <3>1, <3>2 DEF RestInv, Writes
    <2>2. ~Idle(w)' => Writes(w)' BY <1>2 DEF Idle
    <2>3. QED BY <2>1, <2>2 DEF RestInv, Writes
  <1>3. ASSUME NEW w \in Writers, WritePart(w) PROVE RestInv'
    <2> DEFINE b == writing[w].bytes
               rest == writing[w].rest
    <2>1. PICK n \in Nat :
            /\ Piece(b, Sent(w), rest, n)
            /\ writing'[w] =
                 IF n = Len(rest) THEN Nothing
                 ELSE [rest |-> SubSeq(rest, n + 1, Len(rest)), bytes |-> b, frame |-> writing[w].frame]
      BY <1>3, PartWritten
    <2>2. ~Idle(w) /\ \A v \in Writers \ {w} : writing'[v] = writing[v]
      BY <1>3, WorkShape
    <2>3. CASE n = Len(rest) BY <1>2, <2>1, <2>2, <2>3
    <2>4. CASE n # Len(rest) BY <1>2, <2>1, <2>2, <2>4, CutAt
    <2>5. QED BY <2>3, <2>4
  <1>4. ASSUME NEW w \in Writers, WriteFails(w) PROVE RestInv'
    <2>1. \A v \in Writers \ {w} : writing'[v] = writing[v] BY <1>4, WorkShape
    <2>2. writing'[w] = Nothing BY <1>4, Shape DEF WriteFails
    <2>3. QED BY <1>2, <2>1, <2>2
  <1>5. CASE \E s \in Senders : Send(s)
    <2>1. PICK s \in Senders : Send(s) BY <1>5
    <2>2. PICK payload \in Payloads[s], mask \in Masks :
            Begin(s, <<TextOp, payload, s>>, TextFrame(payload, mask))
      BY <2>1 DEF Send
    <2>3. /\ payload \in Seq(Bytes) /\ Len(payload) < SizeMod
          /\ mask \in [1 .. MaskBytes -> Bytes] /\ s \in Writers
      BY <2>2, TunnelAssumption, Apart
    <2>4. IsFrame(TextFrame(payload, mask), <<TextOp, payload>>)
      BY <2>3, EncodedAreFrames
    <2>5. QED BY <2>2, <2>3, <2>4, RestBegins
  <1>6. CASE Close
    <2>1. CASE m_connected
      <3>1. PICK mask \in Masks : Begin(Closer, <<CloseOp, CloseReason, Closer>>, CloseFrame(mask))
        BY <1>6, <2>1 DEF Close
      <3>2. mask \in [1 .. MaskBytes -> Bytes] /\ <<>> \in Seq(Bytes)
        BY TunnelAssumption
      <3>3. IsFrame(CloseFrame(mask), <<CloseOp, CloseReason>>)
        BY <3>2, EncodedAreFrames
      <3>4. QED BY <3>1, <3>3, RestBegins, Apart
    <2>2. CASE ~m_connected BY <1>1, <1>6, <2>2 DEF Close
    <2>3. QED BY <2>1, <2>2
  <1>7. CASE Dispatch
    <2> DEFINE payload == Payload(assembled)
    <2>1. CASE Opcode(assembled) = PingOp
      <3>1. PICK mask \in Masks : Begin(Worker, <<PongOp, payload, Worker>>, PongFrame(payload, mask))
        BY <1>7, <2>1 DEF Dispatch
      <3>2. payload \in Seq(Bytes) BY <1>7, DispatchMoves
      <3>3. Len(payload) < Short BY <1>7, <2>1, DispatchMoves
      <3>4. mask \in [1 .. MaskBytes -> Bytes] BY TunnelAssumption
      <3> HIDE DEF payload
      <3>5. IsFrame(PongFrame(payload, mask), <<PongOp, payload>>)
        BY <3>2, <3>3, <3>4, EncodedAreFrames
      <3>6. QED BY <3>1, <3>5, RestBegins, Apart
    <2>2. CASE Opcode(assembled) # PingOp BY <1>1, <1>7, <2>2 DEF Dispatch
    <2>3. QED BY <2>1, <2>2
  <1>8. CASE WriteRequest \/ ReadResponse \/ Upgraded \/ UpgradeFails \/ StopWorker \/ JoinAndFree
             \/ (\E u \in Urls, key \in Keys : Open(u, key))
    BY <1>1, <1>8 DEF WriteRequest, ReadResponse, Upgraded, UpgradeFails, StopWorker, JoinAndFree, Open
  <1>9. CASE PeerSends \/ Recv \/ WorkerEnds \/ PongWritten \/ NeedsMore \/ UNCHANGED vars
    BY <1>1, <1>9 DEF PeerSends, Recv, WorkerEnds, PongWritten, NeedsMore, vars
  <1>10. QED BY <1>3, <1>4, <1>5, <1>6, <1>7, <1>8, <1>9 DEF Next

LEMMA Turns ==
  /\ None # Torn /\ \A w \in Writers : w # None /\ w # Torn
  BY TunnelAssumption DEF None, Torn, Closer, Worker, Writers

\* The peer is where its writer is, before the writer's part.
LEMMA InTurnAt ==
  ASSUME PeerInv, RestInv, NEW w \in Writers, ~Idle(w), InTurn(w), NEW n \in Nat,
         Piece(writing[w].bytes, Sent(w), writing[w].rest, n)
  PROVE  turn # Torn /\ peer = Begun(writing[w].bytes, Sent(w), Meant(written))
  <1> DEFINE b == writing[w].bytes
  <1>1. turn = (IF writing[w].rest = b THEN None ELSE w) BY DEF InTurn
  <1>2. turn # Torn BY <1>1, Turns
  <1>3. peer = [got |-> IF turn = None THEN <<>> ELSE SubSeq(writing[turn].bytes, 1, Sent(turn)),
                frames |-> Meant(written)]
    BY <1>2 DEF PeerInv
  <1>4. writing[w].rest = b <=> Sent(w) = 0 BY DEF Piece
  <1>5. CASE turn = None
    <2>1. Sent(w) = 0 BY <1>1, <1>4, <1>5, Turns
    <2>2. SubSeq(b, 1, 0) = <<>>
      <3>1. b \in Seq(Bytes) BY LeftOf
      <3>2. QED BY <3>1
    <2>3. peer = [got |-> <<>>, frames |-> Meant(written)] BY <1>3, <1>5
    <2>4. QED BY <1>2, <2>1, <2>2, <2>3 DEF Begun
  <1>6. CASE turn # None
    <2>1. turn = w BY <1>1, <1>6
    <2>2. peer = [got |-> SubSeq(writing[w].bytes, 1, Sent(w)), frames |-> Meant(written)]
      BY <1>3, <1>6, <2>1
    <2>3. QED BY <1>2, <2>2 DEF Begun
  <1>7. QED BY <1>5, <1>6

\* What a part in turn does to the peer: it ends the frame or lengthens it.
LEMMA PeerReads ==
  ASSUME WritingInv, RestInv, PeerInv, NEW w \in Writers, WritePart(w), InTurn(w)
  PROVE  \/ /\ turn' = None /\ written' = Append(written, writing[w].frame)
            /\ peer' = [got |-> <<>>, frames |-> Append(Meant(written), SubSeq(writing[w].frame, 1, 2))]
            /\ Idle(w)'
         \/ /\ turn' = w /\ UNCHANGED written
            /\ peer' = [got |-> SubSeq(writing[w].bytes, 1, Sent(w)'), frames |-> Meant(written)]
            /\ ~Idle(w)' /\ Sent(w)' > 0
            /\ writing'[w].bytes = writing[w].bytes /\ writing'[w].frame = writing[w].frame
  <1> DEFINE b == writing[w].bytes
             rest == writing[w].rest
             k == Sent(w)
             M == Meant(written)
  <1>1. PICK n \in Nat :
          /\ Piece(b, k, rest, n)
          /\ writing'[w] = IF n = Len(rest) THEN Nothing
                           ELSE [rest |-> SubSeq(rest, n + 1, Len(rest)), bytes |-> b,
                                 frame |-> writing[w].frame]
          /\ turn' = IF n = Len(rest) THEN None ELSE w
          /\ peer' = Read(peer, SubSeq(rest, 1, n))
          /\ written' = IF n = Len(rest) THEN Append(written, writing[w].frame) ELSE written
    BY PartWritten
  <1>2. ~Idle(w) BY DEF WritePart
  <1>3. peer = Begun(b, k, M) BY <1>1, <1>2, InTurnAt
  <1>4. /\ b \in Seq(Bytes) /\ OneFrame(b) /\ k \in Nat
        /\ FrameIn(b) = SubSeq(writing[w].frame, 1, 2)
    BY <1>2, LeftOf
  <1>5. /\ n \in Nat \ {0} /\ k + n <= Len(b) /\ SubSeq(rest, 1, n) = SubSeq(b, k + 1, k + n)
        /\ n = Len(rest) <=> k + n = Len(b)
    BY <1>1 DEF Piece
  <1>6. Read(Begun(b, k, M), SubSeq(b, k + 1, k + n)) =
          IF k + n = Len(b) THEN [got |-> <<>>, frames |-> Append(M, FrameIn(b))]
          ELSE Begun(b, k + n, M)
    <2> HIDE DEF b, k, M
    <2>1. QED BY <1>4, <1>5, PartsAreRead
  <1>7. peer' = IF n = Len(rest) THEN [got |-> <<>>, frames |-> Append(M, FrameIn(b))]
                ELSE Begun(b, k + n, M)
    BY <1>1, <1>3, <1>5, <1>6
  <1>8. CASE n = Len(rest) BY <1>1, <1>4, <1>7, <1>8 DEF Idle
  <1>9. CASE n # Len(rest)
    <2>1. /\ k = 0 /\ Sent(w)' = n /\ n # 0 /\ ~Idle(w)'
          /\ writing'[w].bytes = b /\ writing'[w].frame = writing[w].frame
      BY <1>1, <1>2, <1>9, CutAt
    <2>2. 0 + n = n /\ n > 0 BY <1>5
    <2>3. peer' = [got |-> SubSeq(b, 1, n), frames |-> M]
      BY <1>7, <1>9, <2>1, <2>2 DEF Begun
    <2>4. turn' = w /\ UNCHANGED written BY <1>1, <1>9
    <2>5. QED BY <2>1, <2>2, <2>3, <2>4
  <1>10. QED BY <1>8, <1>9

LEMMA PeerStep ==
  ASSUME WritingInv, WrittenInv, RestInv, PeerInv, AnswerInv, [Next]_vars
  PROVE  PeerInv'
  <1>1. ASSUME turn' = Torn, peer' = NothingRead PROVE PeerInv' BY <1>1 DEF PeerInv
  <1>2. ASSUME turn' = None, peer' = NothingRead, written' = <<>> PROVE PeerInv'
    <2>1. Meant(written)' = <<>> BY <1>2, NoneMeant DEF Meant
    <2>2. QED BY <1>2, <2>1, Turns DEF PeerInv, NothingRead
  <1>3. ASSUME UNCHANGED wire, turn \in Writers => ~Upgrading' /\ writing'[turn] = writing[turn]
        PROVE  PeerInv'
    <2>1. Meant(written)' = Meant(written) BY <1>3 DEF wire, Meant
    <2>2. CASE turn \in Writers
      <3>1. ~Upgrading' /\ Sent(turn)' = Sent(turn) /\ Idle(turn)' = Idle(turn)
            /\ writing'[turn] = writing[turn] /\ turn' = turn /\ peer' = peer
        BY <1>3, <2>2 DEF wire, Sent, Idle
      <3>2. QED BY <2>1, <2>2, <3>1, Turns DEF PeerInv
    <2>3. CASE turn \notin Writers BY <1>3, <2>1, <2>3 DEF PeerInv, wire
    <2>4. QED BY <2>2, <2>3
  <1>4. turn \in Writers => ~Idle(turn) /\ ~Upgrading BY Turns DEF PeerInv
  <1>5. ASSUME NEW w \in Writers, WritePart(w) PROVE PeerInv'
    <2>1. CASE ~InTurn(w) BY <1>1, <1>5, <2>1 DEF WritePart
    <2>2. CASE InTurn(w)
      <3>1. ~Upgrading'
        BY <1>5, <2>2 DEF WritePart, InTurn, Upgrading
      <3>2. CASE /\ turn' = None /\ written' = Append(written, writing[w].frame)
                 /\ peer' = [got |-> <<>>, frames |-> Append(Meant(written), SubSeq(writing[w].frame, 1, 2))]
        <4>1. IsSeq(written) BY DEF WrittenInv, IsSeq
        <4>2. Meant(written)' = Append(Meant(written), SubSeq(writing[w].frame, 1, 2))
          <5>1. Meant(Append(written, writing[w].frame)) =
                  Append(Meant(written), SubSeq(writing[w].frame, 1, 2))
            BY <4>1, MoreMeant
          <5>2. QED BY <3>2, <5>1 DEF Meant
        <4>3. QED BY <3>2, <4>2, Turns DEF PeerInv
      <3>3. CASE /\ turn' = w /\ UNCHANGED written
                 /\ peer' = [got |-> SubSeq(writing[w].bytes, 1, Sent(w)'), frames |-> Meant(written)]
                 /\ ~Idle(w)' /\ Sent(w)' > 0 /\ writing'[w].bytes = writing[w].bytes
        <4>1. Meant(written)' = Meant(written) BY <3>3 DEF Meant
        <4>2. turn' # None /\ turn' # Torn BY <3>3, Turns
        <4>3. peer' = [got |-> SubSeq(writing'[turn'].bytes, 1, Sent(w)'),
                       frames |-> Meant(written)']
          BY <3>3, <4>1
        <4>4. Sent(turn)' = Sent(w)' /\ Idle(turn)' = Idle(w)'
          BY <3>3 DEF Sent, Idle
        <4>5. QED BY <3>1, <3>3, <4>2, <4>3, <4>4 DEF PeerInv
      <3>4. QED BY <1>5, <2>2, <3>2, <3>3, PeerReads
    <2>3. QED BY <2>1, <2>2
  <1>6. ASSUME NEW w \in Writers, WriteFails(w) PROVE PeerInv'
    <2>1. CASE lifecycle = "closed"
      <3>1. Upgrading BY <2>1 DEF Upgrading
      <3>2. QED BY <1>3, <1>4, <1>6, <2>1, <3>1 DEF WriteFails
    <2>2. CASE lifecycle # "closed" BY <1>1, <1>6, <2>2 DEF WriteFails
    <2>3. QED BY <2>1, <2>2
  <1>7. ASSUME NEW w \in Writers, NEW f, NEW b, Begin(w, f, b), Idle(w), UNCHANGED wire,
               Upgrading' => Upgrading
        PROVE  PeerInv'
    <2>1. \A v \in Writers \ {w} : writing'[v] = writing[v] BY <1>7, BeginShape
    <2>2. turn # w BY <1>4, <1>7
    <2>3. QED BY <1>3, <1>4, <1>7, <2>1, <2>2
  <1>8. ASSUME UNCHANGED <<writing, wire>>, Upgrading' => Upgrading PROVE PeerInv'
    BY <1>3, <1>4, <1>8
  <1>9. CASE \E s \in Senders : Send(s)
    <2>1. PICK s \in Senders : Send(s) BY <1>9
    <2>2. PICK f, b : Begin(s, f, b) BY <2>1 DEF Send
    <2>3. Idle(s) /\ UNCHANGED <<lifecycle, wire>> BY <2>1 DEF Send
    <2>4. QED BY <1>7, <2>2, <2>3, Apart DEF Upgrading
  <1>10. CASE Close
    <2>1. lifecycle = "open" /\ UNCHANGED wire BY <1>10 DEF Close
    <2>2. ~Upgrading' BY <1>10 DEF Close, Upgrading
    <2>3. CASE m_connected
      <3>1. PICK f, b : Begin(Closer, f, b) BY <1>10, <2>3 DEF Close
      <3>2. Idle(Closer) BY <2>1 DEF WritingInv
      <3>3. QED BY <1>7, <2>1, <2>2, <3>1, <3>2, Apart
    <2>4. CASE ~m_connected BY <1>8, <1>10, <2>1, <2>2, <2>4 DEF Close
    <2>5. QED BY <2>3, <2>4
  <1>11. CASE Dispatch
    <2>1. worker = "dispatch" /\ UNCHANGED <<lifecycle, wire>> BY <1>11 DEF Dispatch
    <2>2. CASE Opcode(assembled) = PingOp
      <3>1. PICK f, b : Begin(Worker, f, b) BY <1>11, <2>2 DEF Dispatch
      <3>2. Idle(Worker) BY <2>1 DEF AnswerInv
      <3>3. QED BY <1>7, <2>1, <3>1, <3>2, Apart DEF Upgrading
    <2>3. CASE Opcode(assembled) # PingOp
      BY <1>8, <1>11, <2>1, <2>3 DEF Dispatch, Upgrading
    <2>4. QED BY <2>2, <2>3
  <1>12. CASE UpgradeFails \/ JoinAndFree
    BY <1>2, <1>12 DEF UpgradeFails, JoinAndFree
  <1>13. CASE WriteRequest \/ ReadResponse \/ Upgraded \/ StopWorker
              \/ (\E u \in Urls, key \in Keys : Open(u, key))
    BY <1>8, <1>13 DEF WriteRequest, ReadResponse, Upgraded, StopWorker, Open, Upgrading
  <1>14. CASE PeerSends \/ Recv \/ WorkerEnds \/ PongWritten \/ NeedsMore \/ UNCHANGED vars
    BY <1>8, <1>14 DEF PeerSends, Recv, WorkerEnds, PongWritten, NeedsMore, vars, Upgrading
  <1>15. QED
    BY <1>5, <1>6, <1>9, <1>10, <1>11, <1>12, <1>13, <1>14 DEF Next
-----------------------------------------------------------------------------
(* Pongs.                                                                  *)

LEMMA AnswerStep ==
  ASSUME WritingInv, UpgradeInv, AnswerInv, [Next]_vars
  PROVE  AnswerInv'
  <1> DEFINE Right(w) == ~Idle(w) => (writing[w].frame[1] = PongOp <=> w = Worker)
  <1>1. (\A w \in Writers : Right(w)) /\ (~Idle(Worker) => worker = "pong")
    BY DEF AnswerInv
  <1>2. ASSUME NEW w \in Writers, WritePart(w) \/ WriteFails(w) PROVE AnswerInv'
    <2>1. ASSUME NEW v \in Writers PROVE Right(v)' /\ (~Idle(v)' => ~Idle(v))
      <3>1. CASE v = w BY <1>1, <1>2, <3>1, WorkShape DEF Idle
      <3>2. CASE v # w BY <1>1, <1>2, <2>1, <3>2, WorkShape DEF Idle
      <3>3. QED BY <3>1, <3>2
    <2>2. UNCHANGED worker BY <1>2 DEF WritePart, WriteFails, reading
    <2>3. QED BY <1>1, <2>1, <2>2, Apart DEF AnswerInv
  <1>3. ASSUME NEW w \in Writers, NEW f, NEW b, Begin(w, f, b), f[1] = PongOp <=> w = Worker,
               w = Worker => worker' = "pong", w # Worker => UNCHANGED worker
        PROVE  AnswerInv'
    <2>1. writing'[w] = [rest |-> b, bytes |-> b, frame |-> f] BY <1>3, BeginShape
    <2>2. \A v \in Writers \ {w} : writing'[v] = writing[v] BY <1>3, BeginShape
    <2>3. writing'[w].frame = f BY <2>1
    <2>4. ASSUME NEW v \in Writers PROVE Right(v)'
      <3>1. CASE v = w BY <1>3, <2>3, <3>1
      <3>2. CASE v # w BY <1>1, <2>2, <3>2 DEF Idle
      <3>3. QED BY <3>1, <3>2
    <2>5. ~Idle(Worker)' => worker' = "pong"
      <3>1. CASE w = Worker BY <1>3, <3>1
      <3>2. CASE w # Worker BY <1>1, <1>3, <2>2, <3>2, Apart DEF Idle
      <3>3. QED BY <3>1, <3>2
    <2>6. QED BY <2>4, <2>5 DEF AnswerInv
  <1>4. ASSUME UNCHANGED writing, ~Idle(Worker) => UNCHANGED worker PROVE AnswerInv'
    BY <1>1, <1>4 DEF AnswerInv, Idle
  <1>5. CASE \E s \in Senders : Send(s)
    <2>1. PICK s \in Senders : Send(s) BY <1>5
    <2>2. PICK payload, mask :
            UNCHANGED worker /\ Begin(s, <<TextOp, payload, s>>, TextFrame(payload, mask))
      BY <2>1 DEF Send, reading
    <2>3. TextOp # PongOp BY DEF TextOp, PongOp
    <2>4. QED BY <1>3, <2>2, <2>3, Apart
  <1>6. CASE Close
    <2>1. UNCHANGED worker BY <1>6 DEF Close, reading
    <2>2. CASE m_connected
      <3>1. PICK mask : Begin(Closer, <<CloseOp, CloseReason, Closer>>, CloseFrame(mask))
        BY <1>6, <2>2 DEF Close
      <3>2. QED BY <1>3, <2>1, <3>1, Apart
    <2>3. CASE ~m_connected BY <1>4, <1>6, <2>1, <2>3 DEF Close
    <2>4. QED BY <2>2, <2>3
  <1>7. CASE Dispatch
    <2>1. worker = "dispatch" BY <1>7 DEF Dispatch
    <2>2. CASE Opcode(assembled) = PingOp
      <3>1. PICK payload, mask : Begin(Worker, <<PongOp, payload, Worker>>, PongFrame(payload, mask))
        BY <1>7, <2>2 DEF Dispatch
      <3>2. worker' = "pong"
        <4>1. PingOp # CloseOp BY DEF PingOp, CloseOp
        <4>2. QED BY <1>7, <2>2, <4>1 DEF Dispatch
      <3>3. QED BY <1>3, <3>1, <3>2, Apart
    <2>3. CASE Opcode(assembled) # PingOp
      BY <1>1, <1>4, <1>7, <2>1, <2>3 DEF Dispatch
    <2>4. QED BY <2>2, <2>3
  <1>8. CASE Upgraded
    <2>1. worker = "done" BY <1>8 DEF Upgraded, UpgradeInv
    <2>2. QED BY <1>1, <1>4, <1>8, <2>1 DEF Upgraded
  <1>9. CASE WriteRequest \/ ReadResponse \/ UpgradeFails \/ StopWorker \/ JoinAndFree
             \/ (\E u \in Urls, key \in Keys : Open(u, key))
    BY <1>4, <1>9 DEF WriteRequest, ReadResponse, UpgradeFails, StopWorker, JoinAndFree, Open, reading
  <1>10. CASE PeerSends \/ Recv \/ WorkerEnds \/ PongWritten \/ NeedsMore \/ UNCHANGED vars
    BY <1>1, <1>4, <1>10 DEF PeerSends, Recv, WorkerEnds, PongWritten, NeedsMore, vars, reading
  <1>11. QED BY <1>2, <1>5, <1>6, <1>7, <1>8, <1>9, <1>10 DEF Next

\* A part of a frame read changes what the peer was answered, or nothing.
LEMMA PongsKept ==
  ASSUME WritingInv, WrittenInv, RestInv, PeerInv, AnswerInv,
         NEW w \in Writers, WritePart(w), InTurn(w)
  PROVE  turn # Torn /\ Pongs' = Pongs
  <1> DEFINE F == Meant(written)
             f == SubSeq(writing[w].frame, 1, 2)
             P(G) == PayloadsOf(G, {PongOp})
  <1>1. ~Idle(w) /\ \A v \in Writers \ {w} : writing'[v] = writing[v] BY WorkShape
  <1>2. turn # Torn BY Turns DEF InTurn
  <1>3. peer.frames = F BY <1>2 DEF PeerInv
  <1>4. IsSeq(F)
    <2>1. IsSeq(written) BY DEF WrittenInv, IsSeq
    <2>2. QED BY <2>1, MoreMeant
  <1>5. f = <<writing[w].frame[1], writing[w].frame[2]>>
    <2>1. writing[w].frame = <<writing[w].frame[1], writing[w].frame[2], w>>
      BY <1>1 DEF WritingInv
    <2>2. QED BY <2>1, MeantOf
  <1>6. f[1] = PongOp <=> w = Worker BY <1>1, <1>5 DEF AnswerInv
  <1>7. P(Append(F, f)) = IF f[1] = PongOp THEN Append(P(F), f[2]) ELSE P(F)
    <2> HIDE DEF F, f
    <2>1. f[1] \in {PongOp} <=> f[1] = PongOp OBVIOUS
    <2>2. QED BY <1>4, <2>1, PayloadsOfMore
  <1> HIDE DEF P, F, f
  <1>8. Pongs = IF Idle(Worker) THEN P(F) ELSE Append(P(F), writing[Worker].frame[2])
    BY <1>3 DEF Pongs, P
  <1>9. Pongs' = IF Idle(Worker)' THEN P(peer'.frames)
                 ELSE Append(P(peer'.frames), writing'[Worker].frame[2])
    BY DEF Pongs, P, PayloadsOf
  <1>10. w # Worker => Idle(Worker)' = Idle(Worker) /\ writing'[Worker] = writing[Worker]
    BY <1>1, Apart DEF Idle
  <1>11. CASE peer'.frames = Append(F, f) /\ Idle(w)'
    <2>1. CASE w = Worker
      <3>1. P(Append(F, f)) = Append(P(F), writing[Worker].frame[2])
        BY <1>5, <1>6, <1>7, <2>1
      <3>2. QED BY <1>1, <1>2, <1>8, <1>9, <1>11, <2>1, <3>1
    <2>2. CASE w # Worker
      <3>1. P(Append(F, f)) = P(F) BY <1>6, <1>7, <2>2
      <3>2. QED BY <1>2, <1>8, <1>9, <1>10, <1>11, <2>2, <3>1
    <2>3. QED BY <2>1, <2>2
  <1>12. CASE peer'.frames = F /\ ~Idle(w)' /\ writing'[w].frame = writing[w].frame
    <2>1. CASE w = Worker BY <1>1, <1>2, <1>8, <1>9, <1>12, <2>1
    <2>2. CASE w # Worker BY <1>2, <1>8, <1>9, <1>10, <1>12, <2>2
    <2>3. QED BY <2>1, <2>2
  <1>13. \/ peer'.frames = Append(F, f) /\ Idle(w)'
         \/ peer'.frames = F /\ ~Idle(w)' /\ writing'[w].frame = writing[w].frame
    BY PeerReads DEF F, f
  <1>14. QED BY <1>11, <1>12, <1>13

LEMMA SamePlace ==
  ASSUME UNCHANGED <<stream, incoming, assembled>>
  PROVE  Taken' = Taken
  BY DEF Taken, ReadBy, Used, Arrived

LEMMA EchoStep ==
  ASSUME WritingInv, WrittenInv, UpgradeInv, ReadInv, RestInv, PeerInv, AnswerInv, EchoInv,
         [Next]_vars
  PROVE  EchoInv'
  <1> DEFINE Pings(F) == PayloadsOf(F, {PingOp})
  <1>1. ASSUME Pings(Taken') = Pings(Taken), Pongs' = Pongs, turn' # Torn => turn # Torn,
               Upgrading => Upgrading'
        PROVE  EchoInv'
    <2>1. PayloadsOf(Taken, {PingOp})' = Pings(Taken') BY DEF PayloadsOf
    <2>2. QED BY <1>1, <2>1 DEF EchoInv
  <1>2. ASSUME UNCHANGED peer, writing'[Worker] = writing[Worker] PROVE Pongs' = Pongs
    BY <1>2 DEF Pongs, PayloadsOf, Idle
  <1>3. ASSUME UNCHANGED <<stream, incoming, assembled, peer, turn>>, Upgrading => Upgrading',
               writing'[Worker] = writing[Worker]
        PROVE  EchoInv'
    BY <1>1, <1>2, <1>3, SamePlace
  <1>4. ASSUME Upgrading' \/ turn' = Torn PROVE EchoInv' BY <1>4 DEF EchoInv
  <1>5. ASSUME NEW w \in Writers, WritePart(w) PROVE EchoInv'
    <2>1. CASE ~InTurn(w) BY <1>4, <1>5, <2>1 DEF WritePart
    <2>2. CASE InTurn(w)
      <3>1. turn # Torn /\ Pongs' = Pongs BY <1>5, <2>2, PongsKept
      <3>2. UNCHANGED <<stream, incoming, assembled, lifecycle>>
        BY <1>5 DEF WritePart, reading
      <3>3. Upgrading' = Upgrading BY <3>2 DEF Upgrading
      <3>4. QED BY <1>1, <3>1, <3>2, <3>3, SamePlace
    <2>3. QED BY <2>1, <2>2
  <1>6. ASSUME NEW w \in Writers, WriteFails(w) PROVE EchoInv'
    <2>1. CASE lifecycle = "closed"
      <3>1. Upgrading' BY <1>6, <2>1 DEF WriteFails, Upgrading
      <3>2. QED BY <1>4, <3>1
    <2>2. CASE lifecycle # "closed" BY <1>4, <1>6, <2>2 DEF WriteFails
    <2>3. QED BY <2>1, <2>2
  <1>7. CASE \E s \in Senders : Send(s)
    <2>1. PICK s \in Senders : Send(s) BY <1>7
    <2>2. PICK f, b : Begin(s, f, b) BY <2>1 DEF Send
    <2>3. UNCHANGED <<lifecycle, reading, wire>> BY <2>1 DEF Send
    <2>4. writing'[Worker] = writing[Worker] BY <2>2, BeginShape, Apart
    <2>5. QED BY <1>3, <2>3, <2>4 DEF Upgrading, reading, wire
  <1>8. CASE Close
    <2>1. ~Upgrading BY <1>8 DEF Close, Upgrading
    <2>2. UNCHANGED <<reading, wire>> BY <1>8 DEF Close
    <2>3. writing'[Worker] = writing[Worker]
      <3>1. CASE m_connected
        <4>1. PICK f, b : Begin(Closer, f, b) BY <1>8, <3>1 DEF Close
        <4>2. QED BY <4>1, BeginShape, Apart
      <3>2. CASE ~m_connected BY <1>8, <3>2 DEF Close
      <3>3. QED BY <3>1, <3>2
    <2>4. QED BY <1>3, <2>1, <2>2, <2>3 DEF reading, wire
  <1>9. ASSUME NEW u \in Nat, NEW n \in Nat, NEW F, stream' \in Seq(Bytes),
               At(stream', assembled', incoming', u, n, F)
        PROVE  Taken' = F
    BY <1>9, NowAt
  <1>10. CASE Upgraded
    <2>1. lifecycle = "upgrading" /\ Upgrading /\ UNCHANGED <<writing, wire>>
      BY <1>10 DEF Upgraded, Upgrading
    <2>2. stream' \in Seq(Bytes) /\ At(stream', assembled', incoming', 0, 0, <<>>)
      BY <1>10, UpgradedEmpty
    <2>3. Taken' = <<>> BY <1>9, <2>2
    <2>4. turn' # Torn => peer'.frames = <<>>
      <3>1. written = <<>> BY <2>1 DEF WrittenInv
      <3>2. turn # Torn => peer.frames = <<>> BY <3>1, NoneMeant DEF PeerInv
      <3>3. QED BY <2>1, <3>2 DEF wire
    <2>5. Idle(Worker)'
      <3>1. worker = "done" BY <2>1 DEF UpgradeInv
      <3>2. Idle(Worker) BY <3>1 DEF AnswerInv
      <3>3. QED BY <2>1, <3>2 DEF Idle
    <2>6. turn' # Torn => Pongs' = <<>>
      <3>1. Pongs' = PayloadsOf(peer'.frames, {PongOp})
        BY <2>5 DEF Pongs, PayloadsOf
      <3>2. QED BY <2>4, <3>1, PayloadsOfNone
    <2>7. PayloadsOf(Taken, {PingOp})' = <<>>
      <3>1. PayloadsOf(Taken, {PingOp})' = PayloadsOf(Taken', {PingOp})
        BY DEF PayloadsOf
      <3>2. QED BY <2>3, <3>1, PayloadsOfNone
    <2>8. QED BY <2>6, <2>7 DEF EchoInv
  <1>11. CASE PeerSends
    <2>1. UNCHANGED <<writing, wire>> BY <1>11 DEF PeerSends
    <2>2. /\ ~Upgrading /\ Taken = <<>> /\ stream' \in Seq(Bytes)
          /\ At(stream', assembled', incoming', 0, 0, <<>>)
      BY <1>11, PeerBegins
    <2>3. Taken' = Taken BY <1>9, <2>2
    <2>4. QED BY <1>1, <1>2, <2>1, <2>2, <2>3 DEF wire
  <1>12. CASE Recv
    <2>1. UNCHANGED <<writing, wire>> BY <1>12 DEF Recv
    <2>2. /\ ~Upgrading /\ UNCHANGED stream /\ stream \in Seq(Bytes) /\ Used \in Nat
          /\ \E n \in Nat : At(stream, assembled', incoming', Used, n, Taken)
      BY <1>12, RecvMoves
    <2>3. Taken' = Taken BY <1>9, <2>2
    <2>4. QED BY <1>1, <1>2, <2>1, <2>2, <2>3 DEF wire
  <1>13. CASE Dispatch
    <2> DEFINE payload == Payload(assembled)
               f == <<Opcode(assembled), payload>>
    <2>1. worker = "dispatch" /\ UNCHANGED wire BY <1>13 DEF Dispatch
    <2>2. /\ ~Upgrading /\ UNCHANGED stream /\ stream \in Seq(Bytes) /\ IsSeq(Taken)
          /\ \E u \in Nat, n \in Nat : At(stream, assembled', incoming', u, n, Append(Taken, f))
      BY <1>13, DispatchMoves
    <2>3. Taken' = Append(Taken, f) BY <1>9, <2>2
    <2>4. Pings(Taken') = IF f[1] = PingOp THEN Append(Pings(Taken), f[2]) ELSE Pings(Taken)
      <3> HIDE DEF f
      <3>1. f[1] \in {PingOp} <=> f[1] = PingOp OBVIOUS
      <3>2. QED BY <2>2, <2>3, <3>1, PayloadsOfMore
    <2>5. Idle(Worker) BY <2>1 DEF AnswerInv
    <2>6. CASE Opcode(assembled) = PingOp
      <3>1. PICK b : Begin(Worker, <<PongOp, payload, Worker>>, b)
        BY <1>13, <2>6 DEF Dispatch
      <3>2. writing'[Worker] = [rest |-> b, bytes |-> b, frame |-> <<PongOp, payload, Worker>>]
        BY <3>1, BeginShape, Apart
      <3>3. writing'[Worker].frame[2] = payload /\ ~Idle(Worker)'
        <4>1. writing'[Worker].frame = <<PongOp, payload, Worker>> BY <3>2
        <4>2. writing'[Worker].frame[2] = payload BY <4>1
        <4>3. Nothing.frame = <<>> BY DEF Nothing
        <4>4. <<PongOp, payload, Worker>> # <<>> OBVIOUS
        <4>5. QED BY <4>1, <4>2, <4>3, <4>4 DEF Idle
      <3>4. Pongs' = Append(Pongs, payload)
        <4>1. Pongs = PayloadsOf(peer.frames, {PongOp}) BY <2>5 DEF Pongs
        <4>2. Pongs' = Append(PayloadsOf(peer.frames, {PongOp}), payload)
          BY <2>1, <3>3 DEF Pongs, PayloadsOf, wire
        <4>3. QED BY <4>1, <4>2
      <3>5. Pings(Taken') = Append(Pings(Taken), payload) BY <2>4, <2>6
      <3>6. PayloadsOf(Taken, {PingOp})' = Pings(Taken') BY DEF PayloadsOf
      <3>7. QED BY <2>1, <2>2, <3>4, <3>5, <3>6 DEF EchoInv, wire
    <2>7. CASE Opcode(assembled) # PingOp
      <3>1. Pings(Taken') = Pings(Taken) BY <2>4, <2>7
      <3>2. UNCHANGED writing BY <1>13, <2>7 DEF Dispatch
      <3>3. QED BY <1>1, <1>2, <2>1, <2>2, <3>1, <3>2 DEF wire
    <2>8. QED BY <2>6, <2>7
  <1>14. CASE WriteRequest \/ ReadResponse \/ UpgradeFails \/ JoinAndFree
              \/ (\E u \in Urls, key \in Keys : Open(u, key))
    BY <1>4, <1>14 DEF WriteRequest, ReadResponse, UpgradeFails, JoinAndFree, Open, Upgrading
  <1>15. CASE StopWorker \/ WorkerEnds \/ PongWritten \/ NeedsMore \/ UNCHANGED vars
    BY <1>3, <1>15 DEF StopWorker, WorkerEnds, PongWritten, NeedsMore, vars, Upgrading, reading, wire
  <1>16. QED
    BY <1>5, <1>6, <1>7, <1>8, <1>10, <1>11, <1>12, <1>13, <1>14, <1>15 DEF Next
-----------------------------------------------------------------------------
(* The theorems that hold whatever the peer sends.                         *)

LEMMA InitInv == Init => TunnelInv
  <1> SUFFICES ASSUME Init PROVE TunnelInv OBVIOUS
  <1>1. /\ written = <<>> /\ ~m_connected /\ lifecycle = "closed" /\ worker = "done"
        /\ response = <<>> /\ incoming = <<>> /\ writing = [w \in Writers |-> Nothing]
    BY DEF Init
  <1>2. \A s : Late(s) = {} BY <1>1, Empty DEF Late
  <1>3. WrittenInv /\ OneLateFrameEach
    BY <1>1, <1>2, Empty DEF WrittenInv, OneLateFrameEach
  <1>4. \A w \in Writers : Idle(w) BY <1>1 DEF Idle
  <1>5. WritingInv
    <2>1. \A w \in Writers : writing[w] = [rest |-> <<>>, bytes |-> <<>>, frame |-> <<>>]
      BY <1>1 DEF Nothing
    <2>2. \A w \in Writers : writing[w] = [rest |-> writing[w].rest, bytes |-> writing[w].bytes,
                                           frame |-> writing[w].frame]
      BY <2>1
    <2>3. writing = [w \in Writers |-> writing[w]] BY <1>1
    <2>4. writing = [w \in Writers |-> [rest |-> writing[w].rest, bytes |-> writing[w].bytes,
                                        frame |-> writing[w].frame]]
      BY <2>2, <2>3
    <2>5. QED BY <1>4, <2>4, Apart DEF WritingInv
  <1>6. UpgradeInv
    <2>1. <<>> \in Seq(Bytes) OBVIOUS
    <2>2. QED BY <1>1, <2>1 DEF UpgradeInv
  <1>7. QED BY <1>3, <1>5, <1>6 DEF TunnelInv

\* The inductive invariant of what is written and of the upgrade.
THEOREM Invariance == Spec => []TunnelInv
  <1>1. Init => TunnelInv BY InitInv
  <1>2. TunnelInv /\ [Next]_vars => TunnelInv'
    BY WritingStep, WrittenStep, UpgradeStep DEF TunnelInv
  <1>3. QED BY <1>1, <1>2, PTL DEF Spec

\* Behind a close frame each sender finishes at most the one frame it had
\* begun, however many send, and however their parts are interleaved.
THEOREM LateFramesAreBounded == Spec => []OneLateFrameEach
  <1>1. TunnelInv => OneLateFrameEach BY DEF TunnelInv
  <1>2. QED BY <1>1, Invariance, PTL

\* However the response is cut into reads, open() recognises its end once it
\* has been read.
THEOREM UpgradeIsComplete == Spec => []ResponseIsRecognised
  <1>1. TunnelInv => ResponseIsRecognised
    BY Complete DEF TunnelInv, UpgradeInv, ResponseIsRecognised
  <1>2. QED BY <1>1, Invariance, PTL
-----------------------------------------------------------------------------
(* The theorems about what is read and what is written.                    *)

LEMMA InitData == Init => DataInv
  <1> SUFFICES ASSUME Init PROVE DataInv OBVIOUS
  <1>1. TunnelInv BY InitInv
  <1>2. /\ lifecycle = "closed" /\ assembled = <<>> /\ stream = <<>> /\ delivered = <<>>
        /\ turn = None /\ peer = NothingRead /\ written = <<>>
        /\ writing = [w \in Writers |-> Nothing]
    BY DEF Init
  <1>3. Upgrading BY <1>2 DEF Upgrading
  <1>4. ReadInv
    <2>1. <<>> \in Seq(Bytes) OBVIOUS
    <2>2. QED BY <1>2, <1>3, <2>1 DEF ReadInv
  <1>5. \A w \in Writers : Idle(w) BY <1>2 DEF Idle
  <1>6. PeerInv BY <1>2, NoneMeant, Turns DEF PeerInv, NothingRead
  <1>7. RestInv /\ AnswerInv /\ EchoInv
    BY <1>3, <1>5, Apart DEF RestInv, AnswerInv, EchoInv
  <1>8. QED BY <1>1, <1>4, <1>6, <1>7 DEF DataInv

\* The inductive invariant of everything the tunnel reads and writes.
THEOREM DataInvariance == Spec => []DataInv
  <1>1. Init => DataInv BY InitData
  <1>2. DataInv /\ [Next]_vars => DataInv'
    <2> SUFFICES ASSUME DataInv, [Next]_vars PROVE DataInv' OBVIOUS
    <2>1. /\ TunnelInv /\ WritingInv /\ WrittenInv /\ OneLateFrameEach /\ UpgradeInv
          /\ ReadInv /\ RestInv /\ PeerInv /\ AnswerInv /\ EchoInv
      BY DEF DataInv, TunnelInv
    <2>2. TunnelInv' BY <2>1, WritingStep, WrittenStep, UpgradeStep DEF TunnelInv
    <2>3. ReadInv' BY <2>1, ReadStep
    <2>4. RestInv' BY <2>1, RestStep
    <2>5. PeerInv' BY <2>1, PeerStep
    <2>6. AnswerInv' BY <2>1, AnswerStep
    <2>7. EchoInv' BY <2>1, EchoStep
    <2>8. QED BY <2>2, <2>3, <2>4, <2>5, <2>6, <2>7 DEF DataInv
  <1>3. QED BY <1>1, <1>2, PTL DEF Spec

\* Several threads write frames part by part, and the peer reads back the
\* frames they meant, for any payloads, masks and places to stop.
THEOREM FramesAreRead == Spec => []WireIsFrames
  <1>1. DataInv => WireIsFrames
    <2> SUFFICES ASSUME PeerInv, RestInv, turn # Torn
                 PROVE  peer.frames = Meant(written) /\ (turn = None <=> peer.got = <<>>)
      BY DEF DataInv, WireIsFrames
    <2>1. peer = [got |-> IF turn = None THEN <<>> ELSE SubSeq(writing[turn].bytes, 1, Sent(turn)),
                  frames |-> Meant(written)]
      BY DEF PeerInv
    <2>2. peer.frames = Meant(written) /\ (turn = None => peer.got = <<>>) BY <2>1
    <2>3. ASSUME turn # None PROVE peer.got # <<>>
      <3>1. turn \in Writers /\ ~Idle(turn) /\ Sent(turn) > 0 BY <2>3 DEF PeerInv
      <3>2. writing[turn].bytes \in Seq(Bytes) /\ Sent(turn) \in Nat
            /\ Sent(turn) < Len(writing[turn].bytes)
        BY <3>1, LeftOf
      <3>3. PICK b \in Seq(Bytes), k \in Nat : b = writing[turn].bytes /\ k = Sent(turn)
        BY <3>2
      <3>4. Len(SubSeq(b, 1, k)) = k
        <4>1. k <= Len(b) BY <3>2, <3>3
        <4>2. QED BY <4>1
      <3>5. peer.got = SubSeq(b, 1, k) BY <2>1, <2>3, <3>3
      <3>6. Len(<<>>) = 0 /\ k # 0 BY <3>1, <3>3
      <3>7. QED BY <3>4, <3>5, <3>6
    <2>4. QED BY <2>2, <2>3
  <1>2. QED BY <1>1, DataInvariance, PTL

\* However the peer's stream is cut into reads, m_onData gets the payload of
\* every data frame before a close frame, once and in order.
THEOREM DataArrives == Spec => []DataIsDelivered
  <1>1. DataInv => DataIsDelivered BY Delivered DEF DataInv, TunnelInv
  <1>2. QED BY <1>1, DataInvariance, PTL

\* Every ping is answered by its own pong, in order, and before the next
\* frame is looked at.
THEOREM PingsAreAnswered == Spec => []PongsEchoPings
  <1>1. DataInv => PongsEchoPings
    <2> DEFINE pings == PayloadsOf(Received, {PingOp})
               pongs == PayloadsOf(peer.frames, {PongOp})
               taken == PayloadsOf(Taken, {PingOp})
    <2> SUFFICES ASSUME DataInv, turn # Torn, lifecycle \in {"open", "closing", "stopping"}
                 PROVE  IsPrefix(pongs, pings) /\ (worker = "recv" => pongs = pings)
      BY DEF PongsEchoPings
    <2>1. ~Upgrading BY DEF Upgrading
    <2>2. ReadInv /\ UpgradeInv /\ PeerInv /\ AnswerInv /\ EchoInv /\ WrittenInv
      BY DEF DataInv, TunnelInv
    <2>3. taken = IF Idle(Worker) THEN pongs ELSE Append(pongs, writing[Worker].frame[2])
      BY <2>1, <2>2 DEF EchoInv, Pongs
    <2>4. Leads(Taken, Received) /\ (worker = "recv" => Received = Taken)
      BY <2>1, <2>2, ReceivedIs
    <2>5. Leads(taken, pings) BY <2>4, PayloadsGrow
    <2>6. IsSeq(pongs)
      <3>1. IsSeq(written) BY <2>2 DEF WrittenInv, IsSeq
      <3>2. peer.frames = Meant(written) BY <2>2 DEF PeerInv
      <3>3. IsSeq(peer.frames) BY <3>1, <3>2, MoreMeant
      <3>4. Leads(peer.frames, peer.frames) BY <3>3, LeadsItself
      <3>5. QED BY <3>4, PayloadsGrow DEF Leads
    <2> HIDE DEF pings, pongs, taken
    <2>7. Leads(pongs, taken) BY <2>3, <2>6, LeadsItself, LeadsAppended
    <2>8. IsPrefix(pongs, pings) BY <2>5, <2>7, LeadsFurther, LeadsIsPrefix
    <2>9. ASSUME worker = "recv" PROVE pongs = pings
      <3>1. Idle(Worker) BY <2>2, <2>9 DEF AnswerInv
      <3>2. QED BY <2>3, <2>4, <2>9, <3>1 DEF pings, taken
    <2>10. QED BY <2>8, <2>9
  <1>2. QED BY <1>1, DataInvariance, PTL

\* Everything the tunnel keeps has its type.
THEOREM TypeCorrect == Spec => []TypeOK
  <1> DEFINE Plain ==
        /\ m_connected \in BOOLEAN /\ m_running \in BOOLEAN
        /\ lifecycle \in {"closed", "requesting", "upgrading", "open", "closing", "stopping"}
        /\ opens \in 0 .. MaxOpens
        /\ worker \in {"recv", "dispatch", "pong", "done"}
  <1>1. Init => Plain
    <2>1. 0 \in 0 .. MaxOpens BY TunnelAssumption
    <2>2. QED BY <2>1 DEF Init
  <1>2. Plain /\ [Next]_vars => Plain'
    <2> SUFFICES ASSUME Plain, [Next]_vars PROVE Plain' OBVIOUS
    <2>1. CASE \E w \in Writers : WritePart(w) \/ WriteFails(w)
      BY <2>1 DEF WritePart, WriteFails, reading
    <2>2. CASE \E s \in Senders : Send(s) BY <2>2 DEF Send, reading
    <2>3. CASE \E u \in Urls, key \in Keys : Open(u, key)
      <3>1. /\ lifecycle' = "requesting" /\ opens < MaxOpens /\ opens' = opens + 1
            /\ UNCHANGED <<m_connected, m_running, worker>>
        BY <2>3 DEF Open, reading
      <3>2. opens' \in 0 .. MaxOpens BY <3>1, TunnelAssumption
      <3>3. QED BY <3>1, <3>2
    <2>4. CASE WriteRequest \/ ReadResponse \/ Upgraded \/ UpgradeFails
      BY <2>4 DEF WriteRequest, ReadResponse, Upgraded, UpgradeFails
    <2>5. CASE Close \/ StopWorker \/ JoinAndFree
      BY <2>5 DEF Close, StopWorker, JoinAndFree, reading
    <2>6. CASE PeerSends \/ Recv \/ WorkerEnds \/ PongWritten \/ NeedsMore \/ UNCHANGED vars
      BY <2>6 DEF PeerSends, Recv, WorkerEnds, PongWritten, NeedsMore, vars, reading
    <2>7. CASE Dispatch
      <3>1. /\ worker' \in {"recv", "dispatch", "pong", "done"} /\ m_running' \in BOOLEAN
            /\ UNCHANGED <<m_connected, lifecycle, opens>>
        <4>1. PingOp # CloseOp BY DEF PingOp, CloseOp
        <4>2. QED BY <2>7, <4>1 DEF Dispatch
      <3>2. QED BY <3>1
    <2>8. QED BY <2>1, <2>2, <2>3, <2>4, <2>5, <2>6, <2>7 DEF Next
  <1>3. Plain /\ DataInv => TypeOK
    <2> SUFFICES ASSUME Plain, RestInv, PeerInv, ReadInv, UpgradeInv PROVE TypeOK
      BY DEF DataInv, TunnelInv
    <2>1. <<>> \in Seq(Bytes) OBVIOUS
    <2>2. ASSUME NEW w \in Writers PROVE writing[w].rest \in Seq(Bytes) /\ writing[w].bytes \in Seq(Bytes)
      <3>1. CASE Idle(w) BY <2>1, <3>1 DEF Idle, Nothing
      <3>2. CASE ~Idle(w)
        <4>1. PICK b \in Seq(Bytes), k \in Nat :
                b = writing[w].bytes /\ k < Len(b) /\ writing[w].rest = SubSeq(b, k + 1, Len(b))
          BY <3>2, LeftOf
        <4>2. SubSeq(b, k + 1, Len(b)) \in Seq(Bytes) BY <4>1
        <4>3. QED BY <4>1, <4>2
      <3>3. QED BY <3>1, <3>2
    <2>3. peer.got \in Seq(Bytes)
      <3>1. CASE turn = Torn
        <4>1. peer = NothingRead BY <3>1 DEF PeerInv
        <4>2. NothingRead.got = <<>> BY DEF NothingRead
        <4>3. QED BY <2>1, <4>1, <4>2
      <3>2. CASE turn # Torn
        <4>1. peer.got = IF turn = None THEN <<>> ELSE SubSeq(writing[turn].bytes, 1, Sent(turn))
          BY <3>2 DEF PeerInv
        <4>2. CASE turn = None BY <2>1, <4>1, <4>2
        <4>3. CASE turn # None
          <5>1. turn \in Writers /\ ~Idle(turn) BY <3>2, <4>3 DEF PeerInv
          <5>2. PICK b \in Seq(Bytes), k \in Nat :
                  b = writing[turn].bytes /\ k = Sent(turn) /\ k < Len(b)
            BY <5>1, LeftOf
          <5>3. SubSeq(b, 1, k) \in Seq(Bytes) BY <5>2
          <5>4. QED BY <4>1, <4>3, <5>2, <5>3
        <4>4. QED BY <4>2, <4>3
      <3>3. QED BY <3>1, <3>2
    <2>4. turn \in Writers \cup {None, Torn} BY DEF PeerInv
    <2>5. assembled \in Seq(Bytes) /\ incoming \in Seq(Bytes)
      BY DEF ReadInv, UpgradeInv
    <2>6. QED BY <2>2, <2>3, <2>4, <2>5 DEF TypeOK
  <1>4. QED BY <1>1, <1>2, <1>3, DataInvariance, PTL DEF Spec
-----------------------------------------------------------------------------
(* The upgrade request: its key.                                           *)

\* Groups of four, one after the other.
LEMMA InFours ==
  ASSUME NEW S, NEW gs \in Seq(Seq(S)), \A g \in 1 .. Len(gs) : Len(gs[g]) = 4
  PROVE  /\ Len(FlattenSeq(gs)) = 4 * Len(gs)
         /\ \A g \in 1 .. Len(gs), j \in 1 .. 4 : FlattenSeq(gs)[4 * (g - 1) + j] = gs[g][j]
  <1> DEFINE u(n) == SubSeq(gs, 1, n)
             Is(f, n) == /\ f \in Seq(S) /\ Len(f) = 4 * n
                         /\ \A g \in 1 .. n, j \in 1 .. 4 : f[4 * (g - 1) + j] = gs[g][j]
             T == {n \in Nat : n <= Len(gs) => Is(FlattenSeq(u(n)), n)}
  <1>1. 0 \in T
    <2>1. u(0) = <<>> OBVIOUS
    <2>2. FlattenSeq(<<>>) = <<>>
      <3>1. Len(<<>>) = 0 OBVIOUS
      <3>2. QED BY <3>1 DEF FlattenSeq
    <2>3. Is(<<>>, 0) OBVIOUS
    <2> HIDE DEF u, Is
    <2>4. QED BY <2>1, <2>2, <2>3
  <1>2. ASSUME NEW n \in T PROVE n + 1 \in T
    <2> SUFFICES ASSUME n + 1 <= Len(gs) PROVE Is(FlattenSeq(u(n + 1)), n + 1) OBVIOUS
    <2>1. n \in Nat /\ n <= Len(gs) /\ Is(FlattenSeq(u(n)), n) OBVIOUS
    <2>2. /\ u(n) \in Seq(Seq(S)) /\ gs[n + 1] \in Seq(S)
          /\ u(n + 1) = Append(u(n), gs[n + 1])
      BY <2>1, FirstAndNext
    <2>3. Len(gs[n + 1]) = 4 BY <2>1
    <2> HIDE DEF u, T
    <2>4. FlattenSeq(u(n + 1)) = FlattenSeq(u(n)) \o gs[n + 1] BY <2>2, FlattenAppended
    <2>5. PICK f, x \in Seq(S) : f = FlattenSeq(u(n)) /\ x = gs[n + 1] /\ Is(f, n)
      BY <2>1, <2>2
    <2>6. f \in Seq(S) /\ Len(f) = 4 * n /\ Len(x) = 4 BY <2>3, <2>5
    <2>7. /\ f \o x \in Seq(S) /\ Len(f \o x) = 4 * (n + 1)
          /\ \A i \in 1 .. 4 * n : (f \o x)[i] = f[i]
          /\ \A j \in 1 .. 4 : (f \o x)[4 * n + j] = x[j]
      <3>1. 4 * n + 4 = 4 * (n + 1) BY <2>1
      <3>2. /\ f \o x \in Seq(S) /\ Len(f \o x) = Len(f) + Len(x)
            /\ \A i \in 1 .. Len(f) : (f \o x)[i] = f[i]
            /\ \A j \in 1 .. Len(x) : (f \o x)[Len(f) + j] = x[j]
        BY TwoInOne
      <3>3. QED BY ONLY <2>6, <3>1, <3>2
    <2>8. ASSUME NEW g \in 1 .. n + 1, NEW j \in 1 .. 4
          PROVE  (f \o x)[4 * (g - 1) + j] = gs[g][j]
      <3>1. CASE g = n + 1
        <4>1. 4 * (g - 1) + j = 4 * n + j BY <2>1, <3>1
        <4>2. QED BY <2>5, <2>7, <3>1, <4>1
      <3>2. CASE g # n + 1
        <4>1. g \in 1 .. n /\ 4 * (g - 1) + j \in 1 .. 4 * n BY <2>1, <3>2
        <4>2. f[4 * (g - 1) + j] = gs[g][j] BY <2>5, <4>1
        <4>3. QED BY <2>7, <4>1, <4>2
      <3>3. QED BY <3>1, <3>2
    <2>9. Is(f \o x, n + 1) BY ONLY <2>7, <2>8
    <2>10. QED BY ONLY <2>4, <2>5, <2>9
  <1> HIDE DEF T
  <1>3. T = Nat BY <1>1, <1>2, Induct DEF T
  <1>4. Len(gs) \in T /\ u(Len(gs)) = gs /\ Len(gs) <= Len(gs) BY <1>3
  <1> HIDE DEF u, Is
  <1>5. Is(FlattenSeq(gs), Len(gs)) BY <1>4 DEF T
  <1>6. QED BY <1>5 DEF Is

Octets == 0 .. 255
\* Four digits that spell v, the third and the fourth if they are used.
Spells(group, third, fourth, v) ==
  \E d1, d2, d3, d4 \in 0 .. 63 :
    /\ group = <<d1, d2, IF third THEN d3 ELSE Pad, IF fourth THEN d4 ELSE Pad>>
    /\ OfDigits(d1, d2, d3, d4) = v
    /\ ~third => d3 = 0
    /\ ~fourth => d4 = 0

\* One group: four digits for a and what is there of b and c.
LEMMA GroupOf ==
  ASSUME NEW a \in Octets, NEW rest \in Seq(Octets), Len(rest) <= 2,
         NEW b, b = IF Len(rest) > 0 THEN rest[1] ELSE 0,
         NEW c, c = IF Len(rest) > 1 THEN rest[2] ELSE 0
  PROVE  Spells(Group(a, rest), Len(rest) > 0, Len(rest) > 1, OfBytes(a, b, c))
  <1>1. a \in 0 .. 255 /\ b \in 0 .. 255 /\ c \in 0 .. 255
    <2>1. /\ Len(rest) \in Nat
          /\ Len(rest) > 0 => rest[1] \in Octets
          /\ Len(rest) > 1 => rest[2] \in Octets
      BY ONLY rest \in Seq(Octets), SMT
    <2>2. 0 \in Octets BY DEF Octets
    <2>3. b \in Octets BY <2>1, <2>2
    <2>4. c \in Octets BY <2>1, <2>2
    <2>5. QED BY <2>3, <2>4 DEF Octets
  <1>2. /\ ~(Len(rest) > 0) => b = 0 /\ c = 0
        /\ ~(Len(rest) > 1) => c = 0
    <2>1. Len(rest) \in Nat OBVIOUS
    <2>2. QED BY <2>1, SMT
  <1>3. PICK v : v = a * 65536 + b * 256 + c OBVIOUS
  <1>4. v = a * 65536 + (IF Len(rest) > 0 THEN rest[1] * 256 ELSE 0)
               + (IF Len(rest) > 1 THEN rest[2] ELSE 0)
    BY <1>3, SMT
  <1>5. Group(a, rest) =
          <<(v \div 262144) % 64, (v \div 4096) % 64,
            IF Len(rest) > 0 THEN (v \div 64) % 64 ELSE Pad,
            IF Len(rest) > 1 THEN v % 64 ELSE Pad>>
    BY ONLY <1>4, SMT DEF Group
  <1>6. v \in Nat /\ v < 64 * 64 * 64 * 64 /\ v = 65536 * a + 256 * b + c
    BY ONLY <1>1, <1>3, SMT
  <1>7. v \in Nat BY <1>6
  <1>8. PICK x \in Nat, d4 \in 0 .. 63 : v = 64 * x + d4
    <2>1. v = 64 * (v \div 64) + (v % 64) /\ v \div 64 \in Nat /\ v % 64 \in 0 .. 63
      BY ONLY <1>7, SMT
    <2>2. QED BY ONLY <1>7, <2>1, SMT
  <1>9. PICK y \in Nat, d3 \in 0 .. 63 : x = 64 * y + d3
    <2>1. x = 64 * (x \div 64) + (x % 64) /\ x \div 64 \in Nat /\ x % 64 \in 0 .. 63
      BY ONLY x \in Nat, SMT
    <2>2. QED BY ONLY <2>1, SMT
  <1>10. PICK d1 \in Nat, d2 \in 0 .. 63 : y = 64 * d1 + d2
    <2>1. y = 64 * (y \div 64) + (y % 64) /\ y \div 64 \in Nat /\ y % 64 \in 0 .. 63
      BY ONLY y \in Nat, SMT
    <2>2. QED BY ONLY <2>1, SMT
  <1>11. d1 \in 0 .. 63 BY ONLY <1>6, <1>8, <1>9, <1>10, SMT
  <1>12. Group(a, rest) = <<d1, d2, IF Len(rest) > 0 THEN d3 ELSE Pad,
                            IF Len(rest) > 1 THEN d4 ELSE Pad>>
    <2>1. v \div 64 = x /\ v % 64 = d4 BY ONLY <1>8, SMT
    <2>2. x % 64 = d3 /\ y % 64 = d2 /\ d1 % 64 = d1 BY ONLY <1>9, <1>10, <1>11, SMT
    <2>3. v \div 4096 = y BY ONLY <1>8, <1>9, SMT
    <2>4. v \div 262144 = d1 BY ONLY <1>8, <1>9, <1>10, SMT
    <2>5. /\ (v \div 262144) % 64 = d1 /\ (v \div 4096) % 64 = d2
          /\ (v \div 64) % 64 = d3 /\ v % 64 = d4
      BY ONLY <1>7, <1>11, <2>1, <2>2, <2>3, <2>4, SMT
    <2>6. QED BY ONLY <1>5, <2>5, SMT
  <1>13. OfDigits(d1, d2, d3, d4) = OfBytes(a, b, c)
    BY ONLY <1>6, <1>8, <1>9, <1>10, SMT DEF OfDigits, OfBytes
  <1>14. ~(Len(rest) > 1) => d4 = 0
    <2>1. c = 0 => v = 64 * (1024 * a + 4 * b) BY ONLY <1>1, <1>6, SMT
    <2>2. QED BY ONLY <1>1, <1>2, <1>8, <2>1, SMT
  <1>15. ~(Len(rest) > 0) => d3 = 0
    <2>1. b = 0 /\ c = 0 => v = 64 * (64 * (16 * a)) BY ONLY <1>1, <1>6, SMT
    <2>2. QED BY ONLY <1>1, <1>2, <1>8, <1>9, <2>1, SMT
  <1>16. QED BY ONLY <1>11, <1>12, <1>13, <1>14, <1>15, Zenon DEF Spells

\* What base64Encode() makes of any bytes.
LEMMA Encoded ==
  ASSUME NEW data \in Seq(Octets)
  PROVE  IsBase64(base64Encode(data), data)
  <1> DEFINE n == Len(data)
             N == (n + 2) \div 3
             D == (8 * n + 5) \div 6
             sent == base64Encode(data)
             last(g) == IF 3 * g <= n THEN 3 * g ELSE n
             rest(g) == SubSeq(data, 3 * g - 1, last(g))
             gs == [g \in 1 .. N |-> Group(data[3 * g - 2], rest(g))]
             digit(i) == IF sent[i] = Pad THEN 0 ELSE sent[i]
             byte(i) == IF i <= n THEN data[i] ELSE 0
             S == 0 .. 64
  <1>1. n = Len(data) /\ n \in Nat /\ N \in Nat /\ 3 * N <= n + 2 /\ n + 2 < 3 * N + 3
        /\ D \in Nat /\ 6 * D <= 8 * n + 5 /\ 8 * n + 5 < 6 * D + 6
    OBVIOUS
  <1>2. gs = [g \in 1 .. N |-> Group(data[3 * g - 2], rest(g))] OBVIOUS
  <1>3. \A i : byte(i) = IF i <= n THEN data[i] ELSE 0 OBVIOUS
  <1>4. \A g : rest(g) = SubSeq(data, 3 * g - 1, last(g)) OBVIOUS
  <1>5. \A g : last(g) = IF 3 * g <= n THEN 3 * g ELSE n OBVIOUS
  <1>6. sent = FlattenSeq(gs) BY DEF base64Encode
  <1> HIDE DEF gs, n, N, D, sent, byte, rest, last
  <1>7. ASSUME NEW g \in 1 .. N
        PROVE  Spells(gs[g], 3 * g - 1 <= n, 3 * g <= n,
                      OfBytes(byte(3 * g - 2), byte(3 * g - 1), byte(3 * g)))
    <2>1. 3 * g - 2 \in 1 .. n /\ 1 <= n BY ONLY <1>1, g \in 1 .. N, SMT
    <2>2. data[3 * g - 2] \in Octets BY ONLY <1>1, <2>1, data \in Seq(Octets), SMT
    <2>3. PICK k \in Nat, m \in Nat :
            /\ m = last(g)
            /\ k = 3 * g - 1 /\ m <= n /\ 1 <= k /\ k <= m + 1
            /\ m = IF 3 * g <= n THEN 3 * g ELSE n
      <3>1. last(g) \in Nat /\ 3 * g - 1 \in Nat /\ last(g) <= n /\ 1 <= 3 * g - 1
            /\ 3 * g - 1 <= last(g) + 1
        BY <1>1, <1>5, <2>1, SMT
      <3>2. QED BY <1>5, <3>1, Zenon
    <2>4. k = 3 * g - 1 /\ m <= n /\ 1 <= k /\ k <= m + 1 BY ONLY <2>3
    <2>5. (3 * g <= n => m = 3 * g) /\ (~(3 * g <= n) => m = n) BY ONLY <2>3, Zenon
    <2>6. m <= Len(data) BY ONLY <1>1, <2>4
    <2>7. g \in Nat /\ n \in Nat /\ 3 * g - 2 <= n BY ONLY <1>1, <2>1, g \in 1 .. N, SMT
    <2>8. rest(g) = SubSeq(data, k, m) BY <1>4, <2>3, Zenon
    <2>9. SubSeq(data, k, m) \in Seq(Octets) /\ Len(SubSeq(data, k, m)) = m - k + 1
          /\ \A i \in 1 .. m - k + 1 : SubSeq(data, k, m)[i] = data[k + i - 1]
      BY ONLY <2>4, <2>6, k \in Nat, m \in Nat, data \in Seq(Octets), Slice
    <2>10. PICK r \in Seq(Octets) :
            /\ r = rest(g) /\ Len(r) = m - k + 1
            /\ \A i \in 1 .. m - k + 1 : r[i] = data[k + i - 1]
      BY ONLY <2>8, <2>9, Zenon
    <2>11. Len(r) = m - k + 1 BY ONLY <2>10
    <2>12. (Len(r) > 0 <=> 3 * g - 1 <= n) /\ (Len(r) > 1 <=> 3 * g <= n) /\ Len(r) <= 2
      BY ONLY <2>4, <2>11, <2>5, <2>7, k \in Nat, m \in Nat, SMT
    <2>13. byte(3 * g - 1) = IF Len(r) > 0 THEN r[1] ELSE 0
      <3>1. Len(r) > 0 => 1 \in 1 .. m - k + 1 /\ k + 1 - 1 = 3 * g - 1
        BY ONLY <2>4, <2>11, <2>5, <2>7, k \in Nat, m \in Nat, SMT
      <3>2. Len(r) > 0 => r[1] = data[3 * g - 1] BY ONLY <2>10, <3>1, Zenon
      <3>3. QED BY ONLY <1>3, <2>12, <3>2, Zenon
    <2>14. byte(3 * g) = IF Len(r) > 1 THEN r[2] ELSE 0
      <3>1. Len(r) > 1 => 2 \in 1 .. m - k + 1 /\ k + 2 - 1 = 3 * g
        BY ONLY <2>4, <2>11, <2>5, <2>7, k \in Nat, m \in Nat, SMT
      <3>2. Len(r) > 1 => r[2] = data[3 * g] BY ONLY <2>10, <3>1, Zenon
      <3>3. QED BY ONLY <1>3, <2>12, <3>2, Zenon
    <2>15. byte(3 * g - 2) = data[3 * g - 2]
      <3>1. 3 * g - 2 <= n BY ONLY <1>1, <2>1, SMT
      <3>2. QED BY ONLY <1>3, <3>1, Zenon
    <2>16. gs[g] = Group(data[3 * g - 2], r) BY ONLY <1>2, <2>10, g \in 1 .. N, Zenon
    <2>17. PICK d1 \in 0 .. 63, d2 \in 0 .. 63, d3 \in 0 .. 63, d4 \in 0 .. 63 :
             /\ Group(data[3 * g - 2], r) = <<d1, d2, IF Len(r) > 0 THEN d3 ELSE Pad,
                                             IF Len(r) > 1 THEN d4 ELSE Pad>>
             /\ OfDigits(d1, d2, d3, d4)
                  = OfBytes(data[3 * g - 2], byte(3 * g - 1), byte(3 * g))
             /\ ~(Len(r) > 0) => d3 = 0
             /\ ~(Len(r) > 1) => d4 = 0
      <3>1. PICK y, z : y = byte(3 * g - 1) /\ z = byte(3 * g) OBVIOUS
      <3>2. PICK x \in Octets : x = data[3 * g - 2] BY ONLY <2>2, Zenon
      <3>3. /\ y = (IF Len(r) > 0 THEN r[1] ELSE 0)
            /\ z = (IF Len(r) > 1 THEN r[2] ELSE 0)
            /\ Len(r) <= 2
        BY ONLY <2>12, <2>13, <2>14, <3>1, Zenon
      <3>4. Spells(Group(x, r), Len(r) > 0, Len(r) > 1, OfBytes(x, y, z))
        BY ONLY <3>3, x \in Octets, r \in Seq(Octets), GroupOf, Zenon
      <3>5. QED BY ONLY <3>1, <3>2, <3>4, Zenon DEF Spells
    <2>18. QED BY ONLY <2>12, <2>15, <2>16, <2>17, Zenon DEF Spells
  <1>8. gs \in Seq(Seq(S)) /\ Len(gs) = N /\ \A g \in 1 .. Len(gs) : Len(gs[g]) = 4
    <2>1. ASSUME NEW g \in 1 .. N PROVE gs[g] \in Seq(S) /\ Len(gs[g]) = 4
      <3>1. PICK d1 \in 0 .. 63, d2 \in 0 .. 63, d3 \in 0 .. 63, d4 \in 0 .. 63 :
              gs[g] = <<d1, d2, IF 3 * g - 1 <= n THEN d3 ELSE Pad, IF 3 * g <= n THEN d4 ELSE Pad>>
        BY <1>7 DEF Spells
      <3>2. PICK x \in S, y \in S : gs[g] = <<d1, d2, x, y>>
        <4>1. /\ (IF 3 * g - 1 <= n THEN d3 ELSE Pad) \in S
              /\ (IF 3 * g <= n THEN d4 ELSE Pad) \in S
          <5>1. Pad \in S /\ d3 \in S /\ d4 \in S BY DEF Pad
          <5>2. QED BY ONLY <5>1, Zenon
        <4> HIDE DEF S
        <4>2. QED BY ONLY <3>1, <4>1, Zenon
      <3>3. d1 \in S /\ d2 \in S OBVIOUS
      <3> HIDE DEF S
      <3>4. QED BY <3>2, <3>3
    <2>2. gs \in [1 .. N -> Seq(S)] BY <1>2, <2>1
    <2> HIDE DEF S
    <2>3. QED BY <1>1, <2>1, <2>2
  <1> HIDE DEF S
  <1>9. /\ Len(sent) = 4 * N
        /\ \A g \in 1 .. N, j \in 1 .. 4 : sent[4 * (g - 1) + j] = gs[g][j]
    <2>1. /\ Len(FlattenSeq(gs)) = 4 * Len(gs)
          /\ \A g \in 1 .. Len(gs), j \in 1 .. 4 : FlattenSeq(gs)[4 * (g - 1) + j] = gs[g][j]
      BY ONLY <1>8, InFours
    <2>2. QED BY ONLY <1>8, <1>6, <2>1, Zenon
  <1>10. ASSUME NEW g \in 1 .. N
        PROVE  /\ OfDigits(digit(4 * g - 3), digit(4 * g - 2), digit(4 * g - 1), digit(4 * g))
                    = OfBytes(byte(3 * g - 2), byte(3 * g - 1), byte(3 * g))
               /\ \A j \in 1 .. 4 : IF 4 * (g - 1) + j <= D THEN sent[4 * (g - 1) + j] \in 0 .. 63
                                                           ELSE sent[4 * (g - 1) + j] = Pad
    <2>1. PICK d1 \in 0 .. 63, d2 \in 0 .. 63, d3 \in 0 .. 63, d4 \in 0 .. 63 :
            /\ gs[g] = <<d1, d2, IF 3 * g - 1 <= n THEN d3 ELSE Pad,
                         IF 3 * g <= n THEN d4 ELSE Pad>>
            /\ OfDigits(d1, d2, d3, d4)
                 = OfBytes(byte(3 * g - 2), byte(3 * g - 1), byte(3 * g))
            /\ ~(3 * g - 1 <= n) => d3 = 0
            /\ ~(3 * g <= n) => d4 = 0
      BY ONLY <1>7, g \in 1 .. N, Zenon DEF Spells
    <2>2. /\ 4 * (g - 1) + 1 = 4 * g - 3 /\ 4 * (g - 1) + 2 = 4 * g - 2
          /\ 4 * (g - 1) + 3 = 4 * g - 1 /\ 4 * (g - 1) + 4 = 4 * g
      BY <1>1
    <2>3. /\ gs[g][1] = d1 /\ gs[g][2] = d2
          /\ gs[g][3] = IF 3 * g - 1 <= n THEN d3 ELSE Pad
          /\ gs[g][4] = IF 3 * g <= n THEN d4 ELSE Pad
      BY <2>1
    <2>4. /\ sent[4 * g - 3] = d1 /\ sent[4 * g - 2] = d2
          /\ sent[4 * g - 1] = IF 3 * g - 1 <= n THEN d3 ELSE Pad
          /\ sent[4 * g] = IF 3 * g <= n THEN d4 ELSE Pad
      <3>1. \A j \in 1 .. 4 : sent[4 * (g - 1) + j] = gs[g][j] BY <1>9
      <3>2. /\ sent[4 * (g - 1) + 1] = gs[g][1] /\ sent[4 * (g - 1) + 2] = gs[g][2]
            /\ sent[4 * (g - 1) + 3] = gs[g][3] /\ sent[4 * (g - 1) + 4] = gs[g][4]
        BY <3>1
      <3>3. QED BY ONLY <2>2, <2>3, <3>2
    <2>5. /\ digit(4 * g - 3) = d1 /\ digit(4 * g - 2) = d2
          /\ digit(4 * g - 1) = d3 /\ digit(4 * g) = d4
      <3>1. /\ d1 # Pad /\ d2 # Pad /\ d3 # Pad /\ d4 # Pad BY DEF Pad
      <3>2. QED BY ONLY <2>1, <2>4, <3>1, Zenon
    <2>6. /\ 4 * g - 3 <= D /\ 4 * g - 2 <= D
          /\ 4 * g - 1 <= D <=> 3 * g - 1 <= n
          /\ 4 * g <= D <=> 3 * g <= n
      BY <1>1, SMT
    <2>7. \A j \in 1 .. 4 : IF 4 * (g - 1) + j <= D THEN sent[4 * (g - 1) + j] \in 0 .. 63
                                                     ELSE sent[4 * (g - 1) + j] = Pad
      <3> TAKE j \in 1 .. 4
      <3>1. CASE j = 1 BY <2>2, <2>4, <2>6, <3>1
      <3>2. CASE j = 2 BY <2>2, <2>4, <2>6, <3>2
      <3>3. CASE j = 3 BY <2>2, <2>4, <2>6, <3>3
      <3>4. CASE j = 4 BY <2>2, <2>4, <2>6, <3>4
      <3>5. QED BY <3>1, <3>2, <3>3, <3>4
    <2> HIDE DEF digit
    <2>8. QED BY <2>1, <2>5, <2>7, SMT
  <1>11. \A i \in 1 .. Len(sent) : IF i <= D THEN sent[i] \in 0 .. 63 ELSE sent[i] = Pad
    <2> TAKE i \in 1 .. Len(sent)
    <2>1. PICK g \in 1 .. N, j \in 1 .. 4 : i = 4 * (g - 1) + j
      <3>1. i \in 1 .. 4 * N BY <1>9
      <3>2. (i + 3) \div 4 \in 1 .. N /\ i - 4 * ((i + 3) \div 4 - 1) \in 1 .. 4
        BY <1>1, <3>1
      <3>3. i = 4 * ((i + 3) \div 4 - 1) + (i - 4 * ((i + 3) \div 4 - 1)) BY <3>1
      <3>4. QED BY <3>2, <3>3
    <2>2. QED BY <1>10, <2>1
  <1>12. QED BY <1>9, <1>10, <1>11, Zenon DEF IsBase64, n, N, D, sent, byte

-----------------------------------------------------------------------------
(* The upgrade request: the URL.                                           *)

\* find() is the first place, wherever that is known.
LEMMA FindIs ==
  ASSUME NEW s, Len(s) \in Nat, NEW c
  PROVE  /\ (\A i \in 1 .. Len(s) : s[i] # c) => Find(s, c) = 0
         /\ \A k \in 1 .. Len(s) :
              s[k] = c /\ (\A i \in 1 .. k - 1 : s[i] # c) => Find(s, c) = k
  <1> DEFINE I == {i \in 1 .. Len(s) : s[i] = c}
  <1>1. Find(s, c) = IF I # {} THEN Min(I) ELSE 0 BY DEF Find, SelectInSeq
  <1>2. ASSUME NEW k \in 1 .. Len(s), s[k] = c, \A i \in 1 .. k - 1 : s[i] # c
        PROVE  Find(s, c) = k
    <2>1. k \in I /\ \A i \in I : k <= i BY <1>2
    <2>2. I \in SUBSET Nat OBVIOUS
    <2> HIDE DEF I
    <2>3. Min(I) \in I /\ \A i \in I : Min(I) <= i BY <2>1 DEF Min
    <2>4. k \in Nat /\ Min(I) \in Nat /\ k <= Min(I) /\ Min(I) <= k BY <2>1, <2>2, <2>3
    <2>5. QED BY <1>1, <2>1, <2>4
  <1>3. QED BY <1>1, <1>2

\* rfind() is the last place, wherever that is known.
LEMMA RFindIs ==
  ASSUME NEW s, Len(s) \in Nat, NEW c
  PROVE  /\ (\A i \in 1 .. Len(s) : s[i] # c) => RFind(s, c) = 0
         /\ \A k \in 1 .. Len(s) :
              s[k] = c /\ (\A i \in k + 1 .. Len(s) : s[i] # c) => RFind(s, c) = k
  <1> DEFINE I == {i \in 1 .. Len(s) : s[i] = c}
  <1>1. RFind(s, c) = IF I # {} THEN Max(I) ELSE 0 BY DEF RFind, SelectLastInSeq
  <1>2. ASSUME NEW k \in 1 .. Len(s), s[k] = c, \A i \in k + 1 .. Len(s) : s[i] # c
        PROVE  RFind(s, c) = k
    <2>1. k \in I /\ \A i \in I : k >= i BY <1>2
    <2>2. I \in SUBSET Nat OBVIOUS
    <2> HIDE DEF I
    <2>3. Max(I) \in I /\ \A i \in I : Max(I) >= i BY <2>1 DEF Max
    <2>4. k \in Nat /\ Max(I) \in Nat /\ k <= Max(I) /\ Max(I) <= k BY <2>1, <2>2, <2>3
    <2>5. QED BY <1>1, <2>1, <2>4
  <1>3. QED BY <1>1, <1>2

\* What stoi() returns is the number that leads the text.
LEMMA StoiLeads ==
  ASSUME NEW S, NEW s \in Seq(S), Stoi(s) # Throws
  PROVE  Leads10(Stoi(s), s)
  <1> DEFINE I == {i \in 1 .. Len(s) : s[i] \notin DOMAIN DigitValue}
             end == FirstNonDigit(s)
             digits == IF end = 0 THEN s ELSE SubSeq(s, 1, end - 1)
  <1>1. end = IF I # {} THEN Min(I) ELSE 0 BY DEF FirstNonDigit, SelectInSeq
  <1>2. I # {} => Min(I) \in I /\ \A i \in I : Min(I) <= i
    <2>1. I \in SUBSET Nat OBVIOUS
    <2>2. QED BY <2>1, Least DEF Min
  <1>3. digits # <<>> /\ Stoi(s) = Decimal(digits)
    BY Zenon DEF Stoi
  <1> HIDE DEF end
  <1>4. CASE I = {}
    <2>1. end = 0 /\ digits = s BY <1>1, <1>4
    <2>2. Len(s) \in DOMAIN s /\ SubSeq(s, 1, Len(s)) = s BY <1>3, <2>1
    <2>3. \A i \in 1 .. Len(s) : s[i] \in DOMAIN DigitValue BY <1>4
    <2>4. ~(Len(s) < Len(s)) OBVIOUS
    <2> HIDE DEF I
    <2>5. Stoi(s) = Decimal(SubSeq(s, 1, Len(s))) BY <1>3, <2>1, <2>2
    <2>6. QED BY ONLY <2>2, <2>3, <2>4, <2>5, Zenon DEF Leads10
  <1>5. CASE I # {}
    <2>1. /\ end \in 1 .. Len(s) /\ s[end] \notin DOMAIN DigitValue
          /\ \A i \in I : end <= i
      BY <1>1, <1>2, <1>5
    <2>2. PICK k \in Nat : k = end - 1 /\ end = k + 1 BY <2>1
    <2>3. digits = SubSeq(s, 1, k) BY <2>1, <2>2
    <2>4. k # 0
      <3>1. k = 0 => SubSeq(s, 1, k) = <<>> OBVIOUS
      <3>2. QED BY <1>3, <2>3, <3>1
    <2>5. k \in DOMAIN s BY <2>1, <2>2, <2>4
    <2>6. \A i \in 1 .. k : s[i] \in DOMAIN DigitValue BY <2>1, <2>2
    <2>7. s[k + 1] \notin DOMAIN DigitValue BY <2>1, <2>2
    <2>8. Stoi(s) = Decimal(SubSeq(s, 1, k)) BY ONLY <1>3, <2>3
    <2>9. QED BY ONLY <2>5, <2>6, <2>7, <2>8, Zenon DEF Leads10
  <1>6. QED BY <1>4, <1>5

\* The local variables of parseWsUrl(), and what it returns when it accepts.
Locals(u, p, s, slash, hp) ==
  /\ p = parseWsUrl(u) /\ p # Invalid /\ s = Tail(u) /\ slash = Find(s, "/")
  /\ hp = HostAndPort(IF slash = 0 THEN s ELSE SubSeq(s, 1, slash - 1))
LEMMA Accepts ==
  ASSUME NEW u, NEW p, NEW s, NEW slash, NEW hp, Locals(u, p, s, slash, hp)
  PROVE  /\ u # <<>> /\ Head(u) \in SecureSchemes \cup PlainSchemes
         /\ p.host = hp[1] /\ p.host # <<>>
         /\ p.port = (IF Len(hp) = 2 THEN Stoi(hp[2])
                      ELSE IF Head(u) \in SecureSchemes THEN 443 ELSE 80)
         /\ p.port # Throws
         /\ p.path = (IF slash = 0 THEN <<"/">> ELSE SubSeq(s, slash, Len(s)))
         /\ p.secure = (Head(u) \in SecureSchemes)
  <1>1. PICK port : port = IF Len(hp) = 2 THEN Stoi(hp[2])
                           ELSE IF Head(u) \in SecureSchemes THEN 443 ELSE 80
    OBVIOUS
  <1>2. PICK path : path = IF slash = 0 THEN <<"/">> ELSE SubSeq(s, slash, Len(s)) OBVIOUS
  <1>3. PICK parsed : parsed = [host |-> hp[1], port |-> port, path |-> path,
                                secure |-> Head(u) \in SecureSchemes]
    OBVIOUS
  <1>4. p = IF \/ u = <<>> \/ Head(u) \notin SecureSchemes \cup PlainSchemes
               \/ parsed.port = Throws \/ parsed.host = <<>>
            THEN Invalid ELSE parsed
    BY <1>1, <1>2, <1>3, Zenon DEF parseWsUrl, Locals
  <1>5. /\ u # <<>> /\ Head(u) \in SecureSchemes \cup PlainSchemes
        /\ parsed.port # Throws /\ parsed.host # <<>> /\ p = parsed
    BY ONLY <1>4, Locals(u, p, s, slash, hp), Zenon DEF Locals
  <1>6. /\ parsed.host = hp[1] /\ parsed.port = port /\ parsed.path = path
        /\ parsed.secure = (Head(u) \in SecureSchemes)
    BY ONLY <1>3
  <1>7. QED BY ONLY <1>1, <1>2, <1>5, <1>6, Zenon

LEMMA Distinct ==
  /\ ":" # "/" /\ ":" # "]" /\ "]" # "/"
  /\ \A c : c \notin Separators => c # "/" /\ c # ":" /\ c # "]"
  BY DEF Separators

\* HostAndPort() takes apart what is a host and a port.
Joins(S, both, host, port) ==
  /\ both \in Seq(S) /\ host \in Seq(S) /\ port \in Seq(S)
  /\ Len(both) = Len(host) + Len(port)
  /\ \A k \in 1 .. Len(host) : both[k] = host[k]
  /\ \A k \in 1 .. Len(port) : both[Len(host) + k] = port[k]
LEMMA TakenApart ==
  ASSUME NEW S, NEW both, NEW host, NEW port, Joins(S, both, host, port),
         IsHost(host), IsPort(port, host)
  PROVE  IF port = <<>> THEN HostAndPort(both) = <<host>>
                        ELSE HostAndPort(both) = <<host, SubSeq(port, 2, Len(port))>>
  <1>1. /\ both \in Seq(S) /\ host \in Seq(S) /\ port \in Seq(S)
        /\ Len(both) = Len(host) + Len(port)
        /\ \A k \in 1 .. Len(host) : both[k] = host[k]
        /\ \A k \in 1 .. Len(port) : both[Len(host) + k] = port[k]
    BY DEF Joins
  <1> USE <1>1
  <1>2. PICK h \in Nat, q \in Nat : h = Len(host) /\ q = Len(port) OBVIOUS
  <1>3. h # 0 /\ host # <<>> BY <1>2 DEF IsHost
  <1>4. Len(both) = h + q /\ Len(both) \in Nat BY <1>2
  <1>5. CASE port = <<>>
    <2>1. both = host
      <3>1. q = 0 /\ Len(both) = Len(host) BY <1>2, <1>4, <1>5
      <3>2. QED BY <1>2, <3>1, SeqEqual
    <2>2. CASE \A k \in DOMAIN host : host[k] \notin Separators
      <3>1. \A k \in 1 .. Len(both) : both[k] # ":" BY <1>2, <2>1, <2>2, Distinct
      <3>2. RFind(both, ":") = 0 BY <1>4, <3>1, RFindIs
      <3>3. QED BY <1>5, <2>1, <3>2 DEF HostAndPort
    <2>3. CASE host[Len(host)] = "]"
      <3>1. Contains(both, "]") BY <1>2, <1>3, <2>1, <2>3 DEF Contains
      <3>2. QED BY <1>5, <2>1, <3>1 DEF HostAndPort
    <2>4. QED BY <2>2, <2>3 DEF IsHost
  <1>6. CASE port # <<>>
    <2>1. /\ port[1] = ":" /\ \A k \in 2 .. q : port[k] \notin Separators
          /\ \A k \in 1 .. h : host[k] # "]"
      <3>1. DOMAIN host = 1 .. h /\ q = Len(port) BY <1>2
      <3>2. QED BY ONLY <1>6, <3>1, IsPort(port, host), Zenon DEF IsPort
    <2>2. q # 0 BY <1>2, <1>6
    <2>3. both[h + 1] = ":" /\ h + 1 \in 1 .. Len(both) BY <1>2, <1>4, <2>1, <2>2
    <2>4. \A k \in h + 2 .. h + q : both[k] \notin Separators
      <3> TAKE k \in h + 2 .. h + q
      <3>1. k - h \in 2 .. q /\ k = h + (k - h) BY <1>2
      <3>2. PICK m \in 2 .. q : k = h + m BY ONLY <3>1, Zenon
      <3>3. m \in 1 .. q BY <1>2
      <3>4. QED BY <1>2, <2>1, <3>2, <3>3
    <2>5. RFind(both, ":") = h + 1
      <3>1. \A k \in h + 1 + 1 .. Len(both) : both[k] # ":" BY <1>4, <2>4, Distinct
      <3>2. QED BY <1>4, <2>3, <3>1, RFindIs
    <2>6. ~Contains(both, "]")
      <3>1. ASSUME NEW k \in 1 .. Len(both) PROVE both[k] # "]"
        <4>1. CASE k <= h BY <1>2, <2>1, <4>1
        <4>2. CASE k = h + 1 BY <2>3, <4>2, Distinct
        <4>3. CASE k > h + 1
          <5>1. k \in h + 2 .. h + q BY <1>4, <4>3
          <5>2. QED BY <2>4, <5>1, Distinct
        <4>4. QED BY <1>2, <4>1, <4>2, <4>3
      <3>2. QED BY <3>1 DEF Contains
    <2>7. HostAndPort(both) = <<SubSeq(both, 1, h), SubSeq(both, h + 2, h + q)>>
      <3>1. HostAndPort(both) = <<SubSeq(both, 1, h + 1 - 1), SubSeq(both, h + 1 + 1, Len(both))>>
        <4>1. PICK c : c = h + 1 OBVIOUS
        <4>2. RFind(both, ":") = c /\ c # 0 BY <1>2, <2>5, <4>1
        <4>3. HostAndPort(both) = <<SubSeq(both, 1, c - 1), SubSeq(both, c + 1, Len(both))>>
          BY ONLY <2>6, <4>2 DEF HostAndPort
        <4>4. QED BY ONLY <4>1, <4>3
      <3>2. h + 1 - 1 = h /\ h + 1 + 1 = h + 2 BY <1>2
      <3>3. QED BY ONLY <1>4, <3>1, <3>2
    <2>8. SubSeq(both, 1, h) = host
      <3>1. /\ SubSeq(both, 1, h) \in Seq(S) /\ Len(SubSeq(both, 1, h)) = h
            /\ \A k \in 1 .. h : SubSeq(both, 1, h)[k] = both[k]
        BY <1>2, <1>4
      <3>2. QED BY <1>2, <3>1, SeqEqual
    <2>9. SubSeq(both, h + 2, h + q) = SubSeq(port, 2, q)
      <3>1. PICK o \in Nat : o = h + 1 BY <1>2
      <3>2. PICK m \in Nat : m = h + q BY <1>2
      <3>3. /\ o + 1 = h + 2 /\ m - o = q - 1 /\ o <= m /\ m <= Len(both)
            /\ 1 + 1 = 2 /\ 1 <= q /\ q <= Len(port)
        BY <1>2, <1>4, <2>2, <3>1, <3>2
      <3>4. /\ SubSeq(both, o + 1, m) \in Seq(S) /\ Len(SubSeq(both, o + 1, m)) = m - o
            /\ \A k \in 1 .. m - o : SubSeq(both, o + 1, m)[k] = both[o + k]
        BY <3>3, SliceAfter
      <3>5. PICK a : a = SubSeq(both, o + 1, m) OBVIOUS
      <3>6. a \in Seq(S) /\ Len(a) = q - 1 /\ \A k \in 1 .. q - 1 : a[k] = both[o + k]
        BY ONLY <3>3, <3>4, <3>5
      <3>7. /\ SubSeq(port, 1 + 1, q) \in Seq(S) /\ Len(SubSeq(port, 1 + 1, q)) = q - 1
            /\ \A k \in 1 .. q - 1 : SubSeq(port, 1 + 1, q)[k] = port[1 + k]
        BY <3>3, 1 \in Nat, SliceAfter
      <3>8. PICK b : b = SubSeq(port, 1 + 1, q) OBVIOUS
      <3>9. b \in Seq(S) /\ Len(b) = q - 1 /\ \A k \in 1 .. q - 1 : b[k] = port[1 + k]
        BY ONLY <3>7, <3>8
      <3>10. \A k \in 1 .. q - 1 : a[k] = b[k]
        <4> TAKE k \in 1 .. q - 1
        <4>1. PICK n \in 1 .. q : n = 1 + k /\ o + k = h + n BY <1>2, <3>1
        <4>2. QED BY <1>2, <3>6, <3>9, <4>1
      <3>11. a = b BY <1>2, <3>6, <3>9, <3>10, SeqEqual
      <3>12. QED BY <3>2, <3>3, <3>5, <3>8, <3>11
    <2>10. QED BY <1>2, <1>6, <2>7, <2>8, <2>9
  <1>7. QED BY <1>5, <1>6

\* What a URL is cut into, where parseWsUrl() accepts it.
Cut(u, p, i, j, host, port, path) ==
  /\ IsUrl(u) /\ p = parseWsUrl(u) /\ p # Invalid
  /\ i \in 1 .. Len(u) /\ j \in 1 .. Len(u) /\ i <= j
  /\ host = SubSeq(u, 2, i) /\ port = SubSeq(u, i + 1, j) /\ path = SubSeq(u, j + 1, Len(u))
  /\ IsHost(host) /\ IsPort(port, host) /\ IsPath(path)
LEMMA UrlParts ==
  ASSUME NEW u, NEW p, NEW i, NEW j, NEW host, NEW port, NEW path,
         Cut(u, p, i, j, host, port, path)
  PROVE  /\ p.host = host
         /\ IF port = <<>> THEN p.port = (IF p.secure THEN 443 ELSE 80)
                           ELSE Leads10(p.port, SubSeq(port, 2, Len(port)))
         /\ p.path = IF path = <<>> THEN <<"/">> ELSE path
  <1>1. /\ i \in 1 .. Len(u) /\ j \in 1 .. Len(u) /\ i <= j
        /\ host = SubSeq(u, 2, i) /\ port = SubSeq(u, i + 1, j) /\ path = SubSeq(u, j + 1, Len(u))
        /\ IsHost(host) /\ IsPort(port, host) /\ IsPath(path)
        /\ IsUrl(u) /\ p = parseWsUrl(u) /\ p # Invalid
    BY DEF Cut
  <1> USE <1>1
  <1>2. PICK S : u \in Seq(S) BY DEF IsUrl
  <1>3. PICK h \in Nat, q \in Nat, e \in Nat, n \in Nat :
          /\ h = i - 1 /\ q = j - i /\ e = j - 1 /\ n = Len(u) - 1
    <2>1. i - 1 \in Nat /\ j - i \in Nat /\ j - 1 \in Nat /\ Len(u) - 1 \in Nat BY <1>2
    <2>2. QED BY <2>1, Zenon
  <1>4. e = h + q /\ e <= n BY <1>2, <1>3
  <1>5. PICK s \in Seq(S) : s = Tail(u) /\ Len(s) = n /\ \A k \in 1 .. n : s[k] = u[k + 1]
    <2>1. u # <<>> BY <1>2
    <2>2. Tail(u) \in Seq(S) /\ Len(Tail(u)) = n /\ \A k \in 1 .. n : Tail(u)[k] = u[k + 1]
      BY <1>2, <1>3, <2>1
    <2>3. QED BY <2>2
  <1>6. host \in Seq(S) /\ Len(host) = h /\ \A k \in 1 .. h : host[k] = s[k]
    <2>1. /\ SubSeq(u, 1 + 1, i) \in Seq(S) /\ Len(SubSeq(u, 1 + 1, i)) = i - 1
          /\ \A k \in 1 .. i - 1 : SubSeq(u, 1 + 1, i)[k] = u[1 + k]
      BY <1>2, SliceAfter
    <2>2. host = SubSeq(u, 1 + 1, i) OBVIOUS
    <2>3. \A k \in 1 .. h : host[k] = u[1 + k] BY <1>3, <2>1, <2>2
    <2>4. \A k \in 1 .. h : 1 + k = k + 1 /\ k \in 1 .. n BY <1>3, <1>4
    <2>5. QED BY ONLY <1>3, <1>5, <2>1, <2>2, <2>3, <2>4
  <1>7. port \in Seq(S) /\ Len(port) = q /\ \A k \in 1 .. q : port[k] = s[h + k]
    <2>1. /\ SubSeq(u, i + 1, j) \in Seq(S) /\ Len(SubSeq(u, i + 1, j)) = j - i
          /\ \A k \in 1 .. j - i : SubSeq(u, i + 1, j)[k] = u[i + k]
      BY <1>2, SliceAfter
    <2>2. \A k \in 1 .. q : i + k = h + k + 1 /\ h + k \in 1 .. n BY <1>3, <1>4
    <2>3. QED BY ONLY <1>3, <1>5, <2>1, <2>2, port = SubSeq(u, i + 1, j)
  <1>8. path \in Seq(S) /\ Len(path) = n - e /\ \A k \in 1 .. n - e : path[k] = s[e + k]
    <2>1. /\ SubSeq(u, j + 1, Len(u)) \in Seq(S) /\ Len(SubSeq(u, j + 1, Len(u))) = Len(u) - j
          /\ \A k \in 1 .. Len(u) - j : SubSeq(u, j + 1, Len(u))[k] = u[j + k]
      <3>1. j \in Nat /\ Len(u) \in Nat /\ j <= Len(u) /\ Len(u) <= Len(u) BY <1>2
      <3>2. QED BY ONLY <1>2, <3>1, SliceAfter
    <2>2. Len(u) - j = n - e BY <1>2, <1>3
    <2>3. \A k \in 1 .. n - e : j + k = e + k + 1 /\ e + k \in 1 .. n BY <1>3, <1>4
    <2>4. QED BY ONLY <1>5, <2>1, <2>2, <2>3, path = SubSeq(u, j + 1, Len(u))
  <1>9. PICK slash : slash = Find(s, "/") OBVIOUS
  <1>10. PICK both : both = IF slash = 0 THEN s ELSE SubSeq(s, 1, slash - 1) OBVIOUS
  <1>11. PICK hp : hp = HostAndPort(both) OBVIOUS
  <1>12. /\ p.host = hp[1] /\ p.port # Throws
        /\ p.port = (IF Len(hp) = 2 THEN Stoi(hp[2])
                     ELSE IF Head(u) \in SecureSchemes THEN 443 ELSE 80)
        /\ p.path = (IF slash = 0 THEN <<"/">> ELSE SubSeq(s, slash, Len(s)))
        /\ p.secure = (Head(u) \in SecureSchemes)
    <2>1. hp = HostAndPort(IF slash = 0 THEN s ELSE SubSeq(s, 1, slash - 1))
      BY ONLY <1>10, <1>11
    <2>2. s = Tail(u) BY ONLY <1>5
    <2>3. Locals(u, p, s, slash, hp)
      BY ONLY <1>9, <2>1, <2>2, p = parseWsUrl(u), p # Invalid, Zenon DEF Locals
    <2>4. QED BY ONLY <2>3, Accepts, SMT
  <1>13. \A k \in 1 .. e : s[k] # "/"
    <2> TAKE k \in 1 .. e
    <2>1. CASE k <= h
      <3>1. k \in DOMAIN host /\ host[k] = s[k] BY <1>4, <1>6, <2>1
      <3>2. QED BY ONLY <3>1, IsHost(host), Distinct, Zenon DEF IsHost
    <2>2. CASE k > h
      <3>1. PICK m \in 1 .. q : k = h + m
        <4>1. k - h \in 1 .. q /\ k = h + (k - h) BY <1>4, <2>2
        <4>2. QED BY ONLY <4>1, Zenon
      <3>2. port # <<>> /\ s[k] = port[m]
        <4>1. s[k] = port[m] BY ONLY <1>7, <3>1, m \in 1 .. q
        <4>2. Len(port) # 0 BY <1>7
        <4>3. QED BY <4>1, <4>2
      <3>3. m = 1 \/ m \in 2 .. Len(port) BY <1>7
      <3>4. port[m] = ":" \/ port[m] \notin Separators BY ONLY <3>2, <3>3, IsPort(port, host) DEF IsPort
      <3>5. QED BY <3>2, <3>4, Distinct
    <2>3. QED BY <2>1, <2>2
  <1>14. /\ p.path = IF path = <<>> THEN <<"/">> ELSE path
         /\ both \in Seq(S) /\ Len(both) = e /\ \A k \in 1 .. e : both[k] = s[k]
    <2>1. p.path = IF slash = 0 THEN <<"/">> ELSE SubSeq(s, slash, Len(s)) BY ONLY <1>12
    <2>2. CASE path = <<>>
      <3>1. e = n
        <4>1. n - e = 0 BY <1>8, <2>2
        <4>2. QED BY ONLY <4>1, n \in Nat, e \in Nat
      <3>2. slash = 0 BY <1>5, <1>9, <1>13, <3>1, FindIs
      <3>3. QED BY <1>5, <1>10, <2>1, <2>2, <3>1, <3>2
    <2>3. CASE path # <<>>
      <3>1. e + 1 \in 1 .. n /\ s[e + 1] = "/" BY <1>4, <1>8, <2>3 DEF IsPath
      <3>2. slash = e + 1
        <4>1. \A k \in 1 .. e + 1 - 1 : s[k] # "/" BY <1>13
        <4>2. Len(s) \in Nat /\ e + 1 \in 1 .. Len(s) BY <1>5, <3>1
        <4>3. \A k \in 1 .. Len(s) :
                s[k] = "/" /\ (\A m \in 1 .. k - 1 : s[m] # "/") => Find(s, "/") = k
          BY ONLY <4>2, FindIs
        <4>4. PICK k : k = e + 1 OBVIOUS
        <4>5. /\ k \in 1 .. Len(s) /\ s[k] = "/" /\ \A m \in 1 .. k - 1 : s[m] # "/"
          BY ONLY <3>1, <4>1, <4>2, <4>4
        <4>6. Find(s, "/") = k BY ONLY <4>3, <4>5, Zenon
        <4>7. QED BY ONLY <1>9, <4>4, <4>6
      <3>3. slash # 0 /\ slash - 1 = e BY <3>2
      <3>4. both = SubSeq(s, 1, e) BY ONLY <1>10, <3>3
      <3>5. both \in Seq(S) /\ Len(both) = e /\ \A k \in 1 .. e : both[k] = s[k]
        <4>1. e <= Len(s) BY <1>4, <1>5
        <4>2. /\ SubSeq(s, 1, e) \in Seq(S) /\ Len(SubSeq(s, 1, e)) = e
              /\ \A k \in 1 .. e : SubSeq(s, 1, e)[k] = s[k]
          BY ONLY <4>1, s \in Seq(S), e \in Nat
        <4>3. QED BY ONLY <3>4, <4>2
      <3>6. SubSeq(s, e + 1, n) = path
        <4>1. /\ SubSeq(s, e + 1, n) \in Seq(S) /\ Len(SubSeq(s, e + 1, n)) = n - e
              /\ \A k \in 1 .. n - e : SubSeq(s, e + 1, n)[k] = s[e + k]
          BY <1>4, <1>5, SliceAfter
        <4>2. PICK t \in Seq(S) : /\ t = SubSeq(s, e + 1, n) /\ Len(t) = n - e
                                  /\ \A k \in 1 .. n - e : t[k] = s[e + k]
          BY ONLY <4>1
        <4>3. t = path BY <1>8, <4>2, SeqEqual
        <4>4. QED BY <4>2, <4>3
      <3>7. p.path = path BY <1>5, <2>1, <3>2, <3>3, <3>6
      <3>8. QED BY <2>3, <3>5, <3>7
    <2>4. QED BY <2>2, <2>3
  <1>15. /\ both \in Seq(S) /\ Len(both) = e /\ \A k \in 1 .. e : both[k] = s[k]
    BY ONLY <1>14
  <1>16. IF port = <<>> THEN hp = <<host>> ELSE hp = <<host, SubSeq(port, 2, Len(port))>>
    <2>1. Len(both) = Len(host) + Len(port) BY ONLY <1>4, <1>6, <1>7, <1>15
    <2>2. \A k \in 1 .. Len(host) : both[k] = host[k]
      <3> TAKE k \in 1 .. Len(host)
      <3>1. k \in 1 .. h /\ k \in 1 .. e BY <1>4, <1>6
      <3>2. QED BY ONLY <1>6, <1>15, <3>1
    <2>3. \A k \in 1 .. Len(port) : both[Len(host) + k] = port[k]
      <3> TAKE k \in 1 .. Len(port)
      <3>1. k \in 1 .. q /\ h + k \in 1 .. e
        <4>1. k \in 1 .. q BY <1>7
        <4>2. QED BY ONLY <1>4, <4>1, h \in Nat, q \in Nat
      <3>2. QED BY ONLY <1>6, <1>7, <1>15, <3>1
    <2>4. host \in Seq(S) /\ port \in Seq(S) /\ both \in Seq(S) BY ONLY <1>6, <1>7, <1>15
    <2>5. Joins(S, both, host, port) BY ONLY <2>1, <2>2, <2>3, <2>4, Zenon DEF Joins
    <2>6. QED BY ONLY <1>11, <2>5, IsHost(host), IsPort(port, host), TakenApart, Zenon
  <1>17. CASE port = <<>>
    <2>1. hp = <<host>> BY <1>16, <1>17
    <2>2. hp[1] = host /\ Len(hp) # 2 BY <2>1
    <2>3. QED BY <1>14, <1>12, <1>17, <2>2, Zenon
  <1>18. CASE port # <<>>
    <2>1. PICK rest : rest = SubSeq(port, 2, Len(port)) OBVIOUS
    <2>2. hp = <<host, rest>> BY <1>16, <1>18, <2>1
    <2>3. hp[1] = host /\ Len(hp) = 2 /\ hp[2] = rest BY <2>2
    <2>4. p.port = Stoi(rest) /\ Stoi(rest) # Throws BY ONLY <1>12, <2>3, Zenon
    <2>5. rest \in Seq(S) BY <1>7, <2>1
    <2>6. Leads10(p.port, rest) BY <2>4, <2>5, StoiLeads
    <2>7. QED BY <1>14, <1>12, <1>18, <2>1, <2>3, <2>6, Zenon
  <1>19. QED BY <1>17, <1>18

-----------------------------------------------------------------------------
\* Every step keeps the request what open() made of one of the URLs.
LEMMA RequestStep == RequestInv /\ [Next]_vars => RequestInv'
  <1> SUFFICES ASSUME RequestInv, [Next]_vars PROVE RequestInv' OBVIOUS
  <1>1. ASSUME UNCHANGED <<url, request>> PROVE RequestInv' BY <1>1 DEF RequestInv
  <1>2. CASE \E w \in Writers : WritePart(w) \/ WriteFails(w)
    BY <1>1, <1>2 DEF WritePart, WriteFails, upgrade
  <1>3. CASE \E s \in Senders : Send(s) BY <1>1, <1>3 DEF Send, upgrade
  <1>4. CASE \E u \in Urls, key \in Keys : Open(u, key)
    <2>1. PICK u \in Urls, key \in Keys : Open(u, key) BY <1>4
    <2>2. /\ url' = u /\ parseWsUrl(u) # Invalid
          /\ request' = upgradeRequest(parseWsUrl(u), key)
      BY <2>1 DEF Open
    <2>3. QED BY ONLY <2>2, u \in Urls, key \in Keys, Zenon DEF RequestInv
  <1>5. CASE WriteRequest \/ UpgradeFails
    <2>1. request' = Invalid BY <1>5 DEF WriteRequest, UpgradeFails
    <2>2. QED BY <2>1 DEF RequestInv
  <1>6. CASE ReadResponse \/ Upgraded BY <1>1, <1>6 DEF ReadResponse, Upgraded
  <1>7. CASE Close \/ StopWorker \/ JoinAndFree
    BY <1>1, <1>7 DEF Close, StopWorker, JoinAndFree, upgrade
  <1>8. CASE PeerSends \/ Recv \/ WorkerEnds \/ Dispatch \/ PongWritten \/ NeedsMore
    BY <1>1, <1>8 DEF PeerSends, Recv, WorkerEnds, Dispatch, PongWritten, NeedsMore, upgrade
  <1>9. CASE UNCHANGED vars BY <1>1, <1>9 DEF vars, upgrade
  <1>10. QED BY <1>2, <1>3, <1>4, <1>5, <1>6, <1>7, <1>8, <1>9 DEF Next

\* What is in the parts of a request.
LEMMA RequestParts ==
  ASSUME NEW p, NEW key
  PROVE  /\ upgradeRequest(p, key).host = p.host /\ upgradeRequest(p, key).port = p.port
         /\ upgradeRequest(p, key).path = p.path /\ upgradeRequest(p, key).secure = p.secure
         /\ upgradeRequest(p, key).key = base64Encode(key)
  BY DEF upgradeRequest

\* The request is made of one of the URLs and one of the nonces.
THEOREM RequestInvariance == Spec => []RequestInv
  <1>1. Init => RequestInv BY DEF Init, RequestInv
  <1>2. RequestInv /\ [Next]_vars => RequestInv' BY RequestStep
  <1>3. QED BY <1>1, <1>2, PTL DEF Spec

\* A request names the host, the port and the path of the URL, for every URL
\* that is made of the tokens of IsUrl; a URL that lacks one makes no request.
THEOREM UrlsAreFollowed == Spec => []RequestIsForUrl
  <1>1. RequestInv => RequestIsForUrl
    <2> SUFFICES ASSUME RequestInv, request # Invalid PROVE RequestIsForUrl
      BY DEF RequestIsForUrl
    <2>1. PICK key \in Keys :
            /\ url \in Urls /\ parseWsUrl(url) # Invalid
            /\ request = upgradeRequest(parseWsUrl(url), key)
      BY Zenon DEF RequestInv
    <2>2. PICK p : p = parseWsUrl(url) OBVIOUS
    <2>3. /\ request.host = p.host /\ request.port = p.port
          /\ request.path = p.path /\ request.secure = p.secure
      BY ONLY <2>1, <2>2, RequestParts, Zenon
    <2>4. IsUrl(url) BY <2>1, TunnelAssumption
    <2>5. /\ url # <<>> /\ Head(url) \in SecureSchemes \cup PlainSchemes
          /\ p.host # <<>> /\ p.secure = (Head(url) \in SecureSchemes)
      <3>1. PICK s : s = Tail(url) OBVIOUS
      <3>2. PICK slash : slash = Find(s, "/") OBVIOUS
      <3>3. PICK hp : hp = HostAndPort(IF slash = 0 THEN s ELSE SubSeq(s, 1, slash - 1)) OBVIOUS
      <3>4. p # Invalid BY ONLY <2>1, <2>2
      <3>5. Locals(url, p, s, slash, hp) BY ONLY <2>2, <3>1, <3>2, <3>3, <3>4, Zenon DEF Locals
      <3>6. QED BY ONLY <3>5, Accepts, Zenon
    <2>6. Head(url) = url[1] BY <2>4, <2>5 DEF IsUrl
    <2>7. \A i, j \in 1 .. Len(url) : i <= j =>
            LET host == SubSeq(url, 2, i)
                port == SubSeq(url, i + 1, j)
                path == SubSeq(url, j + 1, Len(url))
            IN IsHost(host) /\ IsPort(port, host) /\ IsPath(path) =>
                 /\ request.host = host
                 /\ IF port = <<>> THEN request.port = (IF request.secure THEN 443 ELSE 80)
                                   ELSE Leads10(request.port, SubSeq(port, 2, Len(port)))
                 /\ request.path = IF path = <<>> THEN <<"/">> ELSE path
      <3> TAKE i, j \in 1 .. Len(url)
      <3>1. PICK host : host = SubSeq(url, 2, i) OBVIOUS
      <3>2. PICK port : port = SubSeq(url, i + 1, j) OBVIOUS
      <3>3. PICK path : path = SubSeq(url, j + 1, Len(url)) OBVIOUS
      <3>4. ASSUME i <= j, IsHost(host), IsPort(port, host), IsPath(path)
            PROVE  /\ p.host = host
                   /\ IF port = <<>> THEN p.port = (IF p.secure THEN 443 ELSE 80)
                                     ELSE Leads10(p.port, SubSeq(port, 2, Len(port)))
                   /\ p.path = IF path = <<>> THEN <<"/">> ELSE path
        <4>1. p # Invalid BY ONLY <2>1, <2>2
        <4>2. Cut(url, p, i, j, host, port, path)
          BY ONLY <2>2, <2>4, <3>1, <3>2, <3>3, <3>4, <4>1,
                  i \in 1 .. Len(url), j \in 1 .. Len(url), Zenon DEF Cut
        <4>3. QED BY ONLY <4>2, UrlParts, SMT
      <3>5. QED BY ONLY <2>3, <3>1, <3>2, <3>3, <3>4, Zenon
    <2>8. /\ url # <<>> /\ url[1] \in SecureSchemes \cup PlainSchemes
          /\ request.secure = (url[1] \in SecureSchemes) /\ request.host # <<>>
      BY ONLY <2>3, <2>5, <2>6
    <2>9. QED BY ONLY <2>7, <2>8, Zenon DEF RequestIsForUrl
  <1>2. QED BY <1>1, RequestInvariance, PTL

\* Sec-WebSocket-Key is base64 of sixteen bytes, or of any other number of them.
THEOREM KeysAreBase64 == Spec => []KeyIsBase64
  <1>1. RequestInv => KeyIsBase64
    <2> SUFFICES ASSUME RequestInv, request # Invalid PROVE KeyIsBase64 BY DEF KeyIsBase64
    <2>1. PICK key \in Keys : request = upgradeRequest(parseWsUrl(url), key)
      BY Zenon DEF RequestInv
    <2>2. request.key = base64Encode(key) BY ONLY <2>1, RequestParts, Zenon
    <2>3. key \in Seq(Octets) BY TunnelAssumption DEF Octets
    <2>4. IsBase64(base64Encode(key), key) BY ONLY <2>3, Encoded, Zenon
    <2>5. QED BY <2>2, <2>4, Zenon DEF KeyIsBase64
  <1>2. QED BY <1>1, RequestInvariance, PTL
=============================================================================
