------------------------- MODULE WebSocketTunnelProps -------------------------
(***************************************************************************)
(* What the raw tunnel keeps true.                                         *)
(***************************************************************************)
EXTENDS WebSocketTunnel

TypeOK ==
  /\ m_connected \in BOOLEAN /\ m_running \in BOOLEAN
  /\ lifecycle \in {"closed", "requesting", "upgrading", "open", "closing", "stopping"}
  /\ opens \in 0 .. MaxOpens
  /\ worker \in {"recv", "dispatch", "pong", "done"}
  /\ turn \in Writers \cup {None, Torn}
  /\ \A w \in Writers : writing[w].rest \in Seq(Bytes) /\ writing[w].bytes \in Seq(Bytes)
  /\ assembled \in Seq(Bytes) /\ incoming \in Seq(Bytes) /\ peer.got \in Seq(Bytes)

\* Frames as they were meant: opcode and payload.
Meant(frames) == [i \in DOMAIN frames |-> SubSeq(frames[i], 1, 2)]

\* Whatever several threads write, in parts and with masks, the peer reads
\* back as the frames they meant, in the order in which they were finished,
\* unless a part was written in the middle of another frame, on another
\* connection than its beginning or into an upgrade, or a write failed.
WireIsFrames ==
  turn # Torn =>
    /\ peer.frames = Meant(written)
    /\ turn = None <=> peer.got = <<>>

\* Frames of a sender behind a close frame.
Late(s) ==
  {i \in DOMAIN written : written[i][3] = s /\ \E j \in 1 .. i - 1 : written[j][1] = CloseOp}

\* send() is refused once close() has begun: behind the close frame each
\* sender finishes at most the one frame it had begun before.
OneLateFrameEach == \A s \in Senders : \A i, j \in Late(s) : i = j

\* What the peer framed in the first n bytes of the stream.
ReadBy(n) == Read(NothingRead, SubSeq(stream, 1, n))
\* What the worker has read of it, up to a close frame.
Received ==
  LET frames == ReadBy(Len(stream) - Len(incoming)).frames
      closes == {i \in DOMAIN frames : frames[i][1] = CloseOp}
  IN IF closes = {} THEN frames
     ELSE SubSeq(frames, 1, CHOOSE i \in closes : \A j \in closes : i <= j)
PayloadsOf(frames, ops) ==
  LET p[i \in 0 .. Len(frames)] ==
        IF i = 0 THEN <<>>
        ELSE IF frames[i][1] \in ops THEN Append(p[i - 1], frames[i][2]) ELSE p[i - 1]
  IN p[Len(frames)]

\* However the stream is cut into reads, m_onData is called with the payload
\* of every text and binary frame before a close frame, once and in order,
\* and as soon as it is there. (Of a fragmented message that is its first
\* frame: dispatchFramedBuffer() drops the others.)
DataIsDelivered ==
  LET expected == PayloadsOf(Received, {TextOp, BinaryOp})
  IN lifecycle \in {"open", "closing", "stopping"} =>
       /\ IsPrefix(delivered, expected)
       /\ worker = "recv" => delivered = expected

\* "A pong must echo the ping payload and, coming from a client, be masked":
\* for pings as long as RFC 6455 allows, what the peer reads are its own
\* pings, in order, each as soon as it was dealt with.
PongsEchoPings ==
  LET pings == PayloadsOf(Received, {PingOp})
      pongs == PayloadsOf(peer.frames, {PongOp})
  IN turn # Torn /\ lifecycle \in {"open", "closing", "stopping"} =>
       /\ IsPrefix(pongs, pings)
       /\ worker = "recv" => pongs = pings

\* "the response is read until it is complete": open() never waits for more
\* when the end of the headers has already been read, in one piece or more.
ResponseIsRecognised ==
  lifecycle = "upgrading" /\ incoming = <<>> => HeadersEnd(response)

\* A host is plain or ends in a bracket, a port follows a colon. What follows
\* the bracket parseWsUrl() takes for a part of the host.
IsHost(s) ==
  /\ s # <<>>
  /\ \/ \A k \in DOMAIN s : s[k] \notin Separators
     \/ s[Len(s)] = "]" /\ \A k \in DOMAIN s : s[k] # "/"
IsPort(s, host) ==
  s # <<>> => /\ s[1] = ":" /\ \A k \in 2 .. Len(s) : s[k] \notin Separators
              /\ \A k \in DOMAIN host : host[k] # "]"
IsPath(s) == s # <<>> => s[1] = "/"

\* The number that leads a text.
Leads10(n, s) ==
  \E k \in DOMAIN s :
    /\ \A i \in 1 .. k : s[i] \in DOMAIN DigitValue
    /\ k < Len(s) => s[k + 1] \notin DOMAIN DigitValue
    /\ n = Decimal(SubSeq(s, 1, k))

\* The upgrade request names the host, the port and the path of the URL open()
\* was called with, wherever they are cut, and goes over TLS for wss and https;
\* a URL without a scheme, a host or a number for its port never gets that far.
RequestIsForUrl ==
  request # Invalid =>
    /\ url # <<>> /\ url[1] \in SecureSchemes \cup PlainSchemes
    /\ request.secure = (url[1] \in SecureSchemes) /\ request.host # <<>>
    /\ \A i, j \in 1 .. Len(url) : i <= j =>
         LET host == SubSeq(url, 2, i)
             port == SubSeq(url, i + 1, j)
             path == SubSeq(url, j + 1, Len(url))
         IN IsHost(host) /\ IsPort(port, host) /\ IsPath(path) =>
              /\ request.host = host
              /\ IF port = <<>> THEN request.port = (IF request.secure THEN 443 ELSE 80)
                                ELSE Leads10(request.port, SubSeq(port, 2, Len(port)))
              /\ request.path = IF path = <<>> THEN <<"/">> ELSE path

\* The number that three bytes spell, and that four digits spell.
OfBytes(a, b, c) == 65536 * a + 256 * b + c
OfDigits(a, b, c, d) == 262144 * a + 4096 * b + 64 * c + d

\* Each four digits spell what the next three bytes do. Where bytes are missing
\* at the end, the digits that no bit of a byte reaches are "=".
IsBase64(sent, data) ==
  LET n == Len(data)
      byte(i) == IF i <= n THEN data[i] ELSE 0
      digit(i) == IF sent[i] = Pad THEN 0 ELSE sent[i]
  IN /\ Len(sent) = 4 * ((n + 2) \div 3)
     /\ \A i \in 1 .. Len(sent) :
          IF i <= (8 * n + 5) \div 6 THEN sent[i] \in 0 .. 63 ELSE sent[i] = Pad
     /\ \A g \in 1 .. (n + 2) \div 3 :
          OfDigits(digit(4 * g - 3), digit(4 * g - 2), digit(4 * g - 1), digit(4 * g))
            = OfBytes(byte(3 * g - 2), byte(3 * g - 1), byte(3 * g))

\* Sec-WebSocket-Key is one of the nonces in base64.
KeyIsBase64 == request # Invalid => \E key \in Keys : IsBase64(request.key, key)
-----------------------------------------------------------------------------
(* The inductive invariants.                                               *)

\* What is being written is what its writer meant to write; the close frame is
\* close()'s, which writes nothing else and at no other time.
WritingInv ==
  /\ writing = [w \in Writers |-> [rest |-> writing[w].rest, bytes |-> writing[w].bytes,
                                   frame |-> writing[w].frame]]
  /\ \A w \in Writers : ~Idle(w) =>
       /\ writing[w].frame = <<writing[w].frame[1], writing[w].frame[2], w>>
       /\ writing[w].frame[1] = CloseOp => w = Closer
  /\ ~Idle(Closer) => lifecycle = "closing"

\* send() gets through only while nobody has begun to close; a sender that has
\* written its late frame begins no other on this connection.
WrittenInv ==
  /\ written \in Seq(Range(written))
  /\ m_connected => lifecycle = "open"
  /\ lifecycle \in {"closed", "requesting", "upgrading"} => written = <<>>
  /\ \A i \in DOMAIN written : written[i][1] = CloseOp => lifecycle \in {"closing", "stopping"}
  /\ \A s \in Senders : Late(s) # {} => Idle(s)

\* The response is what has been read and what is still to come.
UpgradeInv ==
  /\ response \in Seq(Bytes) /\ incoming \in Seq(Bytes)
  /\ IF lifecycle = "upgrading" THEN response \o incoming \in Responses ELSE response = <<>>
  /\ worker # "done" => lifecycle \in {"open", "closing", "stopping"}

\* The request is the one for the URL and a nonce of the open() under way.
RequestInv ==
  request # Invalid => \E u \in Urls, key \in Keys :
    url = u /\ parseWsUrl(u) # Invalid /\ request = upgradeRequest(parseWsUrl(u), key)

TunnelInv == WritingInv /\ WrittenInv /\ OneLateFrameEach /\ UpgradeInv

Upgrading == lifecycle \in {"closed", "requesting", "upgrading"}
\* How much of the stream has been read, and how much of that dispatched.
Arrived == Len(stream) - Len(incoming)
Used == Arrived - Len(assembled)
Taken == ReadBy(Used).frames
Closed == Taken # <<>> /\ Taken[Len(Taken)][1] = CloseOp

\* The frames dispatched are those of the stream so far, the buffer and the
\* bytes on their way are the rest of it. Nothing is dispatched after a close
\* frame, and no whole frame is left in the buffer when the worker reads on.
ReadInv ==
  /\ assembled \in Seq(Bytes) /\ stream \in Streams \cup {<<>>}
  /\ Upgrading => assembled = <<>> /\ stream = <<>> /\ delivered = <<>>
  /\ ~Upgrading =>
       /\ Len(assembled) + Len(incoming) <= Len(stream)
       /\ incoming = SubSeq(stream, Arrived + 1, Len(stream))
       /\ assembled = SubSeq(stream, Used + 1, Arrived)
       /\ ReadBy(Used).got = <<>>
       /\ delivered = PayloadsOf(Taken, {TextOp, BinaryOp})
       /\ \A i \in 1 .. Len(Taken) - 1 : Taken[i][1] # CloseOp
       /\ Closed => worker \in {"recv", "done"} /\ ~m_running
       /\ worker = "recv" => ~IsWhole(assembled) \/ Closed

\* What is left to write of a frame is its end.
Sent(w) == Len(writing[w].bytes) - Len(writing[w].rest)
Writes(w) ==
  /\ IsFrame(writing[w].bytes, SubSeq(writing[w].frame, 1, 2))
  /\ Sent(w) \in 0 .. Len(writing[w].bytes) - 1
  /\ writing[w].rest = SubSeq(writing[w].bytes, Sent(w) + 1, Len(writing[w].bytes))
RestInv == \A w \in Writers : ~Idle(w) => Writes(w)

\* While nothing is torn, the peer is in the middle of the frame whose turn it
\* is, at the point where its writer is.
PeerInv ==
  /\ turn \in Writers \cup {None, Torn}
  /\ turn = Torn => peer = NothingRead
  /\ turn # Torn =>
       /\ peer = [got |-> IF turn = None THEN <<>> ELSE SubSeq(writing[turn].bytes, 1, Sent(turn)),
                  frames |-> Meant(written)]
       /\ turn # None => ~Upgrading /\ ~Idle(turn) /\ Sent(turn) > 0

\* Only the worker writes pongs, and meanwhile it looks at no other frame.
AnswerInv ==
  /\ \A w \in Writers : ~Idle(w) => (writing[w].frame[1] = PongOp <=> w = Worker)
  /\ ~Idle(Worker) => worker = "pong"

\* The pongs the peer has read and the one being written are for the pings
\* dispatched.
Pongs ==
  LET pongs == PayloadsOf(peer.frames, {PongOp})
  IN IF Idle(Worker) THEN pongs ELSE Append(pongs, writing[Worker].frame[2])
EchoInv == turn # Torn /\ ~Upgrading => PayloadsOf(Taken, {PingOp}) = Pongs

DataInv == TunnelInv /\ ReadInv /\ RestInv /\ PeerInv /\ AnswerInv /\ EchoInv
=============================================================================
