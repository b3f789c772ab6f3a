--------------------------- MODULE WebSocketTunnel ---------------------------
(***************************************************************************)
(* The bytes of CurlTransport's raw tunnel: the upgrade, frames that the   *)
(* application, the worker (pongs) and close() write part by part over one *)
(* connection, and frames the worker reads in chunks. CurlTransport.tla    *)
(* has the locks; here a step is one curl_easy_send() or curl_easy_recv()  *)
(* with the work on bytes around it.                                       *)
(*                                                                         *)
(* The peer reads what is written by the rules of RFC 6455 and speaks      *)
(* after it was spoken to, as a STOMP broker does.                         *)
(***************************************************************************)
EXTENDS WebSocketFrame, WsRequest

CONSTANTS
  Senders,          \* application threads that call send()
  Payloads, Masks,  \* what each of them sends, and keys nextMaskKey() draws
  Urls, Keys,       \* what open() is called with, and nonces it draws
  Streams,          \* what the peer sends: sequences of bytes
  Cuts,             \* where curl_easy_send() may stop in a frame
  MaxOpens,         \* bound: connections
  MaxWritten        \* bound: send() begins while fewer data frames and pongs are written

None == "none"
Closer == "closer"      \* the thread inside close()
Worker == "worker"
Torn == "torn"          \* bytes of two writers are mixed, or one has failed
Writers == Senders \cup {Closer, Worker}

ASSUME TunnelAssumption ==
  /\ Senders \cap {Closer, Worker, None, Torn} = {}
  /\ Masks \subseteq [1 .. MaskBytes -> Bytes]
  /\ \A s \in Senders : \A p \in Payloads[s] : p \in Seq(Bytes) /\ Len(p) < SizeMod
  /\ Cuts \subseteq Nat \ {0}
  /\ \A u \in Urls : IsUrl(u)
  /\ Keys \subseteq Seq(0 .. 255)
  /\ MaxOpens \in Nat

\* Where a frame of the peer begins, its header announces no more than RFC 6455
\* allows: lengths have a bit to spare, a ping is as short as any control frame.
KeepsRfc(s) ==
  \A u \in 0 .. Len(s) :
    LET b == SubSeq(s, u + 1, Len(s))
    IN /\ Read(NothingRead, SubSeq(s, 1, u)).got = <<>>
       /\ Len(b) >= 2 /\ Len(b) >= 2 + RfcExtended(b)
       => /\ RfcHeader(b) + RfcLength(b) < SizeMod
          /\ b[1] % TopBit = PingOp => RfcLength(b) < Short

ASSUME PeerAssumption == \A s \in Streams : s \in Seq(Bytes) /\ KeepsRfc(s)

VARIABLES
  m_connected, m_running,
  lifecycle,    \* where open() or close() is
  opens,        \* connections so far
  url, request, \* of the open() under way
  response,     \* what performWsHandshake() has read
  writing,      \* what a thread in tunnelWrite() has left to write, and of what
  worker,       \* where workerLoop() is
  assembled,    \* its buffer
  incoming,     \* bytes on their way to the client
  stream,       \* the frames the peer sends on this connection
  delivered,    \* payloads m_onData was called with, on this connection
  turn,         \* whose frame the peer is in the middle of, None, or Torn
  peer,         \* what it has read: frames, and a part of the next
  written       \* history: frames written on this connection, as meant

upgrade == <<url, request, response>>
reading == <<worker, assembled, incoming, stream, delivered>>
wire == <<turn, peer, written>>
vars == <<m_connected, m_running, lifecycle, opens, upgrade, writing, reading,
          wire>>

Nothing == [rest |-> <<>>, bytes |-> <<>>, frame |-> <<>>]

Init ==
  /\ m_connected = FALSE /\ m_running = FALSE /\ lifecycle = "closed" /\ opens = 0
  /\ url = <<>> /\ request = Invalid /\ response = <<>>
  /\ writing = [w \in Writers |-> Nothing]
  /\ worker = "done" /\ assembled = <<>> /\ incoming = <<>> /\ stream = <<>>
  /\ delivered = <<>> /\ turn = None /\ peer = NothingRead /\ written = <<>>
-----------------------------------------------------------------------------
(* tunnelWrite()                                                           *)

Idle(w) == writing[w] = Nothing
\* The parts of a frame are written as they are, whoever else writes.
Begin(w, frame, bytes) ==
  writing' = [writing EXCEPT ![w] = [rest |-> bytes, bytes |-> bytes, frame |-> frame]]

\* The peer can make sense of a part that continues the frame it is in, or
\* begins one where none is under way, once it has answered the upgrade.
InTurn(w) ==
  /\ lifecycle \notin {"requesting", "upgrading"}
  /\ turn = IF writing[w].rest = writing[w].bytes THEN None ELSE w

\* The mutex is released between two parts; a frame is cut at most once.
WritePart(w) ==
  /\ ~Idle(w) /\ lifecycle # "closed"
  /\ LET rest == writing[w].rest
         cuts == IF rest = writing[w].bytes THEN {n \in Cuts : n < Len(rest)} ELSE {}
     IN \E n \in cuts \cup {Len(rest)} :
          /\ writing' = [writing EXCEPT ![w] =
               IF n = Len(rest) THEN Nothing ELSE [@ EXCEPT !.rest = SubSeq(rest, n + 1, Len(rest))]]
          /\ IF InTurn(w)
             THEN /\ turn' = IF n = Len(rest) THEN None ELSE w
                  /\ peer' = Read(peer, SubSeq(rest, 1, n))
                  /\ written' = IF n = Len(rest) THEN Append(written, writing[w].frame) ELSE written
             ELSE turn' = Torn /\ peer' = NothingRead /\ written' = <<>>
  /\ UNCHANGED <<m_connected, m_running, lifecycle, opens, upgrade, reading>>

\* There is no handle any more, or libcurl cannot send.
WriteFails(w) ==
  /\ ~Idle(w)
  /\ writing' = [writing EXCEPT ![w] = Nothing]
  /\ IF lifecycle = "closed" THEN UNCHANGED wire
     ELSE turn' = Torn /\ peer' = NothingRead /\ written' = <<>>
  /\ UNCHANGED <<m_connected, m_running, lifecycle, opens, upgrade, reading>>

MayWrite == Len(SelectSeq(written, LAMBDA f : f[1] # CloseOp)) < MaxWritten

\* send() without the test of m_connected.
FaultySend(s) ==
  /\ Idle(s) /\ MayWrite
  /\ \E payload \in Payloads[s], mask \in Masks :
       Begin(s, <<TextOp, payload, s>>, TextFrame(payload, mask))
  /\ UNCHANGED <<m_connected, m_running, lifecycle, opens, upgrade, reading, wire>>

Send(s) ==
  /\ Idle(s) /\ m_connected /\ MayWrite
  /\ \E payload \in Payloads[s], mask \in Masks :
       Begin(s, <<TextOp, payload, s>>, TextFrame(payload, mask))
  /\ UNCHANGED <<m_connected, m_running, lifecycle, opens, upgrade, reading, wire>>
-----------------------------------------------------------------------------
(* open() and performWsHandshake()                                         *)

\* An invalid URL is reported and nothing else happens.
Open(u, key) ==
  /\ lifecycle = "closed" /\ opens < MaxOpens
  /\ parseWsUrl(u) # Invalid
  /\ lifecycle' = "requesting" /\ opens' = opens + 1
  /\ url' = u /\ request' = upgradeRequest(parseWsUrl(u), key)
  /\ UNCHANGED <<m_connected, m_running, response, writing, reading, wire>>

\* The status line ends in " 101" or not; an empty line ends the headers.
Accepted == 1
EndOfHeaders == <<13, 10, 13, 10>>
Responses == { <<status, 13, 10, 2>> \o EndOfHeaders : status \in {Accepted, 2} }

WriteRequest ==
  /\ lifecycle = "requesting" /\ lifecycle' = "upgrading"
  /\ \E r \in Responses : incoming' = r
  /\ url' = <<>> /\ request' = Invalid
  /\ UNCHANGED <<m_connected, m_running, opens, response, writing, worker, assembled,
                 stream, delivered, wire>>

HeadersEnd(s) == \E k \in DOMAIN s : IsPrefix(EndOfHeaders, SubSeq(s, k, Len(s)))

\* Only what the last read returned is searched for the end of the headers.
FaultyReadResponse ==
  /\ lifecycle = "upgrading" /\ ~HeadersEnd(response)
  /\ \E n \in 1 .. Len(incoming) :
       /\ response' = SubSeq(incoming, 1, n)
       /\ incoming' = SubSeq(incoming, n + 1, Len(incoming))
  /\ UNCHANGED <<m_connected, m_running, lifecycle, opens, url, request, writing, worker,
                 assembled, stream, delivered, wire>>

ReadResponse ==
  /\ lifecycle = "upgrading" /\ ~HeadersEnd(response)
  /\ \E n \in 1 .. Len(incoming) :
       /\ response' = response \o SubSeq(incoming, 1, n)
       /\ incoming' = SubSeq(incoming, n + 1, Len(incoming))
  /\ UNCHANGED <<m_connected, m_running, lifecycle, opens, url, request, writing, worker,
                 assembled, stream, delivered, wire>>

Upgraded ==
  /\ lifecycle = "upgrading" /\ HeadersEnd(response) /\ Contains(response, Accepted)
  /\ lifecycle' = "open" /\ m_connected' = TRUE /\ m_running' = TRUE /\ worker' = "recv"
  /\ response' = <<>>
  /\ UNCHANGED <<opens, url, request, writing, assembled, incoming, stream, delivered, wire>>

\* No connection, no way to write the request, a rejection, the deadline, or
\* a peer that is gone.
UpgradeFails ==
  /\ \/ lifecycle = "requesting"
     \/ lifecycle = "upgrading" /\ ~(HeadersEnd(response) /\ Contains(response, Accepted))
  /\ lifecycle' = "closed"
  /\ url' = <<>> /\ request' = Invalid /\ response' = <<>> /\ incoming' = <<>>
  /\ turn' = None /\ peer' = NothingRead /\ written' = <<>>
  /\ UNCHANGED <<m_connected, m_running, opens, writing, worker, assembled, stream,
                 delivered>>
-----------------------------------------------------------------------------
(* close()                                                                 *)

Close ==
  /\ lifecycle = "open" /\ m_connected' = FALSE
  /\ \/ /\ m_connected /\ lifecycle' = "closing"
        /\ \E mask \in Masks : Begin(Closer, <<CloseOp, CloseReason, Closer>>, CloseFrame(mask))
     \/ ~m_connected /\ lifecycle' = "stopping" /\ UNCHANGED writing
  /\ UNCHANGED <<m_running, opens, upgrade, reading, wire>>

\* After the wait for the peer's close frame, which may end without one.
StopWorker ==
  /\ \/ lifecycle = "closing" /\ Idle(Closer)
     \/ lifecycle = "stopping" /\ m_running
  /\ lifecycle' = "stopping" /\ m_running' = FALSE
  /\ UNCHANGED <<m_connected, opens, upgrade, writing, reading, wire>>

\* The worker is joined and the handle freed; senders are not waited for.
JoinAndFree ==
  /\ lifecycle = "stopping" /\ ~m_running /\ worker = "done"
  /\ lifecycle' = "closed"
  /\ stream' = <<>> /\ incoming' = <<>> /\ assembled' = <<>> /\ delivered' = <<>>
  /\ turn' = None /\ peer' = NothingRead /\ written' = <<>>
  /\ UNCHANGED <<m_connected, m_running, opens, upgrade, writing, worker>>
-----------------------------------------------------------------------------
(* workerLoop() and dispatchFramedBuffer()                                 *)

\* The peer answers the first frame it could read.
PeerSends ==
  /\ lifecycle = "open" /\ stream = <<>> /\ peer.frames # <<>>
  /\ stream' \in Streams /\ incoming' = incoming \o stream'
  /\ UNCHANGED <<m_connected, m_running, lifecycle, opens, upgrade, writing, worker,
                 assembled, delivered, wire>>

\* A read that starts the buffer anew.
FaultyRecv ==
  /\ worker = "recv" /\ m_running /\ worker' = "dispatch"
  /\ \E n \in 1 .. Len(incoming) :
       /\ assembled' = SubSeq(incoming, 1, n)
       /\ incoming' = SubSeq(incoming, n + 1, Len(incoming))
  /\ UNCHANGED <<m_connected, m_running, lifecycle, opens, upgrade, writing, stream,
                 delivered, wire>>

\* The loop asks m_running before it waits for the socket, here it is asked at
\* the read: a read that was waiting when close() came, the last one, is left out.
Recv ==
  /\ worker = "recv" /\ m_running /\ worker' = "dispatch"
  /\ \E n \in 1 .. Len(incoming) :
       /\ assembled' = assembled \o SubSeq(incoming, 1, n)
       /\ incoming' = SubSeq(incoming, n + 1, Len(incoming))
  /\ UNCHANGED <<m_connected, m_running, lifecycle, opens, upgrade, writing, stream,
                 delivered, wire>>

\* Told to stop, or at the end of the stream, or after an error.
WorkerEnds ==
  /\ worker = "recv"
  /\ worker' = "done" /\ m_connected' = FALSE /\ m_running' = FALSE
  /\ UNCHANGED <<lifecycle, opens, upgrade, writing, assembled, incoming, stream,
                 delivered, wire>>

\* One frame of the buffer: data is called back, a ping answered, a close
\* frame ends the loop, everything else is dropped. FIN is not looked at.
Dispatch ==
  /\ worker = "dispatch" /\ IsWhole(assembled)
  /\ LET op == Opcode(assembled)
         payload == Payload(assembled)
     IN /\ assembled' = Rest(assembled)
        /\ delivered' = IF op \in {TextOp, BinaryOp} THEN Append(delivered, payload) ELSE delivered
        /\ m_running' = (m_running /\ op # CloseOp)
        /\ worker' = CASE op = PingOp -> "pong" [] op = CloseOp -> "recv" [] OTHER -> "dispatch"
        /\ IF op = PingOp
           THEN \E mask \in Masks : Begin(Worker, <<PongOp, payload, Worker>>, PongFrame(payload, mask))
           ELSE UNCHANGED writing
  /\ UNCHANGED <<m_connected, lifecycle, opens, upgrade, incoming, stream, wire>>

PongWritten ==
  /\ worker = "pong" /\ Idle(Worker) /\ worker' = "dispatch"
  /\ UNCHANGED <<m_connected, m_running, lifecycle, opens, upgrade, writing, assembled,
                 incoming, stream, delivered, wire>>

NeedsMore ==
  /\ worker = "dispatch" /\ ~IsWhole(assembled) /\ worker' = "recv"
  /\ UNCHANGED <<m_connected, m_running, lifecycle, opens, upgrade, writing, assembled,
                 incoming, stream, delivered, wire>>

Next ==
  \/ \E w \in Writers : WritePart(w) \/ WriteFails(w)
  \/ \E s \in Senders : Send(s)
  \/ \E u \in Urls, key \in Keys : Open(u, key)
  \/ WriteRequest \/ ReadResponse \/ Upgraded \/ UpgradeFails
  \/ Close \/ StopWorker \/ JoinAndFree
  \/ PeerSends \/ Recv \/ WorkerEnds \/ Dispatch \/ PongWritten \/ NeedsMore

Spec == Init /\ [][Next]_vars
=============================================================================
