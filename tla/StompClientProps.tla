--------------------------- MODULE StompClientProps ---------------------------
(***************************************************************************)
(* What StompClient promises to the program that uses it.                  *)
(***************************************************************************)
EXTENDS StompClient

StateType ==
  /\ Transport!TypeOK
  /\ lifecycle \in Apps \cup {None}
  /\ session \in 0 .. MaxSessions
  /\ m_connected \in BOOLEAN
  /\ m_subscriptions \subseteq SubIds
  /\ m_nextSubId \in 1 .. MaxSubs + 1
  /\ loop \in LoopPcs

Outgoing == [cmd : ToBroker, id : SubIds \cup {None}]
Incoming == [cmd : ToClient, id : SubIds \cup {None}, tail : BOOLEAN]
WireType ==
  /\ toBroker \in Seq(Outgoing) /\ toClient \in Seq(Incoming)
  /\ broker \in [connected : BOOLEAN, subscriptions : SUBSET SubIds]

FrameType ==
  LET Frames == [cmd : ToClient \cup {"none"}, id : SubIds \cup {None}, from : 0 .. session]
  IN  partial \in Frames /\ frame \in Frames

CallType ==
  /\ pc \in [Threads -> Pcs]
  /\ sending \in [Threads -> Outgoing \cup {Nothing}]
  /\ \A t \in Threads : sending[t] = Nothing <=> pc[t] \notin {"test", "write"}
  /\ refused \in BOOLEAN

HistoryType ==
  /\ greeted \subseteq 1 .. session /\ abandoned \subseteq 0 .. session
  /\ heard \in BOOLEAN /\ unsubscribed \subseteq SubIds
  /\ reports \in [Sessions -> Nat]
  /\ late \in [SubIds -> Nat]

TypeOK == StateType /\ WireType /\ FrameType /\ CallType /\ HistoryType

\* A MESSAGE for a subscription is only ever dropped when unsubscribe() was
\* called for it: from the moment the broker can know of a subscription, on
\* this connection or the next, its handler is registered.
HandlerReady ==
  \A id \in SubIds \ (m_subscriptions \cup unsubscribed) :
    /\ \A k \in 1 .. Len(toBroker) : toBroker[k].cmd = "SUBSCRIBE" => toBroker[k].id # id
    /\ id \notin broker.subscriptions
    /\ \A k \in 1 .. Len(toClient) : toClient[k].id # id
    /\ frame.id # id /\ partial.id # id

\* The handler of a subscription starts at most once after unsubscribe() has
\* erased it (the call that was already looked up).
AtMostOneLateCall == \A id \in SubIds : late[id] <= 1

\* isConnected() answers true only during a connection whose CONNECTED has been
\* handled, and while its reading thread is there; so it is false when
\* disconnect() has returned, until the next connect(). It may rise once more
\* while disconnect() is still under way.
ConnectedMeansGreeted == m_connected => session \in greeted /\ reader # "none"

\* The program hears of the end of a connection at most once.
ReportedAtMostOnce == \A s \in Sessions : reports[s] <= 1

\* It does hear of it when the broker had answered CONNECT and no thread
\* asked for the end.
LossIsReported ==
  \A s \in greeted \ abandoned :
    s < session \/ reader = "none" => reports[s] = 1

\* With one application thread, CONNECT is the first frame of a connection,
\* unless connect() has returned false for it - what is sent then goes out all
\* the same - or the connection has failed before: a callback about the failure
\* may still send.
ConnectFirst ==
  ~refused /\ reader = "reading" /\ loop \in {"read", "frame", "found", "callback"} =>
    heard \/ toBroker = <<>> \/ Head(toBroker).cmd = "CONNECT"
-----------------------------------------------------------------------------
(* The inductive invariant the proofs use.                                 *)

\* Where the reading thread is, on either side of the transport's interface.
ReaderInv ==
  /\ loop \in {"frame", "found", "callback", "failed", "ended"} => reader = "reading"
  /\ reader = "reporting" <=> loop \in {"closed", "onDisconnected"}
  /\ up => reader = "reading" /\ loop # "ended"
  /\ reader # "none" => session \in Sessions
  /\ pc[Reader] \in {"idle", "test", "write"}
  /\ pc[Reader] # "idle" => loop \in Callbacks
  /\ sending[Reader].cmd \in {"none", "SUBSCRIBE", "UNSUBSCRIBE", "SEND"}

\* An id is known to the client before anybody else has it, and never reused.
Known == m_subscriptions \cup unsubscribed
IdInv ==
  /\ \A id \in Known : id < m_nextSubId
  /\ m_subscriptions \cap unsubscribed = {}
  /\ \A t \in Threads :
       /\ sending[t].id \in Known \cup {None}
       /\ sending[t].cmd = "SUBSCRIBE" => sending[t].id # None
  /\ \A k \in 1 .. Len(toBroker) :
       /\ toBroker[k].id \in Known \cup {None}
       /\ toBroker[k].cmd = "SUBSCRIBE" => toBroker[k].id # None
  /\ broker.subscriptions \subseteq Known
  /\ \A k \in 1 .. Len(toClient) : toClient[k].id \in Known \cup {None}
  /\ partial.id \in Known \cup {None} /\ frame.id \in Known \cup {None}

\* A handler that was found has not been called late yet.
LateInv ==
  \A id \in SubIds :
    /\ late[id] <= 1
    /\ late[id] = 1 => id \in unsubscribed
    /\ loop = "found" /\ frame.id = id => late[id] = 0

\* m_connected is up from CONNECTED until somebody takes it on himself to end
\* the connection or to report its end.
ReportInv ==
  /\ m_connected => session \in greeted /\ reader # "none" /\ loop \notin {"failed", "onDisconnected"}
  /\ \A s \in Sessions :
       /\ reports[s] <= 1
       /\ s > session => reports[s] = 0
       /\ s < session /\ s \in greeted \ abandoned => reports[s] = 1
  /\ reader = "reading" /\ loop \in {"read", "frame", "found", "callback"} => reports[session] = 0
  /\ m_connected => reports[session] = 0
  /\ session \in greeted \ abandoned => m_connected \/ reports[session] = 1

ClientInv == TypeOK /\ ReaderInv /\ IdInv /\ LateInv /\ ReportInv

\* With one application thread: until the broker has heard anything, that
\* thread is about to send CONNECT or has sent it, or could not, or the
\* connection is failing.
FirstInv ==
  reader = "reading" /\ ~heard /\ ~refused /\ loop \notin {"failed", "ended"} =>
    /\ loop = "read" /\ toClient = <<>> /\ ~broker.connected
    /\ \/ /\ toBroker = <<>>
          /\ \E a \in Apps : sending[a].cmd = "CONNECT"
       \/ toBroker # <<>> /\ Head(toBroker).cmd = "CONNECT"
-----------------------------------------------------------------------------
\* "Set callback invoked whenever a full valid STOMP frame is parsed": the
\* frames the parser delivers are made of the bytes of one connection.
FramesAreWhole == loop = "frame" => frame.from = session
=============================================================================
