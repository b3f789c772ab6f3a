----------------------------- MODULE StompClient -----------------------------
(***************************************************************************)
(* Stomp::StompClient over a transport that keeps TransportContract, with  *)
(* a broker at the other end (examples/server/stomp_server.py).            *)
(*                                                                         *)
(* Application threads call connect(), disconnect(), subscribe(),          *)
(* unsubscribe(), send() and sendHeartbeat(); the transport's reading      *)
(* thread feeds the parser and makes every callback, and user code calls   *)
(* the last four methods inside callbacks. A send is two steps: the test   *)
(* of isConnected(), of which StompClient makes one and the transport      *)
(* another (the last one decides), and the write, which may fail with the  *)
(* connection still up, and may come when the connection is another one.   *)
(*                                                                         *)
(* A frame is its command, the subscription it names and the connection    *)
(* its bytes come from. A chunk of received data is a frame, its first     *)
(* half or its second half.                                                *)
(*                                                                         *)
(* Definitions named Faulty... are used nowhere: each is the one after it  *)
(* with a mistake, to show that a property can fail.                       *)
(***************************************************************************)
EXTENDS Naturals, Sequences, FiniteSets

CONSTANTS
  Apps,          \* application threads
  Reader,        \* the transport's reading thread
  MaxSessions,   \* bound: connections that open() manages to establish
  MaxSubs,       \* bound: calls of subscribe()
  MaxQueue       \* bound: frames under way in each direction

None == 0
Threads == Apps \cup {Reader}
SubIds == 1 .. MaxSubs
Sessions == 1 .. MaxSessions

ASSUME ConstantsAssumption ==
  /\ Reader \notin Apps /\ None \notin Threads
  /\ MaxSessions \in Nat /\ MaxSubs \in Nat /\ MaxQueue \in Nat

VARIABLES
  up, reader,        \* the transport, see TransportContract
  lifecycle,         \* the thread inside the transport's open() or close()
  session,           \* connections so far; the current one has this number
  toBroker, toClient,                  \* frames under way
  broker,            \* what the broker knows of the current connection
  m_connected, m_subscriptions, m_nextSubId,
  partial,           \* the frame whose first bytes m_parser holds, or NoFrame
  pc, sending,       \* where a thread is inside a method, and with which frame
  loop, frame,       \* where the reader is, and the frame it handles
  refused,           \* history: CONNECT could not be sent on this connection
  greeted,           \* history: connections whose CONNECTED was handled
  abandoned,         \* history: connections that connect() or disconnect() ended
  reports,           \* history: m_onDisconnected calls of the reader
  heard,             \* history: the broker got a frame on this connection
  unsubscribed,      \* history: ids unsubscribe() has erased
  late               \* history: handler calls begun after the erasure

transport == <<up, reader, lifecycle, session>>
wire      == <<toBroker, toClient, broker>>
client    == <<m_connected, m_subscriptions, m_nextSubId>>
reading   == <<partial, loop, frame>>
threads   == <<pc, sending, refused>>
history   == <<greeted, abandoned, heard, reports, unsubscribed, late>>
vars == <<transport, wire, client, reading, threads, history>>

Transport == INSTANCE TransportContract

ToBroker == {"CONNECT", "SUBSCRIBE", "UNSUBSCRIBE", "SEND", "DISCONNECT"}
\* "?": bytes that make no command the client knows.
ToClient == {"CONNECTED", "MESSAGE", "ERROR", "?"}
NoFrame == [cmd |-> "none", id |-> None, from |-> 0]

Sent(cmd, id) == [cmd |-> cmd, id |-> id]
Nothing == Sent("none", None)

Pcs == {"idle", "openWait", "opening", "test", "write", "lower", "closeWait", "closing"}
Callbacks == {"callback", "failed", "onDisconnected"}
LoopPcs == {"read", "frame", "found", "ended", "closed"} \cup Callbacks

Init ==
  /\ Transport!Init /\ lifecycle = None /\ session = 0
  /\ toBroker = <<>> /\ toClient = <<>>
  /\ broker = [connected |-> FALSE, subscriptions |-> {}]
  /\ m_connected = FALSE /\ m_subscriptions = {} /\ m_nextSubId = 1
  /\ partial = NoFrame /\ frame = NoFrame /\ loop = "read"
  /\ pc = [t \in Threads |-> "idle"] /\ sending = [t \in Threads |-> Nothing]
  /\ refused = FALSE /\ greeted = {} /\ abandoned = {} /\ heard = FALSE /\ unsubscribed = {}
  /\ reports = [s \in Sessions |-> 0] /\ late = [i \in SubIds |-> 0]

Go(t, from, to) == pc[t] = from /\ pc' = [pc EXCEPT ![t] = to]

\* isConnected() of the transport falls, if it has not fallen yet.
DropTransport ==
  \/ Transport!Drop
  \/ ~up /\ UNCHANGED <<up, reader>>

\* Callbacks call the methods that leave the connection alone.
CanCall(t) == pc[t] = "idle" /\ (t = Reader => loop \in Callbacks)
-----------------------------------------------------------------------------
(* A send: the test of isConnected(), and the write.                       *)

\* disconnect() goes on whatever became of its frame.
Done(t, from) ==
  /\ Go(t, from, IF sending[t].cmd = "DISCONNECT" THEN "lower" ELSE "idle")
  /\ sending' = [sending EXCEPT ![t] = Nothing]

\* When CONNECT cannot be sent connect() returns false and closes nothing.
NotSent(t) ==
  refused' = (refused \/ sending[t].cmd = "CONNECT")

TestConnected(t) ==
  /\ IF up THEN Go(t, "test", "write") /\ UNCHANGED <<sending, refused>>
     ELSE Done(t, "test") /\ NotSent(t)
  /\ UNCHANGED <<transport, wire, client, reading, history>>

\* The write fails, or is lost, at any time: without a handle, by an answer of
\* libcurl, behind the close frame. Otherwise it goes out on the connection of
\* the moment. A write during open() counts as lost or as made right after it.
Write(t) ==
  /\ Done(t, "write")
  /\ \/ /\ reader = "reading" /\ Len(toBroker) < MaxQueue
        /\ toBroker' = Append(toBroker, sending[t])
        /\ UNCHANGED refused
     \/ NotSent(t) /\ UNCHANGED toBroker
  /\ UNCHANGED <<transport, toClient, broker, client, reading, history>>

\* The next step of a method that has decided to send.
Sends(t, from, to, f) == Go(t, from, to) /\ sending' = [sending EXCEPT ![t] = f]
-----------------------------------------------------------------------------
(* connect()                                                               *)

\* connect() forgets the handlers.
FaultyConnectCall(t) ==
  /\ CanCall(t) /\ t \in Apps /\ Go(t, "idle", "openWait")
  /\ partial' = NoFrame
  /\ m_connected' = FALSE /\ m_subscriptions' = {}
  /\ abandoned' = abandoned \cup {session}
  /\ UNCHANGED <<transport, wire, m_nextSubId, loop, frame, sending, refused,
                 greeted, heard, reports, unsubscribed, late>>

\* The parser is reset and m_connected lowered before open() is entered.
ConnectCall(t) ==
  /\ CanCall(t) /\ t \in Apps /\ Go(t, "idle", "openWait")
  /\ partial' = NoFrame
  /\ m_connected' = FALSE
  /\ abandoned' = abandoned \cup {session}
  /\ UNCHANGED <<transport, wire, m_subscriptions, m_nextSubId, loop, frame,
                 sending, refused, greeted, heard, reports, unsubscribed, late>>

\* open() first ends the connection there is.
OpenDrops(t) ==
  /\ lifecycle = None /\ lifecycle' = t
  /\ Go(t, "openWait", "opening")
  /\ DropTransport
  /\ abandoned' = abandoned \cup {session}
  /\ UNCHANGED <<session, wire, client, reading, sending, refused, greeted, heard,
                 reports, unsubscribed, late>>

\* connect() returns without sending CONNECT.
FaultyOpenConnects(t) ==
  /\ session < MaxSessions
  /\ Go(t, "opening", "idle")
  /\ Transport!Connect
  /\ lifecycle' = None /\ session' = session + 1 /\ refused' = FALSE
  /\ toBroker' = <<>> /\ toClient' = <<>>
  /\ broker' = [connected |-> FALSE, subscriptions |-> {}] /\ heard' = FALSE
  /\ UNCHANGED <<client, reading, sending, greeted, abandoned, reports,
                 unsubscribed, late>>

\* Both ends of a new connection know nothing of the one before. CONNECT is
\* the next thing this thread sends.
OpenConnects(t) ==
  /\ session < MaxSessions
  /\ Sends(t, "opening", "test", Sent("CONNECT", None))
  /\ Transport!Connect
  /\ lifecycle' = None
  /\ session' = session + 1
  /\ toBroker' = <<>> /\ toClient' = <<>>
  /\ broker' = [connected |-> FALSE, subscriptions |-> {}]
  /\ heard' = FALSE /\ refused' = FALSE
  /\ UNCHANGED <<client, reading, greeted, abandoned, reports, unsubscribed,
                 late>>

\* handleTransportError() is called with the lifecycle lock held.
OpenFails(t) ==
  /\ reader = "none"
  /\ Go(t, "opening", "idle")
  /\ lifecycle' = None
  /\ m_connected' = FALSE
  /\ UNCHANGED <<up, reader, session, wire, m_subscriptions, m_nextSubId,
                 reading, sending, refused, history>>
-----------------------------------------------------------------------------
(* disconnect()                                                            *)

DisconnectCall(t) ==
  /\ CanCall(t) /\ t \in Apps
  /\ IF m_connected THEN Sends(t, "idle", "test", Sent("DISCONNECT", None))
     ELSE Go(t, "idle", "lower") /\ UNCHANGED sending
  /\ UNCHANGED <<transport, wire, client, reading, refused, history>>

LowerConnected(t) ==
  /\ Go(t, "lower", "closeWait")
  /\ m_connected' = FALSE
  /\ abandoned' = abandoned \cup {session}
  /\ UNCHANGED <<transport, wire, m_subscriptions, m_nextSubId, reading, sending,
                 refused, greeted, heard, reports, unsubscribed, late>>

CloseDrops(t) ==
  /\ lifecycle = None /\ lifecycle' = t
  /\ Go(t, "closeWait", "closing")
  /\ DropTransport
  /\ abandoned' = abandoned \cup {session}
  /\ UNCHANGED <<session, wire, client, reading, sending, refused, greeted, heard,
                 reports, unsubscribed, late>>

CloseReturns(t) ==
  /\ reader = "none"
  /\ Go(t, "closing", "idle")
  /\ lifecycle' = None
  /\ UNCHANGED <<up, reader, session, wire, client, reading, sending, refused,
                 history>>
-----------------------------------------------------------------------------
(* subscribe(), unsubscribe(), send(), sendHeartbeat()                     *)

\* The handler is in place before the broker hears of the subscription.
SubscribeCall(t) ==
  /\ CanCall(t) /\ m_nextSubId \in SubIds
  /\ Sends(t, "idle", "test", Sent("SUBSCRIBE", m_nextSubId))
  /\ m_subscriptions' = m_subscriptions \cup {m_nextSubId}
  /\ m_nextSubId' = m_nextSubId + 1
  /\ UNCHANGED <<transport, wire, m_connected, reading, refused, history>>

\* unsubscribe() takes an id that subscribe() has not returned yet.
FaultyUnsubscribeId(t) ==
  /\ CanCall(t)
  /\ Sends(t, "idle", "test", Sent("UNSUBSCRIBE", m_nextSubId))
  /\ UNCHANGED <<transport, wire, client, reading, refused, history>>

\* subscribe() has returned this id.
Returned(id) ==
  id < m_nextSubId /\ \A u \in Threads : sending[u] # Sent("SUBSCRIBE", id)

\* unsubscribe() does nothing without a connection.
FaultyUnsubscribeCall(t) ==
  /\ CanCall(t)
  /\ \E id \in SubIds :
       /\ Returned(id)
       /\ Sends(t, "idle", "test", Sent("UNSUBSCRIBE", id))
       /\ m_subscriptions' = IF up THEN m_subscriptions \ {id} ELSE m_subscriptions
       /\ unsubscribed' = unsubscribed \cup {id}
  /\ UNCHANGED <<transport, wire, m_connected, m_nextSubId, reading, refused,
                 greeted, abandoned, heard, reports, late>>

\* For any id that subscribe() has returned, in use or not.
UnsubscribeCall(t) ==
  /\ CanCall(t)
  /\ \E id \in SubIds :
       /\ Returned(id)
       /\ Sends(t, "idle", "test", Sent("UNSUBSCRIBE", id))
       /\ m_subscriptions' = m_subscriptions \ {id}
       /\ unsubscribed' = unsubscribed \cup {id}
  /\ UNCHANGED <<transport, wire, m_connected, m_nextSubId, reading, refused,
                 greeted, abandoned, heard, reports, late>>

\* A SEND frame or a heartbeat, both the same to client and broker; without a
\* connection there is no effect.
SendCall(t) ==
  /\ CanCall(t) /\ up
  /\ Sends(t, "idle", "write", Sent("SEND", None))
  /\ UNCHANGED <<transport, wire, client, reading, refused, history>>
-----------------------------------------------------------------------------
(* The reading thread: the parser and handleIncomingFrame()                *)

\* The first half of a frame arrives and stays in the parser.
FeedHead ==
  /\ reader = "reading" /\ loop = "read" /\ toClient # <<>>
  /\ ~Head(toClient).tail
  /\ toClient' = <<[Head(toClient) EXCEPT !.tail = TRUE]>> \o Tail(toClient)
  /\ partial' = IF partial # NoFrame THEN partial
                ELSE [cmd |-> Head(toClient).cmd, id |-> Head(toClient).id,
                      from |-> session]
  /\ UNCHANGED <<transport, toBroker, broker, client, loop, frame, threads,
                 history>>

\* The rest arrives: the parser's frame, begun by whatever it held, is done.
FeedEnd ==
  /\ reader = "reading" /\ loop = "read" /\ toClient # <<>>
  /\ ~(Head(toClient).tail /\ partial = NoFrame)
  /\ toClient' = Tail(toClient)
  /\ frame' = IF partial # NoFrame THEN partial
              ELSE [cmd |-> Head(toClient).cmd, id |-> Head(toClient).id,
                    from |-> session]
  /\ partial' = NoFrame
  /\ loop' = "frame"
  /\ UNCHANGED <<transport, toBroker, broker, client, threads, history>>

\* The second half of a frame whose first half was reset away: it is taken
\* for the beginning of a frame.
FeedRest ==
  /\ reader = "reading" /\ loop = "read" /\ toClient # <<>>
  /\ Head(toClient).tail /\ partial = NoFrame
  /\ toClient' = Tail(toClient)
  /\ partial' = [cmd |-> "?", id |-> None, from |-> session]
  /\ UNCHANGED <<transport, toBroker, broker, client, loop, frame, threads,
                 history>>

HandleConnected ==
  /\ loop = "frame" /\ frame.cmd = "CONNECTED"
  /\ m_connected' = TRUE
  /\ greeted' = greeted \cup {session}
  /\ loop' = "callback"
  /\ UNCHANGED <<transport, wire, m_subscriptions, m_nextSubId, partial, frame,
                 threads, abandoned, heard, reports, unsubscribed, late>>

\* The handler is looked up, and copied, under m_subMutex.
HandleMessage ==
  /\ loop = "frame" /\ frame.cmd = "MESSAGE"
  /\ loop' = IF frame.id \in m_subscriptions THEN "found" ELSE "read"
  /\ frame' = IF frame.id \in m_subscriptions THEN frame ELSE NoFrame
  /\ UNCHANGED <<transport, wire, client, partial, threads, history>>

\* It is called without the mutex.
CallHandler ==
  /\ loop = "found" /\ loop' = "callback"
  /\ late' = IF frame.id \in unsubscribed
             THEN [late EXCEPT ![frame.id] = @ + 1] ELSE late
  /\ UNCHANGED <<transport, wire, client, partial, frame, threads, greeted,
                 abandoned, heard, reports, unsubscribed>>

\* ERROR goes to m_onError, any other command nowhere.
HandleOther ==
  /\ loop = "frame" /\ frame.cmd \in {"ERROR", "?"}
  /\ loop' = IF frame.cmd = "ERROR" THEN "callback" ELSE "read"
  /\ frame' = IF frame.cmd = "ERROR" THEN frame ELSE NoFrame
  /\ UNCHANGED <<transport, wire, client, partial, threads, history>>

CallbackReturns ==
  /\ loop = "callback" /\ pc[Reader] = "idle"
  /\ loop' = "read"
  /\ frame' = NoFrame
  /\ UNCHANGED <<transport, wire, client, partial, threads, history>>
-----------------------------------------------------------------------------
(* The end of a connection: handleTransportError(), handleTransportClosed() *)

Report == reports' = [reports EXCEPT ![session] = @ + 1]

\* handleTransportError() leaves m_connected as it is.
FaultyReaderFails ==
  /\ reader = "reading" /\ loop = "read" /\ loop' = "failed"
  /\ Report
  /\ UNCHANGED <<transport, wire, client, partial, frame, threads, greeted,
                 abandoned, heard, unsubscribed, late>>

ReaderFails ==
  /\ reader = "reading" /\ loop = "read"
  /\ loop' = "failed"
  /\ m_connected' = FALSE
  /\ Report
  /\ UNCHANGED <<transport, wire, m_subscriptions, m_nextSubId, partial, frame,
                 threads, greeted, abandoned, heard, unsubscribed, late>>

\* After an error, at the end of the stream, or told to by open() or close().
ReaderEnds ==
  /\ reader = "reading" /\ loop \in {"read", "failed"} /\ pc[Reader] = "idle"
  /\ loop' = "ended"
  /\ DropTransport
  /\ UNCHANGED <<lifecycle, session, wire, client, partial, frame, threads,
                 history>>

CallOnClose ==
  /\ loop = "ended" /\ loop' = "closed"
  /\ Transport!Report
  /\ UNCHANGED <<lifecycle, session, wire, client, partial, frame, threads,
                 history>>

\* handleTransportClosed() reads m_connected and does not lower it.
FaultyHandleClosed ==
  /\ loop = "closed" /\ loop' = "onDisconnected"
  /\ IF m_connected THEN Report ELSE UNCHANGED reports
  /\ UNCHANGED <<transport, wire, client, partial, frame, threads, greeted,
                 abandoned, heard, unsubscribed, late>>

\* handleTransportClosed() lowers m_connected and then reads it.
FaultyHandleClosedOrder ==
  /\ loop = "closed" /\ loop' = "onDisconnected"
  /\ m_connected' = FALSE
  /\ UNCHANGED <<transport, wire, m_subscriptions, m_nextSubId, partial, frame,
                 threads, history>>

HandleClosed ==
  /\ loop = "closed" /\ loop' = "onDisconnected"
  /\ m_connected' = FALSE
  /\ IF m_connected THEN Report ELSE UNCHANGED reports
  /\ UNCHANGED <<transport, wire, m_subscriptions, m_nextSubId, partial, frame,
                 threads, greeted, abandoned, heard, unsubscribed, late>>

ReaderReturns ==
  /\ loop = "onDisconnected" /\ pc[Reader] = "idle"
  /\ loop' = "read"
  /\ Transport!Finish
  /\ UNCHANGED <<lifecycle, session, wire, client, partial, frame, threads,
                 history>>
-----------------------------------------------------------------------------
(* The broker                                                              *)

Frame(cmd, id) == [cmd |-> cmd, id |-> id, tail |-> FALSE]

BrokerReceives ==
  /\ reader = "reading" /\ toBroker # <<>>
  /\ toBroker' = Tail(toBroker)
  /\ LET f == Head(toBroker) IN
       /\ broker' = CASE f.cmd = "CONNECT" -> [broker EXCEPT !.connected = TRUE]
                      [] f.cmd = "DISCONNECT" ->
                           [broker EXCEPT !.connected = FALSE]
                      [] f.cmd = "SUBSCRIBE" ->
                           [broker EXCEPT !.subscriptions = @ \cup {f.id}]
                      [] f.cmd = "UNSUBSCRIBE" ->
                           [broker EXCEPT !.subscriptions = @ \ {f.id}]
                      [] OTHER -> broker
       /\ IF f.cmd = "CONNECT"
          THEN Len(toClient) < MaxQueue
               /\ toClient' = Append(toClient, Frame("CONNECTED", None))
          ELSE UNCHANGED toClient
  /\ heard' = TRUE
  /\ UNCHANGED <<transport, client, reading, threads, greeted, abandoned,
                 reports, unsubscribed, late>>

\* One MESSAGE of broadcast_message(); or an ERROR, which other brokers send.
BrokerSends ==
  /\ reader = "reading" /\ broker.connected /\ Len(toClient) < MaxQueue
  /\ \/ \E id \in broker.subscriptions :
          toClient' = Append(toClient, Frame("MESSAGE", id))
     \/ toClient' = Append(toClient, Frame("ERROR", None))
  /\ UNCHANGED <<transport, toBroker, broker, client, reading, threads, history>>
-----------------------------------------------------------------------------
AppStep(t) ==
  \/ ConnectCall(t) \/ OpenDrops(t) \/ OpenConnects(t) \/ OpenFails(t)
  \/ DisconnectCall(t) \/ LowerConnected(t) \/ CloseDrops(t) \/ CloseReturns(t)

AnyStep(t) ==
  \/ SubscribeCall(t) \/ UnsubscribeCall(t) \/ SendCall(t)
  \/ TestConnected(t) \/ Write(t)

ReaderStep ==
  \/ FeedHead \/ FeedEnd \/ FeedRest \/ HandleConnected \/ HandleMessage
  \/ CallHandler \/ HandleOther \/ CallbackReturns \/ ReaderFails \/ ReaderEnds
  \/ CallOnClose \/ HandleClosed \/ ReaderReturns

BrokerStep == BrokerReceives \/ BrokerSends

Next ==
  \/ \E a \in Apps : AppStep(a)
  \/ \E t \in Threads : AnyStep(t)
  \/ ReaderStep
  \/ BrokerStep

Spec == Init /\ [][Next]_vars
=============================================================================
