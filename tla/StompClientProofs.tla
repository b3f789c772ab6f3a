-------------------------- MODULE StompClientProofs --------------------------
(***************************************************************************)
(* Proofs about StompClient for any number of application threads,         *)
(* connections and subscriptions and queues of any length.                 *)
(*                                                                         *)
(* ClientInv has five parts; ConnectFirst adds FirstInv, for programs with *)
(* one application thread. Small operators are expanded everywhere, and    *)
(* the invariant's parts where a step needs them.                          *)
(***************************************************************************)
EXTENDS StompClientProps, TLAPS

USE ConstantsAssumption
USE DEF None, Threads, SubIds, Sessions, Go, Sends, DropTransport, CanCall, NoFrame,
        Sent, Nothing,
        Pcs, Callbacks, LoopPcs, ToBroker, ToClient,
        transport, wire, client, reading, threads, history,
        Transport!Init, Transport!TypeOK, Transport!Connect, Transport!Drop,
        Report, Transport!Report, Transport!Finish, Transport!vars

\* What a queue holds after Tail() was in it before.
LEMMA Dropped ==
  ASSUME NEW S, NEW s \in Seq(S), s # <<>>
  PROVE  /\ Head(s) \in S /\ Head(s) = s[1] /\ 1 \in 1 .. Len(s)
         /\ Tail(s) \in Seq(S)
         /\ \A k \in 1 .. Len(Tail(s)) :
              k + 1 \in 1 .. Len(s) /\ Tail(s)[k] = s[k + 1]
  OBVIOUS

\* The first element of toClient changed in place.
LEMMA Replaced ==
  ASSUME NEW e \in Incoming, toClient \in Seq(Incoming), toClient # <<>>,
         toClient' = <<e>> \o Tail(toClient)
  PROVE  /\ toClient' \in Seq(Incoming)
         /\ \A k \in 1 .. Len(toClient') :
              \/ toClient'[k] = e
              \/ k \in 1 .. Len(toClient) /\ toClient'[k] = toClient[k]
  OBVIOUS

\* A frame that is being sent is a frame,
LEMMA IsFrame ==
  ASSUME CallType, NEW t \in Threads, pc[t] \in {"test", "write"}
  PROVE  sending[t] \in Outgoing
  BY DEF CallType

\* and once written the last one in the queue, or lost.
LEMMA Written ==
  ASSUME WireType, CallType, NEW t \in Threads, Write(t)
  PROVE  /\ toBroker' \in Seq(Outgoing)
         /\ \A k \in 1 .. Len(toBroker') :
              \/ toBroker'[k] = sending[t]
              \/ k \in 1 .. Len(toBroker) /\ toBroker'[k] = toBroker[k]
  <1>1. sending[t] \in Outgoing BY IsFrame DEF Write, Done
  <1>2. CASE toBroker' = Append(toBroker, sending[t])
    BY <1>1, <1>2 DEF WireType
  <1>3. CASE UNCHANGED toBroker BY <1>3 DEF WireType
  <1>4. QED BY <1>2, <1>3 DEF Write

\* A call that starts a send keeps the types,
LEMMA Started ==
  ASSUME CallType, NEW t \in Threads, NEW f \in Outgoing,
         NEW from \in {"idle", "opening"}, NEW to \in {"test", "write"},
         Sends(t, from, to, f), refused' \in BOOLEAN
  PROVE  CallType'
  <1>1. f # Nothing BY DEF Outgoing
  <1>2. QED BY <1>1 DEF CallType

\* and so does the end of one.
LEMMA Ended ==
  ASSUME CallType, NEW t \in Threads, NEW from \in {"test", "write"},
         Done(t, from), refused' \in BOOLEAN
  PROVE  CallType'
  BY DEF CallType, Done
-----------------------------------------------------------------------------
\* The initial state has the invariant.
THEOREM InitInv == Init => ClientInv
  <1> SUFFICES ASSUME Init PROVE ClientInv OBVIOUS
  <1>1. TypeOK
    <2>1. StateType
      <3>1. Transport!TypeOK /\ lifecycle \in Apps \cup {None} BY DEF Init
      <3>2. session \in 0 .. MaxSessions /\ m_nextSubId \in 1 .. MaxSubs + 1
        BY DEF Init
      <3>3. m_connected \in BOOLEAN /\ m_subscriptions \subseteq SubIds BY DEF Init
      <3>4. loop \in LoopPcs BY DEF Init
      <3>5. QED BY <3>1, <3>2, <3>3, <3>4 DEF StateType
    <2>2. WireType BY DEF Init, WireType
    <2>3. FrameType BY DEF Init, FrameType
    <2>4. CallType BY DEF Init, CallType
    <2>5. HistoryType BY DEF Init, HistoryType
    <2>6. QED BY <2>1, <2>2, <2>3, <2>4, <2>5 DEF TypeOK
  <1>2. ReaderInv BY DEF Init, ReaderInv
  <1>3. IdInv BY DEF Init, IdInv, Known
  <1>4. LateInv BY DEF Init, LateInv
  <1>5. ReportInv BY DEF Init, ReportInv
  <1>6. QED BY <1>1, <1>2, <1>3, <1>4, <1>5 DEF ClientInv

\* The steps of connect() and disconnect() keep it.
LEMMA AppStepInv ==
  ASSUME NEW t \in Apps, ClientInv, AppStep(t)
  PROVE  ClientInv'
  <1> USE DEF ClientInv, TypeOK
  <1>1. CASE ConnectCall(t)
    <2> USE <1>1 DEF ConnectCall
    <2>1. (StateType /\ WireType /\ CallType)' BY DEF StateType, WireType, CallType
    <2>2. FrameType' BY DEF FrameType, StateType
    <2>3. HistoryType' BY DEF HistoryType, StateType
    <2>4. (ReaderInv /\ IdInv /\ LateInv /\ ReportInv)'
      BY DEF ReaderInv, IdInv, LateInv, ReportInv, Known
    <2>5. QED BY <2>1, <2>2, <2>3, <2>4
  <1>2. CASE OpenDrops(t)
    <2> USE <1>2 DEF OpenDrops
    <2>1. (StateType /\ WireType)' BY DEF StateType, WireType
    <2>2. (FrameType /\ CallType)' BY DEF FrameType, CallType
    <2>3. HistoryType' BY DEF HistoryType, StateType
    <2>4. (ReaderInv /\ IdInv /\ LateInv /\ ReportInv)'
      BY DEF ReaderInv, IdInv, LateInv, ReportInv, Known
    <2>5. QED BY <2>1, <2>2, <2>3, <2>4
  <1>3. CASE OpenConnects(t)
    <2> USE <1>3 DEF OpenConnects
    <2>1. Sent("CONNECT", None) \in Outgoing BY DEF Outgoing
    <2>2. CallType' BY <2>1, Started
    <2>3. (StateType /\ WireType)' BY DEF StateType, WireType
    <2>4. FrameType' BY DEF FrameType, StateType
    <2>5. HistoryType'
      <3> USE DEF StateType, HistoryType
      <3>1. (heard \in BOOLEAN /\ unsubscribed \subseteq SubIds)' OBVIOUS
      <3>2. QED BY <3>1
    <2>6. ReaderInv' BY DEF StateType, CallType, ReaderInv
    <2>7. (IdInv /\ LateInv)' BY DEF CallType, IdInv, LateInv, Known
    <2>8. ReportInv' BY DEF StateType, HistoryType, ReportInv
    <2>9. QED BY <2>2, <2>3, <2>4, <2>5, <2>6, <2>7, <2>8
  <1>4. CASE OpenFails(t)
    <2> USE <1>4 DEF OpenFails
    <2>1. (StateType /\ WireType)' BY DEF StateType, WireType
    <2>2. (FrameType /\ CallType /\ HistoryType)'
      <3>1. FrameType' BY DEF FrameType
      <3>2. CallType' BY DEF CallType
      <3>3. HistoryType' BY DEF HistoryType
      <3>4. QED BY <3>1, <3>2, <3>3
    <2>3. (ReaderInv /\ IdInv /\ LateInv /\ ReportInv)'
      BY DEF ReaderInv, IdInv, LateInv, ReportInv, Known
    <2>4. QED BY <2>1, <2>2, <2>3
  <1>5. CASE DisconnectCall(t)
    <2> USE <1>5 DEF DisconnectCall
    <2>1. (StateType /\ WireType /\ FrameType /\ HistoryType)'
      <3>1. StateType' BY DEF StateType
      <3>2. WireType' BY DEF WireType
      <3>3. FrameType' BY DEF FrameType
      <3>4. HistoryType' BY DEF HistoryType
      <3>5. QED BY <3>1, <3>2, <3>3, <3>4
    <2>2. Sent("DISCONNECT", None) \in Outgoing BY DEF Outgoing
    <2>3. CASE m_connected
      <3>1. CallType' BY <2>2, <2>3, Started DEF CallType
      <3>2. (ReaderInv /\ LateInv /\ ReportInv)'
        BY <2>3 DEF CallType, ReaderInv, LateInv, ReportInv
      <3>3. IdInv' BY <2>3 DEF CallType, IdInv, Known
      <3>4. QED BY <2>1, <3>1, <3>2, <3>3
    <2>4. CASE ~m_connected
      <3>1. CallType' BY <2>4 DEF CallType
      <3>2. (ReaderInv /\ LateInv /\ ReportInv)'
        BY <2>4 DEF CallType, ReaderInv, LateInv, ReportInv
      <3>3. IdInv' BY <2>4 DEF IdInv, Known
      <3>4. QED BY <2>1, <3>1, <3>2, <3>3
    <2>5. QED BY <2>3, <2>4
  <1>6. CASE LowerConnected(t)
    <2> USE <1>6 DEF LowerConnected
    <2>1. (StateType /\ WireType)' BY DEF StateType, WireType
    <2>2. (FrameType /\ CallType)' BY DEF FrameType, CallType
    <2>3. HistoryType' BY DEF HistoryType, StateType
    <2>4. (ReaderInv /\ IdInv /\ LateInv /\ ReportInv)'
      BY DEF ReaderInv, IdInv, LateInv, ReportInv, Known
    <2>5. QED BY <2>1, <2>2, <2>3, <2>4
  <1>7. CASE CloseDrops(t)
    <2> USE <1>7 DEF CloseDrops
    <2>1. (StateType /\ WireType)' BY DEF StateType, WireType
    <2>2. (FrameType /\ CallType)' BY DEF FrameType, CallType
    <2>3. HistoryType' BY DEF HistoryType, StateType
    <2>4. (ReaderInv /\ IdInv /\ LateInv /\ ReportInv)'
      BY DEF ReaderInv, IdInv, LateInv, ReportInv, Known
    <2>5. QED BY <2>1, <2>2, <2>3, <2>4
  <1>8. CASE CloseReturns(t)
    <2> USE <1>8 DEF CloseReturns
    <2>1. (StateType /\ WireType)' BY DEF StateType, WireType
    <2>2. (FrameType /\ CallType /\ HistoryType)'
      <3>1. FrameType' BY DEF FrameType
      <3>2. CallType' BY DEF CallType
      <3>3. HistoryType' BY DEF HistoryType
      <3>4. QED BY <3>1, <3>2, <3>3
    <2>3. (ReaderInv /\ IdInv /\ LateInv /\ ReportInv)'
      BY DEF ReaderInv, IdInv, LateInv, ReportInv, Known
    <2>4. QED BY <2>1, <2>2, <2>3
  <1>9. QED
    BY <1>1, <1>2, <1>3, <1>4, <1>5, <1>6, <1>7, <1>8 DEF AppStep

\* So do the calls that callbacks may make too.
LEMMA AnyStepInv ==
  ASSUME NEW t \in Threads, ClientInv, AnyStep(t)
  PROVE  ClientInv'
  <1> USE DEF ClientInv, TypeOK
  <1>1. CASE SubscribeCall(t)
    <2> USE <1>1 DEF SubscribeCall
    <2>1. StateType'
      <3> USE DEF StateType, ReaderInv
      <3>1. (m_nextSubId \in 1 .. MaxSubs + 1)' OBVIOUS
      <3>2. QED BY <3>1
    <2>2. (WireType /\ FrameType /\ CallType /\ HistoryType)'
      <3>1. Sent("SUBSCRIBE", m_nextSubId) \in Outgoing BY DEF Outgoing
      <3>2. CallType' BY <3>1, Started DEF CallType
      <3>3. QED BY <3>2 DEF WireType, FrameType, HistoryType
    <2>3. (ReaderInv /\ LateInv /\ ReportInv)' BY DEF CallType, ReaderInv, LateInv, ReportInv
    <2>4. IdInv'
      <3> USE DEF StateType, WireType, CallType, HistoryType, IdInv
      <3>1. Known' = Known \cup {m_nextSubId} BY DEF Known
      <3>2. (\A id \in Known : id < m_nextSubId)' BY <3>1 DEF Known
      <3>3. (m_subscriptions \cap unsubscribed = {})' BY <3>1 DEF Known
      <3>4. (\A u \in Threads :
                /\ sending[u].id \in Known \cup {None}
                /\ sending[u].cmd = "SUBSCRIBE" => sending[u].id # None)'
        BY <3>1
      <3>5. (\A k \in 1 .. Len(toBroker) :
                /\ toBroker[k].id \in Known \cup {None}
                /\ toBroker[k].cmd = "SUBSCRIBE" => toBroker[k].id # None)' BY <3>1
      <3>6. (broker.subscriptions \subseteq Known)' BY <3>1
      <3>7. (\A k \in 1 .. Len(toClient) : toClient[k].id \in Known \cup {None})'
        BY <3>1
      <3>8. (partial.id \in Known \cup {None} /\ frame.id \in Known \cup {None})'
        BY <3>1
      <3>9. QED BY <3>2, <3>3, <3>4, <3>5, <3>6, <3>7, <3>8
    <2>5. QED BY <2>1, <2>2, <2>3, <2>4
  <1>2. CASE UnsubscribeCall(t)
    <2> USE <1>2 DEF UnsubscribeCall
    <2>1. (StateType /\ WireType /\ FrameType)'
      <3>1. StateType' BY DEF StateType
      <3>2. WireType' BY DEF WireType
      <3>3. FrameType' BY DEF FrameType
      <3>4. QED BY <3>1, <3>2, <3>3
    <2>2. CallType'
      <3>1. PICK i \in SubIds : Sends(t, "idle", "test", Sent("UNSUBSCRIBE", i)) OBVIOUS
      <3>2. Sent("UNSUBSCRIBE", i) \in Outgoing BY DEF Outgoing
      <3>3. QED BY <3>1, <3>2, Started DEF CallType
    <2>3. HistoryType' BY DEF HistoryType, StateType
    <2>4. (ReaderInv /\ LateInv /\ ReportInv)' BY DEF ReaderInv, LateInv, ReportInv
    <2>5. IdInv'
      <3> USE DEF StateType, WireType, CallType, HistoryType, IdInv
      <3>1. PICK i \in SubIds :
              /\ Returned(i)
              /\ sending' = [sending EXCEPT ![t] = Sent("UNSUBSCRIBE", i)]
              /\ m_subscriptions' = m_subscriptions \ {i}
              /\ unsubscribed' = unsubscribed \cup {i}
        OBVIOUS
      <3>2. Known' = Known \cup {i} BY <3>1 DEF Known
      <3>3. (\A id \in Known : id < m_nextSubId)'
        <4>1. i < m_nextSubId BY <3>1 DEF Returned
        <4>2. QED BY ONLY <4>1, <3>2, IdInv, UNCHANGED m_nextSubId
      <3>4. (\A u \in Threads :
                /\ sending[u].id \in Known \cup {None}
                /\ sending[u].cmd = "SUBSCRIBE" => sending[u].id # None)'
        BY <3>1, <3>2
      <3>5. (\A k \in 1 .. Len(toBroker) :
                /\ toBroker[k].id \in Known \cup {None}
                /\ toBroker[k].cmd = "SUBSCRIBE" => toBroker[k].id # None)'
        BY <3>1, <3>2
      <3>6. (broker.subscriptions \subseteq Known)' BY <3>1, <3>2
      <3>7. (\A k \in 1 .. Len(toClient) : toClient[k].id \in Known \cup {None})'
        BY <3>1, <3>2
      <3>8. (partial.id \in Known \cup {None} /\ frame.id \in Known \cup {None})'
        BY <3>1, <3>2
      <3>9. QED BY <3>3, <3>4, <3>5, <3>6, <3>7, <3>8
    <2>6. QED BY <2>1, <2>2, <2>3, <2>4, <2>5
  <1>3. CASE SendCall(t)
    <2> USE <1>3 DEF SendCall
    <2>1. Sent("SEND", None) \in Outgoing BY DEF Outgoing
    <2>2. CallType' BY <2>1, Started DEF CallType
    <2>3. (StateType /\ WireType /\ FrameType /\ HistoryType)'
      <3>1. StateType' BY DEF StateType
      <3>2. WireType' BY DEF WireType
      <3>3. FrameType' BY DEF FrameType
      <3>4. HistoryType' BY DEF HistoryType
      <3>5. QED BY <3>1, <3>2, <3>3, <3>4
    <2>4. (ReaderInv /\ LateInv /\ ReportInv)'
      BY DEF CallType, ReaderInv, LateInv, ReportInv
    <2>5. IdInv' BY DEF CallType, IdInv, Known
    <2>6. QED BY <2>2, <2>3, <2>4, <2>5
  <1>4. CASE TestConnected(t)
    <2> USE <1>4 DEF TestConnected
    <2>1. CallType'
      <3>1. CASE up BY <3>1 DEF CallType
      <3>2. CASE ~up BY <3>2, Ended DEF CallType, NotSent
      <3>3. QED BY <3>1, <3>2
    <2>2. (StateType /\ WireType /\ FrameType /\ HistoryType)'
      <3>1. StateType' BY DEF StateType
      <3>2. WireType' BY DEF WireType
      <3>3. FrameType' BY DEF FrameType
      <3>4. HistoryType' BY DEF HistoryType
      <3>5. QED BY <3>1, <3>2, <3>3, <3>4
    <2>3. (ReaderInv /\ LateInv /\ ReportInv)'
      BY DEF Done, CallType, ReaderInv, LateInv, ReportInv
    <2>4. IdInv' BY DEF Done, CallType, IdInv, Known
    <2>5. QED BY <2>1, <2>2, <2>3, <2>4
  <1>5. CASE Write(t)
    <2> USE <1>5
    <2>1. /\ toBroker' \in Seq(Outgoing)
          /\ \A k \in 1 .. Len(toBroker') :
               \/ toBroker'[k] = sending[t]
               \/ k \in 1 .. Len(toBroker) /\ toBroker'[k] = toBroker[k]
      BY Written
    <2> USE DEF Write
    <2>2. CallType' BY Ended DEF CallType, NotSent
    <2>3. (StateType /\ FrameType /\ HistoryType)'
      <3>1. StateType' BY DEF StateType
      <3>2. FrameType' BY DEF FrameType
      <3>3. HistoryType' BY DEF HistoryType
      <3>4. QED BY <3>1, <3>2, <3>3
    <2>4. WireType' BY <2>1 DEF WireType
    <2>5. (ReaderInv /\ LateInv /\ ReportInv)'
      BY DEF Done, CallType, ReaderInv, LateInv, ReportInv
    <2>6. IdInv' BY <2>1 DEF Done, CallType, IdInv, Known
    <2>7. QED BY <2>2, <2>3, <2>4, <2>5, <2>6
  <1>6. QED BY <1>1, <1>2, <1>3, <1>4, <1>5 DEF AnyStep

\* So does the reading thread.
LEMMA ReaderStepInv ==
  ASSUME ClientInv, ReaderStep
  PROVE  ClientInv'
  <1> USE DEF ClientInv, TypeOK
  <1>1. CASE FeedHead
    <2> USE <1>1 DEF FeedHead
    <2> DEFINE head == [Head(toClient) EXCEPT !.tail = TRUE]
    <2>1. Head(toClient) \in Incoming /\ Head(toClient).id \in Known \cup {None}
      BY Dropped DEF WireType, IdInv
    <2>2. head \in Incoming /\ head.id = Head(toClient).id
      BY <2>1 DEF Incoming
    <2>3. toClient' = <<head>> \o Tail(toClient) OBVIOUS
    <2> HIDE DEF head
    <2>4. /\ toClient' \in Seq(Incoming)
          /\ \A k \in 1 .. Len(toClient') :
               \/ toClient'[k] = head
               \/ k \in 1 .. Len(toClient) /\ toClient'[k] = toClient[k]
      BY <2>2, <2>3, Replaced DEF WireType
    <2>5. /\ Head(toClient).cmd \in ToClient /\ Head(toClient).id \in SubIds \cup {None}
      BY <2>1 DEF Incoming
    <2>6. (StateType /\ CallType /\ HistoryType)'
      <3>1. StateType' BY DEF StateType
      <3>2. CallType' BY DEF CallType
      <3>3. HistoryType' BY DEF HistoryType
      <3>4. QED BY <3>1, <3>2, <3>3
    <2>7. WireType' BY <2>4 DEF WireType
    <2>8. FrameType' BY <2>5 DEF FrameType, StateType
    <2>9. (ReaderInv /\ LateInv /\ ReportInv)' BY DEF ReaderInv, LateInv, ReportInv
    <2>10. IdInv' BY <2>1, <2>2, <2>4 DEF IdInv, Known
    <2>11. QED BY <2>6, <2>7, <2>8, <2>9, <2>10
  <1>2. CASE FeedEnd
    <2> USE <1>2 DEF FeedEnd
    <2>1. /\ Head(toClient) \in Incoming /\ Head(toClient).id \in Known \cup {None}
          /\ toClient' \in Seq(Incoming)
          /\ \A k \in 1 .. Len(toClient') :
               k + 1 \in 1 .. Len(toClient) /\ toClient'[k] = toClient[k + 1]
      BY Dropped DEF WireType, IdInv
    <2>2. /\ Head(toClient).cmd \in ToClient /\ Head(toClient).id \in SubIds \cup {None}
      BY <2>1 DEF Incoming
    <2>3. (StateType /\ WireType)' BY DEF StateType, WireType
    <2>4. FrameType' BY <2>2 DEF FrameType, StateType
    <2>5. (CallType /\ HistoryType)' BY DEF CallType, HistoryType
    <2>6. (ReaderInv /\ LateInv /\ ReportInv)' BY DEF ReaderInv, LateInv, ReportInv
    <2>7. IdInv' BY <2>1 DEF WireType, IdInv, Known
    <2>8. QED BY <2>3, <2>4, <2>5, <2>6, <2>7
  <1>3. CASE FeedRest
    <2> USE <1>3 DEF FeedRest
    <2>1. (StateType /\ WireType)' BY DEF StateType, WireType
    <2>2. FrameType' BY DEF FrameType, StateType
    <2>3. (CallType /\ HistoryType)' BY DEF CallType, HistoryType
    <2>4. (ReaderInv /\ IdInv /\ LateInv /\ ReportInv)'
      BY DEF ReaderInv, IdInv, LateInv, ReportInv, Known
    <2>5. QED BY <2>1, <2>2, <2>3, <2>4
  <1>4. CASE HandleConnected
    <2> USE <1>4 DEF HandleConnected
    <2>1. (StateType /\ WireType /\ FrameType /\ CallType)'
      <3>1. StateType' BY DEF StateType
      <3>2. WireType' BY DEF WireType
      <3>3. FrameType' BY DEF FrameType
      <3>4. CallType' BY DEF CallType
      <3>5. QED BY <3>1, <3>2, <3>3, <3>4
    <2>2. HistoryType' BY DEF HistoryType, StateType, ReaderInv
    <2>3. (ReaderInv /\ IdInv /\ LateInv)' BY DEF ReaderInv, IdInv, LateInv, Known
    <2>4. ReportInv' BY DEF ReaderInv, ReportInv
    <2>5. QED BY <2>1, <2>2, <2>3, <2>4
  <1>5. CASE HandleMessage
    <2> USE <1>5 DEF HandleMessage
    <2>1. (StateType /\ WireType /\ CallType /\ HistoryType)'
      <3>1. StateType' BY DEF StateType
      <3>2. WireType' BY DEF WireType
      <3>3. CallType' BY DEF CallType
      <3>4. HistoryType' BY DEF HistoryType
      <3>5. QED BY <3>1, <3>2, <3>3, <3>4
    <2>2. FrameType' BY DEF FrameType, StateType
    <2>3. (ReaderInv /\ IdInv /\ ReportInv)'
      BY DEF ReaderInv, IdInv, ReportInv, Known
    <2>4. LateInv'
      <3> USE DEF StateType, HistoryType, IdInv, LateInv
      <3>1. CASE frame.id \in m_subscriptions
        <4>1. QED BY <3>1
      <3>2. QED BY <3>1
    <2>5. QED BY <2>1, <2>2, <2>3, <2>4
  <1>6. CASE CallHandler
    <2> USE <1>6 DEF CallHandler
    <2>1. (StateType /\ WireType /\ FrameType /\ CallType)'
      <3>1. StateType' BY DEF StateType
      <3>2. WireType' BY DEF WireType
      <3>3. FrameType' BY DEF FrameType
      <3>4. CallType' BY DEF CallType
      <3>5. QED BY <3>1, <3>2, <3>3, <3>4
    <2>2. HistoryType'
      <3> USE DEF StateType, HistoryType
      <3>1. (late \in [SubIds -> Nat])'
        <4>1. CASE frame.id \in unsubscribed
          <5>1. frame.id \in SubIds /\ late' = [late EXCEPT ![frame.id] = @ + 1]
            BY <4>1
          <5>2. QED BY <5>1
        <4>2. QED BY <4>1
      <3>2. QED BY <3>1
    <2>3. (ReaderInv /\ IdInv /\ ReportInv)'
      BY DEF ReaderInv, IdInv, ReportInv, Known
    <2>4. LateInv'
      <3> USE DEF StateType, HistoryType, LateInv
      <3>1. CASE frame.id \in unsubscribed
        <4>1. QED BY <3>1
      <3>2. QED BY <3>1
    <2>5. QED BY <2>1, <2>2, <2>3, <2>4
  <1>7. CASE HandleOther
    <2> USE <1>7 DEF HandleOther
    <2>1. (StateType /\ WireType /\ CallType /\ HistoryType)'
      <3>1. StateType' BY DEF StateType
      <3>2. WireType' BY DEF WireType
      <3>3. CallType' BY DEF CallType
      <3>4. HistoryType' BY DEF HistoryType
      <3>5. QED BY <3>1, <3>2, <3>3, <3>4
    <2>2. FrameType' BY DEF FrameType, StateType
    <2>3. (ReaderInv /\ IdInv /\ LateInv /\ ReportInv)'
      BY DEF ReaderInv, IdInv, LateInv, ReportInv, Known
    <2>4. QED BY <2>1, <2>2, <2>3
  <1>8. CASE CallbackReturns
    <2> USE <1>8 DEF CallbackReturns
    <2>1. (StateType /\ WireType /\ CallType /\ HistoryType)'
      <3>1. StateType' BY DEF StateType
      <3>2. WireType' BY DEF WireType
      <3>3. CallType' BY DEF CallType
      <3>4. HistoryType' BY DEF HistoryType
      <3>5. QED BY <3>1, <3>2, <3>3, <3>4
    <2>2. FrameType' BY DEF FrameType, StateType
    <2>3. (ReaderInv /\ IdInv /\ LateInv /\ ReportInv)'
      BY DEF ReaderInv, IdInv, LateInv, ReportInv, Known
    <2>4. QED BY <2>1, <2>2, <2>3
  <1>9. CASE ReaderFails
    <2> USE <1>9 DEF ReaderFails
    <2>1. (StateType /\ WireType)' BY DEF StateType, WireType
    <2>2. (FrameType /\ CallType)' BY DEF FrameType, CallType
    <2>3. HistoryType' BY DEF HistoryType, StateType, ReaderInv
    <2>4. (ReaderInv /\ IdInv /\ LateInv)' BY DEF ReaderInv, IdInv, LateInv, Known
    <2>5. ReportInv' BY DEF StateType, HistoryType, ReportInv
    <2>6. QED BY <2>1, <2>2, <2>3, <2>4, <2>5
  <1>10. CASE ReaderEnds
    <2> USE <1>10 DEF ReaderEnds
    <2>1. (StateType /\ WireType)' BY DEF StateType, WireType
    <2>2. (FrameType /\ CallType /\ HistoryType)'
      <3>1. FrameType' BY DEF FrameType
      <3>2. CallType' BY DEF CallType
      <3>3. HistoryType' BY DEF HistoryType
      <3>4. QED BY <3>1, <3>2, <3>3
    <2>3. (ReaderInv /\ IdInv /\ LateInv /\ ReportInv)'
      BY DEF ReaderInv, IdInv, LateInv, ReportInv, Known
    <2>4. QED BY <2>1, <2>2, <2>3
  <1>11. CASE CallOnClose
    <2> USE <1>11 DEF CallOnClose
    <2>1. (StateType /\ WireType)' BY DEF StateType, WireType
    <2>2. (FrameType /\ CallType /\ HistoryType)'
      <3>1. FrameType' BY DEF FrameType
      <3>2. CallType' BY DEF CallType
      <3>3. HistoryType' BY DEF HistoryType
      <3>4. QED BY <3>1, <3>2, <3>3
    <2>3. (ReaderInv /\ IdInv /\ LateInv /\ ReportInv)'
      BY DEF ReaderInv, IdInv, LateInv, ReportInv, Known
    <2>4. QED BY <2>1, <2>2, <2>3
  <1>12. CASE HandleClosed
    <2> USE <1>12 DEF HandleClosed
    <2>1. (StateType /\ WireType)' BY DEF StateType, WireType
    <2>2. (FrameType /\ CallType)' BY DEF FrameType, CallType
    <2>3. HistoryType'
      <3>1. CASE m_connected
        <4>1. session \in Sessions BY <3>1 DEF ReportInv, ReaderInv
        <4>2. reports' \in [Sessions -> Nat] BY <3>1, <4>1 DEF HistoryType
        <4>3. QED BY <4>2 DEF HistoryType
      <3>2. CASE ~m_connected BY <3>2 DEF HistoryType
      <3>3. QED BY <3>1, <3>2
    <2>4. (ReaderInv /\ IdInv /\ LateInv)' BY DEF ReaderInv, IdInv, LateInv, Known
    <2>5. ReportInv' BY DEF StateType, HistoryType, ReportInv
    <2>6. QED BY <2>1, <2>2, <2>3, <2>4, <2>5
  <1>13. CASE ReaderReturns
    <2> USE <1>13 DEF ReaderReturns
    <2>1. (StateType /\ WireType)' BY DEF StateType, WireType
    <2>2. (FrameType /\ CallType /\ HistoryType)'
      <3>1. FrameType' BY DEF FrameType
      <3>2. CallType' BY DEF CallType
      <3>3. HistoryType' BY DEF HistoryType
      <3>4. QED BY <3>1, <3>2, <3>3
    <2>3. (ReaderInv /\ IdInv /\ LateInv /\ ReportInv)'
      BY DEF ReaderInv, IdInv, LateInv, ReportInv, Known
    <2>4. QED BY <2>1, <2>2, <2>3
  <1>14. QED
    BY <1>1, <1>2, <1>3, <1>4, <1>5, <1>6, <1>7, <1>8, <1>9, <1>10, <1>11, <1>12, <1>13
    DEF ReaderStep

\* So does the broker.
LEMMA BrokerStepInv ==
  ASSUME ClientInv, BrokerStep
  PROVE  ClientInv'
  <1> USE DEF ClientInv, TypeOK
  <1>1. CASE BrokerReceives
    <2> USE <1>1 DEF BrokerReceives
    <2> DEFINE f == Head(toBroker)
    <2>1. /\ f \in Outgoing /\ f.id \in Known \cup {None}
          /\ f.cmd = "SUBSCRIBE" => f.id # None
      BY Dropped DEF WireType, IdInv
    <2>2. f.cmd \in ToBroker /\ f.id \in SubIds \cup {None} BY <2>1 DEF Outgoing
    <2>3. /\ toBroker' \in Seq(Outgoing)
          /\ \A k \in 1 .. Len(toBroker') :
               k + 1 \in 1 .. Len(toBroker) /\ toBroker'[k] = toBroker[k + 1]
      BY DEF WireType
    <2>4. /\ toClient' \in Seq(Incoming)
          /\ \A k \in 1 .. Len(toClient') :
               \/ toClient'[k].id = None
               \/ k \in 1 .. Len(toClient) /\ toClient'[k] = toClient[k]
      <3>1. Frame("CONNECTED", None) \in Incoming BY DEF Frame, Incoming
      <3>2. Frame("CONNECTED", None).id = None BY DEF Frame
      <3>3. CASE UNCHANGED toClient BY <3>3 DEF WireType
      <3>4. CASE toClient' = Append(toClient, Frame("CONNECTED", None))
        BY <3>1, <3>2, <3>4 DEF WireType
      <3>5. QED BY <3>3, <3>4
    <2>5. /\ broker' \in [connected : BOOLEAN, subscriptions : SUBSET SubIds]
          /\ broker'.subscriptions \subseteq Known
      <3>1. \/ broker' = broker
            \/ \E c \in BOOLEAN : broker' = [broker EXCEPT !.connected = c]
            \/ f.cmd = "SUBSCRIBE" /\ broker' = [broker EXCEPT !.subscriptions = @ \cup {f.id}]
            \/ broker' = [broker EXCEPT !.subscriptions = @ \ {f.id}]
        OBVIOUS
      <3> HIDE DEF BrokerReceives
      <3>2. CASE broker' = broker BY <3>2 DEF WireType, IdInv
      <3>3. CASE \E c \in BOOLEAN : broker' = [broker EXCEPT !.connected = c]
        BY <3>3 DEF WireType, IdInv
      <3>4. CASE f.cmd = "SUBSCRIBE" /\ broker' = [broker EXCEPT !.subscriptions = @ \cup {f.id}]
        <4>1. f.id \in Known /\ f.id \in SubIds BY ONLY <2>1, <2>2, <3>4
        <4>2. broker' \in [connected : BOOLEAN, subscriptions : SUBSET SubIds]
          BY <4>1, <3>4 DEF WireType
        <4>3. broker'.subscriptions \subseteq Known BY <4>1, <3>4 DEF IdInv
        <4>4. QED BY <4>2, <4>3
      <3>5. CASE broker' = [broker EXCEPT !.subscriptions = @ \ {f.id}]
        BY <3>5 DEF WireType, IdInv
      <3>6. QED BY <3>1, <3>2, <3>3, <3>4, <3>5
    <2> HIDE DEF f
    <2>6. (StateType /\ FrameType)' BY DEF StateType, FrameType
    <2>7. WireType'
      BY ONLY <2>3, <2>4, <2>5 DEF WireType
    <2>8. (CallType /\ HistoryType)' BY DEF CallType, HistoryType
    <2>9. (ReaderInv /\ LateInv /\ ReportInv)' BY DEF ReaderInv, LateInv, ReportInv
    <2>10. IdInv'
      <3> USE DEF IdInv
      <3>1. (\A id \in Known : id < m_nextSubId)' BY DEF Known
      <3>2. (\A u \in Threads :
                /\ sending[u].id \in Known \cup {None}
                /\ sending[u].cmd = "SUBSCRIBE" => sending[u].id # None)'
        BY DEF Known
      <3>3. (\A k \in 1 .. Len(toBroker) :
                /\ toBroker[k].id \in Known \cup {None}
                /\ toBroker[k].cmd = "SUBSCRIBE" => toBroker[k].id # None)'
        BY <2>3 DEF Known
      <3>4. (broker.subscriptions \subseteq Known)' BY <2>5 DEF Known
      <3>5. (\A k \in 1 .. Len(toClient) : toClient[k].id \in Known \cup {None})'
        BY <2>4 DEF Known
      <3>6. (partial.id \in Known \cup {None} /\ frame.id \in Known \cup {None})'
        BY DEF Known
      <3>7. QED BY <3>1, <3>2, <3>3, <3>4, <3>5, <3>6
    <2>11. QED BY <2>6, <2>7, <2>8, <2>9, <2>10
  <1>2. CASE BrokerSends
    <2> USE <1>2 DEF BrokerSends
    <2>1. /\ toClient' \in Seq(Incoming)
          /\ \A k \in 1 .. Len(toClient') :
               \/ toClient'[k].id \in broker.subscriptions \cup {None}
               \/ k \in 1 .. Len(toClient) /\ toClient'[k] = toClient[k]
      <3>1. PICK cmd \in ToClient, id \in broker.subscriptions \cup {None} :
              toClient' = Append(toClient, Frame(cmd, id))
        OBVIOUS
      <3>2. Frame(cmd, id) \in Incoming /\ Frame(cmd, id).id = id
        BY DEF Frame, Incoming, WireType
      <3>3. QED BY <3>1, <3>2 DEF WireType
    <2>2. (StateType /\ FrameType)' BY DEF StateType, FrameType
    <2>3. WireType' BY <2>1 DEF WireType
    <2>4. (CallType /\ HistoryType)' BY DEF CallType, HistoryType
    <2>5. (ReaderInv /\ LateInv /\ ReportInv)' BY DEF ReaderInv, LateInv, ReportInv
    <2>6. IdInv' BY <2>1 DEF IdInv, Known
    <2>7. QED BY <2>2, <2>3, <2>4, <2>5, <2>6
  <1>3. QED BY <1>1, <1>2 DEF BrokerStep

\* Every step keeps the invariant.
LEMMA NextInv == ClientInv /\ [Next]_vars => ClientInv'
  <1> SUFFICES ASSUME ClientInv, [Next]_vars PROVE ClientInv' OBVIOUS
  <1>1. CASE Next
    BY <1>1, AppStepInv, AnyStepInv, ReaderStepInv, BrokerStepInv DEF Next
  <1>2. CASE UNCHANGED vars
    <2> USE <1>2 DEF vars, ClientInv, TypeOK
    <2>1. (StateType /\ WireType)' BY DEF StateType, WireType
    <2>2. (FrameType /\ CallType /\ HistoryType)'
      <3>1. FrameType' BY DEF FrameType
      <3>2. CallType' BY DEF CallType
      <3>3. HistoryType' BY DEF HistoryType
      <3>4. QED BY <3>1, <3>2, <3>3
    <2>3. (ReaderInv /\ IdInv /\ LateInv /\ ReportInv)'
      BY DEF ReaderInv, IdInv, LateInv, ReportInv, Known
    <2>4. QED BY <2>1, <2>2, <2>3
  <1>3. QED BY <1>1, <1>2

\* ClientInv holds in every reachable state.
THEOREM Invariance == Spec => []ClientInv
  BY InitInv, NextInv, PTL DEF Spec

\* Every variable of the client keeps its type.
THEOREM TypeCorrect == Spec => []TypeOK
  <1>1. ClientInv => TypeOK BY DEF ClientInv
  <1>2. QED BY <1>1, Invariance, PTL

\* No MESSAGE finds its handler missing unless unsubscribe() was called.
THEOREM HandlersAreReady == Spec => []HandlerReady
  <1>1. ASSUME ClientInv PROVE HandlerReady
    <2>1. IdInv BY <1>1 DEF ClientInv
    <2>2. QED BY <2>1 DEF IdInv, HandlerReady, Known
  <1>2. QED BY <1>1, Invariance, PTL

\* The handler of an erased subscription starts at most once more.
THEOREM LateCallIsUnique == Spec => []AtMostOneLateCall
  <1>1. ClientInv => AtMostOneLateCall BY DEF ClientInv, LateInv, AtMostOneLateCall
  <1>2. QED BY <1>1, Invariance, PTL

\* isConnected() is true only where CONNECTED was handled on this connection
\* and its reading thread is there.
THEOREM ConnectedIsGreeted == Spec => []ConnectedMeansGreeted
  <1>1. ClientInv => ConnectedMeansGreeted
    BY DEF ClientInv, ReportInv, ConnectedMeansGreeted
  <1>2. QED BY <1>1, Invariance, PTL

\* The end of a connection is reported once at most.
THEOREM ReportIsUnique == Spec => []ReportedAtMostOnce
  <1>1. ClientInv => ReportedAtMostOnce
    BY DEF ClientInv, ReportInv, ReportedAtMostOnce
  <1>2. QED BY <1>1, Invariance, PTL

\* A loss nobody asked for is reported.
THEOREM LossReaches == Spec => []LossIsReported
  <1>1. ASSUME ClientInv PROVE LossIsReported
    BY <1>1 DEF ClientInv, TypeOK, StateType, HistoryType, ReportInv, LossIsReported
  <1>2. QED BY <1>1, Invariance, PTL
-----------------------------------------------------------------------------
(* One application thread: CONNECT comes first.                            *)

\* What ConnectFirst assumes of the program.
OneApp == \A a, b \in Apps : a = b

\* Append() keeps the first element of a queue that has one.
LEMMA FirstKept ==
  ASSUME NEW S, NEW s \in Seq(S), NEW e \in S
  PROVE  /\ Append(s, e) # <<>>
         /\ s = <<>> => Head(Append(s, e)) = e
         /\ s # <<>> => Head(Append(s, e)) = Head(s)
  <1>1. CASE s = <<>> BY <1>1
  <1>2. QED BY <1>1

\* FirstInv is kept by connect() and disconnect(),
LEMMA AppStepFirst ==
  ASSUME OneApp, NEW t \in Apps, ClientInv, FirstInv, AppStep(t)
  PROVE  FirstInv'
  <1> USE DEF ClientInv, TypeOK, OneApp, FirstInv, StateType, WireType, CallType, ReaderInv
  <1>1. CASE ConnectCall(t) BY <1>1 DEF ConnectCall
  <1>2. CASE OpenDrops(t) BY <1>2 DEF OpenDrops
  <1>3. CASE OpenConnects(t) BY <1>3 DEF OpenConnects
  <1>4. CASE OpenFails(t) BY <1>4 DEF OpenFails
  <1>5. CASE DisconnectCall(t) BY <1>5 DEF DisconnectCall
  <1>6. CASE LowerConnected(t) BY <1>6 DEF LowerConnected
  <1>7. CASE CloseDrops(t) BY <1>7 DEF CloseDrops
  <1>8. CASE CloseReturns(t) BY <1>8 DEF CloseReturns
  <1>9. QED
    BY <1>1, <1>2, <1>3, <1>4, <1>5, <1>6, <1>7, <1>8 DEF AppStep

\* by the calls of any thread,
LEMMA AnyStepFirst ==
  ASSUME OneApp, NEW t \in Threads, ClientInv, FirstInv, AnyStep(t)
  PROVE  FirstInv'
  <1> USE DEF ClientInv, TypeOK, OneApp, FirstInv, StateType, WireType, CallType, ReaderInv
  <1>1. CASE SubscribeCall(t) BY <1>1 DEF SubscribeCall
  <1>2. CASE UnsubscribeCall(t) BY <1>2 DEF UnsubscribeCall
  <1>3. CASE SendCall(t) BY <1>3 DEF SendCall
  <1>4. CASE TestConnected(t) BY <1>4 DEF TestConnected, Done, NotSent
  <1>5. CASE Write(t)
    <2>1. CASE toBroker' = Append(toBroker, sending[t])
      BY <1>5, <2>1, FirstKept, IsFrame DEF Write, Done
    <2>2. CASE NotSent(t) /\ UNCHANGED toBroker
      BY <1>5, <2>2 DEF Write, Done, NotSent
    <2>3. QED BY <1>5, <2>1, <2>2 DEF Write
  <1>6. QED BY <1>1, <1>2, <1>3, <1>4, <1>5 DEF AnyStep

\* by the reading thread,
LEMMA ReaderStepFirst ==
  ASSUME OneApp, ClientInv, FirstInv, ReaderStep
  PROVE  FirstInv'
  <1> USE DEF ClientInv, TypeOK, OneApp, FirstInv, StateType, WireType, CallType, ReaderInv
  <1>1. CASE FeedHead BY <1>1 DEF FeedHead
  <1>2. CASE FeedEnd BY <1>2 DEF FeedEnd
  <1>3. CASE FeedRest BY <1>3 DEF FeedRest
  <1>4. CASE HandleConnected BY <1>4 DEF HandleConnected
  <1>5. CASE HandleMessage BY <1>5 DEF HandleMessage
  <1>6. CASE CallHandler BY <1>6 DEF CallHandler
  <1>7. CASE HandleOther BY <1>7 DEF HandleOther
  <1>8. CASE CallbackReturns BY <1>8 DEF CallbackReturns
  <1>9. CASE ReaderFails BY <1>9 DEF ReaderFails
  <1>10. CASE ReaderEnds BY <1>10 DEF ReaderEnds
  <1>11. CASE CallOnClose BY <1>11 DEF CallOnClose
  <1>12. CASE HandleClosed BY <1>12 DEF HandleClosed
  <1>13. CASE ReaderReturns BY <1>13 DEF ReaderReturns
  <1>14. QED
    BY <1>1, <1>2, <1>3, <1>4, <1>5, <1>6, <1>7, <1>8, <1>9, <1>10, <1>11, <1>12, <1>13
    DEF ReaderStep

\* by the broker,
LEMMA BrokerStepFirst ==
  ASSUME OneApp, ClientInv, FirstInv, BrokerStep
  PROVE  FirstInv'
  <1> USE DEF ClientInv, TypeOK, OneApp, FirstInv, StateType, WireType, CallType, ReaderInv
  <1>1. CASE BrokerReceives BY <1>1 DEF BrokerReceives
  <1>2. CASE BrokerSends BY <1>2 DEF BrokerSends
  <1>3. QED BY <1>1, <1>2 DEF BrokerStep

\* and so by every step.
LEMMA NextFirst ==
  ASSUME OneApp
  PROVE  ClientInv /\ FirstInv /\ [Next]_vars => FirstInv'
  <1> SUFFICES ASSUME ClientInv, FirstInv, [Next]_vars PROVE FirstInv' OBVIOUS
  <1>1. CASE Next
    BY <1>1, AppStepFirst, AnyStepFirst, ReaderStepFirst, BrokerStepFirst DEF Next
  <1>2. CASE UNCHANGED vars BY <1>2 DEF vars, FirstInv
  <1>3. QED BY <1>1, <1>2

\* With one application thread CONNECT is the first frame of a connection
\* for which connect() has not returned false and that has not failed before.
THEOREM ConnectComesFirst ==
  ASSUME OneApp
  PROVE  Spec => []ConnectFirst
  <1>1. Init => FirstInv BY DEF Init, FirstInv
  <1>2. ClientInv /\ FirstInv /\ [Next]_vars => FirstInv' BY NextFirst
  <1>3. ASSUME ClientInv, FirstInv PROVE ConnectFirst
    BY <1>3 DEF FirstInv, ConnectFirst
  <1>4. QED BY <1>1, <1>2, <1>3, Invariance, PTL DEF Spec
=============================================================================
