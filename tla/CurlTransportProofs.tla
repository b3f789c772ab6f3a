------------------------- MODULE CurlTransportProofs -------------------------
(***************************************************************************)
(* Proofs about CurlTransport for any set of application threads, any      *)
(* number of connections and both builds. The first part takes IInv        *)
(* through the steps of close(), open(), send() and the worker, and draws  *)
(* the safety properties from it; the second adds QuietInv for programs    *)
(* whose callbacks leave open() and close() alone.                         *)
(*                                                                         *)
(* Program counters and the small operators on them are expanded           *)
(* everywhere. A step that needs more than one leaf hides the parts of     *)
(* the invariant again and takes them one at a time.                       *)
(***************************************************************************)
EXTENDS CurlTransportProps, TLAPS

USE ConstantsAssumption
USE DEF None, Workers, Threads, Lifecycle, locks, flags, owned,
        ShutPcs, ConnectPcs, OpenPcs, HeldPcs, WaitPcs, ApiPcs,
        Callbacks, ReadPcs, LoopPcs, Go, Run, EnterCurl, LeaveCurl, NoHandle,
        CanCall, IInv, TypeOK, InCurl, LifecycleOwner, CurlOwner, UsingInv,
        CallInv, WorkerInv, LifecycleInv, ConnectedHasReader

\* A step of close(), the destructor and closeLocked() keeps the invariant.
LEMMA CloseStepInv ==
  ASSUME NEW t \in Threads, IInv, CloseStep(t)
  PROVE  IInv'
  <1>1. CASE CloseCall(t) BY <1>1 DEF CloseCall
  <1>2. CASE Destroy(t)
    <2> USE <1>2 DEF Destroy
    <2> HIDE DEF LifecycleOwner, CurlOwner, UsingInv, CallInv, WorkerInv,
                 LifecycleInv, ConnectedHasReader
    <2>2. TypeOK' OBVIOUS
    <2>3. LifecycleOwner'
      BY DEF LifecycleOwner, CallInv
    <2>4. CurlOwner'
      BY DEF CurlOwner, CallInv
    <2>5. UsingInv'
      BY DEF UsingInv, CurlOwner, CallInv, LifecycleOwner, LifecycleInv
    <2>6. CallInv' /\ WorkerInv'
      BY DEF CallInv, WorkerInv, LifecycleInv
    <2>7. LifecycleInv'
      BY DEF LifecycleInv, LifecycleOwner, WorkerInv, CallInv
    <2>8. ConnectedHasReader'
      BY DEF ConnectedHasReader, LifecycleOwner, LifecycleInv, CallInv
    <2>9. QED BY <2>2, <2>3, <2>4, <2>5, <2>6, <2>7, <2>8
  <1>3. CASE LockLifecycle(t)
    <2> USE <1>3 DEF LockLifecycle
    <2> HIDE DEF LifecycleOwner, CurlOwner, UsingInv, CallInv, WorkerInv,
                 LifecycleInv, ConnectedHasReader
    <2>1. PICK from \in {"closeWait", "openWait"}, to \in {"shut"} :
            api[t] = from /\ api' = [api EXCEPT ![t] = to]
      OBVIOUS
    <2>2. TypeOK' BY <2>1
    <2>3. LifecycleOwner'
      BY <2>1 DEF LifecycleOwner, CallInv
    <2>4. CurlOwner'
      BY <2>1 DEF CurlOwner, CallInv
    <2>5. UsingInv'
      BY <2>1 DEF UsingInv, CurlOwner, CallInv, LifecycleOwner, LifecycleInv
    <2>6. CallInv' /\ WorkerInv'
      BY <2>1 DEF CallInv, WorkerInv, LifecycleInv
    <2>7. LifecycleInv'
      BY <2>1 DEF LifecycleInv, LifecycleOwner, WorkerInv, CallInv
    <2>8. ConnectedHasReader'
      BY <2>1 DEF ConnectedHasReader, LifecycleOwner, LifecycleInv, CallInv
    <2>9. QED BY <2>2, <2>3, <2>4, <2>5, <2>6, <2>7, <2>8
  <1>4. CASE ClearConnected(t)
    <2> USE <1>4 DEF ClearConnected
    <2> HIDE DEF LifecycleOwner, CurlOwner, UsingInv, CallInv, WorkerInv,
                 LifecycleInv, ConnectedHasReader
    <2>1. PICK from \in {"shut"}, to \in {"closeFrame", "stop"} :
            api[t] = from /\ api' = [api EXCEPT ![t] = to]
      OBVIOUS
    <2>2. TypeOK' BY <2>1
    <2>3. LifecycleOwner'
      BY <2>1 DEF LifecycleOwner, CallInv
    <2>4. CurlOwner'
      BY <2>1 DEF CurlOwner, CallInv
    <2>5. UsingInv'
      BY <2>1 DEF UsingInv, CurlOwner, CallInv, LifecycleOwner, LifecycleInv
    <2>6. CallInv' /\ WorkerInv'
      BY <2>1 DEF CallInv, WorkerInv, LifecycleInv
    <2>7. LifecycleInv'
      BY <2>1 DEF LifecycleInv, LifecycleOwner, WorkerInv, CallInv,
                   ConnectedHasReader
    <2>8. ConnectedHasReader'
      BY <2>1 DEF ConnectedHasReader, LifecycleOwner, LifecycleInv, CallInv
    <2>9. QED BY <2>2, <2>3, <2>4, <2>5, <2>6, <2>7, <2>8
  <1>5. CASE CloseFrameEnter(t)
    <2> USE <1>5 DEF CloseFrameEnter
    <2> HIDE DEF LifecycleOwner, CurlOwner, UsingInv, CallInv, WorkerInv,
                 LifecycleInv, ConnectedHasReader
    <2>2. TypeOK' OBVIOUS
    <2>3. LifecycleOwner'
      BY DEF LifecycleOwner, CallInv
    <2>4. CurlOwner'
      BY DEF CurlOwner, CallInv
    <2>5. UsingInv'
      BY DEF UsingInv, CurlOwner, CallInv, LifecycleOwner, LifecycleInv
    <2>6. CallInv' /\ WorkerInv'
      BY DEF CallInv, WorkerInv, LifecycleInv
    <2>7. LifecycleInv'
      BY DEF LifecycleInv, LifecycleOwner, WorkerInv, CallInv
    <2>8. ConnectedHasReader'
      BY DEF ConnectedHasReader, LifecycleOwner, LifecycleInv, CallInv
    <2>9. QED BY <2>2, <2>3, <2>4, <2>5, <2>6, <2>7, <2>8
  <1>6. CASE CloseFrameLeave(t)
    <2> USE <1>6 DEF CloseFrameLeave
    <2> HIDE DEF LifecycleOwner, CurlOwner, UsingInv, CallInv, WorkerInv,
                 LifecycleInv, ConnectedHasReader
    <2>1. PICK from \in {"inCloseFrame"}, to \in {"ackWait", "closeFrame"} :
            api[t] = from /\ api' = [api EXCEPT ![t] = to]
      OBVIOUS
    <2>2. TypeOK' BY <2>1
    <2>3. LifecycleOwner'
      BY <2>1 DEF LifecycleOwner, CallInv
    <2>4. CurlOwner'
      <3>1. m_curlMutex = t /\ ~InCurl(t)'
        BY <2>1 DEF CurlOwner, CallInv
      <3>2. \A u \in Threads \ {t} : InCurl(u)' <=> InCurl(u)
        BY <2>1
      <3>3. QED BY <3>1, <3>2 DEF CurlOwner
    <2>5. UsingInv'
      BY <2>1 DEF UsingInv, CurlOwner, CallInv, LifecycleOwner, LifecycleInv
    <2>6. CallInv' /\ WorkerInv'
      BY <2>1 DEF CallInv, WorkerInv, LifecycleInv
    <2>7. LifecycleInv'
      BY <2>1 DEF LifecycleInv, LifecycleOwner, WorkerInv, CallInv
    <2>8. ConnectedHasReader'
      BY <2>1 DEF ConnectedHasReader, LifecycleOwner, LifecycleInv, CallInv
    <2>9. QED BY <2>2, <2>3, <2>4, <2>5, <2>6, <2>7, <2>8
  <1>7. CASE AckWait(t) BY <1>7 DEF AckWait
  <1>8. CASE StopWorker(t)
    <2> USE <1>8 DEF StopWorker
    <2> HIDE DEF LifecycleOwner, CurlOwner, UsingInv, CallInv, WorkerInv,
                 LifecycleInv, ConnectedHasReader
    <2>2. TypeOK' OBVIOUS
    <2>3. LifecycleOwner' BY DEF LifecycleOwner, CallInv
    <2>4. CurlOwner' BY DEF CurlOwner, CallInv
    <2>5. UsingInv'
      BY DEF UsingInv, CurlOwner, CallInv, LifecycleOwner, LifecycleInv
    <2>6. CallInv' /\ WorkerInv' BY DEF CallInv, WorkerInv, LifecycleInv
    <2>7. LifecycleInv'
      BY DEF LifecycleInv, LifecycleOwner, WorkerInv, CallInv,
             ConnectedHasReader
    <2>8. ConnectedHasReader'
      BY DEF ConnectedHasReader, LifecycleOwner, LifecycleInv, CallInv
    <2>9. QED BY <2>2, <2>3, <2>4, <2>5, <2>6, <2>7, <2>8
  <1>9. CASE Reap(t) BY <1>9 DEF Reap
  <1>10. CASE Join(t) BY <1>10 DEF Join
  <1>11. CASE Free(t)
    <2> USE <1>11 DEF Free
    <2> HIDE DEF LifecycleOwner, CurlOwner, UsingInv, CallInv, WorkerInv,
                 LifecycleInv, ConnectedHasReader
    <2>1. PICK from \in {"free"}, to \in {"reset", "idle"} :
            api[t] = from /\ api' = [api EXCEPT ![t] = to]
      OBVIOUS
    <2>2. TypeOK' BY <2>1
    <2>3. LifecycleOwner'
      BY <2>1 DEF LifecycleOwner, CallInv
    <2>4. CurlOwner'
      BY <2>1 DEF CurlOwner, CallInv
    <2>5. UsingInv'
      BY <2>1 DEF UsingInv, CurlOwner, CallInv, LifecycleOwner, LifecycleInv
    <2>6. CallInv' /\ WorkerInv'
      BY <2>1 DEF CallInv, WorkerInv, LifecycleInv
    <2>7. LifecycleInv'
      BY <2>1 DEF LifecycleInv, LifecycleOwner, WorkerInv, CallInv
    <2>8. ConnectedHasReader'
      BY <2>1 DEF ConnectedHasReader, LifecycleOwner, LifecycleInv, CallInv
    <2>9. QED BY <2>2, <2>3, <2>4, <2>5, <2>6, <2>7, <2>8
  <1>12. QED
    BY <1>1, <1>2, <1>3, <1>4, <1>5, <1>6, <1>7, <1>8, <1>9, <1>10, <1>11 DEF CloseStep

\* A step of open() keeps the invariant.
LEMMA OpenStepInv ==
  ASSUME NEW t \in Threads, IInv, OpenStep(t)
  PROVE  IInv'
  <1>1. CASE OpenCall(t) BY <1>1 DEF OpenCall
  <1>2. CASE ResetCancel(t)
    <2> USE <1>2 DEF ResetCancel
    <2> HIDE DEF LifecycleOwner, CurlOwner, UsingInv, CallInv, WorkerInv,
                 LifecycleInv, ConnectedHasReader
    <2>2. TypeOK' OBVIOUS
    <2>3. LifecycleOwner' BY DEF LifecycleOwner, CallInv
    <2>4. CurlOwner' BY DEF CurlOwner, CallInv
    <2>5. UsingInv'
      BY DEF UsingInv, CurlOwner, CallInv, LifecycleOwner, LifecycleInv
    <2>6. CallInv' /\ WorkerInv' BY DEF CallInv, WorkerInv, LifecycleInv
    <2>7. LifecycleInv'
      BY DEF LifecycleInv, LifecycleOwner, WorkerInv, CallInv,
             ConnectedHasReader
    <2>8. ConnectedHasReader'
      BY DEF ConnectedHasReader, LifecycleOwner, LifecycleInv, CallInv
    <2>9. QED BY <2>2, <2>3, <2>4, <2>5, <2>6, <2>7, <2>8
  <1>3. CASE CreateFails(t) BY <1>3 DEF CreateFails
  <1>4. CASE Create(t)
    <2> USE <1>4 DEF Create
    <2> HIDE DEF LifecycleOwner, CurlOwner, UsingInv, CallInv, WorkerInv,
                 LifecycleInv, ConnectedHasReader
    <2>2. TypeOK' OBVIOUS
    <2>3. LifecycleOwner' BY DEF LifecycleOwner, CallInv
    <2>4. CurlOwner' BY DEF CurlOwner, CallInv
    <2>5. UsingInv'
      BY DEF UsingInv, CurlOwner, CallInv, LifecycleOwner, LifecycleInv
    <2>6. CallInv' /\ WorkerInv' BY DEF CallInv, WorkerInv, LifecycleInv
    <2>7. LifecycleInv'
      BY DEF LifecycleInv, LifecycleOwner, WorkerInv, CallInv,
             ConnectedHasReader
    <2>8. ConnectedHasReader'
      BY DEF ConnectedHasReader, LifecycleOwner, LifecycleInv, CallInv
    <2>9. QED BY <2>2, <2>3, <2>4, <2>5, <2>6, <2>7, <2>8
  <1>5. CASE Perform(t)
    <2> USE <1>5 DEF Perform
    <2> HIDE DEF LifecycleOwner, CurlOwner, UsingInv, CallInv, WorkerInv,
                 LifecycleInv, ConnectedHasReader
    <2>1. PICK from \in {"perform"}, to \in {"start", "handshake", "openErr", "openFail"} :
            api[t] = from /\ api' = [api EXCEPT ![t] = to]
      OBVIOUS
    <2>2. TypeOK' BY <2>1
    <2>3. LifecycleOwner'
      BY <2>1 DEF LifecycleOwner, CallInv
    <2>4. CurlOwner'
      BY <2>1 DEF CurlOwner, CallInv
    <2>5. UsingInv'
      BY <2>1 DEF UsingInv, CurlOwner, CallInv, LifecycleOwner, LifecycleInv
    <2>6. CallInv' /\ WorkerInv'
      BY <2>1 DEF CallInv, WorkerInv, LifecycleInv
    <2>7. LifecycleInv'
      BY <2>1 DEF LifecycleInv
    <2>8. ConnectedHasReader'
      BY <2>1 DEF ConnectedHasReader, LifecycleOwner, LifecycleInv, CallInv
    <2>9. QED BY <2>2, <2>3, <2>4, <2>5, <2>6, <2>7, <2>8
  <1>6. CASE HandshakeEnter(t)
    <2> USE <1>6 DEF HandshakeEnter
    <2> HIDE DEF LifecycleOwner, CurlOwner, UsingInv, CallInv, WorkerInv,
                 LifecycleInv, ConnectedHasReader
    <2>2. TypeOK' OBVIOUS
    <2>3. LifecycleOwner' BY DEF LifecycleOwner, CallInv
    <2>4. CurlOwner' BY DEF CurlOwner, CallInv
    <2>5. UsingInv'
      BY DEF UsingInv, CurlOwner, CallInv, LifecycleOwner, LifecycleInv
    <2>6. CallInv' /\ WorkerInv' BY DEF CallInv, WorkerInv, LifecycleInv
    <2>7. LifecycleInv'
      BY DEF LifecycleInv, LifecycleOwner, WorkerInv, CallInv,
             ConnectedHasReader
    <2>8. ConnectedHasReader'
      BY DEF ConnectedHasReader, LifecycleOwner, LifecycleInv, CallInv
    <2>9. QED BY <2>2, <2>3, <2>4, <2>5, <2>6, <2>7, <2>8
  <1>7. CASE HandshakeLeave(t)
    <2> USE <1>7 DEF HandshakeLeave
    <2> HIDE DEF LifecycleOwner, CurlOwner, UsingInv, CallInv, WorkerInv,
                 LifecycleInv, ConnectedHasReader
    <2>1. PICK from \in {"inHandshake"}, to \in {"handshake", "start", "openErr"} :
            api[t] = from /\ api' = [api EXCEPT ![t] = to]
      OBVIOUS
    <2>2. TypeOK' BY <2>1
    <2>3. LifecycleOwner'
      BY <2>1 DEF LifecycleOwner, CallInv
    <2>4. CurlOwner'
      <3>1. m_curlMutex = t /\ ~InCurl(t)'
        BY <2>1 DEF CurlOwner, CallInv
      <3>2. \A u \in Threads \ {t} : InCurl(u)' <=> InCurl(u)
        BY <2>1
      <3>3. QED BY <3>1, <3>2 DEF CurlOwner
    <2>5. UsingInv'
      BY <2>1 DEF UsingInv, CurlOwner, CallInv, LifecycleOwner, LifecycleInv
    <2>6. CallInv' /\ WorkerInv'
      BY <2>1 DEF CallInv, WorkerInv, LifecycleInv
    <2>7. LifecycleInv'
      BY <2>1 DEF LifecycleInv, LifecycleOwner, WorkerInv, CallInv
    <2>8. ConnectedHasReader'
      BY <2>1 DEF ConnectedHasReader, LifecycleOwner, LifecycleInv, CallInv
    <2>9. QED BY <2>2, <2>3, <2>4, <2>5, <2>6, <2>7, <2>8
  <1>8. CASE HandshakeTimeout(t) BY <1>8 DEF HandshakeTimeout
  <1>9. CASE ErrorHandlerReenters(t)
    <2> USE <1>9 DEF ErrorHandlerReenters
    <2> HIDE DEF LifecycleOwner, CurlOwner, UsingInv, CallInv, WorkerInv,
                 LifecycleInv, ConnectedHasReader
    <2>2. TypeOK' OBVIOUS
    <2>3. LifecycleOwner'
      BY DEF LifecycleOwner, CallInv
    <2>4. CurlOwner'
      BY DEF CurlOwner, CallInv
    <2>5. UsingInv'
      BY DEF UsingInv, CurlOwner, CallInv, LifecycleOwner, LifecycleInv
    <2>6. CallInv' /\ WorkerInv'
      BY DEF CallInv, WorkerInv, LifecycleInv
    <2>7. LifecycleInv'
      BY DEF LifecycleInv, LifecycleOwner, WorkerInv, CallInv
    <2>8. ConnectedHasReader'
      BY DEF ConnectedHasReader, LifecycleOwner, LifecycleInv, CallInv
    <2>9. QED BY <2>2, <2>3, <2>4, <2>5, <2>6, <2>7, <2>8
  <1>10. CASE ErrorHandlerReturns(t) BY <1>10 DEF ErrorHandlerReturns
  <1>11. CASE OpenFails(t)
    <2> USE <1>11 DEF OpenFails
    <2> HIDE DEF LifecycleOwner, CurlOwner, UsingInv, CallInv, WorkerInv,
                 LifecycleInv, ConnectedHasReader
    <2>2. TypeOK' OBVIOUS
    <2>3. LifecycleOwner' BY DEF LifecycleOwner, CallInv
    <2>4. CurlOwner' BY DEF CurlOwner, CallInv
    <2>5. UsingInv'
      BY DEF UsingInv, CurlOwner, CallInv, LifecycleOwner, LifecycleInv
    <2>6. CallInv' /\ WorkerInv' BY DEF CallInv, WorkerInv, LifecycleInv
    <2>7. LifecycleInv'
      BY DEF LifecycleInv, LifecycleOwner, WorkerInv, CallInv,
             ConnectedHasReader
    <2>8. ConnectedHasReader'
      BY DEF ConnectedHasReader, LifecycleOwner, LifecycleInv, CallInv
    <2>9. QED BY <2>2, <2>3, <2>4, <2>5, <2>6, <2>7, <2>8
  <1>12. CASE StoreRunning(t) BY <1>12 DEF StoreRunning
  <1>13. CASE StoreConnected(t) BY <1>13 DEF StoreConnected
  <1>14. CASE Spawn(t) BY <1>14 DEF Spawn
  <1>15. QED
    BY <1>1, <1>2, <1>3, <1>4, <1>5, <1>6, <1>7, <1>8, <1>9, <1>10, <1>11, <1>12, <1>13, <1>14 DEF OpenStep

\* A step of send() keeps the invariant.
LEMMA SendStepInv ==
  ASSUME NEW t \in Threads, IInv, SendStep(t)
  PROVE  IInv'
  <1>1. CASE SendCall(t) BY <1>1 DEF SendCall
  <1>2. CASE SendEnter(t)
    <2> USE <1>2 DEF SendEnter
    <2> HIDE DEF LifecycleOwner, CurlOwner, UsingInv, CallInv, WorkerInv,
                 LifecycleInv, ConnectedHasReader
    <2>1. PICK from \in {"send"}, to \in {"inSend", "idle"} :
            api[t] = from /\ api' = [api EXCEPT ![t] = to]
      OBVIOUS
    <2>2. TypeOK'
      <3>1. CASE EnterCurl(t) BY <2>1, <3>1
      <3>2. CASE NoHandle /\ UNCHANGED <<m_curlMutex, using>> BY <2>1, <3>2
      <3>3. QED BY <3>1, <3>2
    <2>3. LifecycleOwner'
      BY <2>1 DEF LifecycleOwner, CallInv
    <2>4. CurlOwner'
      BY <2>1 DEF CurlOwner, CallInv
    <2>5. UsingInv'
      BY <2>1 DEF UsingInv, CurlOwner, CallInv, LifecycleOwner, LifecycleInv
    <2>6. CallInv' /\ WorkerInv'
      BY <2>1 DEF CallInv, WorkerInv, LifecycleInv
    <2>7. LifecycleInv'
      BY <2>1 DEF LifecycleInv, LifecycleOwner, WorkerInv, CallInv
    <2>8. ConnectedHasReader'
      BY <2>1 DEF ConnectedHasReader, LifecycleOwner, LifecycleInv, CallInv
    <2>9. QED BY <2>2, <2>3, <2>4, <2>5, <2>6, <2>7, <2>8
  <1>3. CASE SendLeave(t)
    <2> USE <1>3 DEF SendLeave
    <2> HIDE DEF LifecycleOwner, CurlOwner, UsingInv, CallInv, WorkerInv,
                 LifecycleInv, ConnectedHasReader
    <2>1. PICK from \in {"inSend"}, to \in {"idle", "send"} :
            api[t] = from /\ api' = [api EXCEPT ![t] = to]
      OBVIOUS
    <2>2. TypeOK' BY <2>1
    <2>3. LifecycleOwner'
      BY <2>1 DEF LifecycleOwner, CallInv
    <2>4. CurlOwner'
      <3>1. m_curlMutex = t /\ ~InCurl(t)'
        BY <2>1 DEF CurlOwner, CallInv
      <3>2. \A u \in Threads \ {t} : InCurl(u)' <=> InCurl(u)
        BY <2>1
      <3>3. QED BY <3>1, <3>2 DEF CurlOwner
    <2>5. UsingInv'
      BY <2>1 DEF UsingInv, CurlOwner, CallInv, LifecycleOwner, LifecycleInv
    <2>6. CallInv' /\ WorkerInv'
      BY <2>1 DEF CallInv, WorkerInv, LifecycleInv
    <2>7. LifecycleInv'
      BY <2>1 DEF LifecycleInv, LifecycleOwner, WorkerInv, CallInv
    <2>8. ConnectedHasReader'
      BY <2>1 DEF ConnectedHasReader, LifecycleOwner, LifecycleInv, CallInv
    <2>9. QED BY <2>2, <2>3, <2>4, <2>5, <2>6, <2>7, <2>8
  <1>4. QED
    BY <1>1, <1>2, <1>3 DEF SendStep

\* A step of the worker keeps the invariant.
LEMMA WorkerStepInv ==
  ASSUME NEW w \in Workers, IInv, WorkerStep(w)
  PROVE  IInv'
  <1>1. CASE LoopTop(w) BY <1>1 DEF LoopTop
  <1>2. CASE RecvEnter(w)
    <2> USE <1>2 DEF RecvEnter
    <2> HIDE DEF LifecycleOwner, CurlOwner, UsingInv, CallInv, WorkerInv,
                 LifecycleInv, ConnectedHasReader
    <2>1. PICK from \in {"recv"}, to \in {"inRecv", "exit"} :
            loop[w] = from /\ loop' = [loop EXCEPT ![w] = to]
      OBVIOUS
    <2>2. TypeOK' BY <2>1
    <2>3. LifecycleOwner'
      BY <2>1 DEF LifecycleOwner, CallInv
    <2>4. CurlOwner'
      BY <2>1 DEF CurlOwner, CallInv
    <2>5. UsingInv'
      BY <2>1 DEF UsingInv, CurlOwner, CallInv, LifecycleOwner, LifecycleInv
    <2>6. CallInv' /\ WorkerInv'
      BY <2>1 DEF CallInv, WorkerInv, LifecycleInv
    <2>7. LifecycleInv'
      BY <2>1 DEF LifecycleInv, LifecycleOwner, WorkerInv, CallInv
    <2>8. ConnectedHasReader'
      BY <2>1 DEF ConnectedHasReader, LifecycleOwner, LifecycleInv, CallInv
    <2>9. QED BY <2>2, <2>3, <2>4, <2>5, <2>6, <2>7, <2>8
  <1>3. CASE RecvLeave(w)
    <2> USE <1>3 DEF RecvLeave
    <2> HIDE DEF LifecycleOwner, CurlOwner, UsingInv, CallInv, WorkerInv,
                 LifecycleInv, ConnectedHasReader
    <2>1. PICK from \in {"inRecv"}, to \in {"top", "dispatch", "exit", "failed"} :
            loop[w] = from /\ loop' = [loop EXCEPT ![w] = to]
      OBVIOUS
    <2>2. TypeOK' BY <2>1
    <2>3. LifecycleOwner'
      BY <2>1 DEF LifecycleOwner, CallInv
    <2>4. CurlOwner'
      <3>1. m_curlMutex = w /\ ~InCurl(w)'
        BY <2>1 DEF CurlOwner, CallInv
      <3>2. \A u \in Threads \ {w} : InCurl(u)' <=> InCurl(u)
        BY <2>1
      <3>3. QED BY <3>1, <3>2 DEF CurlOwner
    <2>5. UsingInv'
      BY <2>1 DEF UsingInv, CurlOwner, CallInv, LifecycleOwner, LifecycleInv
    <2>6. CallInv' /\ WorkerInv'
      BY <2>1 DEF CallInv, WorkerInv, LifecycleInv
    <2>7. LifecycleInv'
      BY <2>1 DEF LifecycleInv, LifecycleOwner, WorkerInv, CallInv
    <2>8. ConnectedHasReader'
      BY <2>1 DEF ConnectedHasReader, LifecycleOwner, LifecycleInv, CallInv
    <2>9. QED BY <2>2, <2>3, <2>4, <2>5, <2>6, <2>7, <2>8
  <1>4. CASE RecvFailed(w) BY <1>4 DEF RecvFailed
  <1>5. CASE Dispatch(w)
    <2> USE <1>5 DEF Dispatch
    <2> HIDE DEF LifecycleOwner, CurlOwner, UsingInv, CallInv, WorkerInv,
                 LifecycleInv, ConnectedHasReader
    <2>1. PICK from \in {"dispatch"}, to \in {"onData", "top", "pong"} :
            loop[w] = from /\ loop' = [loop EXCEPT ![w] = to]
      OBVIOUS
    <2>2. TypeOK' BY <2>1
    <2>3. LifecycleOwner'
      BY <2>1 DEF LifecycleOwner, CallInv
    <2>4. CurlOwner'
      BY <2>1 DEF CurlOwner, CallInv
    <2>5. UsingInv'
      BY <2>1 DEF UsingInv, CurlOwner, CallInv, LifecycleOwner, LifecycleInv
    <2>6. CallInv' /\ WorkerInv'
      BY <2>1 DEF CallInv, WorkerInv, LifecycleInv
    <2>7. LifecycleInv'
      BY <2>1 DEF LifecycleInv, LifecycleOwner, WorkerInv, CallInv
    <2>8. ConnectedHasReader'
      BY <2>1 DEF ConnectedHasReader, LifecycleOwner, LifecycleInv, CallInv
    <2>9. QED BY <2>2, <2>3, <2>4, <2>5, <2>6, <2>7, <2>8
  <1>6. CASE DispatchClose(w)
    <2> USE <1>6 DEF DispatchClose
    <2> HIDE DEF LifecycleOwner, CurlOwner, UsingInv, CallInv, WorkerInv,
                 LifecycleInv, ConnectedHasReader
    <2>2. TypeOK' OBVIOUS
    <2>3. LifecycleOwner'
      BY DEF LifecycleOwner, CallInv
    <2>4. CurlOwner'
      BY DEF CurlOwner, CallInv
    <2>5. UsingInv'
      BY DEF UsingInv, CurlOwner, CallInv, LifecycleOwner, LifecycleInv
    <2>6. CallInv' /\ WorkerInv'
      BY DEF CallInv, WorkerInv, LifecycleInv
    <2>7. LifecycleInv'
      BY DEF LifecycleInv, LifecycleOwner, WorkerInv, CallInv
    <2>8. ConnectedHasReader'
      BY DEF ConnectedHasReader, LifecycleOwner, LifecycleInv, CallInv
    <2>9. QED BY <2>2, <2>3, <2>4, <2>5, <2>6, <2>7, <2>8
  <1>7. CASE PongEnter(w)
    <2> USE <1>7 DEF PongEnter
    <2> HIDE DEF LifecycleOwner, CurlOwner, UsingInv, CallInv, WorkerInv,
                 LifecycleInv, ConnectedHasReader
    <2>2. TypeOK'
      <3>1. CASE EnterCurl(w) BY <3>1
      <3>2. CASE NoHandle /\ UNCHANGED <<m_curlMutex, using>> BY <3>2
      <3>3. QED BY <3>1, <3>2
    <2>3. LifecycleOwner'
      BY DEF LifecycleOwner, CallInv
    <2>4. CurlOwner'
      BY DEF CurlOwner, CallInv
    <2>5. UsingInv'
      BY DEF UsingInv, CurlOwner, CallInv, LifecycleOwner, LifecycleInv
    <2>6. CallInv' /\ WorkerInv'
      BY DEF CallInv, WorkerInv, LifecycleInv
    <2>7. LifecycleInv'
      BY DEF LifecycleInv, LifecycleOwner, WorkerInv, CallInv
    <2>8. ConnectedHasReader'
      BY DEF ConnectedHasReader, LifecycleOwner, LifecycleInv, CallInv
    <2>9. QED BY <2>2, <2>3, <2>4, <2>5, <2>6, <2>7, <2>8
  <1>8. CASE PongLeave(w)
    <2> USE <1>8 DEF PongLeave
    <2> HIDE DEF LifecycleOwner, CurlOwner, UsingInv, CallInv, WorkerInv,
                 LifecycleInv, ConnectedHasReader
    <2>1. PICK from \in {"inPong"}, to \in {"pong", "dispatch"} :
            loop[w] = from /\ loop' = [loop EXCEPT ![w] = to]
      OBVIOUS
    <2>2. TypeOK' BY <2>1
    <2>3. LifecycleOwner'
      BY <2>1 DEF LifecycleOwner, CallInv
    <2>4. CurlOwner'
      <3>1. m_curlMutex = w /\ ~InCurl(w)'
        BY <2>1 DEF CurlOwner, CallInv
      <3>2. \A u \in Threads \ {w} : InCurl(u)' <=> InCurl(u)
        BY <2>1
      <3>3. QED BY <3>1, <3>2 DEF CurlOwner
    <2>5. UsingInv'
      BY <2>1 DEF UsingInv, CurlOwner, CallInv, LifecycleOwner, LifecycleInv
    <2>6. CallInv' /\ WorkerInv'
      BY <2>1 DEF CallInv, WorkerInv, LifecycleInv
    <2>7. LifecycleInv'
      BY <2>1 DEF LifecycleInv, LifecycleOwner, WorkerInv, CallInv
    <2>8. ConnectedHasReader'
      BY <2>1 DEF ConnectedHasReader, LifecycleOwner, LifecycleInv, CallInv
    <2>9. QED BY <2>2, <2>3, <2>4, <2>5, <2>6, <2>7, <2>8
  <1>9. CASE CallbackReturns(w)
    <2> USE <1>9 DEF CallbackReturns
    <2> HIDE DEF LifecycleOwner, CurlOwner, UsingInv, CallInv, WorkerInv,
                 LifecycleInv, ConnectedHasReader
    <2>1. PICK from \in {"onData", "onError", "onClose"}, to \in {"top", "dispatch", "exit", "done"} :
            loop[w] = from /\ loop' = [loop EXCEPT ![w] = to]
      OBVIOUS
    <2>2. TypeOK' BY <2>1
    <2>3. LifecycleOwner'
      BY <2>1 DEF LifecycleOwner, CallInv
    <2>4. CurlOwner'
      BY <2>1 DEF CurlOwner, CallInv
    <2>5. UsingInv'
      BY <2>1 DEF UsingInv, CurlOwner, CallInv, LifecycleOwner, LifecycleInv
    <2>6. CallInv' /\ WorkerInv'
      BY <2>1 DEF CallInv, WorkerInv, LifecycleInv
    <2>7. LifecycleInv'
      BY <2>1 DEF LifecycleInv, LifecycleOwner, WorkerInv, CallInv
    <2>8. ConnectedHasReader'
      BY <2>1 DEF ConnectedHasReader, LifecycleOwner, LifecycleInv, CallInv
    <2>9. QED BY <2>2, <2>3, <2>4, <2>5, <2>6, <2>7, <2>8
  <1>10. CASE ExitConnected(w)
    <2> USE <1>10 DEF ExitConnected
    <2> HIDE DEF LifecycleOwner, CurlOwner, UsingInv, CallInv, WorkerInv,
                 LifecycleInv, ConnectedHasReader
    <2>2. TypeOK' OBVIOUS
    <2>3. LifecycleOwner'
      BY DEF LifecycleOwner, CallInv
    <2>4. CurlOwner'
      BY DEF CurlOwner, CallInv
    <2>5. UsingInv'
      BY DEF UsingInv, CurlOwner, CallInv, LifecycleOwner, LifecycleInv
    <2>6. CallInv' /\ WorkerInv'
      BY DEF CallInv, WorkerInv, LifecycleInv
    <2>7. LifecycleInv'
      BY DEF LifecycleInv, LifecycleOwner, WorkerInv, CallInv
    <2>8. ConnectedHasReader'
      BY DEF ConnectedHasReader, LifecycleOwner, LifecycleInv, CallInv
    <2>9. QED BY <2>2, <2>3, <2>4, <2>5, <2>6, <2>7, <2>8
  <1>11. CASE ExitRunning(w)
    <2> USE <1>11 DEF ExitRunning
    <2> HIDE DEF LifecycleOwner, CurlOwner, UsingInv, CallInv, WorkerInv,
                 LifecycleInv, ConnectedHasReader
    <2>2. TypeOK' OBVIOUS
    <2>3. LifecycleOwner'
      BY DEF LifecycleOwner, CallInv
    <2>4. CurlOwner'
      BY DEF CurlOwner, CallInv
    <2>5. UsingInv'
      BY DEF UsingInv, CurlOwner, CallInv, LifecycleOwner, LifecycleInv
    <2>6. CallInv' /\ WorkerInv'
      BY DEF CallInv, WorkerInv, LifecycleInv
    <2>7. LifecycleInv'
      BY DEF LifecycleInv, LifecycleOwner, WorkerInv, CallInv
    <2>8. ConnectedHasReader'
      BY DEF ConnectedHasReader, LifecycleOwner, LifecycleInv, CallInv
    <2>9. QED BY <2>2, <2>3, <2>4, <2>5, <2>6, <2>7, <2>8
  <1>12. QED
    BY <1>1, <1>2, <1>3, <1>4, <1>5, <1>6, <1>7, <1>8, <1>9, <1>10, <1>11 DEF WorkerStep

-----------------------------------------------------------------------------
(* Whatever user code does in its callbacks.                               *)

LEMMA InitInv == Init => IInv
  <1> SUFFICES ASSUME Init PROVE IInv
    OBVIOUS
  <1> USE DEF Init
  <1>1. TypeOK
    <2>1. api \in [Threads -> ApiPcs] /\ loop \in [Workers -> LoopPcs]
      OBVIOUS
    <2>2. op \in [Threads -> {"open", "close", "destroy"}]
      OBVIOUS
    <2>3. using \in [Threads -> 0 .. opens]
      OBVIOUS
    <2>4. opens \in 0 .. MaxOpens /\ m_curl \in 0 .. opens
          /\ m_workerThread \in 0 .. opens
      OBVIOUS
    <2> HIDE DEF ApiPcs, LoopPcs, Threads, Workers
    <2>5. QED BY <2>1, <2>2, <2>3, <2>4
  <1>2. LifecycleOwner /\ CurlOwner OBVIOUS
  <1>3. UsingInv /\ CallInv /\ WorkerInv OBVIOUS
  <1>4. LifecycleInv /\ ConnectedHasReader OBVIOUS
  <1>5. QED BY <1>1, <1>2, <1>3, <1>4

LEMMA NextInv == IInv /\ [Next]_vars => IInv'
  <1> SUFFICES ASSUME IInv, [Next]_vars PROVE IInv'
    OBVIOUS
  <1>1. CASE UNCHANGED vars
    BY <1>1 DEF vars
  <1>2. CASE \E t \in Threads : CloseStep(t) \/ OpenStep(t) \/ SendStep(t)
    <2> HIDE DEF IInv
    <2>1. QED BY <1>2, CloseStepInv, OpenStepInv, SendStepInv
  <1>3. CASE \E w \in Workers : WorkerStep(w)
    <2> HIDE DEF IInv
    <2>1. QED BY <1>3, WorkerStepInv
  <1>4. QED BY <1>1, <1>2, <1>3 DEF Next

\* The inductive invariant holds for every set of application threads, every
\* number of connections, both builds and every use of the callbacks.
THEOREM Invariance == Spec => []IInv
  <1> HIDE DEF IInv
  <1>1. QED BY InitInv, NextInv, PTL DEF Spec

\* Every variable of the transport keeps its type.
THEOREM TypeCorrect == Spec => []TypeOK
  <1>1. IInv => TypeOK OBVIOUS
  <1> HIDE DEF IInv, TypeOK
  <1>2. QED BY <1>1, Invariance, PTL

\* teardown() never frees a handle that some thread has passed to libcurl.
THEOREM HandleSafe == Spec => []HandleNotFreedInUse
  <1>1. IInv => HandleNotFreedInUse BY DEF HandleNotFreedInUse
  <1> HIDE DEF IInv
  <1>2. QED BY <1>1, Invariance, PTL

\* While isConnected() answers true there is a worker that has yet to call
\* m_onClose, or open() is about to start it.
THEOREM ConnectionHasReader == Spec => []ConnectedHasReader
  <1>1. IInv => ConnectedHasReader OBVIOUS
  <1> HIDE DEF IInv, ConnectedHasReader
  <1>2. QED BY <1>1, Invariance, PTL

\* open() never overwrites a joinable std::thread.
THEOREM SpawnIsSafe == Spec => []SpawnFindsNoWorker
  <1>1. IInv => SpawnFindsNoWorker BY DEF SpawnFindsNoWorker
  <1> HIDE DEF IInv
  <1>2. QED BY <1>1, Invariance, PTL

\* Two threads meet inside libcurl only when one of them is still connecting
\* and the other was left over from an earlier connection.
THEOREM OverlapIsConnect == Spec => []OverlapOnlyWithConnect
  <1>1. ASSUME IInv, NEW t \in Threads, NEW u \in Threads, t # u,
               using[t] # None, using[u] # None
        PROVE  \/ api[t] = "perform" /\ InCurl(u)
               \/ api[u] = "perform" /\ InCurl(t)
    <2>1. InCurl(t) \/ api[t] = "perform" BY <1>1
    <2>2. InCurl(u) \/ api[u] = "perform" BY <1>1
    <2>3. ~(InCurl(t) /\ InCurl(u)) BY <1>1
    <2>4. ~(api[t] = "perform" /\ api[u] = "perform") BY <1>1
    <2>5. QED BY <2>1, <2>2, <2>3, <2>4
  <1>2. IInv => OverlapOnlyWithConnect
    BY <1>1 DEF OverlapOnlyWithConnect
  <1> HIDE DEF IInv
  <1>3. QED BY <1>2, Invariance, PTL
-----------------------------------------------------------------------------
(* When callbacks leave open() and close() alone.                          *)

LEMMA InitQuiet == Init => QuietInv
  BY DEF Init, QuietInv, OneWorker, Active

\* A step of close(), the destructor and closeLocked() keeps the joinable worker the only one.
LEMMA CloseStepQuiet ==
  ASSUME LeaveLifecycleAlone, lifetime # "dead", NEW t \in Threads, IInv, QuietInv,
         CloseStep(t)
  PROVE  QuietInv'
  <1> USE DEF LeaveLifecycleAlone, QuietInv, OneWorker, Active
  <1> HIDE DEF LifecycleOwner, CurlOwner, UsingInv, CallInv, WorkerInv,
               ConnectedHasReader, ApiPcs, LoopPcs, ReadPcs, HeldPcs, ShutPcs,
               Callbacks
  <1>1. CASE CloseCall(t) BY <1>1 DEF CloseCall
  <1>2. CASE Destroy(t)
    <2> USE <1>2 DEF Destroy
    <2>1. \A w \in Workers : api'[w] \in {"idle", "send", "inSend"}
      OBVIOUS
    <2>2. \A u \in Threads : api'[u] # "relock"
      OBVIOUS
    <2>3. m_workerThread' # None => m_curl' # None
      OBVIOUS
    <2>4. lifetime' = "dead" => m_workerThread' = None
      OBVIOUS
    <2>5. OneWorker'
      OBVIOUS
    <2>6. QED BY <2>1, <2>2, <2>3, <2>4, <2>5
  <1>3. CASE LockLifecycle(t) BY <1>3 DEF LockLifecycle
  <1>4. CASE ClearConnected(t) BY <1>4 DEF ClearConnected
  <1>5. CASE CloseFrameEnter(t) BY <1>5 DEF CloseFrameEnter
  <1>6. CASE CloseFrameLeave(t) BY <1>6 DEF CloseFrameLeave
  <1>7. CASE AckWait(t) BY <1>7 DEF AckWait
  <1>8. CASE StopWorker(t) BY <1>8 DEF StopWorker
  <1>9. CASE Reap(t) BY <1>9 DEF Reap
  <1>10. CASE Join(t) BY <1>10 DEF Join
  <1>11. CASE Free(t) BY <1>11 DEF Free
  <1>12. QED
    BY <1>1, <1>2, <1>3, <1>4, <1>5, <1>6, <1>7, <1>8, <1>9, <1>10, <1>11 DEF CloseStep

\* A step of open() keeps the joinable worker the only one.
LEMMA OpenStepQuiet ==
  ASSUME LeaveLifecycleAlone, lifetime # "dead", NEW t \in Threads, IInv, QuietInv,
         OpenStep(t)
  PROVE  QuietInv'
  <1> USE DEF LeaveLifecycleAlone, QuietInv, OneWorker, Active
  <1> HIDE DEF LifecycleOwner, CurlOwner, UsingInv, CallInv, WorkerInv,
               ConnectedHasReader, ApiPcs, LoopPcs, ReadPcs, HeldPcs, ShutPcs,
               Callbacks
  <1>1. CASE OpenCall(t) BY <1>1 DEF OpenCall
  <1>2. CASE ResetCancel(t) BY <1>2 DEF ResetCancel
  <1>3. CASE CreateFails(t) BY <1>3 DEF CreateFails
  <1>4. CASE Create(t) BY <1>4 DEF Create
  <1>5. CASE Perform(t) BY <1>5 DEF Perform
  <1>6. CASE HandshakeEnter(t) BY <1>6 DEF HandshakeEnter
  <1>7. CASE HandshakeLeave(t) BY <1>7 DEF HandshakeLeave
  <1>8. CASE HandshakeTimeout(t) BY <1>8 DEF HandshakeTimeout
  <1>9. CASE ErrorHandlerReenters(t) BY <1>9 DEF ErrorHandlerReenters
  <1>10. CASE ErrorHandlerReturns(t) BY <1>10 DEF ErrorHandlerReturns
  <1>11. CASE OpenFails(t) BY <1>11 DEF OpenFails
  <1>12. CASE StoreRunning(t) BY <1>12 DEF StoreRunning
  <1>13. CASE StoreConnected(t) BY <1>13 DEF StoreConnected
  <1>14. CASE Spawn(t)
    <2> USE <1>14 DEF Spawn
    <2>1. \A w \in Workers : api'[w] \in {"idle", "send", "inSend"}
      OBVIOUS
    <2>2. \A u \in Threads : api'[u] # "relock"
      OBVIOUS
    <2>3. m_workerThread' # None => m_curl' # None
      OBVIOUS
    <2>4. lifetime' = "dead" => m_workerThread' = None
      OBVIOUS
    <2>5. OneWorker'
      OBVIOUS
    <2>6. QED BY <2>1, <2>2, <2>3, <2>4, <2>5
  <1>15. QED
    BY <1>1, <1>2, <1>3, <1>4, <1>5, <1>6, <1>7, <1>8, <1>9, <1>10, <1>11, <1>12, <1>13, <1>14 DEF OpenStep

\* A step of send() keeps the joinable worker the only one.
LEMMA SendStepQuiet ==
  ASSUME LeaveLifecycleAlone, lifetime # "dead", NEW t \in Threads, IInv, QuietInv,
         SendStep(t)
  PROVE  QuietInv'
  <1> USE DEF LeaveLifecycleAlone, QuietInv, OneWorker, Active
  <1> HIDE DEF LifecycleOwner, CurlOwner, UsingInv, CallInv, WorkerInv,
               ConnectedHasReader, ApiPcs, LoopPcs, ReadPcs, HeldPcs, ShutPcs,
               Callbacks
  <1>1. CASE SendCall(t) BY <1>1 DEF SendCall
  <1>2. CASE SendEnter(t)
    <2> USE <1>2 DEF SendEnter
    <2>1. \A w \in Workers : api'[w] \in {"idle", "send", "inSend"}
      OBVIOUS
    <2>2. \A u \in Threads : api'[u] # "relock"
      OBVIOUS
    <2>3. m_workerThread' # None => m_curl' # None
      OBVIOUS
    <2>4. lifetime' = "dead" => m_workerThread' = None
      OBVIOUS
    <2>5. OneWorker'
      OBVIOUS
    <2>6. QED BY <2>1, <2>2, <2>3, <2>4, <2>5
  <1>3. CASE SendLeave(t) BY <1>3 DEF SendLeave
  <1>4. QED
    BY <1>1, <1>2, <1>3 DEF SendStep

\* A step of the worker keeps the joinable worker the only one.
LEMMA WorkerStepQuiet ==
  ASSUME LeaveLifecycleAlone, lifetime # "dead", NEW w \in Workers, IInv, QuietInv,
         WorkerStep(w)
  PROVE  QuietInv'
  <1> USE DEF LeaveLifecycleAlone, QuietInv, OneWorker, Active
  <1> HIDE DEF LifecycleOwner, CurlOwner, UsingInv, CallInv, WorkerInv,
               ConnectedHasReader, ApiPcs, LoopPcs, ReadPcs, HeldPcs, ShutPcs,
               Callbacks
  <1>1. CASE LoopTop(w) BY <1>1 DEF LoopTop
  <1>2. CASE RecvEnter(w) BY <1>2 DEF RecvEnter
  <1>3. CASE RecvLeave(w) BY <1>3 DEF RecvLeave
  <1>4. CASE RecvFailed(w) BY <1>4 DEF RecvFailed
  <1>5. CASE Dispatch(w) BY <1>5 DEF Dispatch
  <1>6. CASE DispatchClose(w) BY <1>6 DEF DispatchClose
  <1>7. CASE PongEnter(w) BY <1>7 DEF PongEnter
  <1>8. CASE PongLeave(w) BY <1>8 DEF PongLeave
  <1>9. CASE CallbackReturns(w) BY <1>9 DEF CallbackReturns
  <1>10. CASE ExitConnected(w) BY <1>10 DEF ExitConnected
  <1>11. CASE ExitRunning(w) BY <1>11 DEF ExitRunning
  <1>12. QED
    BY <1>1, <1>2, <1>3, <1>4, <1>5, <1>6, <1>7, <1>8, <1>9, <1>10, <1>11 DEF WorkerStep

LEMMA NextQuiet ==
  ASSUME LeaveLifecycleAlone, IInv, QuietInv, [Next]_vars
  PROVE  QuietInv'
  <1>1. CASE UNCHANGED vars
    BY <1>1 DEF vars, QuietInv, OneWorker, Active
  <1>2. CASE Next
    <2> HIDE DEF IInv
    <2>1. QED
      BY <1>2, CloseStepQuiet, OpenStepQuiet, SendStepQuiet, WorkerStepQuiet
      DEF Next
  <1>3. QED BY <1>1, <1>2

LEMMA QuietInvariance ==
  ASSUME LeaveLifecycleAlone
  PROVE  Spec => [](IInv /\ QuietInv)
  <1>1. Init => QuietInv BY InitQuiet
  <1>2. IInv /\ QuietInv /\ [Next]_vars => QuietInv' BY NextQuiet
  <1> HIDE DEF IInv
  <1>3. QED BY <1>1, <1>2, Invariance, PTL DEF Spec

\* No leftover worker can touch the flags of a later connection or deliver
\* its data: every worker that has not ended is the joinable one.
THEOREM WorkerIsUnique ==
  ASSUME LeaveLifecycleAlone
  PROVE  Spec => []OneWorker
  <1>1. QuietInv => OneWorker BY DEF QuietInv
  <1> HIDE DEF IInv
  <1>2. QED BY <1>1, QuietInvariance, PTL

\* After close() no callback runs any more.
THEOREM QuietAfterClose ==
  ASSUME LeaveLifecycleAlone
  PROVE  Spec => []ClosedIsQuiet
  <1>1. IInv /\ QuietInv => ClosedIsQuiet
    BY DEF QuietInv, OneWorker, ClosedIsQuiet, Active
  <1> HIDE DEF IInv
  <1>2. QED BY <1>1, QuietInvariance, PTL

\* When the destructor has returned, no thread of the transport is left.
THEOREM NothingOutlives ==
  ASSUME LeaveLifecycleAlone
  PROVE  Spec => []DestructorLeavesNoThread
  <1>1. IInv /\ QuietInv => DestructorLeavesNoThread
    BY DEF QuietInv, OneWorker, DestructorLeavesNoThread, Active
  <1> HIDE DEF IInv
  <1>2. QED BY <1>1, QuietInvariance, PTL

\* Neither of the two waits for oneself comes about.
THEOREM NoReentryHang ==
  ASSUME LeaveLifecycleAlone
  PROVE  Spec => []NeverHangs
  <1>1. ASSUME IInv, QuietInv PROVE NeverHangs
    <2>1. ASSUME NEW t \in Threads, api[t] = "join"
          PROVE  m_workerThread \in Workers
      BY <1>1, <2>1
    <2>2. \A w \in Workers : api[w] \notin WaitPcs
      BY <1>1 DEF QuietInv
    <2>3. \A t \in Threads : api[t] # "relock"
      BY <1>1 DEF QuietInv
    <2>4. QED BY <2>1, <2>2, <2>3 DEF NeverHangs, ReentryHang
  <1> HIDE DEF IInv
  <1>2. QED BY <1>1, QuietInvariance, PTL
=============================================================================
