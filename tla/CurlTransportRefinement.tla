----------------------- MODULE CurlTransportRefinement -----------------------
(***************************************************************************)
(* CurlTransport implements TransportContract, the interface StompClient   *)
(* is written against, when callbacks leave open() and close() alone.      *)
(***************************************************************************)
EXTENDS CurlTransportProofs

USE ConstantsAssumption
USE DEF None, Workers, Threads, Lifecycle, locks, flags, owned,
        ShutPcs, ConnectPcs, OpenPcs, HeldPcs, WaitPcs, ApiPcs,
        Callbacks, ReadPcs, LoopPcs, Go, Run, EnterCurl, LeaveCurl, NoHandle,
        CanCall, IInv, TypeOK, InCurl, LifecycleOwner, CurlOwner, UsingInv,
        CallInv, WorkerInv, LifecycleInv, ConnectedHasReader, Reader

Spawning == \E t \in Threads : api[t] = "spawn"
Abstract == <<m_connected, Reader>>

\* While another step of a lifecycle method is being taken, nobody spawns.
LEMMA OneInLifecycle ==
  ASSUME IInv, NEW t \in Threads, api[t] \in HeldPcs \ {"spawn"}
  PROVE  ~Spawning
  <1>1. \A u \in Threads : api[u] = "spawn" => u = t
    BY DEF HeldPcs
  <1>2. QED BY <1>1 DEF Spawning

\* The steps of close() and the destructor: Drop, or nothing to be seen.
LEMMA CloseStepMaps ==
  ASSUME LeaveLifecycleAlone, NEW t \in Threads, IInv, QuietInv, CloseStep(t)
  PROVE  [Contract!Next]_Abstract
  <1> USE DEF Spawning
  <1>1. CASE CloseCall(t) BY <1>1 DEF CloseCall, Abstract
  <1>2. CASE Destroy(t) BY <1>2 DEF Destroy, Abstract
  <1>3. CASE LockLifecycle(t)
    <2>1. api[t] # "spawn" /\ api' = [api EXCEPT ![t] = "shut"]
      BY <1>3 DEF LockLifecycle
    <2>2. \A u \in Threads : api'[u] = "spawn" <=> api[u] = "spawn"
      BY <2>1
    <2>3. UNCHANGED <<loop, m_workerThread, m_connected>> BY <1>3 DEF LockLifecycle
    <2>4. QED BY <2>2, <2>3 DEF Abstract
  <1>4. CASE ClearConnected(t)
    <2>1. UNCHANGED Reader BY <1>4 DEF ClearConnected
    <2>2. m_connected' = FALSE BY <1>4 DEF ClearConnected
    <2>3. QED BY <2>1, <2>2 DEF Abstract, Contract!Next, Contract!Drop
  <1>5. CASE CloseFrameEnter(t) BY <1>5 DEF CloseFrameEnter, Abstract
  <1>6. CASE CloseFrameLeave(t) BY <1>6 DEF CloseFrameLeave, Abstract
  <1>7. CASE AckWait(t) BY <1>7 DEF AckWait, Abstract
  <1>8. CASE StopWorker(t) BY <1>8 DEF StopWorker, Abstract
  <1>9. CASE Reap(t)
    <2>1. t \notin Workers BY <1>9 DEF Reap, QuietInv
    <2>2. m_workerThread # t BY <2>1
    <2>3. QED BY <1>9, <2>2 DEF Reap, Abstract
  <1>10. CASE Join(t)
    <2>1. ~Spawning BY <1>10, OneInLifecycle DEF Join
    <2>2. Reader = "none" BY <1>10, <2>1 DEF Join
    <2>3. ~Spawning' /\ m_workerThread' = None BY <1>10, <2>1 DEF Join
    <2>4. Reader' = "none" BY <2>3
    <2>5. QED BY <1>10, <2>2, <2>4 DEF Join, Abstract
  <1>11. CASE Free(t) BY <1>11 DEF Free, Abstract
  <1>12. QED
    BY <1>1, <1>2, <1>3, <1>4, <1>5, <1>6, <1>7, <1>8, <1>9, <1>10, <1>11 DEF CloseStep

\* The steps of open(): Connect when m_connected is raised.
LEMMA OpenStepMaps ==
  ASSUME LeaveLifecycleAlone, NEW t \in Threads, IInv, QuietInv, OpenStep(t)
  PROVE  [Contract!Next]_Abstract
  <1> USE DEF Spawning
  <1>1. CASE OpenCall(t) BY <1>1 DEF OpenCall, Abstract
  <1>2. CASE ResetCancel(t) BY <1>2 DEF ResetCancel, Abstract
  <1>3. CASE CreateFails(t) BY <1>3 DEF CreateFails, Abstract
  <1>4. CASE Create(t) BY <1>4 DEF Create, Abstract
  <1>5. CASE Perform(t) BY <1>5 DEF Perform, Abstract
  <1>6. CASE HandshakeEnter(t) BY <1>6 DEF HandshakeEnter, Abstract
  <1>7. CASE HandshakeLeave(t) BY <1>7 DEF HandshakeLeave, Abstract
  <1>8. CASE HandshakeTimeout(t) BY <1>8 DEF HandshakeTimeout, Abstract
  <1>9. CASE ErrorHandlerReenters(t) BY <1>9 DEF ErrorHandlerReenters, Abstract
  <1>10. CASE ErrorHandlerReturns(t) BY <1>10 DEF ErrorHandlerReturns, Abstract
  <1>11. CASE OpenFails(t) BY <1>11 DEF OpenFails, Abstract
  <1>12. CASE StoreRunning(t) BY <1>12 DEF StoreRunning, Abstract
  <1>13. CASE StoreConnected(t)
    <2>1. ~Spawning BY <1>13, OneInLifecycle DEF StoreConnected
    <2>2. ~m_connected /\ m_workerThread = None BY <1>13 DEF StoreConnected
    <2>3. Reader = "none" BY <2>1, <2>2
    <2>4. m_connected' = TRUE /\ Reader' = "reading" BY <1>13 DEF StoreConnected
    <2>5. QED BY <2>2, <2>3, <2>4 DEF Contract!Next, Contract!Connect
  <1>14. CASE Spawn(t)
    <2>1. Reader = "reading" BY <1>14 DEF Spawn
    <2>2. \A u \in Threads : api[u] = "spawn" => u = t BY <1>14 DEF Spawn
    <2>3. m_curl \in Workers BY <1>14 DEF Spawn
    <2>4. loop'[m_workerThread'] = "top" /\ m_workerThread' # None
      BY <1>14, <2>3 DEF Spawn
    <2>5. ~Spawning' BY <1>14, <2>2 DEF Spawn
    <2>6. Reader' = "reading" BY <2>4, <2>5
    <2>7. QED BY <1>14, <2>1, <2>6 DEF Spawn, Abstract
  <1>15. QED
    BY <1>1, <1>2, <1>3, <1>4, <1>5, <1>6, <1>7, <1>8, <1>9, <1>10, <1>11, <1>12, <1>13,
       <1>14 DEF OpenStep

\* send() is not part of the contract.
LEMMA SendStepMaps ==
  ASSUME NEW t \in Threads, IInv, SendStep(t)
  PROVE  UNCHANGED Abstract
  <1> USE DEF Spawning
  <1>1. CASE SendCall(t) BY <1>1 DEF SendCall, Abstract
  <1>2. CASE SendEnter(t) BY <1>2 DEF SendEnter, Abstract
  <1>3. CASE SendLeave(t) BY <1>3 DEF SendLeave, Abstract
  <1>4. QED BY <1>1, <1>2, <1>3 DEF SendStep

\* The worker: Drop, Report and Finish at its end, nothing before.
LEMMA WorkerStepMaps ==
  ASSUME LeaveLifecycleAlone, NEW w \in Workers, IInv, QuietInv, WorkerStep(w)
  PROVE  [Contract!Next]_Abstract
  <1>1. Active(w) /\ m_workerThread = w
    <2>1. Active(w)
      BY DEF WorkerStep, LoopTop, RecvEnter, RecvLeave, RecvFailed, Dispatch,
             DispatchClose, PongEnter, PongLeave, CallbackReturns, ExitConnected,
             ExitRunning, Active
    <2>2. QED BY <2>1 DEF QuietInv, OneWorker
  <1>2. ~Spawning BY <1>1 DEF Spawning
  <1>3. UNCHANGED <<api, m_workerThread>>
    BY DEF WorkerStep, LoopTop, RecvEnter, RecvLeave, RecvFailed, Dispatch,
           DispatchClose, PongEnter, PongLeave, CallbackReturns, ExitConnected,
           ExitRunning, owned
  <1>4. ~Spawning' BY <1>2, <1>3 DEF Spawning
  <1>5. Reader = IF loop[w] = "onClose" THEN "reporting" ELSE "reading"
    BY <1>1, <1>2 DEF Spawning, Active
  <1>6. Reader' = IF loop'[w] = "done" THEN "none"
                  ELSE IF loop'[w] = "onClose" THEN "reporting" ELSE "reading"
    BY <1>1, <1>3, <1>4 DEF Spawning
  <1> HIDE DEF Reader
  <1>7. CASE CallbackReturns(w)
    BY <1>5, <1>6, <1>7 DEF CallbackReturns, Abstract, Contract!Next, Contract!Finish
  <1>8. CASE ExitConnected(w)
    BY <1>5, <1>6, <1>8 DEF ExitConnected, Abstract, Contract!Next, Contract!Drop
  <1>9. CASE ExitRunning(w)
    <2>1. ~m_connected BY <1>1, <1>2, <1>9 DEF ExitRunning, Spawning
    <2>2. QED
      BY <2>1, <1>5, <1>6, <1>9 DEF ExitRunning, Contract!Next, Contract!Report
  <1>10. CASE \/ LoopTop(w) \/ RecvEnter(w) \/ RecvLeave(w) \/ RecvFailed(w)
              \/ Dispatch(w) \/ DispatchClose(w) \/ PongEnter(w) \/ PongLeave(w)
    <2>1. loop[w] # "onClose" /\ loop'[w] \notin {"onClose", "done"}
      BY <1>10 DEF LoopTop, RecvEnter, RecvLeave, RecvFailed, Dispatch,
                   DispatchClose, PongEnter, PongLeave
    <2>2. UNCHANGED m_connected
      BY <1>10 DEF LoopTop, RecvEnter, RecvLeave, RecvFailed, Dispatch,
                   DispatchClose, PongEnter, PongLeave
    <2>3. QED BY <1>5, <1>6, <2>1, <2>2 DEF Abstract
  <1>11. QED BY <1>7, <1>8, <1>9, <1>10 DEF WorkerStep

LEMMA NextMaps ==
  ASSUME LeaveLifecycleAlone, IInv, QuietInv, [Next]_vars
  PROVE  [Contract!Next]_Abstract
  <1>1. CASE UNCHANGED vars BY <1>1 DEF vars, Abstract
  <1>2. CASE Next
    <2> HIDE DEF IInv, Reader
    <2>1. QED
      BY <1>2, CloseStepMaps, OpenStepMaps, SendStepMaps, WorkerStepMaps DEF Next
  <1>3. QED BY <1>1, <1>2

\* What StompClient assumes of its transport, CurlTransport does: one
\* connection and one reader at a time, isConnected() down before m_onClose,
\* m_onClose once, and the next connection after it.
THEOREM ContractHolds ==
  ASSUME LeaveLifecycleAlone
  PROVE  Spec => ImplementsContract
  <1>1. Init => Contract!Init BY DEF Init, Contract!Init
  <1>2. IInv /\ QuietInv /\ [Next]_vars => [Contract!Next]_Contract!vars
    BY NextMaps DEF Abstract, Contract!vars
  <1> HIDE DEF IInv, Reader
  <1>3. QED
    BY <1>1, <1>2, QuietInvariance, PTL DEF Spec, ImplementsContract, Contract!Spec
=============================================================================
