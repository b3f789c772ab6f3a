---------------------------- MODULE CurlTransport ----------------------------
(***************************************************************************)
(* The threads of Stomp::CurlTransport: application threads that call      *)
(* open(), close() and send(), the worker thread every successful open()   *)
(* starts, the callbacks the worker makes (which may call back into the    *)
(* transport), and the destructor.                                         *)
(*                                                                         *)
(* A step is a critical section, an access to an atomic, or the stretch    *)
(* of code between two of them. A call into libcurl takes two steps, enter *)
(* and leave, so that calls of two threads can be seen to overlap. What    *)
(* libcurl answers, what the peer sends and how long anything takes is     *)
(* nondeterministic; bytes are modelled in other modules.                  *)
(*                                                                         *)
(* A definition whose name starts with Faulty is the one after it with a   *)
(* mistake. Nothing uses it; it shows that a property can fail.            *)
(***************************************************************************)
EXTENDS Naturals

CONSTANTS
  Apps,         \* application threads
  MaxOpens,     \* bound: curl_easy_init() fails after this many handles
  NativeWs,     \* TRUE: STOMP_CURL_NATIVE_WS, FALSE: the raw tunnel
  CallbackOps   \* transport methods that user code calls inside callbacks

None == 0                       \* nullptr, no thread, an unlocked mutex
Workers == 1 .. MaxOpens        \* worker w serves the w-th curl handle
Threads == Apps \cup Workers
Lifecycle == {"open", "close"}

ASSUME ConstantsAssumption ==
  /\ Apps \cap Nat = {}
  /\ MaxOpens \in Nat
  /\ NativeWs \in BOOLEAN
  /\ CallbackOps \subseteq Lifecycle \cup {"send"}

VARIABLES
  m_lifecycleMutex, m_curlMutex,               \* the owner, or None
  m_cancelRequested, m_running, m_connected,   \* atomics
  m_curl,           \* the handle (numbered in order of creation), or None
  m_workerThread,   \* the joinable worker, or None
  opens,            \* handles created so far
  api,              \* where a thread is inside a transport method
  op,               \* the method closeLocked() was entered for
  loop,             \* where a worker is inside workerLoop()
  using,            \* the handle a thread passed to libcurl, or None
  lifetime          \* "alive", "dying" (destructor running), "dead"

locks  == <<m_lifecycleMutex, m_curlMutex>>
flags  == <<m_cancelRequested, m_running, m_connected>>
owned  == <<m_curl, m_workerThread, opens>>
vars   == <<locks, flags, owned, api, op, loop, using, lifetime>>

\* Program counters of close(), closeLocked() and open(), in code order.
ShutPcs == {"shut", "closeFrame", "inCloseFrame", "ackWait", "stop",
            "reap", "join", "free"}
ConnectPcs == {"perform", "handshake", "inHandshake", "start",
               "startConnected", "spawn"}
OpenPcs == ConnectPcs \cup {"reset", "create", "openErr", "relock", "openFail"}
HeldPcs == ShutPcs \cup OpenPcs         \* m_lifecycleMutex is held
WaitPcs == {"closeWait", "openWait"}    \* waiting for m_lifecycleMutex
ApiPcs  == {"idle", "send", "inSend"} \cup WaitPcs \cup HeldPcs

Callbacks == {"onData", "onError", "onClose"}
\* A worker at one of these will still report its end through m_onClose.
ReadPcs == {"top", "recv", "inRecv", "failed", "dispatch", "pong", "inPong",
            "onData", "onError", "exit"}
LoopPcs == ReadPcs \cup {"unborn", "exitRunning", "onClose", "done"}

Init ==
  /\ m_lifecycleMutex = None /\ m_curlMutex = None
  /\ m_cancelRequested = FALSE /\ m_running = FALSE /\ m_connected = FALSE
  /\ m_curl = None /\ m_workerThread = None /\ opens = 0
  /\ api = [t \in Threads |-> "idle"]
  /\ op = [t \in Threads |-> "close"]
  /\ loop = [w \in Workers |-> "unborn"]
  /\ using = [t \in Threads |-> None]
  /\ lifetime = "alive"

Go(t, from, to) == api[t] = from /\ api' = [api EXCEPT ![t] = to]
Run(w, from, to) == loop[w] = from /\ loop' = [loop EXCEPT ![w] = to]
Active(w) == loop[w] \notin {"unborn", "done"}

\* A caller of libcurl that does not take m_curlMutex.
FaultyEnterCurl(t) ==
  /\ m_curl # None
  /\ m_curlMutex' = t
  /\ using' = [using EXCEPT ![t] = m_curl]

\* A call into libcurl under m_curlMutex, with the null check before it.
EnterCurl(t) ==
  /\ m_curlMutex = None /\ m_curl # None
  /\ m_curlMutex' = t
  /\ using' = [using EXCEPT ![t] = m_curl]
LeaveCurl(t) ==
  /\ m_curlMutex' = None
  /\ using' = [using EXCEPT ![t] = None]
NoHandle == m_curlMutex = None /\ m_curl = None

\* User code runs on its own threads and inside the worker's callbacks.
CanCall(t, method) ==
  /\ api[t] = "idle"
  /\ \/ t \in Apps /\ lifetime = "alive"
     \/ t \in Workers /\ method \in CallbackOps /\ loop[t] \in Callbacks
-----------------------------------------------------------------------------
(* close(), ~CurlTransport() and closeLocked()                             *)

\* close(): the cancel flag is raised before the lifecycle lock is taken.
CloseCall(t) ==
  /\ CanCall(t, "close") /\ Go(t, "idle", "closeWait")
  /\ op' = [op EXCEPT ![t] = "close"]
  /\ m_cancelRequested' = TRUE
  /\ UNCHANGED <<locks, m_running, m_connected, owned, loop, using, lifetime>>

\* The destructor; C++ requires that no other thread is inside a method.
Destroy(t) ==
  /\ t \in Apps /\ lifetime = "alive" /\ \A a \in Apps : api[a] = "idle"
  /\ lifetime' = "dying"
  /\ Go(t, "idle", "closeWait")
  /\ op' = [op EXCEPT ![t] = "destroy"]
  /\ m_cancelRequested' = TRUE
  /\ UNCHANGED <<locks, m_running, m_connected, owned, loop, using>>

\* open() and close() without their common lock.
FaultyLockLifecycle(t) ==
  /\ m_lifecycleMutex' = t
  /\ \/ Go(t, "closeWait", "shut")
     \/ Go(t, "openWait", "shut")
  /\ UNCHANGED <<m_curlMutex, flags, owned, op, loop, using, lifetime>>

LockLifecycle(t) ==
  /\ m_lifecycleMutex = None /\ m_lifecycleMutex' = t
  /\ \/ Go(t, "closeWait", "shut")
     \/ Go(t, "openWait", "shut")
  /\ UNCHANGED <<m_curlMutex, flags, owned, op, loop, using, lifetime>>

\* m_connected.exchange(false): a close frame is only due when it was set.
ClearConnected(t) ==
  /\ Go(t, "shut", IF m_connected THEN "closeFrame" ELSE "stop")
  /\ m_connected' = FALSE
  /\ UNCHANGED <<locks, m_cancelRequested, m_running, owned, op, loop, using,
                 lifetime>>

\* The null check finds a handle: LifecycleInv in CurlTransportProps.
CloseFrameEnter(t) ==
  /\ EnterCurl(t) /\ Go(t, "closeFrame", "inCloseFrame")
  /\ UNCHANGED <<m_lifecycleMutex, flags, owned, op, loop, lifetime>>

\* curl_ws_send() is called once; tunnelWrite() retries on CURLE_AGAIN.
CloseFrameLeave(t) ==
  /\ LeaveCurl(t)
  /\ \/ Go(t, "inCloseFrame", "ackWait")
     \/ ~NativeWs /\ Go(t, "inCloseFrame", "closeFrame")
  /\ UNCHANGED <<m_lifecycleMutex, flags, owned, op, loop, lifetime>>

\* The wait for the peer's close frame ends when m_running falls, or after
\* twenty naps of 10 ms whatever happens.
AckWait(t) ==
  /\ Go(t, "ackWait", "stop")
  /\ UNCHANGED <<locks, flags, owned, op, loop, using, lifetime>>

\* closeLocked() without m_running.store(false).
FaultyStopWorker(t) ==
  /\ Go(t, "stop", "reap")
  /\ UNCHANGED <<locks, flags, owned, op, loop, using, lifetime>>

StopWorker(t) ==
  /\ Go(t, "stop", "reap")
  /\ m_running' = FALSE
  /\ UNCHANGED <<locks, m_cancelRequested, m_connected, owned, op, loop, using,
                 lifetime>>

\* Every worker is detached, none is waited for.
FaultyReapDetaches(t) ==
  /\ Go(t, "reap", "free")
  /\ m_workerThread' = None
  /\ UNCHANGED <<locks, flags, m_curl, opens, op, loop, using, lifetime>>

\* A worker that closes its own transport joins itself.
FaultyReapJoins(t) ==
  /\ Go(t, "reap", IF m_workerThread = None THEN "free" ELSE "join")
  /\ UNCHANGED <<locks, flags, owned, op, loop, using, lifetime>>

\* A worker that closes its own transport stays joinable.
FaultyReapKeeps(t) ==
  /\ Go(t, "reap", IF m_workerThread \in {None, t} THEN "free" ELSE "join")
  /\ UNCHANGED <<locks, flags, owned, op, loop, using, lifetime>>

\* A worker that closes its own transport detaches itself.
Reap(t) ==
  /\ Go(t, "reap", IF m_workerThread \in {None, t} THEN "free" ELSE "join")
  /\ m_workerThread' = IF m_workerThread = t THEN None ELSE m_workerThread
  /\ UNCHANGED <<locks, flags, m_curl, opens, op, loop, using, lifetime>>

Join(t) ==
  /\ Go(t, "join", "free")
  /\ loop[m_workerThread] = "done"
  /\ m_workerThread' = None
  /\ UNCHANGED <<locks, flags, m_curl, opens, op, loop, using, lifetime>>

\* teardown() without m_curlMutex.
FaultyFree(t) ==
  /\ m_curl' = None
  /\ \/ /\ op[t] = "open" /\ Go(t, "free", "reset")
        /\ UNCHANGED <<m_lifecycleMutex, lifetime>>
     \/ /\ op[t] # "open" /\ Go(t, "free", "idle")
        /\ m_lifecycleMutex' = None
        /\ lifetime' = IF op[t] = "destroy" THEN "dead" ELSE lifetime
  /\ UNCHANGED <<m_curlMutex, flags, m_workerThread, opens, op, loop, using>>

\* teardown() under m_curlMutex; close() then returns, open() goes on.
Free(t) ==
  /\ m_curlMutex = None
  /\ m_curl' = None
  /\ \/ /\ op[t] = "open" /\ Go(t, "free", "reset")
        /\ UNCHANGED <<m_lifecycleMutex, lifetime>>
     \/ /\ op[t] # "open" /\ Go(t, "free", "idle")
        /\ m_lifecycleMutex' = None
        /\ lifetime' = IF op[t] = "destroy" THEN "dead" ELSE lifetime
  /\ UNCHANGED <<m_curlMutex, flags, m_workerThread, opens, op, loop, using>>
-----------------------------------------------------------------------------
(* open()                                                                  *)

OpenCall(t) ==
  /\ CanCall(t, "open") /\ Go(t, "idle", "openWait")
  /\ op' = [op EXCEPT ![t] = "open"]
  /\ UNCHANGED <<locks, flags, owned, loop, using, lifetime>>

ResetCancel(t) ==
  /\ Go(t, "reset", "create")
  /\ m_cancelRequested' = FALSE
  /\ UNCHANGED <<locks, m_running, m_connected, owned, op, loop, using, lifetime>>

\* The URL does not parse, or curl_easy_init() fails: reportError().
CreateFails(t) ==
  /\ Go(t, "create", "openErr")
  /\ UNCHANGED <<locks, flags, owned, op, loop, using, lifetime>>

\* The result of curl_easy_init() is not tested.
FaultyCreate(t) ==
  /\ m_curlMutex = None
  /\ Go(t, "create", "perform")
  /\ opens' = opens + 1 /\ m_curl' = opens + 1
  /\ using' = [using EXCEPT ![t] = opens + 1]
  /\ UNCHANGED <<locks, flags, m_workerThread, op, loop, lifetime>>

\* The handle is published under m_curlMutex; setting its options and
\* curl_easy_perform() then use it without that mutex.
Create(t) ==
  /\ opens < MaxOpens /\ m_curlMutex = None
  /\ Go(t, "create", "perform")
  /\ opens' = opens + 1 /\ m_curl' = opens + 1
  /\ using' = [using EXCEPT ![t] = opens + 1]
  /\ UNCHANGED <<locks, flags, m_workerThread, op, loop, lifetime>>

\* curl_easy_perform() connects, fails, or is aborted by onCurlProgress().
Perform(t) ==
  /\ \/ Go(t, "perform", IF NativeWs THEN "start" ELSE "handshake")
     \/ Go(t, "perform", "openErr")
     \/ m_cancelRequested /\ Go(t, "perform", "openFail")
  /\ using' = [using EXCEPT ![t] = None]
  /\ UNCHANGED <<locks, flags, owned, op, loop, lifetime>>

HandshakeEnter(t) ==
  /\ EnterCurl(t) /\ Go(t, "handshake", "inHandshake")
  /\ UNCHANGED <<m_lifecycleMutex, flags, owned, op, loop, lifetime>>

\* One curl_easy_send() or curl_easy_recv(): more to do, upgraded, refused.
HandshakeLeave(t) ==
  /\ LeaveCurl(t)
  /\ \E pc \in {"handshake", "start", "openErr"} : Go(t, "inHandshake", pc)
  /\ UNCHANGED <<m_lifecycleMutex, flags, owned, op, loop, lifetime>>

HandshakeTimeout(t) ==
  /\ Go(t, "handshake", "openErr")
  /\ UNCHANGED <<locks, flags, owned, op, loop, using, lifetime>>

\* reportError() calls m_onError with m_lifecycleMutex held: a handler that
\* calls close() or open() waits for a mutex its own thread owns.
ErrorHandlerReenters(t) ==
  /\ CallbackOps \cap Lifecycle # {} /\ Go(t, "openErr", "relock")
  /\ \/ "close" \in CallbackOps /\ m_cancelRequested' = TRUE
     \/ "open" \in CallbackOps /\ UNCHANGED m_cancelRequested
  /\ UNCHANGED <<locks, m_running, m_connected, owned, op, loop, using, lifetime>>

ErrorHandlerReturns(t) ==
  /\ Go(t, "openErr", "openFail")
  /\ UNCHANGED <<locks, flags, owned, op, loop, using, lifetime>>

\* The early return of open() leaves m_lifecycleMutex locked.
FaultyOpenFails(t) ==
  /\ m_curl # None => m_curlMutex = None
  /\ Go(t, "openFail", "idle")
  /\ m_curl' = None
  /\ UNCHANGED <<locks, flags, m_workerThread, opens, op, loop, using, lifetime>>

OpenFails(t) ==
  /\ m_curl # None => m_curlMutex = None
  /\ Go(t, "openFail", "idle")
  /\ m_curl' = None
  /\ m_lifecycleMutex' = None
  /\ UNCHANGED <<m_curlMutex, flags, m_workerThread, opens, op, loop, using,
                 lifetime>>

StoreRunning(t) ==
  /\ Go(t, "start", "startConnected")
  /\ m_running' = TRUE
  /\ UNCHANGED <<locks, m_cancelRequested, m_connected, owned, op, loop, using,
                 lifetime>>

StoreConnected(t) ==
  /\ Go(t, "startConnected", "spawn")
  /\ m_connected' = TRUE
  /\ UNCHANGED <<locks, m_cancelRequested, m_running, owned, op, loop, using,
                 lifetime>>

Spawn(t) ==
  /\ Go(t, "spawn", "idle")
  /\ m_workerThread' = m_curl
  /\ loop' = [loop EXCEPT ![m_curl] = "top"]
  /\ m_lifecycleMutex' = None
  /\ UNCHANGED <<m_curlMutex, flags, m_curl, opens, op, using, lifetime>>
-----------------------------------------------------------------------------
(* send()                                                                  *)

\* Past this test nothing keeps the connection up. A false test returns.
SendCall(t) ==
  /\ CanCall(t, "send") /\ m_connected /\ Go(t, "idle", "send")
  /\ UNCHANGED <<locks, flags, owned, op, loop, using, lifetime>>

SendEnter(t) ==
  /\ \/ EnterCurl(t) /\ Go(t, "send", "inSend")
     \/ NoHandle /\ Go(t, "send", "idle") /\ UNCHANGED <<m_curlMutex, using>>
  /\ UNCHANGED <<m_lifecycleMutex, flags, owned, op, loop, lifetime>>

\* A send() that fails closes the connection.
FaultySendLeave(t) ==
  /\ LeaveCurl(t)
  /\ \/ Go(t, "inSend", "idle")
     \/ Go(t, "inSend", "closeWait")
  /\ UNCHANGED <<m_lifecycleMutex, flags, owned, op, loop, lifetime>>

\* Sent or failed; tunnelWrite() also goes on after a part or CURLE_AGAIN.
SendLeave(t) ==
  /\ LeaveCurl(t)
  /\ \/ Go(t, "inSend", "idle")
     \/ ~NativeWs /\ Go(t, "inSend", "send")
  /\ UNCHANGED <<m_lifecycleMutex, flags, owned, op, loop, lifetime>>
-----------------------------------------------------------------------------
(* workerLoop() and dispatchFramedBuffer()                                 *)

\* The loop does not look at m_running.
FaultyLoopTop(w) ==
  /\ Run(w, "top", "recv")
  /\ UNCHANGED <<locks, flags, owned, api, op, using, lifetime>>

LoopTop(w) ==
  /\ Run(w, "top", IF m_running THEN "recv" ELSE "exit")
  /\ UNCHANGED <<locks, flags, owned, api, op, using, lifetime>>

RecvEnter(w) ==
  /\ \/ EnterCurl(w) /\ Run(w, "recv", "inRecv")
     \/ NoHandle /\ Run(w, "recv", "exit") /\ UNCHANGED <<m_curlMutex, using>>
  /\ UNCHANGED <<m_lifecycleMutex, flags, owned, api, op, lifetime>>

\* CURLE_AGAIN or a part of a message, data, the end of the stream, an error.
RecvLeave(w) ==
  /\ LeaveCurl(w)
  /\ \E pc \in {"top", "dispatch", "exit", "failed"} : Run(w, "inRecv", pc)
  /\ UNCHANGED <<m_lifecycleMutex, flags, owned, api, op, lifetime>>

\* An error is only reported while nobody has asked the worker to stop.
RecvFailed(w) ==
  /\ Run(w, "failed", IF m_running THEN "onError" ELSE "exit")
  /\ UNCHANGED <<locks, flags, owned, api, op, using, lifetime>>

\* libcurl hands over one message; the tunnel's buffer may hold data frames
\* and pings, the last of them incomplete. The loop over it does not look at
\* m_running.
Dispatch(w) ==
  /\ \/ Run(w, "dispatch", "onData")
     \/ Run(w, "dispatch", "top")
     \/ ~NativeWs /\ Run(w, "dispatch", "pong")
  /\ UNCHANGED <<locks, flags, owned, api, op, using, lifetime>>

DispatchClose(w) ==
  /\ ~NativeWs /\ Run(w, "dispatch", "top")
  /\ m_running' = FALSE
  /\ UNCHANGED <<locks, m_cancelRequested, m_connected, owned, api, op, using,
                 lifetime>>

PongEnter(w) ==
  /\ \/ EnterCurl(w) /\ Run(w, "pong", "inPong")
     \/ NoHandle /\ Run(w, "pong", "dispatch") /\ UNCHANGED <<m_curlMutex, using>>
  /\ UNCHANGED <<m_lifecycleMutex, flags, owned, api, op, lifetime>>

PongLeave(w) ==
  /\ LeaveCurl(w)
  /\ \E pc \in {"pong", "dispatch"} : Run(w, "inPong", pc)
  /\ UNCHANGED <<m_lifecycleMutex, flags, owned, api, op, lifetime>>

CallbackReturns(w) ==
  /\ api[w] = "idle"
  /\ \/ Run(w, "onData", IF NativeWs THEN "top" ELSE "dispatch")
     \/ Run(w, "onError", "exit")
     \/ Run(w, "onClose", "done")
  /\ UNCHANGED <<locks, flags, owned, api, op, using, lifetime>>

\* The worker ends without m_connected.store(false).
FaultyExitConnected(w) ==
  /\ Run(w, "exit", "exitRunning")
  /\ UNCHANGED <<locks, flags, owned, api, op, using, lifetime>>

ExitConnected(w) ==
  /\ Run(w, "exit", "exitRunning")
  /\ m_connected' = FALSE
  /\ UNCHANGED <<locks, m_cancelRequested, m_running, owned, api, op, using,
                 lifetime>>

ExitRunning(w) ==
  /\ Run(w, "exitRunning", "onClose")
  /\ m_running' = FALSE
  /\ UNCHANGED <<locks, m_cancelRequested, m_connected, owned, api, op, using,
                 lifetime>>
-----------------------------------------------------------------------------
CloseStep(t) ==
  \/ CloseCall(t) \/ Destroy(t) \/ LockLifecycle(t) \/ ClearConnected(t)
  \/ CloseFrameEnter(t) \/ CloseFrameLeave(t) \/ AckWait(t) \/ StopWorker(t)
  \/ Reap(t) \/ Join(t) \/ Free(t)

OpenStep(t) ==
  \/ OpenCall(t) \/ ResetCancel(t) \/ CreateFails(t) \/ Create(t) \/ Perform(t)
  \/ HandshakeEnter(t) \/ HandshakeLeave(t) \/ HandshakeTimeout(t)
  \/ ErrorHandlerReenters(t) \/ ErrorHandlerReturns(t) \/ OpenFails(t)
  \/ StoreRunning(t) \/ StoreConnected(t) \/ Spawn(t)

SendStep(t) == SendCall(t) \/ SendEnter(t) \/ SendLeave(t)

WorkerStep(w) ==
  \/ LoopTop(w) \/ RecvEnter(w) \/ RecvLeave(w) \/ RecvFailed(w) \/ Dispatch(w)
  \/ DispatchClose(w) \/ PongEnter(w) \/ PongLeave(w) \/ CallbackReturns(w)
  \/ ExitConnected(w) \/ ExitRunning(w)

Next ==
  /\ lifetime # "dead"
  /\ \/ \E t \in Threads : CloseStep(t) \/ OpenStep(t) \/ SendStep(t)
     \/ \E w \in Workers : WorkerStep(w)

Spec == Init /\ [][Next]_vars
=============================================================================
