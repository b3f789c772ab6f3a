-------------------------- MODULE CurlTransportProps --------------------------
(***************************************************************************)
(* What CurlTransport keeps true, and the inductive invariant behind it.   *)
(***************************************************************************)
EXTENDS CurlTransport

\* Where the worker of the current connection stands, for a program whose
\* callbacks leave open() and close() alone.
Reader ==
  IF \E t \in Threads : api[t] = "spawn" THEN "reading"
  ELSE IF m_workerThread = None \/ loop[m_workerThread] = "done" THEN "none"
  ELSE IF loop[m_workerThread] = "onClose" THEN "reporting"
  ELSE "reading"

\* What ITransport promises to StompClient.
Contract == INSTANCE TransportContract WITH up <- m_connected, reader <- Reader
ImplementsContract == Contract!Spec

TypeOK ==
  /\ m_lifecycleMutex \in Threads \cup {None}
  /\ m_curlMutex \in Threads \cup {None}
  /\ m_cancelRequested \in BOOLEAN
  /\ m_running \in BOOLEAN
  /\ m_connected \in BOOLEAN
  /\ opens \in 0 .. MaxOpens
  /\ m_curl \in 0 .. opens
  /\ m_workerThread \in 0 .. opens
  /\ api \in [Threads -> ApiPcs]
  /\ op \in [Threads -> {"open", "close", "destroy"}]
  /\ loop \in [Workers -> LoopPcs]
  /\ using \in [Threads -> 0 .. opens]
  /\ lifetime \in {"alive", "dying", "dead"}
-----------------------------------------------------------------------------
(* Invariants of every run, whatever user code does in its callbacks.      *)

\* "Serializes open() against close() so the handle is never freed in use":
\* the handle a thread has passed to libcurl is the transport's current one
\* until that call has returned.
HandleNotFreedInUse == \A t \in Threads : using[t] # None => using[t] = m_curl

\* isConnected() never speaks for a connection that nobody will report the
\* end of: there is a handle, and a worker that still has m_onClose to call
\* (or open() is about to start it).
ConnectedHasReader ==
  m_connected =>
    /\ m_curl # None
    /\ \/ \E t \in Threads : api[t] = "spawn"
       \/ m_workerThread # None /\ loop[m_workerThread] \in ReadPcs

\* open() never assigns a new thread to a joinable m_workerThread, which
\* would terminate the program.
SpawnFindsNoWorker == \A t \in Threads : api[t] = "spawn" => m_workerThread = None

\* Two threads are inside libcurl at the same time only when one of them is
\* connecting (curl_easy_perform() runs without m_curlMutex) and the other
\* came from an earlier connection: a send() past its m_connected test, or a
\* worker that detached itself. No close frame, no upgrade request, no second
\* connect ever overlaps with anything.
OverlapOnlyWithConnect ==
  LET Connecting(t) == api[t] = "perform"
      Late(t) == \/ api[t] = "inSend"
                 \/ t \in Workers /\ loop[t] \in {"inRecv", "inPong"}
  IN \A t, u \in Threads :
       t # u /\ using[t] # None /\ using[u] # None =>
         \/ Connecting(t) /\ Late(u)
         \/ Connecting(u) /\ Late(t)

\* The two waits that never end: a thread that re-enters the transport from
\* the error handler of its own open(), and a thread that joins a worker
\* which is itself waiting, in a callback, for the lifecycle mutex.
ReentryHang ==
  \E t \in Threads :
    \/ api[t] = "relock"
    \/ api[t] = "join" /\ api[m_workerThread] \in WaitPcs

\* The transport comes to a stop in no other way.
StopsOnlyByReentry == ~ENABLED Next => lifetime = "dead" \/ ReentryHang
-----------------------------------------------------------------------------
(* Invariants of a program whose callbacks leave open() and close() alone. *)

NeverHangs == ~ReentryHang

\* The only worker is the one m_workerThread can join: no leftover of an
\* earlier connection can clear the flags of the current one, or deliver
\* data into it.
OneWorker == \A w \in Workers : Active(w) => m_workerThread = w

\* Once close() has returned, no callback runs or will run.
ClosedIsQuiet ==
  m_lifecycleMutex = None /\ m_curl = None => \A w \in Workers : ~Active(w)

\* No thread of the transport outlives the object.
DestructorLeavesNoThread == lifetime = "dead" => \A w \in Workers : ~Active(w)
-----------------------------------------------------------------------------
(* The inductive invariant: who holds which mutex, what a thread inside    *)
(* libcurl works on, and what open() and closeLocked() rely on at each of  *)
(* their steps.                                                            *)

InCurl(t) ==
  \/ api[t] \in {"inCloseFrame", "inHandshake", "inSend"}
  \/ t \in Workers /\ loop[t] \in {"inRecv", "inPong"}

LifecycleOwner == \A t \in Threads : api[t] \in HeldPcs <=> m_lifecycleMutex = t
CurlOwner == \A t \in Threads : InCurl(t) <=> m_curlMutex = t

UsingInv ==
  \A t \in Threads :
    using[t] = IF InCurl(t) \/ api[t] = "perform" THEN m_curl ELSE None

\* A worker is inside a method of the transport only from a callback.
CallInv == \A w \in Workers : api[w] # "idle" => loop[w] \in Callbacks

WorkerInv ==
  /\ \A w \in Workers : w > opens => loop[w] = "unborn"
  /\ m_workerThread # None => loop[m_workerThread] # "unborn"

LifecycleInv ==
  \A t \in Threads :
    /\ api[t] \in HeldPcs \ {"shut", "spawn"} => ~m_connected
    /\ api[t] \in OpenPcs \cup {"free"} => m_workerThread = None
    /\ api[t] = "join" => m_workerThread # None
    /\ api[t] \in {"closeFrame", "inCloseFrame"} => m_curl # None
    /\ api[t] \in ConnectPcs =>
         m_curl # None /\ m_curl = opens /\ loop[m_curl] = "unborn"

IInv ==
  /\ TypeOK /\ LifecycleOwner /\ CurlOwner /\ UsingInv /\ CallInv /\ WorkerInv
  /\ LifecycleInv /\ ConnectedHasReader

\* What a program adds to IInv whose callbacks leave open() and close() alone:
\* workers never enter them, the joinable worker has a handle, and the
\* destructor's last step leaves no worker behind.
LeaveLifecycleAlone == CallbackOps \cap Lifecycle = {}

QuietInv ==
  /\ \A w \in Workers : api[w] \in {"idle", "send", "inSend"}
  /\ \A t \in Threads : api[t] # "relock"
  /\ m_workerThread # None => m_curl # None
  /\ lifetime = "dead" => m_workerThread = None
  /\ OneWorker
-----------------------------------------------------------------------------
(* Liveness.                                                               *)

\* Every step a thread takes by itself, user calls excepted.
Moves(t) ==
  \/ LockLifecycle(t) \/ ClearConnected(t) \/ CloseFrameEnter(t)
  \/ CloseFrameLeave(t) \/ AckWait(t) \/ StopWorker(t) \/ Reap(t) \/ Join(t)
  \/ Free(t) \/ ResetCancel(t) \/ CreateFails(t) \/ Create(t) \/ Perform(t)
  \/ HandshakeEnter(t) \/ HandshakeLeave(t) \/ HandshakeTimeout(t)
  \/ ErrorHandlerReturns(t) \/ OpenFails(t) \/ StoreRunning(t)
  \/ StoreConnected(t) \/ Spawn(t) \/ SendEnter(t) \/ SendLeave(t)

\* The ways out of the loops that wait for the network.
Completes(t) ==
  \/ CloseFrameLeave(t) /\ api'[t] = "ackWait"
  \/ SendLeave(t) /\ api'[t] = "idle"
  \/ HandshakeTimeout(t)

\* The scheduler and the mutexes starve no thread; the peer goes on reading,
\* so that a write is retried finitely often; the handshake deadline passes;
\* a receive buffer holds finitely many frames.
Fairness ==
  /\ \A t \in Threads : SF_vars(Moves(t)) /\ SF_vars(Completes(t))
  /\ \A w \in Workers :
       /\ SF_vars(WorkerStep(w))
       /\ SF_vars(PongLeave(w) /\ loop'[w] = "dispatch")
       /\ SF_vars(Dispatch(w) /\ loop'[w] = "top")

FairSpec == Spec /\ Fairness

\* close() returns: through the close frame, the join and the mutexes.
CloseReturns == \A a \in Apps : api[a] = "closeWait" ~> api[a] = "idle"

\* A worker that is told to stop, by close() or by the peer's close frame,
\* always gets to m_onClose.
EndIsReported ==
  \A w \in Workers : loop[w] \in ReadPcs /\ ~m_running ~> loop[w] = "onClose"
-----------------------------------------------------------------------------
\* "a connect that is still running inside curl_easy_perform() bails out
\* instead of making this call wait for the full connect timeout": while a
\* close() waits for a connect, the connect can see the request.
CancelReachesConnect ==
  \A c, o \in Threads :
    api[c] = "closeWait" /\ api[o] = "perform" => m_cancelRequested
=============================================================================
