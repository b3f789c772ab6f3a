# stomp-client in TLA+

A specification of the C++ STOMP client in `src/`: its threads, locks and
callbacks, the client over them, what each promises, the checks TLC makes and
the theorems TLAPS proves. Source references are to files of the repository,
`CurlTransport.cpp:240` being line 240 of `src/src/CurlTransport.cpp`.

## The system

| component | state | operations | interacts with |
| --- | --- | --- | --- |
| `CurlTransport` | curl handle, worker thread, `m_connected`, `m_running`, `m_cancelRequested`, `m_curlMutex`, `m_lifecycleMutex` | `open`, `close`, `send`, destructor, `workerLoop` | libcurl (calls), its user (callbacks `m_onData`, `m_onError`, `m_onClose`, made on the worker or, for errors, inside `open`) |
| WebSocket framing (in `CurlTransport`, raw-tunnel build) | receive buffer, mask generator | handshake, `dispatchFramedBuffer`, frame encoding in `send`, pong, close frame | bytes in and out of libcurl |
| `ITransport` | none | the interface between the transport and the client | |
| `StompClient` | `m_connected`, `m_subscriptions`, `m_nextSubId`, its parser | `connect`, `disconnect`, `subscribe`, `unsubscribe`, `send`, `sendHeartbeat`, the handlers of frames, errors and the end | `ITransport`, `StompParser`, user callbacks |
| `StompParser` | `m_state`, `m_buffer`, `m_currentFrame`, `m_contentLength` | `feed`, `reset` | fed by the transport's thread, calls back per frame and per heartbeat |
| `StompFrame` | command, headers, body | `setHeader`, `addHeader`, `getHeader`, `serialize` | value type |
| `TransportConfig`, `JsonMessage` | none | data and one-line wrappers | |
| ping-pong server (`stomp_server.py`) | subscriptions, scores, timers | broker frames, game rounds | WebSocket, asyncio tasks |
| ping-pong player (`main.cpp`) | position, last target | callbacks on `/topic/game`, rematch prompt | `StompClient` |

What is hard here: `open`, `close` and `send` run on any thread, while a worker
reads and calls back into user code that may call the transport again; the
handle is shared under one mutex except while it connects; flags are atomics
read without any lock; the client keeps its state under atomics and its own
small mutex and lets `open` and the reader race on the parser; connections end
from either side at any time, and any send may fail. The hazards, each at its
line, are in `PROJECT.json`.

## What each component has to get right

* transport: the handle is alive while anybody uses it; one worker per
  connection, joined before the next; the end of every connection is reported
  once, after `isConnected()` has fallen; `close()` returns and leaves nothing
  running; no thread waits for itself;
* client: CONNECT goes first; a message whose subscription is wanted finds its
  handler; `isConnected()` speaks for the current connection; a lost
  connection is reported once;
* parser: frames depend on the bytes and not on how they were cut into chunks,
  every byte belongs to one frame, a reset leaves nothing behind;
* frames: what `serialize` writes the parser reads back.

## Modules

### CurlTransport, CurlTransportProps, MCCurlTransport

`CurlTransport` has one action per critical section, atomic access or stretch
of code between two of them. `api[t]` says where thread `t` is in `open`,
`closeLocked` or `send`, `loop[w]` where worker `w` is in `workerLoop`; both
are needed for a worker, since a callback may call a method. Locks hold their
owner. The handle and the worker are numbered by connection, so that a stale
one can be told from the current one. `using[t]` is the handle a thread has
passed to libcurl and not got back; calls into libcurl take two steps, so two
of them can overlap, as they can in the code while `curl_easy_perform()` runs
without `m_curlMutex`.

Constants: `NativeWs` chooses the build (`STOMP_CURL_NATIVE_WS`),
`CallbackOps` says which methods user code calls from callbacks. The interface
forbids nothing there, so one set of runs lets callbacks call everything, and
the stronger properties are stated for callbacks that only send, as in the
repository's example and README.

The runs have the raw tunnel, which adds the handshake, the close frame in
parts and the pongs to what the native build does; the theorems hold for both.

Line 10 tests `defined(CURLOPT_WS_OPTIONS)`; in libcurl that name is an
enumerator, which the preprocessor does not see, unless the header also makes
it a macro. Both builds are modelled, so nothing here depends on which one a
compiler picks.

A method call made by a callback *inside* `open()` (`reportError`, line 140)
finds its own thread holding `m_lifecycleMutex`. Locking a `std::mutex` again
is undefined; the model takes the outcome of the usual implementation, to wait
for ever ("relock").

Data is left out: what `curl_easy_recv` returns is a choice of "nothing",
"data", "end" or "error", and a buffer holds some number of data frames, pings
and at most one close frame.

### TransportContract

What the client may assume of a transport: at most one connection, one thread
that reads it, `isConnected()` falls before `m_onClose` is called, `m_onClose`
is called once, and the next connection starts after it has returned.
`CurlTransport` implements it (run `transport_tunnel`) with
`up <- m_connected` and `reader` computed from the worker's position.
`StompClient` is built from its actions.

### StompClient, StompClientProps, MCStompClient

The client over `TransportContract`, application threads against the reading
thread, with the broker of `stomp_server.py` at the other end. The broker
starts afresh with every connection, as the server makes a handler per
WebSocket. `lifecycle` stands for the transport's lifecycle mutex.

A frame is sent in two steps, as `CurlTransport::send()` tests `m_connected`
and writes much later: `sending[t]` is the frame thread `t` has in hand. The
test may fail, and so may the write with the connection up (`curl_ws_send()` is
not tried again, the handle may be gone, a part may not be written). A frame
that was tested before the connection changed can be written on the next one. A
`connect()` whose CONNECT was not sent returns false and leaves the transport
connected (`StompClient.cpp:86`); the history variable `refused` remembers it,
because from then on anything may be the first frame the broker sees.

Frames are a command, a subscription and the connection their bytes came from.
The parser is modelled as far as the client can see it: a frame may arrive in
two halves, the first of which stays in `partial`; whatever is there when a
frame ends becomes the beginning of the frame delivered; a second half alone
becomes the beginning of nonsense. `reset()` racing with `feed()` is a data
race in the code; the model has the outcomes in which one comes after the
other.

Callbacks call `subscribe`, `unsubscribe` and `send`, as those of the README
and of `main.cpp` do. They leave `connect` and `disconnect` alone: with those,
the transport keeps its contract no longer (`CurlTransport` shows what happens).

### StompFrame, StompParser, StompParserProps, MCStompParser

`StompFrame` has the operations of the value type as operators over frames,
and `serialize`. `StompParser` has one action per stage of `processBuffer()`:
skipping ends of line, the command, a header line, the end of the headers, the
two ways to read a body; `call` says whether the thread is in `feed()` or in a
callback, where user code may connect its client again and so `reset()` the
parser under `processBuffer()`. `Feed(n)` takes any number of bytes of what is
left of the stream, so every way to cut it is a behaviour.

A byte is a line feed, a carriage return, a NUL, a colon, a digit or a letter;
the key `content-length` is shortened to one byte, which changes no decision
of the parser. `SizeMod` is the 2^64 at which `size_t` wraps. `Sent` has
sequences of frames, `Written` the bytes `serialize()` makes of them one after
the other. `Sendable` says which frames can come back: no line feed in a line,
no CR at its end, no colon in a key, and a body that has its length or, without
one, no NUL.

`StompParserProps` has the reference: `RefByte` reads one byte, never looks
back, and is folded over the bytes fed. It and the parser share only what a
line means (`parseHeaderLine`, `HasLength`, `Chomp`), so that searching,
erasing, waiting and resuming are what is compared.

### WebSocketFrame, WsRequest, WebSocketTunnel, WebSocketTunnelProps, MCWebSocketTunnel

The bytes of the raw tunnel. `WebSocketFrame` has the encoder (`TextFrame`,
`CloseFrame`, `PongFrame`) and the decoder of `dispatchFramedBuffer()` as
operators, `WsRequest` has `parseWsUrl()`, `base64Encode()` and the upgrade
request. `WebSocketTunnel` puts them to work: one step is one
`curl_easy_send()` or `curl_easy_recv()`, so two senders, the worker's pongs
and the close frame can be written into each other, as `tunnelWrite()` holds
`m_curlMutex` for one part only. The locks are left to `CurlTransport`;
`lifecycle` says where `open()` or `close()` is, and senders are not waited
for, so that one of them may meet the next connection.

A byte has five bits: FIN or MASK, and four for the opcode or the length. 126
and 127 become 14 and 15, 65535 becomes `ShortMax`, so the borders are at 14
and 17 bytes. A URL is a sequence of tokens (`IsUrl`): the scheme with its
"://", the digits and separators `parseWsUrl()` looks at, and "a" for any other
character except white space and signs, which `std::stoi()` skips or reads. A
port is the number its digits spell, and is refused beyond `MaxInt`. A status
line is `Accepted` or not.

The peer (`Read`, `RfcPayload`) reads a byte at a time by the rules of RFC 6455
and is not built from the decoder of the code. `turn` says whose frame it is in
the middle of; a part that does not continue that frame, belongs to another
connection or goes into an upgrade makes it `Torn`, and nothing is claimed of
the stream from there on. The peer speaks once it was spoken to, as STOMP
servers do; `Streams` has what it says.

What the model shows the code to do, and no property forbids: frames torn as
above; a fragmented message cut down to its first part; a peer's close frame
that gets no answer; a bracketed IPv6 host that keeps its port
(`CurlTransport.cpp:53`); bytes behind the upgrade's answer that are dropped.

### PingPongServer, PingPong

`PingPongServer` is the game of `stomp_server.py`: one action per frame it
handles and per stretch of a task between two sleeps. `serving` and `returning`
count the tasks nobody keeps a reference to; `game_task` is the one that is
cancelled. `PingPong` adds the player of `main.cpp` and the connection, which
may break at any time, losing any part of what is under way.

`disconnect()` takes two steps, as in the code: DISCONNECT is written
(`StompClient.cpp:95`), the player is "leaving", and only `Close` lowers what
`isConnected()` answers (`CurlTransport.cpp:362`). In between the rematch
threads and the callbacks go on and send, so a REMATCH can follow DISCONNECT.
The same holds of the callback of CONNECTED: `isConnected()` of the client is
up before it subscribes ("joining"). The player looks at the answer of no send
but CONNECT's, so any other may be lost on a connection that stays up; only the
history variable `unsent` knows. `goodbye` is a history variable of the server:
whether DISCONNECT was handled, and whether a game was asked for after it.

An answer carries the ball it was given to (`of`), which the real message does
not: it is only there to state `AnswerIsForTheBall`. A send on a WebSocket that
is closed fails or goes unnoticed. The positions on the table and the number of
hits in a rally decide how likely a ball is reached, so they leave no trace in
a model in which either may happen.

`MayUnsubscribe` lets the user of `StompClient` give the subscription up and
take it again, which the player does not do. It shows that the server starts no
second match then, and that the ball on its way is lost
(`stomp_server.py:107`): `OneBall` holds there too, `MatchEnds` excepts it.
After subscribing again the model lets messages of the old subscription be
handled as well, which the code drops: it has more behaviours than the code
there.

The player forgets its last target after each point (`main.cpp:165`), the
server remembers its own: README.md:116 of the repository rules a repetition
out, the player may well repeat. The server's docstring
(`stomp_server.py:12`) and README.md:113 describe an older game, in which a
return that the server blocks is a point for it and directions are compared; the
code (`stomp_server.py:161`) goes on with the rally. The model follows the code.

## Runs

| run | bounds | question |
| --- | --- | --- |
| `transport_tunnel` | 2 threads, 3 connections | callbacks only send: types, connection and reader, no deadlock, one worker, quiet after close and after the destructor, and the contract |
| `transport_reentrant` | 2 threads, 2 connections | callbacks call anything: the inductive invariant, the handle, the joinable thread, who meets whom inside libcurl, and that the two re-entries are the only deadlocks |
| `transport_liveness` | 2 threads, 1 connection | `close()` returns; a worker told to stop reaches `m_onClose` |
| `transport_cancel` | 2 threads, 2 connections | expected violation: a `close()` can be forgotten by a connect |
| `client_one` | 1 thread, 2 connections, 1 subscription, 2 frames each way | CONNECT first, unless `connect()` returned false |
| `client_two` | 2 threads, 2 connections, 1 subscription, 1 frame each way | handlers, late calls, the connected flag, reports of loss |
| `client_stale` | 1 thread, 2 connections | expected violation: a frame made of two connections |
| `parser_streams` | all streams of up to 5 bytes, 184 streams of frames, 186 pairs of frames as `serialize()` writes them | the parser does what the reference does, and no later; frames come back as they were sent; `feed()` returns |
| `parser_unended` | one stream | expected violation: a frame without its NUL |
| `parser_largest` | one stream, `size_t` of 4 bits | expected violation: the sum at line 131 wraps |
| `websocket_tunnel` | 2 senders, 2 connections, 2 frames a connection, 6 streams of the peer, 151 URLs | the peer reads the frames that were meant; at most one late frame each; data and pongs whatever the chunks; the upgrade |
| `ping_pong` | 3 points to win | one ball, answers scored against their ball, a match decided once and decided at all, what is played for a player who has left |

Two application threads are enough for every pair of operations to race, the
worker is a third actor and a detached worker a fourth. Two connections let a
leftover of the first meet the second; three let it meet an open that follows
an open. Connections are numbered by `opens`, whose bound acts as
`curl_easy_init()` failing. The transport is symmetric in its application
threads and so is the client; no symmetry is used with liveness.

Deadlock checking is off in the transport runs because the system stops when
the destructor has returned and, in `transport_reentrant`, in the re-entry
deadlocks; `StopsOnlyByReentry` says that it stops in no other way, which is
the stronger statement. The runs of the client check for deadlock. They do not
show the one in which a callback that sends waits in `tunnelWrite()`
(`CurlTransport.cpp:431`) for a peer that waits for the reader: a write of the
model may always fail, and a write that waits for ever is one that is never
taken.

Five bytes are a whole frame without headers and one byte more, so the short
streams hold every order of line ends, NULs and colons around a frame; the
longer ones have the lengths 0, 1, 2, none and "1x", bodies shorter, equal and
longer, with NUL and line ends inside, two length headers that disagree, and
four kinds of bytes after the body. A stream may be reset anywhere.

In `websocket_tunnel` the senders' payloads have 14 and 17 bytes, the first
ones to need each longer length; the peer's frames have lengths 0 to 17, masked
or not, with pings, fragments, a pong and a close frame, and are read in every
way to cut them. A frame is written in one part or two, cut inside its header:
that is enough to be interrupted, and to leave a tail for the next connection.
Senders begin while fewer than two data frames and pongs are written on the
connection; close frames do not count, so a sender without the test in `send()`
could write two late ones. Deadlock checking is off there because the run ends
when both connections are used up, and in `ping_pong` because the game ends
when the player has gone or nobody answers the prompt.

Three points to win are enough for a match to be won with the other side at 0,
1 or 2, and a rematch starts everything again; nothing bounds their number.

The four violations are findings. `transport_cancel`: the comment at
`CurlTransport.cpp:351` promises that `close()` cuts a running connect short.
`open()` clears the flag at line 240 after it took the lock, so a `close()`
that comes between loses its request and waits for the whole connect.
`client_stale`: `connect()` resets the parser before `open()` has stopped the
reader of the old connection, which may leave half a frame there; the new
connection's first bytes complete it. `parser_unended`: `StompParser.h:25`
speaks of full valid frames; without a NUL after the body the parser delivers
the frame and reads on in the body. `parser_largest`: `m_contentLength + 1`
wraps for the largest length, so the frame is delivered with what is there.

### Fairness

`FairSpec` of the transport is strongly fair for every thread's own steps:
threads are scheduled, and mutexes starve nobody (C++ promises no fairness of
`std::mutex`, the platforms in use do). It is also strongly fair for the way
out of every loop that waits for the network: the peer reads on, so a write
ends; the handshake has a deadline in the code; a receive buffer is finite.
User calls are never forced, and neither is the destructor. Without "the peer
reads on" `close()` need not return: the close frame is written with the
lifecycle mutex held and `CURLE_AGAIN` is retried without limit.

`FairSpec` of the game is weakly fair for the callbacks and tasks: the
connection carries frames, asyncio runs its tasks, the transport's thread calls
back. `SF_vars(OutOfReach)` stands for chance: a player reaches any ball with a
probability below one (`reachProbability`), so no rally goes on for ever.
`MatchEnds` excepts a player who leaves, is lost, or has unsubscribed, and one
whose send has failed (`unsent`): nobody repeats a PONG, so the match stops for
good.

## Proofs

Eight modules hold proofs. Every safety property of the runs that expect none
to fail is proved, for every value of the constants that the assumptions named
here allow, except `StopsOnlyByReentry`. Each proof rests on an
inductive invariant that is written down beside the properties (`...Props`,
`PingPong`), was checked by TLC on the bounds of the run first, and is taken
through every action.

### The transport: CurlTransportProofs, CurlTransportRefinement

For every set of application threads, every number of connections, both builds
and every use of the callbacks, from `ConstantsAssumption` alone:

* `Invariance`: `IInv` is an invariant. None of the safety properties is
  inductive by itself: that the handle is not freed in use depends on who owns
  `m_curlMutex` (`CurlOwner`), on what a thread inside libcurl was given
  (`UsingInv`) and on the fact that whoever connects owns the lifecycle mutex
  (`LifecycleOwner`); `ConnectedHasReader` depends on what `open()` and
  `closeLocked()` rely on between their steps (`LifecycleInv`), and workers
  are only inside methods during callbacks (`CallInv`). The proof takes `IInv`
  through every action, by groups of actions.
* From it: `TypeCorrect`, `HandleSafe`, `ConnectionHasReader`, `SpawnIsSafe`,
  `OverlapIsConnect`.
* With `LeaveLifecycleAlone` (callbacks call neither `open` nor `close`)
  `QuietInv` is inductive relative to `IInv`, and gives `WorkerIsUnique`,
  `QuietAfterClose`, `NothingOutlives` and `NoReentryHang`.
* With the same assumption `CurlTransportRefinement` proves `ContractHolds`:
  every step is a `Connect` (`m_connected` is raised), a `Drop` (it is
  lowered), a `Report` (the worker reaches `m_onClose`), a `Finish` or nothing
  to `TransportContract`. That a `Report` finds the connection down, and a
  `Connect` no reader, is where `IInv` and `OneWorker` are needed.

### The client: StompClientProofs

For any number of application threads, connections, subscriptions and frames.
`ClientInv` says, besides the types, where the reader may be while the
transport is up (`ReaderInv`), that an id is in `m_subscriptions` or was
unsubscribed before anybody else has it (`IdInv`: this makes `HandlerReady` an
invariant, as a `SUBSCRIBE` on its way is what puts the id into the broker and
from there into messages and half frames), that a handler which was looked up
has not been called late yet (`LateInv`), and who may still report the end of a
connection (`ReportInv`). From it `TypeCorrect`, `HandlersAreReady`,
`LateCallIsUnique`, `ConnectedIsGreeted`, `ReportIsUnique`, `LossReaches`. With
one application thread (`OneApp`) `ConnectComesFirst` uses `FirstInv`: while
the broker has heard nothing, the connection has not failed and `connect()` has
not returned false, CONNECT is at the head of the queue, or the queue is empty
and the thread in `connect()` is about to send it; nothing has come in that
could make a callback send. `ConnectedMeansGreeted` is about the client's flag
and the reading thread: it is false as soon as `disconnect()` has returned, and
it allows what the code does, that a CONNECTED handled while `disconnect()`
runs raises the flag once more.

The client's actions are written as steps of `TransportContract` (its `Connect`,
`Drop`, `Report` and `Finish`), so what `ContractHolds` proves of the transport
is what the client assumes of connecting, of the end and of the reading thread.
Sending is not part of the contract: it may fail or come late at any time.

### The parser: StompParserProofs

For any streams, chunks, resets and width of `size_t`. `ParserInv` says that
the buffer is the end of what was fed and what the frame in hand is; `InStep`,
that the reference, stopped after the bytes the parser has used, is where the
parser is, or one byte behind it where a body had no NUL. The parser erases
whole lines and bodies, so each action needs that the reference, reading
byte by byte, gets through what is erased: those lemmas (`LineRead`,
`BodyRead`, ...) are inductions on the number of bytes.
`ChunksAreForgotten` is `Spec /\ []LengthFits => []ChunksDoNotMatter`. The
hypothesis is needed: a frame that announces the largest number `size_t` holds
breaks the property, which is the finding of `parser_largest`. It excludes
nothing else; every behaviour of `parser_streams` satisfies it.

`ChunksNeverMatter` moves the hypothesis from the behaviour to the bytes: as
long as the reference finds no frame of that length in what was fed (`Fits`),
the parser is in step with it. That needs one more fact, that a stream is
shorter than what `size_t` counts (`Room`).

`FramesComeBack` is the round trip, without a hypothesis: whatever frames are
written one after the other, however they are cut and whatever is in their
bodies, exactly they are called back. `SentAssumption` says that they are
`Sendable`; a frame that is not would change on its way. The proof has the
reference read what `serialize()` wrote, the command, the headers by induction
on their number, the body, and then the frames by induction on theirs; such a
stream satisfies `Fits`, so the parser does what the reference does.

`LoopProgresses` is an action property: each step of `processBuffer()`,
callbacks included, lowers `Work`, a natural number. This is why the loop ends;
that it therefore does, `FeedEnds`, needs fairness and stays with TLC.

### The tunnel: WebSocketFrameProofs, WebSocketTunnelProofs

`WebSocketFrameProofs` is about the operators, for every width of the two
longer lengths and of the mask (`WidthAssumption`): big-endian digits give the
number back, masking twice is the identity, so what the three encoders write is
one frame of the right opcode and payload (`EncodedAreFrames`); a reader of
bytes has the frame after its last byte and not before (`PartsAreRead`);
`dispatchFramedBuffer()` finds a whole frame in its buffer exactly when that
reader has read one (`DecodedIsRead`). The last one excludes header and payload
that add up to more than `size_t` holds, the overflow of
`CurlTransport.cpp:603`.

`WebSocketTunnelProofs`, for any senders, payloads, masks, cuts and
connections, has three inductive invariants. `TunnelInv` knows who writes what
kind of frame (`WritingInv`), what can follow a close frame (`WrittenInv`) and
what is left of the response (`UpgradeInv`); from it `LateFramesAreBounded` and
`UpgradeIsComplete`. `DataInv` adds the bytes: what is left of a frame is its
end (`RestInv`), the peer is as far in a frame as the writer whose turn it is
(`PeerInv`), the frames dispatched are those of the stream before the buffer
(`ReadInv`), only the worker writes pongs (`AnswerInv`) and they match the
pings dispatched (`EchoInv`); from it `FramesAreRead`, `DataArrives`,
`PingsAreAnswered`, `TypeCorrect`. `RequestInv` remembers of which URL and which
nonce the request was made; the rest is about the operators. `UrlsAreFollowed`:
for every URL, wherever it can be cut into a host, a port and a path, the
request has these (`UrlParts`; the first "/" and the last ":" are where they
are looked for, `FindIs`, `RFindIs`, and the port is the number that leads what
follows, `StoiLeads`). `KeysAreBase64`: for every nonce of any length the key is
its base64, three bytes in four digits and the last group padded (`GroupOf`,
`Encoded`). `TunnelAssumption` says that payloads and nonces are bytes, masks
have their length, and URLs are made of the tokens of `IsUrl`; `PeerAssumption`
(`KeepsRfc`), that what the peer sends are headers whose lengths RFC 6455
allows (the top bit of a length is 0, a ping has at most 125 bytes). For
another peer `DataIsDelivered` and `PongsEchoPings` are not claimed
(`CurlTransport.cpp:603` and `:633`). TLC evaluates both assumptions for the
constants of the run.

### The game: PingPongProofs

For any number of points to win. `GameInv` adds to `OneBall` and the types what
is under way for which round (`BallInv`: a PING on its way is the ball the
server waits for, and nothing is under way before a match) and how far the
player has come (`LeaveInv`: CONNECT is the first frame and comes once; after
DISCONNECT nobody is `connected`, and no game is about to start unless one was
asked for since; nor is one when the handler has ended). `OneBall` is inductive
only together with them: a SEND that answers a PING is a ball because no other
thing was under way. From it `TypeCorrect`, `BallIsUnique`, `AnswerFits`,
`MatchDecided`, and the action property `QuietAfterLeaving` (`LeftAlone`):
nothing is sent after DISCONNECT; a timer that is asleep then plays nothing; a
REMATCH that came behind DISCONNECT does start a game, whose first serve is
played to nobody, since `_start_game()` does not look at `connected`
(`stomp_server.py:221`); and after the end of `ws_handler()`, also of a
connection that was lost, at most the ball under way is played.

### Induction

What the reference parser, the peer and big-endian numbers compute is defined by
recursive functions on `0 .. n`, of which only the step from `n - 1` to `n` is
used. Inductions are about sets: `Lemmas` proves from the well-foundedness of
`<` that a set of naturals has a least member (`Least`) and hence that one
which has 0 and successors is `Nat` (`Induct`); a lemma by induction names the
set of the `n` it holds for. The rest of `Lemmas` is about sequences of
elements of any kind: slices, concatenation, and what `FlattenSeq` of a
longer sequence is (`FlattenAppended`).

### Only model-checked

* liveness (`CloseReturns`, `EndIsReported`, `FeedEnds`, `MatchEnds`): fairness
  is out of the prover's reach (of `FeedEnds`, `LoopProgresses` proves the part
  that is not temporal);
* `StopsOnlyByReentry`: it speaks of ENABLED;
* the violations, which are counterexamples.

## Not modelled, and what is left

Every component that keeps state is modelled, and what the provers can reach of
its safety is proved. Not modelled, and why:

* `TransportConfig`, `applyCurlOptions()`, `setSslVerification()`: values
  passed to libcurl, which no decision in `src/` depends on;
* what libcurl does in the native build (framing, pongs, a payload of which
  `curl_ws_send()` took a part): it differs between its versions and `src/`
  does not tell;
* a length near 2^64 in a frame (`CurlTransport.cpp:603`): the copy that
  follows runs outside the vector, which has no behaviour to go on with;
* `tryParse()` and `get()` of `JsonMessage` on malformed documents, heartbeats
  of the player, positions on the table, the thread of the prompt after
  `main()` has returned;
* `extraHandshakeHeaders()`, copied one by one; the wording of errors and logs;
  tests and build files.
