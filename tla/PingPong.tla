------------------------------- MODULE PingPong -------------------------------
(***************************************************************************)
(* The ping-pong game: the player of main.cpp against the server. The      *)
(* player answers in the callback of its subscription, on the transport's  *)
(* thread; a rematch is asked for on a thread of its own; main() waits for *)
(* the end. The connection can break at any time, and the two other threads *)
(* go on while main() is in disconnect(), between DISCONNECT and the fall  *)
(* of isConnected().                                                       *)
(*                                                                         *)
(* What the player sees is wrapped in STOMP frames by modules StompClient  *)
(* and StompParser; here a message is its type and what the game needs.    *)
(***************************************************************************)
EXTENDS PingPongServer

CONSTANT MayUnsubscribe  \* whether the user of StompClient unsubscribes

VARIABLES
  player,               \* "new", "playing", "leaving", "disconnected", "lost"
  subscription,         \* "none", "joining", "joined", "left", "again"
  lastReturnTarget,
  prompts,              \* rematch threads that wait for the user
  g_running,
  unsent                \* history: a send has failed on a connection that was up

playerVars == <<player, subscription, lastReturnTarget, prompts, g_running, unsent>>
outbox == <<toServer, unsent>>
vars == <<serverVars, playerVars>>

Init ==
  /\ ServerInit
  /\ player = "new" /\ subscription = "none" /\ lastReturnTarget = None
  /\ prompts = 0 /\ g_running = TRUE /\ unsent = FALSE

\* The player looks at the answer of no send but that of CONNECT.
SendFrame(m) ==
  \/ online /\ toServer' = Append(toServer, m) /\ UNCHANGED unsent
  \/ unsent' = (unsent \/ online) /\ UNCHANGED toServer
server == <<session, score, ball, tasks>>

\* Until close() has lowered isConnected() callbacks and prompts can send.
Active == player \in {"playing", "leaving"}

\* When connect() returns false main() returns, and the destructor closes.
Connect ==
  /\ player = "new"
  /\ \/ player' = "playing" /\ toServer' = Append(toServer, Message("CONNECT"))
     \/ player' = "leaving" /\ UNCHANGED toServer
  /\ UNCHANGED <<server, toClient, subscription, lastReturnTarget, prompts, g_running, unsent>>
-----------------------------------------------------------------------------
(* Callbacks                                                               *)

Gets(type) ==
  /\ Active /\ toClient # <<>> /\ Head(toClient).type = type
  /\ toClient' = Tail(toClient)
\* After "again" this takes messages for the subscription given up as well,
\* for which StompClient has no handler.
Receives(type) == subscription \in {"joined", "again"} /\ Gets(type)

\* m_connected is up from here on: disconnect() will send DISCONNECT.
OnConnected ==
  /\ Gets("CONNECTED") /\ subscription' = "joining"
  /\ UNCHANGED <<server, outbox, player, lastReturnTarget, prompts, g_running>>

Join ==
  /\ Active /\ subscription = "joining" /\ subscription' = "joined"
  /\ SendFrame(Message("SUBSCRIBE"))
  /\ UNCHANGED <<server, toClient, player, lastReturnTarget, prompts, g_running>>

OnGameStart ==
  /\ Receives("GAME_START")
  /\ UNCHANGED <<server, outbox, playerVars>>

\* Which ball an answer is for is not in the message; it is kept to check it.
BallOf(m) == <<m.round, m.direction>>

OutOfReach ==
  /\ Receives("PING")
  /\ SendFrame([type |-> "MISS", of |-> BallOf(Head(toClient))])
  /\ UNCHANGED <<server, player, subscription, lastReturnTarget, prompts, g_running>>

\* Played back to a lane, never the same one twice in a row.
PlayBack ==
  /\ Receives("PING")
  /\ \E target \in Directions \ {lastReturnTarget} :
       /\ lastReturnTarget' = target
       /\ SendFrame([type |-> "PONG", direction |-> target, of |-> BallOf(Head(toClient))])
  /\ UNCHANGED <<server, player, subscription, prompts, g_running>>

OnScore ==
  /\ Receives("SCORE") /\ lastReturnTarget' = None
  /\ UNCHANGED <<server, outbox, player, subscription, prompts, g_running>>

\* A detached thread asks the user.
OnMatchFinish ==
  /\ Receives("MATCH_FINISH") /\ prompts' = prompts + 1
  /\ UNCHANGED <<server, outbox, player, subscription, lastReturnTarget, g_running>>

OnGameOver ==
  /\ Receives("GAME_OVER") /\ g_running' = FALSE
  /\ UNCHANGED <<server, outbox, player, subscription, lastReturnTarget, prompts>>

\* StompClient has no handler for a message of a subscription given up.
Dropped ==
  /\ subscription = "left" /\ Active /\ toClient # <<>>
  /\ toClient' = Tail(toClient)
  /\ UNCHANGED <<server, outbox, playerVars>>
-----------------------------------------------------------------------------
(* Other threads of the player                                             *)

\* The user answers, or std::cin has nothing more to read. Once isConnected()
\* has fallen an answer is not sent, and soon main() has returned.
Answer ==
  /\ prompts > 0 /\ prompts' = prompts - 1 /\ Active
  /\ \/ SendFrame(Message("REMATCH")) /\ UNCHANGED g_running
     \/ SendFrame(Message("NO_REMATCH")) /\ g_running' = FALSE
     \/ UNCHANGED <<outbox, g_running>>
  /\ UNCHANGED <<server, toClient, player, subscription, lastReturnTarget>>

Interrupt ==
  /\ g_running /\ g_running' = FALSE
  /\ UNCHANGED <<server, outbox, toClient, player, subscription, lastReturnTarget, prompts>>

\* main() leaves its loop; disconnect() sends DISCONNECT, if CONNECTED has been
\* handled.
Disconnect ==
  /\ player = "playing" /\ ~g_running /\ player' = "leaving"
  /\ IF subscription = "none" THEN UNCHANGED outbox ELSE SendFrame(Message("DISCONNECT"))
  /\ UNCHANGED <<server, toClient, subscription, lastReturnTarget, prompts, g_running>>

\* isConnected() falls and the close frame is written: nothing that is sent or
\* arrives later counts.
Close ==
  /\ player = "leaving" /\ player' = "disconnected"
  /\ online' = FALSE /\ toClient' = <<>>
  /\ UNCHANGED <<connected, subscribed, ended, goodbye, score, ball, tasks, outbox,
                 subscription, lastReturnTarget, prompts, g_running>>

Unsubscribe ==
  /\ MayUnsubscribe /\ Active /\ subscription = "joined"
  /\ subscription' = "left" /\ SendFrame(Message("UNSUBSCRIBE"))
  /\ UNCHANGED <<server, toClient, player, lastReturnTarget, prompts, g_running>>

SubscribeAgain ==
  /\ Active /\ subscription = "left"
  /\ subscription' = "again" /\ SendFrame(Message("SUBSCRIBE"))
  /\ UNCHANGED <<server, toClient, player, lastReturnTarget, prompts, g_running>>

\* What is under way in either direction may be lost.
LoseConnection ==
  /\ Active /\ online /\ online' = FALSE
  /\ player' = "lost" /\ g_running' = FALSE
  /\ toClient' = <<>>
  /\ \E n \in 0 .. Len(toServer) : toServer' = SubSeq(toServer, 1, n)
  /\ UNCHANGED <<connected, subscribed, ended, goodbye, score, ball, tasks, subscription,
                 lastReturnTarget, prompts, unsent>>

Callback ==
  \/ OnConnected \/ Join \/ OnGameStart \/ OutOfReach \/ PlayBack \/ OnScore
  \/ OnMatchFinish \/ OnGameOver \/ Dropped

PlayerNext ==
  \/ Connect \/ Callback \/ Answer \/ Interrupt \/ Disconnect \/ Close
  \/ Unsubscribe \/ SubscribeAgain \/ LoseConnection

ServerStep == ServerNext /\ UNCHANGED playerVars

Next == PlayerNext \/ ServerStep
Spec == Init /\ [][Next]_vars

\* Frames are carried and tasks run as long as there is a connection, and a
\* player out of luck once in a while: in every rally a ball is missed some
\* time, as both sides reach any ball with a probability below one.
FairSpec ==
  /\ Spec
  /\ WF_vars(Connect) /\ WF_vars(Callback) /\ SF_vars(OutOfReach)
  /\ WF_vars(HandleFrame /\ UNCHANGED playerVars)
  /\ WF_vars(RunTask /\ UNCHANGED playerVars)
-----------------------------------------------------------------------------
Balls == Nat \X Directions
FromPlayer ==
  [type : {"CONNECT", "SUBSCRIBE", "UNSUBSCRIBE", "DISCONNECT", "REMATCH", "NO_REMATCH"}]
    \cup [type : {"MISS"}, of : Balls]
    \cup [type : {"PONG"}, direction : Directions, of : Balls]
FromServer ==
  [type : {"CONNECTED", "GAME_START", "SCORE", "GAME_OVER"}]
    \cup [type : {"PING"}, direction : Directions, round : Nat]
    \cup [type : {"MATCH_FINISH"}, winner : {"CLIENT", "SERVER"}]

ServerType ==
  /\ connected \in BOOLEAN /\ subscribed \in BOOLEAN
  /\ ended \in BOOLEAN /\ online \in BOOLEAN /\ goodbye \in {"no", "said", "again"}
  /\ game_task \in {"none", "before start", "before serve", "over"}
  /\ serving \in Nat /\ returning \in Nat
ScoreType ==
  /\ client_score \in 0 .. WinningScore /\ server_score \in 0 .. WinningScore
  /\ round_number \in 0 .. 2 * WinningScore - 1
  /\ current_direction \in Directions \cup {None}
  /\ last_server_direction \in Directions \cup {None}
PlayerType ==
  /\ player \in {"new", "playing", "leaving", "disconnected", "lost"} /\ prompts \in Nat
  /\ subscription \in {"none", "joining", "joined", "left", "again"}
  /\ lastReturnTarget \in Directions \cup {None} /\ g_running \in BOOLEAN
  /\ unsent \in BOOLEAN
QueueType == toServer \in Seq(FromPlayer) /\ toClient \in Seq(FromServer)

TypeOK == ServerType /\ ScoreType /\ PlayerType /\ QueueType

\* Where in a queue there is a message of one of these types.
Where(s, types) == {i \in 1 .. Len(s) : s[i].type \in types}
AtMostOne(S) == \A i, j \in S : i = j
Any(S) == IF S = {} THEN 0 ELSE 1

Pings    == Where(toClient, {"PING"})
ToPlayer == Where(toClient, {"PING", "MATCH_FINISH"})
Answers  == Where(toServer, {"PONG", "MISS"})
ToBoard  == Where(toServer, {"PONG", "MISS", "REMATCH", "NO_REMATCH"})

\* There is one ball: whatever was cancelled or not, lost, repeated or asked
\* for, at most one thing is under way that leads to the next ball - a task, a
\* PING, its answer, or the decision about a rematch.
Starting == IF game_task \in {"before start", "before serve"} THEN 1 ELSE 0
OneBall ==
  /\ Starting + serving + returning + prompts + Any(ToPlayer) + Any(ToBoard) <= 1
  /\ AtMostOne(ToPlayer) /\ AtMostOne(ToBoard)

\* An answer is evaluated against the ball it was given to: when the server
\* scores it, its round and direction are still those of that ball.
AnswerIsForTheBall ==
  \A i \in Answers : toServer[i].of = <<round_number, current_direction>>

\* "First to reach 11 points wins": a match that is won is over - no further
\* ball is under way, the other side has less, and the message names the
\* winner; and before, each round is worth one point.
Won == client_score = WinningScore \/ server_score = WinningScore
InPlay == serving + returning > 0 \/ Pings # {} \/ Answers # {}
FinishNamesWinner ==
  \A i \in Where(toClient, {"MATCH_FINISH"}) :
    Won /\ (toClient[i].winner = "CLIENT") = (client_score = WinningScore)
RoundsAreCounted ==
  InPlay => round_number = client_score + server_score + IF serving > 0 THEN 0 ELSE 1
MatchIsDecidedOnce ==
  /\ Won /\ game_task = "over" => ~InPlay /\ client_score # server_score
  /\ FinishNamesWinner
  /\ RoundsAreCounted

\* A player who has left is left alone. Once DISCONNECT was handled nothing more
\* is sent to him, and no timer that is still asleep plays a ball: the only ball
\* is the first serve of a game that a REMATCH or SUBSCRIBE, sent before close()
\* was, has started since. Once the handler of the connection has ended, whether
\* DISCONNECT came or the connection was lost, no game starts, and a ball that a
\* timer still plays is the last.
BallPlayed == last_server_direction' \notin {last_server_direction, None}
NothingSent == Len(toClient') <= Len(toClient)
QuietAfterLeaving ==
  [][/\ goodbye # "no" =>
          NothingSent /\ (BallPlayed => goodbye = "again" /\ game_task = "before serve")
     /\ ended /\ BallPlayed => Starting = 0 /\ serving' + returning' = 0]_vars

\* A match that is about to start is won by somebody, unless the player
\* leaves or is lost, or what he sent was never sent.
MatchEnds ==
  game_task = "before start" ~>
    \/ client_score = WinningScore \/ server_score = WinningScore
    \/ ~online \/ ~g_running \/ unsent \/ subscription # "joined"
-----------------------------------------------------------------------------
(* The inductive invariant the proofs use.                                 *)

\* What is under way fits the round it is under way for.
PingIsTheBall ==
  \A i \in Pings :
    toClient[i].round = round_number /\ toClient[i].direction = current_direction
FreshMatch ==
  Starting = 1 \/ game_task = "none" =>
    client_score = 0 /\ server_score = 0 /\ round_number = 0
BeforeMatch ==
  game_task = "none" =>
    serving = 0 /\ returning = 0 /\ prompts = 0 /\ ToPlayer = {} /\ ToBoard = {}
OneWinner ==
  /\ ~(client_score = WinningScore /\ server_score = WinningScore)
  /\ InPlay => ~Won
BallInv ==
  /\ AnswerIsForTheBall /\ PingIsTheBall
  /\ FinishNamesWinner /\ OneWinner /\ RoundsAreCounted
  /\ FreshMatch /\ BeforeMatch

\* How far the player has come; what is left for one who has left.
LeaveInv ==
  /\ player \in {"new", "playing", "leaving"} => online
  /\ player = "new" => toServer = <<>> /\ goodbye = "no"
  /\ subscription = "none" =>
       game_task = "none" /\ \A i \in 1 .. Len(toServer) : toServer[i].type = "CONNECT"
  /\ \A i \in 1 .. Len(toServer) :
       toServer[i].type = "CONNECT" => i = 1 /\ goodbye = "no"
  /\ goodbye # "no" => ~connected
  /\ goodbye = "said" => Starting = 0
  /\ ended => Starting = 0

GameInv == TypeOK /\ OneBall /\ BallInv /\ LeaveInv
=============================================================================
