---------------------------- MODULE PingPongServer ----------------------------
(***************************************************************************)
(* PingPongStompHandler of stomp_server.py: one player's game, the frames  *)
(* it handles in order, and the asyncio tasks that play a ball later.      *)
(*                                                                         *)
(* A handler or the stretch of a task between two sleeps is one step: the  *)
(* only awaits in between are sends, and after a send at most the timer of *)
(* the next serve is set, which plays 1.5 seconds later. Who stands where  *)
(* only decides how likely a ball is reached and is left out; so are       *)
(* rally_hits and the wording of messages.                                 *)
(***************************************************************************)
EXTENDS Naturals, Sequences

CONSTANT WinningScore           \* 11 in the code
ASSUME ScoreAssumption == WinningScore \in Nat \ {0}

Directions == {"LEFT", "MIDDLE", "RIGHT"}
None == "none"

VARIABLES
  connected, subscribed,
  client_score, server_score, round_number,
  current_direction, last_server_direction,
  game_task,        \* "none", asleep before GAME_START or before the serve, "over"
  serving,          \* _next_serve_delay tasks that are asleep
  returning,        \* _rally_return_delay tasks that are asleep
  ended,            \* ws_handler() has returned
  goodbye,          \* history: "no", or DISCONNECT was "said", or a game was
                    \* asked for "again" after it
  online,           \* the WebSocket carries messages
  toServer, toClient

score == <<client_score, server_score, round_number>>
ball  == <<current_direction, last_server_direction>>
tasks == <<game_task, serving, returning>>
session == <<connected, subscribed, ended, online, goodbye>>
serverVars == <<session, score, ball, tasks, toServer, toClient>>

ServerInit ==
  /\ connected = FALSE /\ subscribed = FALSE /\ ended = FALSE /\ online = TRUE /\ goodbye = "no"
  /\ client_score = 0 /\ server_score = 0 /\ round_number = 0
  /\ current_direction = None /\ last_server_direction = None
  /\ game_task = "none" /\ serving = 0 /\ returning = 0
  /\ toServer = <<>> /\ toClient = <<>>

Message(type) == [type |-> type]
Ping(direction, round) == [type |-> "PING", direction |-> direction, round |-> round]

Deliver(m) == toClient' = IF online THEN Append(toClient, m) ELSE toClient

\* On a closed WebSocket a send raises, which makes the handler forget its
\* player, or is still accepted as long as nobody has noticed.
broadcast_message(m) ==
  IF connected /\ subscribed
  THEN \/ ~online /\ connected' = FALSE /\ UNCHANGED toClient
       \/ ~ended /\ Deliver(m) /\ UNCHANGED connected
  ELSE UNCHANGED <<connected, toClient>>

\* Any direction but the last one.
_play_ball(round) ==
  \E d \in Directions \ {last_server_direction} :
    /\ current_direction' = d /\ last_server_direction' = d
    /\ broadcast_message(Ping(d, round))

_serve ==
  /\ round_number' = round_number + 1
  /\ _play_ball(round_number + 1)
  /\ UNCHANGED <<client_score, server_score>>
-----------------------------------------------------------------------------
(* Frames from the player                                                  *)

Handles(type) ==
  /\ ~ended /\ toServer # <<>> /\ Head(toServer).type = type
  /\ toServer' = Tail(toServer)

CancelGame == game_task' = IF game_task = "none" THEN "none" ELSE "over"

\* An answer that cannot be sent ends ws_handler().
_handle_connect ==
  /\ Handles("CONNECT") /\ connected' = TRUE
  /\ \/ ~online /\ ended' = TRUE /\ CancelGame /\ UNCHANGED toClient
     \/ Deliver(Message("CONNECTED")) /\ UNCHANGED <<ended, game_task>>
  /\ UNCHANGED <<subscribed, online, goodbye, score, ball, serving, returning>>

NewGame ==
  /\ game_task' = "before start"
  /\ goodbye' = IF goodbye = "no" THEN "no" ELSE "again"

\* The first subscription starts a game, no later one does.
_handle_subscribe ==
  /\ Handles("SUBSCRIBE")
  /\ subscribed' = TRUE
  /\ IF game_task = "none" THEN NewGame ELSE UNCHANGED <<game_task, goodbye>>
  /\ UNCHANGED <<connected, ended, online, score, ball, serving, returning, toClient>>

_handle_unsubscribe ==
  /\ Handles("UNSUBSCRIBE")
  /\ subscribed' = FALSE
  /\ UNCHANGED <<connected, ended, online, goodbye, score, ball, tasks, toClient>>

\* A new match, even for a player who has disconnected; the old game_task is
\* cancelled, other tasks are not.
Rematch ==
  /\ Handles("REMATCH")
  /\ client_score' = 0 /\ server_score' = 0 /\ round_number' = 0
  /\ last_server_direction' = None
  /\ NewGame
  /\ UNCHANGED <<connected, subscribed, ended, online, current_direction, serving, returning, toClient>>

NoRematch ==
  /\ Handles("NO_REMATCH")
  /\ broadcast_message(Message("GAME_OVER"))
  /\ UNCHANGED <<subscribed, ended, online, goodbye, score, ball, tasks>>

\* The return after create_task() is missing: the ball is scored as well.
FaultyServerReaches ==
  /\ Handles("PONG")
  /\ returning' = returning + 1
  /\ client_score' = client_score + 1
  /\ broadcast_message(Message("SCORE"))
  /\ serving' = serving + 1
  /\ UNCHANGED <<subscribed, ended, online, goodbye, server_score, round_number, ball, game_task>>

\* The rally's next ball is never played.
FaultyServerForgets ==
  /\ Handles("PONG")
  /\ UNCHANGED <<session, score, ball, tasks, toClient>>

ServerReaches ==
  /\ Handles("PONG")
  /\ returning' = returning + 1
  /\ UNCHANGED <<session, score, ball, game_task, serving, toClient>>

\* The next ball is served although the match is over.
FaultyAnnounce ==
  /\ broadcast_message(
       IF client_score' >= WinningScore \/ server_score' >= WinningScore
       THEN [type |-> "MATCH_FINISH",
             winner |-> IF client_score' >= WinningScore THEN "CLIENT" ELSE "SERVER"]
       ELSE Message("SCORE"))
  /\ serving' = serving + 1
  /\ UNCHANGED <<subscribed, ended, online, goodbye, round_number, ball, game_task, returning>>

\* MATCH_FINISH, or SCORE and the next ball later.
Announce ==
  /\ IF client_score' >= WinningScore \/ server_score' >= WinningScore
     THEN /\ broadcast_message([type |-> "MATCH_FINISH",
                 winner |-> IF client_score' >= WinningScore THEN "CLIENT" ELSE "SERVER"])
          /\ UNCHANGED serving
     ELSE broadcast_message(Message("SCORE")) /\ serving' = serving + 1
  /\ UNCHANGED <<subscribed, ended, online, goodbye, round_number, ball, game_task, returning>>

ServerMisses ==
  /\ Handles("PONG")
  /\ client_score' = client_score + 1 /\ UNCHANGED server_score
  /\ Announce

ClientMissed ==
  /\ Handles("MISS")
  /\ server_score' = server_score + 1 /\ UNCHANGED client_score
  /\ Announce

\* The game that is about to start is not cancelled.
FaultyDisconnect ==
  /\ Handles("DISCONNECT")
  /\ connected' = FALSE /\ goodbye' = "said"
  /\ UNCHANGED <<subscribed, ended, online, score, ball, tasks, toClient>>

_handle_disconnect ==
  /\ Handles("DISCONNECT")
  /\ connected' = FALSE /\ goodbye' = "said"
  /\ CancelGame
  /\ UNCHANGED <<subscribed, ended, online, score, ball, serving, returning, toClient>>
-----------------------------------------------------------------------------
(* Tasks                                                                   *)

StartGame ==
  /\ game_task = "before start" /\ game_task' = "before serve"
  /\ broadcast_message(Message("GAME_START"))
  /\ UNCHANGED <<subscribed, ended, online, goodbye, score, ball, serving, returning, toServer>>

FirstServe ==
  /\ game_task = "before serve" /\ game_task' = "over"
  /\ _serve
  /\ UNCHANGED <<subscribed, ended, online, goodbye, serving, returning, toServer>>

\* _next_serve_delay(): nothing is served to a player who has left.
NextServe ==
  /\ serving > 0 /\ serving' = serving - 1
  /\ IF connected THEN _serve ELSE UNCHANGED <<connected, score, ball, toClient>>
  /\ UNCHANGED <<subscribed, ended, online, goodbye, game_task, returning, toServer>>

\* _rally_return_delay()
RallyReturn ==
  /\ returning > 0 /\ returning' = returning - 1
  /\ IF connected THEN _play_ball(round_number) ELSE UNCHANGED <<connected, ball, toClient>>
  /\ UNCHANGED <<subscribed, ended, online, goodbye, score, game_task, serving, toServer>>

\* The game that is about to start is not cancelled.
FaultyHandlerEnds ==
  /\ ~online /\ toServer = <<>> /\ ~ended /\ ended' = TRUE
  /\ UNCHANGED <<connected, subscribed, online, goodbye, score, ball, tasks,
                 toServer, toClient>>

\* The end of ws_handler(), once what the player had sent has been handled.
HandlerEnds ==
  /\ ~online /\ toServer = <<>> /\ ~ended /\ ended' = TRUE
  /\ CancelGame
  /\ UNCHANGED <<connected, subscribed, online, goodbye, score, ball, serving, returning,
                 toServer, toClient>>

HandleFrame ==
  \/ _handle_connect \/ _handle_subscribe \/ _handle_unsubscribe \/ _handle_disconnect
  \/ Rematch \/ NoRematch \/ ServerReaches \/ ServerMisses \/ ClientMissed

RunTask == StartGame \/ FirstServe \/ NextServe \/ RallyReturn

ServerNext == HandleFrame \/ RunTask \/ HandlerEnds
=============================================================================
