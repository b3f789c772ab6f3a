---------------------------- MODULE PingPongProofs ----------------------------
(***************************************************************************)
(* Proofs about the ping-pong game for any winning score: there is one     *)
(* ball, it belongs to the round that is being played, a match is decided  *)
(* once, and what may still be played for a player who has left.           *)
(***************************************************************************)
EXTENDS PingPong, TLAPS

USE ScoreAssumption
USE DEF Directions, None, score, ball, tasks, session, server, serverVars,
        playerVars, outbox, Handles, Gets, Receives, Active

\* Queue t is s without the first message, which is of this type.
Took(s, t, S, type) ==
  /\ t \in Seq(S) /\ Len(t) = Len(s) - 1
  /\ s[1] \in S /\ s[1].type = type
  /\ \A i \in 1 .. Len(t) : t[i] = s[i + 1]

\* Queue t is s, or s with one message more.
Put(s, t, S, m) ==
  /\ t \in Seq(S)
  /\ \A i \in 1 .. Len(s) : t[i] = s[i]
  /\ \/ Len(t) = Len(s)
     \/ Len(t) = Len(s) + 1 /\ t[Len(s) + 1] = m

\* The messages of some types in a queue without its first message are those
\* there were, one place further.
LEMMA WhereTook ==
  ASSUME NEW S, NEW s \in Seq(S), NEW t, NEW type, Took(s, t, S, type), NEW types
  PROVE  /\ \A i \in Where(t, types) : i + 1 \in Where(s, types) /\ t[i] = s[i + 1]
         /\ type \in types => 1 \in Where(s, types)
         /\ type \notin types /\ Where(t, types) = {} => Where(s, types) = {}
         /\ Where(s, types) = {} => Where(t, types) = {}
         /\ AtMostOne(Where(s, types)) => AtMostOne(Where(t, types))
         /\ AtMostOne(Where(s, types)) /\ type \in types => Where(t, types) = {}
  <1>1. \A i \in Where(t, types) : i \in 1 .. Len(t) BY DEF Where
  <1>2. \A i \in Where(t, types) : i + 1 \in Where(s, types) /\ t[i] = s[i + 1]
    BY DEF Took, Where
  <1>3. type \in types => 1 \in Where(s, types) BY DEF Took, Where
  <1>4. \A i \in Where(s, types) : i = 1 \/ i - 1 \in Where(t, types)
    BY DEF Took, Where
  <1>5. type \notin types => 1 \notin Where(s, types) BY DEF Took, Where
  <1>6. \A i \in Where(t, types) : i # 0 /\ i + 1 # 1 BY <1>1
  <1>7. AtMostOne(Where(s, types)) => AtMostOne(Where(t, types))
    BY <1>1, <1>2 DEF AtMostOne
  <1>8. AtMostOne(Where(s, types)) /\ type \in types => Where(t, types) = {}
    BY <1>2, <1>3, <1>6 DEF AtMostOne
  <1>9. QED BY <1>2, <1>3, <1>4, <1>5, <1>7, <1>8

\* In a queue with a message more they are those there were, and this one.
LEMMA WherePut ==
  ASSUME NEW S, NEW s \in Seq(S), NEW t, NEW m \in S, Put(s, t, S, m), NEW types
  PROVE  /\ Where(s, types) \subseteq Where(t, types)
         /\ \A i \in Where(t, types) :
              \/ i \in Where(s, types) /\ t[i] = s[i]
              \/ t[i] = m /\ m.type \in types
         /\ m.type \notin types => Where(t, types) = Where(s, types)
         /\ Where(s, types) = {} => AtMostOne(Where(t, types))
  <1>1. Where(s, types) \subseteq Where(t, types) BY DEF Put, Where
  <1>2. \A i \in Where(t, types) :
          \/ i \in Where(s, types) /\ t[i] = s[i]
          \/ i = Len(s) + 1 /\ t[i] = m /\ m.type \in types
    BY DEF Put, Where
  <1>3. QED BY <1>1, <1>2 DEF AtMostOne

\* Messages that are no more than their type.
LEMMA Plain ==
  /\ \A type \in {"CONNECT", "SUBSCRIBE", "UNSUBSCRIBE", "DISCONNECT", "REMATCH", "NO_REMATCH"} :
       Message(type) \in FromPlayer /\ Message(type).type = type
  /\ \A type \in {"CONNECTED", "GAME_START", "SCORE", "GAME_OVER"} :
       Message(type) \in FromServer /\ Message(type).type = type
  BY DEF Message, FromPlayer, FromServer

\* A message the server handles is the first one there was.
LEMMA Handled ==
  ASSUME QueueType, NEW type, Handles(type)
  PROVE  Took(toServer, toServer', FromPlayer, type)
  BY DEF QueueType, Took

\* So is a message the player gets.
LEMMA Got ==
  ASSUME QueueType, NEW type, Gets(type)
  PROVE  Took(toClient, toClient', FromServer, type) /\ Head(toClient) = toClient[1]
  BY DEF QueueType, Took

\* A message the player sends is the last one, or lost.
LEMMA Sent ==
  ASSUME QueueType, NEW m \in FromPlayer, SendFrame(m)
  PROVE  Put(toServer, toServer', FromPlayer, m)
  <1>1. toServer' = Append(toServer, m) \/ UNCHANGED toServer BY DEF SendFrame
  <1>2. QED BY <1>1 DEF QueueType, Put

\* That it was lost is remembered.
LEMMA SentType ==
  ASSUME ServerType, PlayerType, NEW m, SendFrame(m)
  PROVE  unsent' \in BOOLEAN
  BY DEF ServerType, PlayerType, SendFrame

\* So is a message the server sends.
LEMMA Delivered ==
  ASSUME QueueType, NEW m \in FromServer, UNCHANGED toClient \/ Deliver(m)
  PROVE  Put(toClient, toClient', FromServer, m)
  BY DEF QueueType, Put, Deliver

\* Where sending fails, the player counts as gone.
LEMMA Broadcast ==
  ASSUME QueueType, NEW m \in FromServer, broadcast_message(m)
  PROVE  Put(toClient, toClient', FromServer, m) /\ (UNCHANGED connected \/ connected' = FALSE)
  BY Delivered DEF broadcast_message
-----------------------------------------------------------------------------
\* Nothing new is under way to the server: what is, was before and fits the
\* round as it did.
BoardNoMore ==
  /\ ToBoard = {} => ToBoard' = {}
  /\ AtMostOne(ToBoard) => AtMostOne(ToBoard')
  /\ Answers = {} => Answers' = {}
  /\ AnswerIsForTheBall /\ UNCHANGED <<round_number, current_direction>> => AnswerIsForTheBall'

\* Nothing new is under way to the player.
PlayerNoMore ==
  /\ ToPlayer = {} => ToPlayer' = {}
  /\ AtMostOne(ToPlayer) => AtMostOne(ToPlayer')
  /\ Pings = {} => Pings' = {}
  /\ PingIsTheBall /\ UNCHANGED <<round_number, current_direction>> => PingIsTheBall'
  /\ FinishNamesWinner /\ UNCHANGED <<client_score, server_score>> => FinishNamesWinner'

\* So it is when the server takes a message, or nothing happens to the queue.
LEMMA BoardTook ==
  ASSUME QueueType, \/ UNCHANGED toServer
                    \/ \E type : Took(toServer, toServer', FromPlayer, type)
  PROVE  BoardNoMore
  <1>1. CASE UNCHANGED toServer
    BY <1>1 DEF BoardNoMore, ToBoard, Answers, AnswerIsForTheBall
  <1>2. CASE \E type : Took(toServer, toServer', FromPlayer, type)
    <2>1. PICK type : Took(toServer, toServer', FromPlayer, type) BY <1>2
    <2>2. \A types :
            /\ \A i \in Where(toServer', types) :
                 i + 1 \in Where(toServer, types) /\ toServer'[i] = toServer[i + 1]
            /\ Where(toServer, types) = {} => Where(toServer', types) = {}
            /\ AtMostOne(Where(toServer, types)) => AtMostOne(Where(toServer', types))
      BY <2>1, WhereTook DEF QueueType
    <2>3. QED BY <2>2 DEF BoardNoMore, ToBoard, Answers, AnswerIsForTheBall
  <1>3. QED BY <1>1, <1>2

\* And when the player takes one.
LEMMA PlayerTook ==
  ASSUME QueueType, \/ UNCHANGED toClient
                    \/ \E type : Took(toClient, toClient', FromServer, type)
  PROVE  PlayerNoMore
  <1>1. CASE UNCHANGED toClient
    BY <1>1 DEF PlayerNoMore, ToPlayer, Pings, PingIsTheBall, FinishNamesWinner, Won
  <1>2. CASE \E type : Took(toClient, toClient', FromServer, type)
    <2>1. PICK type : Took(toClient, toClient', FromServer, type) BY <1>2
    <2>2. \A types :
            /\ \A i \in Where(toClient', types) :
                 i + 1 \in Where(toClient, types) /\ toClient'[i] = toClient[i + 1]
            /\ Where(toClient, types) = {} => Where(toClient', types) = {}
            /\ AtMostOne(Where(toClient, types)) => AtMostOne(Where(toClient', types))
      BY <2>1, WhereTook DEF QueueType
    <2>3. QED
      BY <2>2 DEF PlayerNoMore, ToPlayer, Pings, PingIsTheBall, FinishNamesWinner, Won
  <1>3. QED BY <1>1, <1>2

\* A message to the server that is not about a ball changes nothing about one,
LEMMA BoardPut ==
  ASSUME QueueType, NEW m \in FromPlayer, Put(toServer, toServer', FromPlayer, m),
         m.type \notin {"PONG", "MISS", "REMATCH", "NO_REMATCH"}
  PROVE  BoardNoMore
  <1>1. \A types : m.type \notin types =>
          /\ Where(toServer', types) = Where(toServer, types)
          /\ \A i \in Where(toServer', types) : toServer'[i] = toServer[i]
    BY WherePut DEF QueueType
  <1>2. QED BY <1>1 DEF BoardNoMore, ToBoard, Answers, AnswerIsForTheBall

\* nor does one to the player.
LEMMA PlayerPut ==
  ASSUME QueueType, NEW m \in FromServer, Put(toClient, toClient', FromServer, m),
         m.type \notin {"PING", "MATCH_FINISH"}
  PROVE  PlayerNoMore
  <1>1. \A types : m.type \notin types =>
          /\ Where(toClient', types) = Where(toClient, types)
          /\ \A i \in Where(toClient', types) : toClient'[i] = toClient[i]
    BY WherePut DEF QueueType
  <1>2. QED
    BY <1>1 DEF PlayerNoMore, ToPlayer, Pings, PingIsTheBall, FinishNamesWinner, Won

\* The balls among the messages about a ball.
LEMMA BallsOnly ==
  ASSUME NEW s
  PROVE  /\ Where(s, {"PING", "MATCH_FINISH"}) = {} =>
              Where(s, {"PING"}) = {} /\ Where(s, {"MATCH_FINISH"}) = {}
         /\ Where(s, {"PONG", "MISS", "REMATCH", "NO_REMATCH"}) = {} =>
              Where(s, {"PONG", "MISS"}) = {}
  BY DEF Where

\* A step that brings nothing new under way keeps what is said of the ball.
LEMMA Quiet ==
  ASSUME GameInv, BoardNoMore, PlayerNoMore,
         UNCHANGED <<score, current_direction, serving, returning, prompts>>,
         Starting' \in {0, Starting},
         game_task' = "none" => game_task = "none"
  PROVE  OneBall' /\ BallInv'
  <1> USE DEF GameInv, BallInv
  <1>1. Starting \in {0, 1} /\ Starting' \in {0, 1} BY DEF Starting
  <1>2. OneBall'
    <2>1. (AtMostOne(ToPlayer) /\ AtMostOne(ToBoard))'
      BY DEF OneBall, BoardNoMore, PlayerNoMore
    <2>2. /\ Any(ToPlayer) \in Nat /\ Any(ToPlayer') \in Nat /\ Any(ToPlayer') <= Any(ToPlayer)
          /\ Any(ToBoard) \in Nat /\ Any(ToBoard') \in Nat /\ Any(ToBoard') <= Any(ToBoard)
      BY DEF Any, BoardNoMore, PlayerNoMore
    <2>3. prompts \in Nat /\ serving \in Nat /\ returning \in Nat
      BY DEF TypeOK, ServerType, PlayerType
    <2>4. QED BY <1>1, <2>1, <2>2, <2>3 DEF OneBall
  <1>3. (AnswerIsForTheBall /\ PingIsTheBall /\ FinishNamesWinner)'
    BY DEF BoardNoMore, PlayerNoMore
  <1>4. InPlay' => InPlay BY DEF InPlay, BoardNoMore, PlayerNoMore
  <1>5. (OneWinner /\ RoundsAreCounted)'
    BY <1>4 DEF OneWinner, RoundsAreCounted, Won
  <1>6. FreshMatch'
    <2>1. Starting' = 1 => Starting = 1 OBVIOUS
    <2>2. QED BY DEF FreshMatch
  <1>7. BeforeMatch' BY DEF BeforeMatch, BoardNoMore, PlayerNoMore
  <1>8. QED BY <1>2, <1>3, <1>5, <1>6, <1>7

\* While something is under way, nothing else is.
LEMMA Alone ==
  ASSUME GameInv
  PROVE  /\ Starting \in {0, 1}
         /\ Starting = 1 =>
              serving = 0 /\ returning = 0 /\ prompts = 0 /\ ToPlayer = {} /\ ToBoard = {}
         /\ serving > 0 =>
              /\ serving = 1 /\ Starting = 0 /\ returning = 0 /\ prompts = 0
              /\ ToPlayer = {} /\ ToBoard = {}
         /\ returning > 0 =>
              /\ returning = 1 /\ Starting = 0 /\ serving = 0 /\ prompts = 0
              /\ ToPlayer = {} /\ ToBoard = {}
         /\ prompts > 0 =>
              /\ prompts = 1 /\ Starting = 0 /\ serving = 0 /\ returning = 0
              /\ ToPlayer = {} /\ ToBoard = {}
         /\ ToPlayer # {} =>
              Starting = 0 /\ serving = 0 /\ returning = 0 /\ prompts = 0 /\ ToBoard = {}
         /\ ToBoard # {} =>
              Starting = 0 /\ serving = 0 /\ returning = 0 /\ prompts = 0 /\ ToPlayer = {}
  <1>1. Starting \in {0, 1} BY DEF Starting
  <1>2. serving \in Nat /\ returning \in Nat /\ prompts \in Nat
    BY DEF GameInv, TypeOK, ServerType, PlayerType
  <1>3. /\ Any(ToPlayer) \in {0, 1} /\ (Any(ToPlayer) = 0 => ToPlayer = {})
        /\ Any(ToBoard) \in {0, 1} /\ (Any(ToBoard) = 0 => ToBoard = {})
    BY DEF Any
  <1>4. Starting + serving + returning + prompts + Any(ToPlayer) + Any(ToBoard) <= 1
    BY DEF GameInv, OneBall
  <1>5. QED BY <1>1, <1>2, <1>3, <1>4

\* There is one ball after a step if there is one thing under way.
LEMMA StillOne ==
  ASSUME AtMostOne(ToPlayer'), AtMostOne(ToBoard'),
         \/ /\ Starting' = 0 /\ serving' = 0 /\ returning' = 0 /\ prompts' = 0
            /\ ToPlayer' = {} \/ ToBoard' = {}
         \/ /\ \/ Starting' = 1 /\ serving' = 0 /\ returning' = 0 /\ prompts' = 0
               \/ Starting' = 0 /\ serving' = 1 /\ returning' = 0 /\ prompts' = 0
               \/ Starting' = 0 /\ serving' = 0 /\ returning' = 1 /\ prompts' = 0
               \/ Starting' = 0 /\ serving' = 0 /\ returning' = 0 /\ prompts' = 1
            /\ ToPlayer' = {} /\ ToBoard' = {}
  PROVE  OneBall'
  <1>1. /\ Any(ToPlayer') \in {0, 1} /\ (ToPlayer' = {} => Any(ToPlayer') = 0)
        /\ Any(ToBoard') \in {0, 1} /\ (ToBoard' = {} => Any(ToBoard') = 0)
    BY DEF Any
  <1>2. Starting' + serving' + returning' + prompts' + Any(ToPlayer') + Any(ToBoard') <= 1
    BY <1>1
  <1>3. QED BY <1>2 DEF OneBall

\* The server takes the one message about a ball.
LEMMA BoardTookBall ==
  ASSUME QueueType, AtMostOne(ToBoard),
         NEW type \in {"PONG", "MISS", "REMATCH", "NO_REMATCH"},
         Took(toServer, toServer', FromPlayer, type)
  PROVE  /\ ToBoard # {} /\ ToBoard' = {} /\ AtMostOne(ToBoard')
         /\ Answers' = {} /\ AnswerIsForTheBall'
         /\ type \in {"PONG", "MISS"} => Answers # {}
  <1>1. ToBoard # {} /\ ToBoard' = {}
    BY WhereTook DEF QueueType, ToBoard
  <1>2. Answers' = {} BY <1>1, BallsOnly DEF ToBoard, Answers
  <1>3. type \in {"PONG", "MISS"} => Answers # {}
    BY WhereTook DEF QueueType, Answers
  <1>4. QED BY <1>1, <1>2, <1>3 DEF AnswerIsForTheBall, AtMostOne

\* The player takes the one message about a ball.
LEMMA PlayerTookBall ==
  ASSUME QueueType, AtMostOne(ToPlayer), NEW type \in {"PING", "MATCH_FINISH"},
         Took(toClient, toClient', FromServer, type)
  PROVE  /\ ToPlayer # {} /\ ToPlayer' = {} /\ AtMostOne(ToPlayer')
         /\ Pings' = {} /\ PingIsTheBall' /\ FinishNamesWinner'
         /\ type = "PING" => 1 \in Pings
  <1>1. ToPlayer # {} /\ ToPlayer' = {}
    BY WhereTook DEF QueueType, ToPlayer
  <1>2. Pings' = {} /\ Where(toClient', {"MATCH_FINISH"}) = {}
    BY <1>1, BallsOnly DEF ToPlayer, Pings
  <1>3. type = "PING" => 1 \in Pings
    BY WhereTook DEF QueueType, Pings
  <1>4. QED BY <1>1, <1>2, <1>3 DEF PingIsTheBall, FinishNamesWinner, AtMostOne

\* The player sends one.
LEMMA BoardPutBall ==
  ASSUME QueueType, ToBoard = {}, NEW m \in FromPlayer,
         m.type \in {"PONG", "MISS"} => m.of = <<round_number', current_direction'>>,
         Put(toServer, toServer', FromPlayer, m)
  PROVE  /\ AtMostOne(ToBoard') /\ AnswerIsForTheBall'
         /\ m.type \notin {"PONG", "MISS"} => Answers' = {}
  <1>1. AtMostOne(ToBoard') BY WherePut DEF QueueType, ToBoard
  <1>2. Answers = {} BY BallsOnly DEF ToBoard, Answers
  <1>3. \A i \in Answers' : toServer'[i] = m /\ m.type \in {"PONG", "MISS"}
    BY <1>2, WherePut DEF QueueType, Answers
  <1>4. QED BY <1>1, <1>3 DEF AnswerIsForTheBall

\* The server sends one.
LEMMA PlayerPutBall ==
  ASSUME QueueType, ToPlayer = {}, NEW m \in FromServer,
         m.type = "PING" => m.round = round_number' /\ m.direction = current_direction',
         m.type = "MATCH_FINISH" =>
           Won' /\ (m.winner = "CLIENT") = (client_score' = WinningScore),
         Put(toClient, toClient', FromServer, m)
  PROVE  /\ AtMostOne(ToPlayer') /\ PingIsTheBall' /\ FinishNamesWinner'
         /\ m.type # "PING" => Pings' = {}
  <1>1. AtMostOne(ToPlayer') BY WherePut DEF QueueType, ToPlayer
  <1>2. Pings = {} /\ Where(toClient, {"MATCH_FINISH"}) = {}
    BY BallsOnly DEF ToPlayer, Pings
  <1>3. \A i \in Pings' : toClient'[i] = m /\ m.type = "PING"
    BY <1>2, WherePut DEF QueueType, Pings
  <1>4. \A i \in Where(toClient', {"MATCH_FINISH"}) :
          toClient'[i] = m /\ m.type = "MATCH_FINISH"
    BY <1>2, WherePut DEF QueueType
  <1>5. QED BY <1>1, <1>3, <1>4 DEF PingIsTheBall, FinishNamesWinner

\* Numbers the steps below need.
LEMMA Counts ==
  /\ \A n \in Nat : n + 1 \in Nat /\ (n > 0 => n - 1 \in Nat)
  /\ 0 \in 0 .. WinningScore /\ 0 # WinningScore /\ 1 \in Nat /\ 1 = 0 + 0 + 1
  /\ 0 \in 0 .. 2 * WinningScore - 1 /\ 1 \in 0 .. 2 * WinningScore - 1
  OBVIOUS

\* With nothing under way in the queues, nothing there can be wrong.
LEMMA Empty ==
  ASSUME ToPlayer' = {}, ToBoard' = {}
  PROVE  /\ Pings' = {} /\ Answers' = {} /\ AtMostOne(ToPlayer') /\ AtMostOne(ToBoard')
         /\ AnswerIsForTheBall' /\ PingIsTheBall' /\ FinishNamesWinner'
         /\ serving' = 0 /\ returning' = 0 => ~InPlay'
  <1>1. Pings' = {} /\ Where(toClient', {"MATCH_FINISH"}) = {}
    BY BallsOnly DEF ToPlayer, Pings
  <1>2. Answers' = {} BY BallsOnly DEF ToBoard, Answers
  <1>3. AnswerIsForTheBall' /\ PingIsTheBall' /\ FinishNamesWinner'
    BY <1>1, <1>2 DEF AnswerIsForTheBall, PingIsTheBall, FinishNamesWinner
  <1>4. QED BY <1>1, <1>2, <1>3 DEF AtMostOne, InPlay

\* What is lost when a connection is closed or breaks.
LEMMA PlayerLoses ==
  ASSUME toClient' = <<>>
  PROVE  PlayerNoMore /\ toClient' \in Seq(FromServer)
  <1>1. \A types : Where(toClient', types) = {} BY DEF Where
  <1>2. QED
    BY <1>1
    DEF PlayerNoMore, ToPlayer, Pings, PingIsTheBall, FinishNamesWinner, AtMostOne

\* The server still gets the first n messages.
LEMMA BoardLoses ==
  ASSUME QueueType, NEW n \in 0 .. Len(toServer), toServer' = SubSeq(toServer, 1, n)
  PROVE  /\ BoardNoMore /\ toServer' \in Seq(FromPlayer) /\ Len(toServer') = n
         /\ \A i \in 1 .. n : toServer'[i] = toServer[i]
  <1>1. /\ toServer' \in Seq(FromPlayer) /\ Len(toServer') = n
        /\ \A i \in 1 .. n : toServer'[i] = toServer[i]
    BY DEF QueueType
  <1>2. \A types : /\ Where(toServer', types) \subseteq Where(toServer, types)
                   /\ \A i \in Where(toServer', types) : toServer'[i] = toServer[i]
    BY DEF Where
  <1>3. QED
    BY <1>1, <1>2 DEF BoardNoMore, ToBoard, Answers, AnswerIsForTheBall, AtMostOne

\* A server that handles anything but CONNECT has a player that subscribed.
LEMMA FirstIsConnect ==
  ASSUME QueueType, LeaveInv, NEW type, Took(toServer, toServer', FromPlayer, type),
         type # "CONNECT"
  PROVE  subscription # "none"
  <1>1. 1 \in 1 .. Len(toServer) /\ toServer[1].type = type BY DEF Took
  <1>2. QED BY <1>1 DEF LeaveInv

\* A player stays where it is while the server takes a message,
LEMMA LeaveTook ==
  ASSUME QueueType, LeaveInv, UNCHANGED <<player, online, subscription>>,
         NEW type, Took(toServer, toServer', FromPlayer, type),
         subscription = "none" => game_task' = "none",
         goodbye' # "no" => ~connected', goodbye' = "said" \/ ended' => Starting' = 0
  PROVE  LeaveInv'
  <1> USE DEF Took, QueueType
  <1>1. 1 \in 1 .. Len(toServer) OBVIOUS
  <1>2. player' # "new" BY <1>1 DEF LeaveInv
  <1>3. \A i \in 1 .. Len(toServer') :
          i + 1 \in 1 .. Len(toServer) /\ i + 1 # 1 /\ toServer'[i] = toServer[i + 1]
    OBVIOUS
  <1>4. \A i \in 1 .. Len(toServer') : toServer'[i].type # "CONNECT"
    BY <1>3 DEF LeaveInv
  <1>5. subscription' = "none" => \A i \in 1 .. Len(toServer') : toServer'[i].type = "CONNECT"
    BY <1>3 DEF LeaveInv
  <1>6. QED BY <1>2, <1>4, <1>5 DEF LeaveInv

\* while a task runs,
LEMMA LeaveSame ==
  ASSUME QueueType, LeaveInv, UNCHANGED <<player, online, subscription, toServer, goodbye>>,
         connected' => connected, Starting = 0 => Starting' = 0, ended' => ended \/ Starting' = 0,
         game_task' # "none" => game_task # "none"
  PROVE  LeaveInv'
  BY DEF LeaveInv

\* and while it sends something, CONNECT before anything else.
LEMMA LeavePut ==
  ASSUME QueueType, LeaveInv, UNCHANGED <<online, connected, ended, goodbye, game_task>>,
         player \in {"new", "playing", "leaving"}, player' \in {"playing", "leaving"},
         NEW m \in FromPlayer, Put(toServer, toServer', FromPlayer, m),
         m.type = "CONNECT" => player = "new",
         subscription' = "none" => subscription = "none" /\ m.type = "CONNECT"
  PROVE  LeaveInv'
  <1>1. \A i \in 1 .. Len(toServer') :
          \/ i \in 1 .. Len(toServer) /\ toServer'[i] = toServer[i]
          \/ i = Len(toServer) + 1 /\ toServer'[i] = m
    BY DEF Put, QueueType
  <1>2. m.type = "CONNECT" => Len(toServer) = 0 /\ goodbye = "no" BY DEF LeaveInv
  <1>3. \A i \in 1 .. Len(toServer') :
          toServer'[i].type = "CONNECT" => i = 1 /\ goodbye' = "no"
    BY <1>1, <1>2 DEF LeaveInv
  <1>4. subscription' = "none" => \A i \in 1 .. Len(toServer') : toServer'[i].type = "CONNECT"
    BY <1>1 DEF LeaveInv
  <1>5. Starting' = Starting BY DEF Starting
  <1>6. QED BY <1>3, <1>4, <1>5 DEF LeaveInv

\* A ball is played to one of the three lanes, in this round.
LEMMA Played ==
  ASSUME QueueType, ToPlayer = {}, NEW round \in Nat, round = round_number', _play_ball(round)
  PROVE  /\ current_direction' \in Directions /\ last_server_direction' \in Directions
         /\ toClient' \in Seq(FromServer) /\ (UNCHANGED connected \/ connected' = FALSE)
         /\ AtMostOne(ToPlayer') /\ PingIsTheBall' /\ FinishNamesWinner'
  <1>1. PICK d \in Directions : /\ current_direction' = d /\ last_server_direction' = d
                                /\ broadcast_message(Ping(d, round))
    BY DEF _play_ball
  <1>2. Ping(d, round) \in FromServer BY DEF Ping, FromServer
  <1>3. /\ Ping(d, round).type = "PING"
        /\ Ping(d, round).round = round /\ Ping(d, round).direction = d
    BY DEF Ping
  <1>4. /\ Put(toClient, toClient', FromServer, Ping(d, round))
        /\ UNCHANGED connected \/ connected' = FALSE
    BY <1>1, <1>2, Broadcast
  <1>5. AtMostOne(ToPlayer') /\ PingIsTheBall' /\ FinishNamesWinner'
    BY <1>1, <1>2, <1>3, <1>4, PlayerPutBall
  <1>6. QED BY <1>1, <1>4, <1>5 DEF Put

\* The first serve of a match.
LEMMA Serves ==
  ASSUME round_number = 0, _serve
  PROVE  UNCHANGED <<client_score, server_score>> /\ round_number' = 1 /\ _play_ball(1)
  <1>1. 0 + 1 = 1 OBVIOUS
  <1>2. QED BY DEF _serve

\* A point is announced, or the end of the match.
LEMMA AnnounceInv ==
  ASSUME GameInv, UNCHANGED playerVars, NEW type \in {"PONG", "MISS"}, Handles(type), Announce,
         \/ client_score' = client_score + 1 /\ UNCHANGED server_score
         \/ server_score' = server_score + 1 /\ UNCHANGED client_score
  PROVE  GameInv'
  <1> USE DEF GameInv, TypeOK
  <1>1. Took(toServer, toServer', FromPlayer, type) BY Handled
  <1>2. /\ Starting = 0 /\ serving = 0 /\ returning = 0 /\ prompts = 0 /\ ToPlayer = {}
        /\ ToBoard' = {} /\ Answers # {}
    BY <1>1, Alone, BoardTookBall DEF OneBall
  <1>3. ~Won /\ round_number = client_score + server_score + 1
    BY <1>2 DEF BallInv, OneWinner, RoundsAreCounted, InPlay
  <1>4. UNCHANGED <<subscribed, ended, online, goodbye, round_number, ball, game_task, returning>>
    BY DEF Announce
  <1>5. ScoreType' BY <1>3, <1>4 DEF ScoreType, Won
  <1>6. PlayerType' BY DEF PlayerType
  <1>7. Starting' = 0 BY <1>2, <1>4 DEF Starting
  <1>8. /\ client_score' + server_score' = round_number'
        /\ ~(client_score' = WinningScore /\ server_score' = WinningScore)
    BY <1>3, <1>4 DEF ScoreType
  <1>9. game_task # "none" BY <1>2 DEF BallInv, BeforeMatch, ToBoard, Answers, Where
  <1>10. LeaveInv'
    <2>1. connected' => connected BY DEF Announce, broadcast_message
    <2>2. subscription # "none" BY <1>9 DEF LeaveInv
    <2>3. goodbye' # "no" => ~connected' BY <1>4, <2>1 DEF LeaveInv
    <2>4. QED BY <1>1, <1>4, <1>7, <2>2, <2>3, LeaveTook
  <1>11. CASE Won'
    <2> DEFINE m == [type |-> "MATCH_FINISH",
                     winner |-> IF client_score' >= WinningScore THEN "CLIENT" ELSE "SERVER"]
    <2>1. broadcast_message(m) /\ UNCHANGED serving
      BY <1>11 DEF Announce, Won
    <2>2. /\ m \in FromServer /\ m.type = "MATCH_FINISH"
          /\ (m.winner = "CLIENT") = (client_score' = WinningScore)
      BY <1>5 DEF FromServer, ScoreType
    <2> HIDE DEF m
    <2>3. /\ Put(toClient, toClient', FromServer, m)
          /\ UNCHANGED connected \/ connected' = FALSE
      BY <2>1, <2>2, Broadcast
    <2>4. AtMostOne(ToPlayer') /\ PingIsTheBall' /\ FinishNamesWinner' /\ Pings' = {}
      BY <1>2, <1>11, <2>2, <2>3, PlayerPutBall
    <2>5. ServerType' BY <1>4, <2>1, <2>3 DEF ServerType
    <2>6. QueueType' BY <2>3 DEF QueueType, Put
    <2>7. AtMostOne(ToBoard') /\ Answers' = {} /\ AnswerIsForTheBall'
      BY <1>2, BallsOnly DEF AtMostOne, ToBoard, Answers, AnswerIsForTheBall
    <2>8. OneBall' BY <1>2, <1>4, <1>7, <2>1, <2>4, <2>7, StillOne
    <2>9. ~InPlay' BY <1>2, <1>4, <2>1, <2>4, <2>7 DEF InPlay
    <2>10. BallInv'
      BY <1>4, <1>7, <1>8, <1>9, <2>4, <2>7, <2>9
      DEF BallInv, OneWinner, RoundsAreCounted, FreshMatch, BeforeMatch
    <2>11. QED BY <1>5, <1>6, <1>10, <2>5, <2>6, <2>8, <2>10
  <1>12. CASE ~Won'
    <2>1. broadcast_message(Message("SCORE")) /\ serving' = 1
      BY <1>2, <1>5, <1>12 DEF Announce, Won, ScoreType
    <2>2. /\ Put(toClient, toClient', FromServer, Message("SCORE"))
          /\ UNCHANGED connected \/ connected' = FALSE
      BY <2>1, Broadcast, Plain
    <2>3. ToPlayer' = {} BY <1>2, <2>2, Plain, PlayerPut DEF PlayerNoMore
    <2>4. ServerType' BY <1>4, <2>1, <2>2 DEF ServerType
    <2>5. QueueType' BY <2>2 DEF QueueType, Put
    <2>6. OneBall' BY <1>2, <1>4, <1>7, <2>1, <2>3, Empty, StillOne
    <2>7. RoundsAreCounted'
      <3>1. client_score' \in Nat /\ server_score' \in Nat BY DEF ScoreType
      <3>2. client_score' + server_score' + 0 = round_number' BY ONLY <3>1, <1>8
      <3>3. QED BY <2>1, <3>2 DEF RoundsAreCounted
    <2>8. BallInv'
      BY <1>2, <1>4, <1>7, <1>8, <1>9, <1>12, <2>3, <2>7, Empty
      DEF BallInv, OneWinner, FreshMatch, BeforeMatch
    <2>9. QED BY <1>5, <1>6, <1>10, <2>4, <2>5, <2>6, <2>8
  <1>13. QED BY <1>11, <1>12
-----------------------------------------------------------------------------
\* The initial state has the invariant.
THEOREM InitInv == Init => GameInv
  <1> SUFFICES ASSUME Init PROVE GameInv OBVIOUS
  <1> USE DEF Init, ServerInit
  <1>1. ServerType BY DEF ServerType
  <1>2. ScoreType BY DEF ScoreType
  <1>3. PlayerType BY DEF PlayerType
  <1>4. QueueType BY DEF QueueType
  <1>5. \A types : Where(toServer, types) = {} /\ Where(toClient, types) = {}
    BY DEF Where
  <1>6. Starting = 0 /\ ~InPlay /\ ~Won
    BY <1>5 DEF Starting, InPlay, Pings, Answers, Won
  <1>7. OneBall BY <1>5, <1>6 DEF OneBall, ToPlayer, ToBoard, AtMostOne, Any
  <1>8. BallInv
    BY <1>5, <1>6 DEF BallInv, AnswerIsForTheBall, PingIsTheBall, FinishNamesWinner,
       OneWinner, RoundsAreCounted, FreshMatch, BeforeMatch, Won, ToPlayer, ToBoard, Pings, Answers
  <1>9. LeaveInv BY DEF LeaveInv
  <1>10. QED BY <1>1, <1>2, <1>3, <1>4, <1>7, <1>8, <1>9 DEF GameInv, TypeOK

\* The handlers of the server keep it.
LEMMA HandleFrameInv ==
  ASSUME GameInv, HandleFrame, UNCHANGED playerVars
  PROVE  GameInv'
  <1> USE DEF GameInv, TypeOK
  <1>1. CASE _handle_connect
    <2> USE <1>1 DEF _handle_connect, CancelGame
    <2>1. Took(toServer, toServer', FromPlayer, "CONNECT") BY Handled
    <2>2. Put(toClient, toClient', FromServer, Message("CONNECTED"))
      BY Plain, Delivered
    <2>3. ServerType' BY DEF ServerType
    <2>4. ScoreType' BY DEF ScoreType
    <2>5. PlayerType' BY DEF PlayerType
    <2>6. QueueType' BY <2>2 DEF QueueType, Put
    <2>7. (OneBall /\ BallInv)'
      <3>1. BoardNoMore BY <2>1, BoardTook
      <3>2. PlayerNoMore BY <2>2, PlayerPut, Plain
      <3>3. QED BY <3>1, <3>2, Quiet DEF Starting
    <2>8. LeaveInv'
      <3>1. 1 \in 1 .. Len(toServer) /\ toServer[1].type = "CONNECT" BY <2>1 DEF Took
      <3>2. goodbye' = "no" BY <3>1 DEF LeaveInv
      <3>3. subscription = "none" => game_task' = "none" BY DEF LeaveInv
      <3>4. ended' => Starting' = 0 BY DEF Starting, LeaveInv
      <3>5. QED BY <2>1, <3>2, <3>3, <3>4, LeaveTook
    <2>9. QED BY <2>3, <2>4, <2>5, <2>6, <2>7, <2>8
  <1>2. CASE _handle_subscribe
    <2> USE <1>2 DEF _handle_subscribe, NewGame
    <2>1. Took(toServer, toServer', FromPlayer, "SUBSCRIBE") BY Handled
    <2>2. ServerType' BY DEF ServerType
    <2>3. ScoreType' BY DEF ScoreType
    <2>4. PlayerType' BY DEF PlayerType
    <2>5. QueueType' BY <2>1 DEF QueueType, Took
    <2>6. (OneBall /\ BallInv)'
      <3>1. BoardNoMore BY <2>1, BoardTook
      <3>2. PlayerNoMore BY PlayerTook
      <3>3. CASE game_task # "none" BY <3>1, <3>2, <3>3, Quiet DEF Starting
      <3>4. CASE game_task = "none"
        <4>1. /\ serving = 0 /\ returning = 0 /\ prompts = 0 /\ ToPlayer = {} /\ ToBoard = {}
              /\ client_score = 0 /\ server_score = 0 /\ round_number = 0
          BY <3>4 DEF BallInv, BeforeMatch, FreshMatch
        <4>2. ToPlayer' = {} /\ ToBoard' = {}
          BY <3>1, <3>2, <4>1 DEF BoardNoMore, PlayerNoMore
        <4>3. Starting' = 1 BY <3>4 DEF Starting
        <4>4. OneBall' BY <4>1, <4>2, <4>3, Empty, StillOne
        <4>5. serving' = 0 /\ returning' = 0 BY <4>1
        <4>6. ~InPlay' BY <4>5, <4>2, Empty
        <4>7. BallInv'
          BY <3>4, <4>1, <4>2, <4>6, Empty
          DEF BallInv, OneWinner, RoundsAreCounted, FreshMatch, BeforeMatch
        <4>8. QED BY <4>4, <4>7
      <3>5. QED BY <3>3, <3>4
    <2>7. LeaveInv'
      <3>1. subscription # "none" BY <2>1, FirstIsConnect
      <3>2. goodbye' # "no" => ~connected' BY DEF LeaveInv
      <3>3. goodbye' = "said" => Starting' = 0 BY DEF LeaveInv, Starting
      <3>4. QED BY <2>1, <3>1, <3>2, <3>3, LeaveTook DEF LeaveInv, Starting
    <2>8. QED BY <2>2, <2>3, <2>4, <2>5, <2>6, <2>7
  <1>3. CASE _handle_unsubscribe
    <2> USE <1>3 DEF _handle_unsubscribe
    <2>1. Took(toServer, toServer', FromPlayer, "UNSUBSCRIBE") BY Handled
    <2>2. ServerType' BY DEF ServerType
    <2>3. ScoreType' BY DEF ScoreType
    <2>4. PlayerType' BY DEF PlayerType
    <2>5. QueueType' BY DEF QueueType
    <2>6. (OneBall /\ BallInv)'
      <3>1. BoardNoMore BY <2>1, BoardTook
      <3>2. PlayerNoMore BY PlayerTook
      <3>3. QED BY <3>1, <3>2, Quiet DEF Starting
    <2>7. LeaveInv' BY <2>1, LeaveTook DEF LeaveInv, Starting
    <2>8. QED BY <2>2, <2>3, <2>4, <2>5, <2>6, <2>7
  <1>4. CASE _handle_disconnect
    <2> USE <1>4 DEF _handle_disconnect, CancelGame
    <2>1. Took(toServer, toServer', FromPlayer, "DISCONNECT") BY Handled
    <2>2. ServerType' BY DEF ServerType
    <2>3. ScoreType' BY DEF ScoreType
    <2>4. PlayerType' BY DEF PlayerType
    <2>5. QueueType' BY DEF QueueType
    <2>6. (OneBall /\ BallInv)'
      <3>1. BoardNoMore BY <2>1, BoardTook
      <3>2. PlayerNoMore BY PlayerTook
      <3>3. QED BY <3>1, <3>2, Quiet DEF Starting
    <2>7. LeaveInv' BY <2>1, LeaveTook DEF LeaveInv, Starting
    <2>8. QED BY <2>2, <2>3, <2>4, <2>5, <2>6, <2>7
  <1>5. CASE Rematch
    <2> USE <1>5 DEF Rematch, NewGame
    <2>1. Took(toServer, toServer', FromPlayer, "REMATCH") BY Handled
    <2>2. ServerType' BY DEF ServerType
    <2>3. ScoreType' BY Counts DEF ScoreType
    <2>4. PlayerType' BY DEF PlayerType
    <2>5. QueueType' BY <2>1 DEF QueueType, Took
    <2>6. (OneBall /\ BallInv)'
      <3>1. /\ serving = 0 /\ returning = 0 /\ prompts = 0 /\ ToPlayer = {} /\ ToBoard' = {}
        BY <2>1, Alone, BoardTookBall DEF OneBall
      <3>2. ToPlayer' = {} BY <3>1, PlayerTook DEF PlayerNoMore
      <3>3. Starting' = 1 BY DEF Starting
      <3>4. OneBall' BY <3>1, <3>2, <3>3, Empty, StillOne
      <3>5. serving' = 0 /\ returning' = 0 BY <3>1
      <3>6. ~InPlay' BY <3>1, <3>2, Empty
      <3>7. BallInv'
        BY <3>1, <3>2, Empty DEF BallInv, OneWinner, RoundsAreCounted, FreshMatch, BeforeMatch
      <3>8. QED BY <3>4, <3>7
    <2>7. LeaveInv'
      <3>1. subscription # "none" BY <2>1, FirstIsConnect
      <3>2. goodbye' # "no" => ~connected' BY DEF LeaveInv
      <3>3. goodbye' # "said" OBVIOUS
      <3>4. QED BY <2>1, <3>1, <3>2, <3>3, LeaveTook
    <2>8. QED BY <2>2, <2>3, <2>4, <2>5, <2>6, <2>7
  <1>6. CASE NoRematch
    <2> USE <1>6 DEF NoRematch
    <2>1. Took(toServer, toServer', FromPlayer, "NO_REMATCH") BY Handled
    <2>2. /\ Put(toClient, toClient', FromServer, Message("GAME_OVER"))
          /\ UNCHANGED connected \/ connected' = FALSE BY Broadcast, Plain
    <2>3. ServerType' BY <2>2 DEF ServerType
    <2>4. ScoreType' BY DEF ScoreType
    <2>5. PlayerType' BY DEF PlayerType
    <2>6. QueueType' BY <2>2 DEF QueueType, Put
    <2>7. (OneBall /\ BallInv)'
      <3>1. BoardNoMore BY <2>1, BoardTook
      <3>2. PlayerNoMore BY <2>2, PlayerPut, Plain
      <3>3. QED BY <3>1, <3>2, Quiet DEF Starting
    <2>8. LeaveInv'
      <3>1. subscription # "none" BY <2>1, FirstIsConnect
      <3>2. goodbye' # "no" => ~connected' BY <2>2 DEF LeaveInv
      <3>3. goodbye' = "said" \/ ended' => Starting' = 0 BY DEF LeaveInv, Starting
      <3>4. QED BY <2>1, <3>1, <3>2, <3>3, LeaveTook
    <2>9. QED BY <2>3, <2>4, <2>5, <2>6, <2>7, <2>8
  <1>7. CASE ServerReaches
    <2> USE <1>7 DEF ServerReaches
    <2>1. Took(toServer, toServer', FromPlayer, "PONG") BY Handled
    <2>2. ServerType' BY Counts DEF ServerType
    <2>3. ScoreType' BY DEF ScoreType
    <2>4. PlayerType' BY DEF PlayerType
    <2>5. QueueType' BY DEF QueueType
    <2>6. (OneBall /\ BallInv)'
      <3>1. /\ Starting = 0 /\ serving = 0 /\ returning = 0 /\ prompts = 0 /\ ToPlayer = {}
            /\ ToBoard # {} /\ ToBoard' = {} /\ Answers # {}
        BY <2>1, Alone, BoardTookBall DEF OneBall
      <3>2. ToPlayer' = {} BY <3>1, PlayerTook DEF PlayerNoMore
      <3>3. Starting' = 0 BY <3>1 DEF Starting
      <3>4. OneBall' BY <3>1, <3>2, <3>3, Empty, StillOne
      <3>5. InPlay BY <3>1 DEF InPlay
      <3>6. BallInv'
        BY <3>1, <3>2, <3>3, <3>5, Empty
        DEF BallInv, OneWinner, RoundsAreCounted, FreshMatch, BeforeMatch, Won
      <3>7. QED BY <3>4, <3>6
    <2>7. LeaveInv' BY <2>1, LeaveTook DEF LeaveInv, Starting
    <2>8. QED BY <2>2, <2>3, <2>4, <2>5, <2>6, <2>7
  <1>8. CASE ServerMisses BY <1>8, AnnounceInv DEF ServerMisses
  <1>9. CASE ClientMissed BY <1>9, AnnounceInv DEF ClientMissed
  <1>10. QED BY <1>1, <1>2, <1>3, <1>4, <1>5, <1>6, <1>7, <1>8, <1>9 DEF HandleFrame

\* So do the tasks.
LEMMA RunTaskInv ==
  ASSUME GameInv, RunTask, UNCHANGED playerVars
  PROVE  GameInv'
  <1> USE DEF GameInv, TypeOK
  <1>1. CASE StartGame
    <2> USE <1>1 DEF StartGame
    <2>1. /\ Put(toClient, toClient', FromServer, Message("GAME_START"))
          /\ UNCHANGED connected \/ connected' = FALSE BY Broadcast, Plain
    <2>2. Starting = 1 /\ Starting' = 1 BY DEF Starting
    <2>3. ServerType' BY <2>1 DEF ServerType
    <2>4. ScoreType' BY DEF ScoreType
    <2>5. PlayerType' BY DEF PlayerType
    <2>6. QueueType' BY <2>1 DEF QueueType, Put
    <2>7. (OneBall /\ BallInv)'
      <3>1. BoardNoMore BY BoardTook
      <3>2. PlayerNoMore BY <2>1, PlayerPut, Plain
      <3>3. QED BY <3>1, <3>2, <2>2, Quiet
    <2>8. LeaveInv'
      <3>1. connected' => connected BY <2>1
      <3>2. QED BY <2>2, <3>1, LeaveSame
    <2>9. QED BY <2>3, <2>4, <2>5, <2>6, <2>7, <2>8
  <1>2. CASE FirstServe
    <2> USE <1>2 DEF FirstServe
    <2>1. /\ Starting = 1 /\ serving = 0 /\ returning = 0 /\ prompts = 0
          /\ ToPlayer = {} /\ ToBoard = {}
      BY Alone DEF Starting
    <2>2. client_score = 0 /\ server_score = 0 /\ round_number = 0
      BY <2>1 DEF BallInv, FreshMatch
    <2>3. UNCHANGED <<client_score, server_score>> /\ round_number' = 1 /\ _play_ball(1)
      BY <2>2, Serves
    <2>4. PICK round \in Nat : round = round_number' /\ _play_ball(round)
      BY <2>3
    <2>5. /\ current_direction' \in Directions /\ last_server_direction' \in Directions
          /\ toClient' \in Seq(FromServer) /\ (UNCHANGED connected \/ connected' = FALSE)
          /\ AtMostOne(ToPlayer') /\ PingIsTheBall' /\ FinishNamesWinner'
      BY <2>1, <2>4, Played
    <2>6. Starting' = 0 BY DEF Starting
    <2>7. BoardNoMore /\ ToBoard' = {}
      BY <2>1, BoardTook DEF BoardNoMore
    <2>8. ServerType' BY <2>5 DEF ServerType
    <2>9. ScoreType' BY <2>5, <2>3, Counts DEF ScoreType
    <2>10. PlayerType' BY DEF PlayerType
    <2>11. QueueType' BY <2>5 DEF QueueType
    <2>12. (OneBall /\ BallInv)'
      <3>1. OneBall' BY <2>1, <2>5, <2>6, <2>7, StillOne DEF AtMostOne
      <3>2. Answers' = {} /\ AnswerIsForTheBall'
        BY <2>7, BallsOnly DEF ToBoard, Answers, AnswerIsForTheBall
      <3>3. RoundsAreCounted'
        <4>1. serving' = 0 /\ client_score' = 0 /\ server_score' = 0 /\ round_number' = 1
          BY <2>1, <2>2, <2>3
        <4>2. QED BY ONLY <4>1 DEF RoundsAreCounted
      <3>4. BallInv'
        BY <2>1, <2>2, <2>3, <2>5, <2>6, <3>2, <3>3, Counts
        DEF BallInv, OneWinner, FreshMatch, BeforeMatch, Won
      <3>5. QED BY <3>1, <3>4
    <2>13. LeaveInv'
      <3>1. connected' => connected BY <2>5
      <3>2. QED BY <2>6, <3>1, LeaveSame
    <2>14. QED BY <2>8, <2>9, <2>10, <2>11, <2>12, <2>13
  <1>3. CASE NextServe
    <2> USE <1>3 DEF NextServe
    <2>1. /\ serving = 1 /\ Starting = 0 /\ returning = 0 /\ prompts = 0
          /\ ToPlayer = {} /\ ToBoard = {}
      BY Alone
    <2>2. BoardNoMore /\ ToBoard' = {} /\ Answers' = {} /\ AnswerIsForTheBall'
      BY <2>1, BallsOnly DEF BoardNoMore, ToBoard, Answers, AnswerIsForTheBall
    <2>3. Starting' = 0 BY <2>1 DEF Starting
    <2>4. ~Won /\ round_number = client_score + server_score
      BY <2>1 DEF BallInv, OneWinner, RoundsAreCounted, InPlay, ScoreType
    <2>5. game_task # "none" BY DEF BallInv, BeforeMatch
    <2>6. CASE connected
      <3>1. PICK round \in Nat : round = round_number' /\ _play_ball(round)
        BY <2>6 DEF _serve, ScoreType
      <3>2. /\ current_direction' \in Directions /\ last_server_direction' \in Directions
            /\ toClient' \in Seq(FromServer) /\ (UNCHANGED connected \/ connected' = FALSE)
            /\ AtMostOne(ToPlayer') /\ PingIsTheBall' /\ FinishNamesWinner'
        BY <2>1, <3>1, Played
      <3>3. /\ UNCHANGED <<client_score, server_score>>
            /\ round_number' = client_score + server_score + 1
        BY <2>4, <2>6 DEF _serve
      <3>4. serving' = 0 /\ returning' = 0 BY <2>1
      <3>5. ServerType' BY <3>2, <3>4 DEF ServerType
      <3>6. ScoreType' BY <2>4, <3>2, <3>3 DEF ScoreType, Won
      <3>7. PlayerType' BY DEF PlayerType
      <3>8. QueueType' BY <3>2 DEF QueueType
      <3>9. OneBall' BY <2>1, <2>2, <2>3, <3>2, StillOne DEF AtMostOne
      <3>10. RoundsAreCounted' BY <2>1, <3>3 DEF RoundsAreCounted
      <3>11. BallInv'
        BY <2>1, <2>2, <2>3, <2>4, <2>5, <3>2, <3>3, <3>10
        DEF BallInv, OneWinner, FreshMatch, BeforeMatch, Won
      <3>12. LeaveInv' BY <2>3, LeaveSame
      <3>13. QED BY <3>5, <3>6, <3>7, <3>8, <3>9, <3>11, <3>12
    <2>7. CASE ~connected
      <3>1. ToPlayer' = {} BY <2>1, <2>7, PlayerTook DEF PlayerNoMore
      <3>2. serving' = 0 /\ returning' = 0 BY <2>1
      <3>3. ServerType' BY <2>7, <3>2 DEF ServerType
      <3>4. (ScoreType /\ PlayerType /\ QueueType)'
        BY <2>7 DEF ScoreType, PlayerType, QueueType
      <3>5. OneBall' BY <2>1, <2>2, <2>3, <3>1, Empty, StillOne
      <3>6. ~InPlay' BY <2>1, <2>2, <3>1, Empty
      <3>7. BallInv'
        BY <2>2, <2>3, <2>5, <2>7, <3>1, <3>6, Empty
        DEF BallInv, OneWinner, RoundsAreCounted, FreshMatch, BeforeMatch
      <3>8. LeaveInv' BY <2>3, LeaveSame
      <3>9. QED BY <3>3, <3>4, <3>5, <3>7, <3>8
    <2>8. QED BY <2>6, <2>7
  <1>4. CASE RallyReturn
    <2> USE <1>4 DEF RallyReturn
    <2>1. /\ returning = 1 /\ Starting = 0 /\ serving = 0 /\ prompts = 0
          /\ ToPlayer = {} /\ ToBoard = {}
      BY Alone
    <2>2. BoardNoMore /\ ToBoard' = {} /\ Answers' = {} /\ AnswerIsForTheBall'
      BY <2>1, BallsOnly DEF BoardNoMore, ToBoard, Answers, AnswerIsForTheBall
    <2>3. Starting' = 0 BY <2>1 DEF Starting
    <2>4. ~Won /\ round_number = client_score + server_score + 1
      BY <2>1 DEF BallInv, OneWinner, RoundsAreCounted, InPlay
    <2>5. game_task # "none" BY DEF BallInv, BeforeMatch
    <2>6. CASE connected
      <3>1. PICK round \in Nat : round = round_number' /\ _play_ball(round)
        BY <2>6 DEF ScoreType
      <3>2. /\ current_direction' \in Directions /\ last_server_direction' \in Directions
            /\ toClient' \in Seq(FromServer) /\ (UNCHANGED connected \/ connected' = FALSE)
            /\ AtMostOne(ToPlayer') /\ PingIsTheBall' /\ FinishNamesWinner'
        BY <2>1, <3>1, Played
      <3>3. /\ UNCHANGED <<client_score, server_score>>
            /\ round_number' = client_score + server_score + 1
        BY <2>4
      <3>4. serving' = 0 /\ returning' = 0 BY <2>1
      <3>5. ServerType' BY <3>2, <3>4 DEF ServerType
      <3>6. ScoreType' BY <3>2 DEF ScoreType
      <3>7. PlayerType' BY DEF PlayerType
      <3>8. QueueType' BY <3>2 DEF QueueType
      <3>9. OneBall' BY <2>1, <2>2, <2>3, <3>2, StillOne DEF AtMostOne
      <3>10. RoundsAreCounted' BY <2>1, <3>3 DEF RoundsAreCounted
      <3>11. BallInv'
        BY <2>1, <2>2, <2>3, <2>4, <2>5, <3>2, <3>3, <3>10
        DEF BallInv, OneWinner, FreshMatch, BeforeMatch, Won
      <3>12. LeaveInv' BY <2>3, LeaveSame
      <3>13. QED BY <3>5, <3>6, <3>7, <3>8, <3>9, <3>11, <3>12
    <2>7. CASE ~connected
      <3>1. ToPlayer' = {} BY <2>1, <2>7, PlayerTook DEF PlayerNoMore
      <3>2. serving' = 0 /\ returning' = 0 BY <2>1
      <3>3. ServerType' BY <2>7, <3>2 DEF ServerType
      <3>4. (ScoreType /\ PlayerType /\ QueueType)'
        BY <2>7 DEF ScoreType, PlayerType, QueueType
      <3>5. OneBall' BY <2>1, <2>2, <2>3, <3>1, Empty, StillOne
      <3>6. ~InPlay' BY <2>1, <2>2, <3>1, Empty
      <3>7. BallInv'
        BY <2>2, <2>3, <2>5, <2>7, <3>1, <3>6, Empty
        DEF BallInv, OneWinner, RoundsAreCounted, FreshMatch, BeforeMatch
      <3>8. LeaveInv' BY <2>3, LeaveSame
      <3>9. QED BY <3>3, <3>4, <3>5, <3>7, <3>8
    <2>8. QED BY <2>6, <2>7
  <1>5. QED BY <1>1, <1>2, <1>3, <1>4 DEF RunTask

\* So does the end of ws_handler().
LEMMA HandlerEndsInv ==
  ASSUME GameInv, HandlerEnds, UNCHANGED playerVars
  PROVE  GameInv'
  <1> USE DEF GameInv, TypeOK, HandlerEnds, CancelGame
  <1>1. ServerType' BY DEF ServerType
  <1>2. ScoreType' BY DEF ScoreType
  <1>3. PlayerType' BY DEF PlayerType
  <1>4. QueueType' BY DEF QueueType
  <1>5. (OneBall /\ BallInv)'
    <2>1. BoardNoMore BY BoardTook
    <2>2. PlayerNoMore BY PlayerTook
    <2>3. QED BY <2>1, <2>2, Quiet DEF Starting
  <1>6. LeaveInv' BY LeaveSame DEF Starting
  <1>7. QED BY <1>1, <1>2, <1>3, <1>4, <1>5, <1>6

\* So does a callback of the player.
LEMMA CallbackInv ==
  ASSUME GameInv, Callback
  PROVE  GameInv'
  <1> USE DEF GameInv, TypeOK
  <1>1. CASE OnConnected
    <2> USE <1>1 DEF OnConnected
    <2>1. Took(toClient, toClient', FromServer, "CONNECTED") /\ Head(toClient) = toClient[1]
      BY Got
    <2>2. ServerType' BY DEF ServerType
    <2>3. ScoreType' BY DEF ScoreType
    <2>4. PlayerType' BY DEF PlayerType
    <2>5. QueueType' BY DEF QueueType
    <2>6. (OneBall /\ BallInv)'
      <3>1. BoardNoMore BY BoardTook
      <3>2. PlayerNoMore BY <2>1, PlayerTook
      <3>3. QED BY <3>1, <3>2, Quiet DEF Starting
    <2>7. LeaveInv' BY DEF LeaveInv, Starting
    <2>8. QED BY <2>2, <2>3, <2>4, <2>5, <2>6, <2>7
  <1>2. CASE Join
    <2> USE <1>2 DEF Join
    <2>1. Put(toServer, toServer', FromPlayer, Message("SUBSCRIBE")) BY Sent, Plain
    <2>2. ServerType' BY DEF ServerType
    <2>3. ScoreType' BY DEF ScoreType
    <2>4. PlayerType' BY SentType DEF PlayerType
    <2>5. QueueType' BY <2>1 DEF QueueType, Put
    <2>6. (OneBall /\ BallInv)'
      <3>1. BoardNoMore BY <2>1, BoardPut, Plain
      <3>2. PlayerNoMore BY PlayerTook
      <3>3. QED BY <3>1, <3>2, Quiet DEF Starting
    <2>7. LeaveInv' BY <2>1, LeavePut, Plain
    <2>8. QED BY <2>2, <2>3, <2>4, <2>5, <2>6, <2>7
  <1>3. CASE OnGameStart
    <2> USE <1>3 DEF OnGameStart
    <2>1. Took(toClient, toClient', FromServer, "GAME_START") /\ Head(toClient) = toClient[1]
      BY Got
    <2>2. ServerType' BY DEF ServerType
    <2>3. ScoreType' BY DEF ScoreType
    <2>4. PlayerType' BY DEF PlayerType
    <2>5. QueueType' BY DEF QueueType
    <2>6. (OneBall /\ BallInv)'
      <3>1. BoardNoMore BY BoardTook
      <3>2. PlayerNoMore BY <2>1, PlayerTook
      <3>3. QED BY <3>1, <3>2, Quiet DEF Starting
    <2>7. LeaveInv' BY LeaveSame DEF Starting
    <2>8. QED BY <2>2, <2>3, <2>4, <2>5, <2>6, <2>7
  <1>4. CASE OutOfReach
    <2> USE <1>4 DEF OutOfReach
    <2>1. Took(toClient, toClient', FromServer, "PING") /\ Head(toClient) = toClient[1]
      BY Got
    <2>2. /\ Starting = 0 /\ serving = 0 /\ returning = 0 /\ prompts = 0 /\ ToBoard = {}
          /\ ToPlayer' = {} /\ AtMostOne(ToPlayer') /\ PingIsTheBall' /\ FinishNamesWinner' /\ Pings' = {}
          /\ 1 \in Pings
      BY <2>1, Alone, PlayerTookBall DEF OneBall
    <2>3. /\ BallOf(Head(toClient)) = <<round_number, current_direction>>
          /\ BallOf(Head(toClient)) \in Balls
      BY <2>1, <2>2 DEF BallOf, Balls, BallInv, PingIsTheBall, Took, FromServer
    <2>4. ~Won /\ round_number = client_score + server_score + 1 /\ game_task # "none"
      BY <2>2 DEF BallInv, OneWinner, RoundsAreCounted, InPlay, BeforeMatch, ToPlayer, Where
    <2>5. PICK m \in FromPlayer : m.type = "MISS" /\ m.of = BallOf(Head(toClient)) /\ SendFrame(m)
      BY <2>3 DEF FromPlayer
    <2>6. Put(toServer, toServer', FromPlayer, m) BY <2>5, Sent
    <2>7. AtMostOne(ToBoard') /\ AnswerIsForTheBall'
      BY <2>2, <2>3, <2>5, <2>6, BoardPutBall
    <2>8. Starting' = 0 BY <2>2 DEF Starting
    <2>9. ServerType' BY DEF ServerType
    <2>10. ScoreType' BY DEF ScoreType
    <2>11. PlayerType' BY SentType DEF PlayerType
    <2>12. QueueType' BY <2>6 DEF QueueType, Put
    <2>13. (OneBall /\ BallInv)'
      <3>1. OneBall' BY <2>2, <2>7, <2>8, StillOne
      <3>2. RoundsAreCounted' BY <2>2, <2>4 DEF RoundsAreCounted
      <3>3. BallInv'
        BY <2>2, <2>4, <2>7, <2>8, <3>2 DEF BallInv, OneWinner, FreshMatch, BeforeMatch, Won
      <3>4. QED BY <3>1, <3>3
    <2>14. LeaveInv' BY <2>5, <2>6, LeavePut
    <2>15. QED BY <2>9, <2>10, <2>11, <2>12, <2>13, <2>14
  <1>5. CASE PlayBack
    <2> USE <1>5 DEF PlayBack
    <2>1. Took(toClient, toClient', FromServer, "PING") /\ Head(toClient) = toClient[1]
      BY Got
    <2>2. /\ Starting = 0 /\ serving = 0 /\ returning = 0 /\ prompts = 0 /\ ToBoard = {}
          /\ ToPlayer' = {} /\ AtMostOne(ToPlayer') /\ PingIsTheBall' /\ FinishNamesWinner' /\ Pings' = {}
          /\ 1 \in Pings
      BY <2>1, Alone, PlayerTookBall DEF OneBall
    <2>3. /\ BallOf(Head(toClient)) = <<round_number, current_direction>>
          /\ BallOf(Head(toClient)) \in Balls
      BY <2>1, <2>2 DEF BallOf, Balls, BallInv, PingIsTheBall, Took, FromServer
    <2>4. ~Won /\ round_number = client_score + server_score + 1 /\ game_task # "none"
      BY <2>2 DEF BallInv, OneWinner, RoundsAreCounted, InPlay, BeforeMatch, ToPlayer, Where
    <2>5. PICK m \in FromPlayer : m.type = "PONG" /\ m.of = BallOf(Head(toClient)) /\ SendFrame(m)
      BY <2>3 DEF FromPlayer
    <2>6. Put(toServer, toServer', FromPlayer, m) BY <2>5, Sent
    <2>7. AtMostOne(ToBoard') /\ AnswerIsForTheBall'
      BY <2>2, <2>3, <2>5, <2>6, BoardPutBall
    <2>8. Starting' = 0 BY <2>2 DEF Starting
    <2>9. ServerType' BY DEF ServerType
    <2>10. ScoreType' BY DEF ScoreType
    <2>11. PlayerType' BY SentType DEF PlayerType
    <2>12. QueueType' BY <2>6 DEF QueueType, Put
    <2>13. (OneBall /\ BallInv)'
      <3>1. OneBall' BY <2>2, <2>7, <2>8, StillOne
      <3>2. RoundsAreCounted' BY <2>2, <2>4 DEF RoundsAreCounted
      <3>3. BallInv'
        BY <2>2, <2>4, <2>7, <2>8, <3>2 DEF BallInv, OneWinner, FreshMatch, BeforeMatch, Won
      <3>4. QED BY <3>1, <3>3
    <2>14. LeaveInv' BY <2>5, <2>6, LeavePut
    <2>15. QED BY <2>9, <2>10, <2>11, <2>12, <2>13, <2>14
  <1>6. CASE OnScore
    <2> USE <1>6 DEF OnScore
    <2>1. Took(toClient, toClient', FromServer, "SCORE") /\ Head(toClient) = toClient[1]
      BY Got
    <2>2. ServerType' BY DEF ServerType
    <2>3. ScoreType' BY DEF ScoreType
    <2>4. PlayerType' BY DEF PlayerType
    <2>5. QueueType' BY DEF QueueType
    <2>6. (OneBall /\ BallInv)'
      <3>1. BoardNoMore BY BoardTook
      <3>2. PlayerNoMore BY <2>1, PlayerTook
      <3>3. QED BY <3>1, <3>2, Quiet DEF Starting
    <2>7. LeaveInv' BY LeaveSame DEF Starting
    <2>8. QED BY <2>2, <2>3, <2>4, <2>5, <2>6, <2>7
  <1>7. CASE OnMatchFinish
    <2> USE <1>7 DEF OnMatchFinish
    <2>1. Took(toClient, toClient', FromServer, "MATCH_FINISH") /\ Head(toClient) = toClient[1]
      BY Got
    <2>2. /\ Starting = 0 /\ serving = 0 /\ returning = 0 /\ prompts = 0 /\ ToBoard = {}
          /\ ToPlayer # {} /\ ToPlayer' = {} /\ AtMostOne(ToPlayer')
          /\ PingIsTheBall' /\ FinishNamesWinner' /\ Pings' = {}
      BY <2>1, Alone, PlayerTookBall DEF OneBall
    <2>3. ServerType' BY DEF ServerType
    <2>4. ScoreType' BY DEF ScoreType
    <2>5. PlayerType' BY DEF PlayerType
    <2>6. QueueType' BY DEF QueueType
    <2>7. (OneBall /\ BallInv)'
      <3>1. ToBoard' = {} BY <2>2, BoardTook DEF BoardNoMore
      <3>2. Starting' = 0 BY <2>2 DEF Starting
      <3>3. OneBall' BY <2>2, <3>1, <3>2, StillOne
      <3>4. ~InPlay' BY <2>2, <3>1, Empty
      <3>5. game_task # "none" BY <2>2 DEF BallInv, BeforeMatch
      <3>6. BallInv'
        BY <2>2, <3>1, <3>2, <3>4, <3>5, Empty
        DEF BallInv, OneWinner, RoundsAreCounted, FreshMatch, BeforeMatch, Won
      <3>7. QED BY <3>3, <3>6
    <2>8. LeaveInv' BY LeaveSame DEF Starting
    <2>9. QED BY <2>3, <2>4, <2>5, <2>6, <2>7, <2>8
  <1>8. CASE OnGameOver
    <2> USE <1>8 DEF OnGameOver
    <2>1. Took(toClient, toClient', FromServer, "GAME_OVER") /\ Head(toClient) = toClient[1]
      BY Got
    <2>2. ServerType' BY DEF ServerType
    <2>3. ScoreType' BY DEF ScoreType
    <2>4. PlayerType' BY DEF PlayerType
    <2>5. QueueType' BY DEF QueueType
    <2>6. (OneBall /\ BallInv)'
      <3>1. BoardNoMore BY BoardTook
      <3>2. PlayerNoMore BY <2>1, PlayerTook
      <3>3. QED BY <3>1, <3>2, Quiet DEF Starting
    <2>7. LeaveInv' BY LeaveSame DEF Starting
    <2>8. QED BY <2>2, <2>3, <2>4, <2>5, <2>6, <2>7
  <1>9. CASE Dropped
    <2> USE <1>9 DEF Dropped
    <2>1. Took(toClient, toClient', FromServer, Head(toClient).type)
      BY DEF QueueType, Took
    <2>2. ServerType' BY DEF ServerType
    <2>3. ScoreType' BY DEF ScoreType
    <2>4. PlayerType' BY DEF PlayerType
    <2>5. QueueType' BY DEF QueueType
    <2>6. (OneBall /\ BallInv)'
      <3>1. BoardNoMore BY BoardTook
      <3>2. PlayerNoMore BY <2>1, PlayerTook
      <3>3. QED BY <3>1, <3>2, Quiet DEF Starting
    <2>7. LeaveInv' BY LeaveSame DEF Starting
    <2>8. QED BY <2>2, <2>3, <2>4, <2>5, <2>6, <2>7
  <1>10. QED BY <1>1, <1>3, <1>4, <1>5, <1>6, <1>7, <1>8, <1>9, <1>2 DEF Callback

\* So do the other threads of the player.
LEMMA PlayerInv ==
  ASSUME GameInv, PlayerNext
  PROVE  GameInv'
  <1> USE DEF GameInv, TypeOK
  <1>1. CASE Callback BY <1>1, CallbackInv
  <1>2. CASE Connect
    <2> USE <1>2 DEF Connect
    <2>1. Put(toServer, toServer', FromPlayer, Message("CONNECT"))
      <3>1. \/ toServer' = Append(toServer, Message("CONNECT"))
            \/ UNCHANGED toServer
        OBVIOUS
      <3>2. Message("CONNECT") \in FromPlayer BY Plain
      <3>3. QED BY <3>1, <3>2 DEF Put, QueueType
    <2>2. ServerType' BY DEF ServerType
    <2>3. ScoreType' BY DEF ScoreType
    <2>4. PlayerType' BY DEF PlayerType
    <2>5. QueueType' BY <2>1 DEF QueueType, Put
    <2>6. (OneBall /\ BallInv)'
      <3>1. BoardNoMore BY <2>1, BoardPut, Plain
      <3>2. PlayerNoMore BY PlayerTook
      <3>3. QED BY <3>1, <3>2, Quiet DEF Starting
    <2>7. LeaveInv' BY <2>1, LeavePut, Plain
    <2>8. QED BY <2>2, <2>3, <2>4, <2>5, <2>6, <2>7
  <1>3. CASE Answer
    <2> USE <1>3 DEF Answer
    <2>1. /\ Starting = 0 /\ serving = 0 /\ returning = 0 /\ prompts = 1
          /\ ToPlayer = {} /\ ToBoard = {}
      BY Alone
    <2>2. \/ UNCHANGED toServer
          \/ \E m \in {Message("REMATCH"), Message("NO_REMATCH")} :
               Put(toServer, toServer', FromPlayer, m) BY Sent, Plain
    <2>3. ServerType' BY DEF ServerType
    <2>4. ScoreType' BY DEF ScoreType
    <2>5. PlayerType'
      <3>1. prompts' \in Nat BY DEF PlayerType
      <3>2. QED BY <3>1, SentType DEF PlayerType
    <2>6. QueueType' BY <2>2 DEF QueueType, Put
    <2>7. (OneBall /\ BallInv)'
      <3>1. ToPlayer' = {} /\ Starting' = 0
        BY <2>1, PlayerTook DEF PlayerNoMore, Starting
      <3>2. AtMostOne(ToBoard') /\ Answers' = {} /\ AnswerIsForTheBall'
        <4>1. CASE UNCHANGED toServer
          BY <4>1, <2>1, BallsOnly DEF ToBoard, Answers, AtMostOne, AnswerIsForTheBall
        <4>2. CASE ~UNCHANGED toServer
          <5>1. PICK m \in {Message("REMATCH"), Message("NO_REMATCH")} :
                  Put(toServer, toServer', FromPlayer, m)
            BY <4>2, <2>2
          <5>2. m \in FromPlayer /\ m.type \in {"REMATCH", "NO_REMATCH"} BY Plain
          <5>3. QED BY <2>1, <5>1, <5>2, BoardPutBall
        <4>3. QED BY <4>1, <4>2
      <3>3. Pings' = {} /\ PingIsTheBall' /\ FinishNamesWinner'
        BY <3>1, BallsOnly, PlayerTook DEF ToPlayer, Pings, PlayerNoMore, BallInv
      <3>4. OneBall' BY <2>1, <3>1, <3>2, StillOne DEF AtMostOne
      <3>5. ~InPlay' BY <2>1, <3>2, <3>3 DEF InPlay
      <3>6. game_task # "none" BY DEF BallInv, BeforeMatch
      <3>7. BallInv'
        BY <3>1, <3>2, <3>3, <3>5, <3>6
        DEF BallInv, OneWinner, RoundsAreCounted, FreshMatch, BeforeMatch, Won
      <3>8. QED BY <3>4, <3>7
    <2>8. LeaveInv'
      <3>1. CASE UNCHANGED toServer BY <3>1, LeaveSame DEF Starting
      <3>2. CASE ~UNCHANGED toServer
        <4>1. PICK m \in {Message("REMATCH"), Message("NO_REMATCH")} :
                Put(toServer, toServer', FromPlayer, m)
          BY <2>2, <3>2
        <4>2. m \in FromPlayer /\ m.type # "CONNECT" BY Plain
        <4>3. subscription # "none" BY <2>1 DEF LeaveInv, BallInv, BeforeMatch
        <4>4. QED BY <4>1, <4>2, <4>3, LeavePut
      <3>3. QED BY <3>1, <3>2
    <2>9. QED BY <2>3, <2>4, <2>5, <2>6, <2>7, <2>8
  <1>4. CASE Interrupt
    <2> USE <1>4 DEF Interrupt
    <2>1. ServerType' BY DEF ServerType
    <2>2. ScoreType' BY DEF ScoreType
    <2>3. PlayerType' BY DEF PlayerType
    <2>4. QueueType' BY DEF QueueType
    <2>5. (OneBall /\ BallInv)'
      <3>1. BoardNoMore BY BoardTook
      <3>2. PlayerNoMore BY PlayerTook
      <3>3. QED BY <3>1, <3>2, Quiet DEF Starting
    <2>6. LeaveInv' BY LeaveSame DEF Starting
    <2>7. QED BY <2>1, <2>2, <2>3, <2>4, <2>5, <2>6
  <1>5. CASE Disconnect
    <2> USE <1>5 DEF Disconnect
    <2>1. \/ UNCHANGED toServer /\ subscription = "none"
          \/ /\ Put(toServer, toServer', FromPlayer, Message("DISCONNECT"))
             /\ subscription # "none"
      BY Sent, Plain
    <2>2. ServerType' BY DEF ServerType
    <2>3. ScoreType' BY DEF ScoreType
    <2>4. PlayerType' BY SentType DEF PlayerType
    <2>5. QueueType' BY <2>1 DEF QueueType, Put
    <2>6. (OneBall /\ BallInv)'
      <3>1. BoardNoMore BY <2>1, BoardTook, BoardPut, Plain
      <3>2. PlayerNoMore BY PlayerTook
      <3>3. QED BY <3>1, <3>2, Quiet DEF Starting
    <2>7. LeaveInv'
      <3>1. CASE UNCHANGED toServer BY <3>1 DEF LeaveInv, Starting
      <3>2. CASE ~UNCHANGED toServer BY <2>1, <3>2, LeavePut, Plain
      <3>3. QED BY <3>1, <3>2
    <2>8. QED BY <2>2, <2>3, <2>4, <2>5, <2>6, <2>7
  <1>6. CASE Close
    <2> USE <1>6 DEF Close
    <2>1. BoardNoMore BY BoardTook
    <2>2. PlayerNoMore /\ toClient' \in Seq(FromServer) BY PlayerLoses
    <2>3. ServerType' BY DEF ServerType
    <2>4. ScoreType' BY DEF ScoreType
    <2>5. PlayerType' BY DEF PlayerType
    <2>6. QueueType' BY <2>2 DEF QueueType
    <2>7. (OneBall /\ BallInv)' BY <2>1, <2>2, Quiet DEF Starting
    <2>8. LeaveInv' BY DEF LeaveInv, Starting
    <2>9. QED BY <2>3, <2>4, <2>5, <2>6, <2>7, <2>8
  <1>7. CASE Unsubscribe
    <2> USE <1>7 DEF Unsubscribe
    <2>1. Put(toServer, toServer', FromPlayer, Message("UNSUBSCRIBE"))
      BY Sent, Plain
    <2>2. ServerType' BY DEF ServerType
    <2>3. ScoreType' BY DEF ScoreType
    <2>4. PlayerType' BY SentType DEF PlayerType
    <2>5. QueueType' BY <2>1 DEF QueueType, Put
    <2>6. (OneBall /\ BallInv)'
      <3>1. BoardNoMore BY <2>1, BoardPut, Plain
      <3>2. PlayerNoMore BY PlayerTook
      <3>3. QED BY <3>1, <3>2, Quiet DEF Starting
    <2>7. LeaveInv' BY <2>1, LeavePut, Plain
    <2>8. QED BY <2>2, <2>3, <2>4, <2>5, <2>6, <2>7
  <1>8. CASE SubscribeAgain
    <2> USE <1>8 DEF SubscribeAgain
    <2>1. Put(toServer, toServer', FromPlayer, Message("SUBSCRIBE")) BY Sent, Plain
    <2>2. ServerType' BY DEF ServerType
    <2>3. ScoreType' BY DEF ScoreType
    <2>4. PlayerType' BY SentType DEF PlayerType
    <2>5. QueueType' BY <2>1 DEF QueueType, Put
    <2>6. (OneBall /\ BallInv)'
      <3>1. BoardNoMore BY <2>1, BoardPut, Plain
      <3>2. PlayerNoMore BY PlayerTook
      <3>3. QED BY <3>1, <3>2, Quiet DEF Starting
    <2>7. LeaveInv' BY <2>1, LeavePut, Plain
    <2>8. QED BY <2>2, <2>3, <2>4, <2>5, <2>6, <2>7
  <1>9. CASE LoseConnection
    <2> USE <1>9 DEF LoseConnection
    <2>1. PICK n \in 0 .. Len(toServer) : toServer' = SubSeq(toServer, 1, n) OBVIOUS
    <2>2. /\ BoardNoMore /\ toServer' \in Seq(FromPlayer) /\ Len(toServer') = n
          /\ \A i \in 1 .. n : toServer'[i] = toServer[i]
      BY <2>1, BoardLoses
    <2>3. PlayerNoMore /\ toClient' \in Seq(FromServer) BY PlayerLoses
    <2>4. ServerType' BY DEF ServerType
    <2>5. ScoreType' BY DEF ScoreType
    <2>6. PlayerType' BY DEF PlayerType
    <2>7. QueueType' BY DEF QueueType
    <2>8. (OneBall /\ BallInv)' BY <2>2, <2>3, Quiet DEF Starting
    <2>9. LeaveInv'
      <3>1. \A i \in 1 .. Len(toServer') :
              i \in 1 .. Len(toServer) /\ toServer'[i] = toServer[i]
        BY <2>2
      <3>2. \A i \in 1 .. Len(toServer') :
              toServer'[i].type = "CONNECT" => i = 1 /\ goodbye' = "no"
        BY <3>1 DEF LeaveInv
      <3>3. subscription' = "none" =>
              \A i \in 1 .. Len(toServer') : toServer'[i].type = "CONNECT"
        BY <3>1 DEF LeaveInv
      <3>4. QED BY <3>2, <3>3 DEF LeaveInv, Starting
    <2>10. QED BY <2>4, <2>5, <2>6, <2>7, <2>8, <2>9
  <1>10. QED BY <1>1, <1>2, <1>3, <1>4, <1>5, <1>7, <1>8, <1>9, <1>6 DEF PlayerNext

\* The game keeps its invariant for ever.
THEOREM Invariance == Spec => []GameInv
  <1>1. GameInv /\ [Next]_vars => GameInv'
    <2> SUFFICES ASSUME GameInv, [Next]_vars PROVE GameInv' OBVIOUS
    <2>1. CASE PlayerNext BY <2>1, PlayerInv
    <2>2. CASE HandleFrame /\ UNCHANGED playerVars BY <2>2, HandleFrameInv
    <2>3. CASE RunTask /\ UNCHANGED playerVars BY <2>3, RunTaskInv
    <2>4. CASE HandlerEnds /\ UNCHANGED playerVars BY <2>4, HandlerEndsInv
    <2>5. CASE UNCHANGED vars
      <3> USE <2>5 DEF vars, GameInv, TypeOK
      <3>1. TypeOK'
        <4>1. ServerType' BY DEF ServerType
        <4>2. ScoreType' BY DEF ScoreType
        <4>3. PlayerType' BY DEF PlayerType
        <4>4. QueueType' BY DEF QueueType
        <4>5. QED BY <4>1, <4>2, <4>3, <4>4
      <3>2. BoardNoMore /\ PlayerNoMore BY BoardTook, PlayerTook
      <3>3. (OneBall /\ BallInv)' BY <3>2, Quiet DEF Starting
      <3>4. LeaveInv' BY LeaveSame DEF Starting
      <3>5. QED BY <3>1, <3>3, <3>4
    <2>6. QED BY <2>1, <2>2, <2>3, <2>4, <2>5 DEF Next, ServerStep, ServerNext
  <1>2. QED BY InitInv, <1>1, PTL DEF Spec

\* Every variable has its type; scores and rounds stay within a match.
THEOREM TypeCorrect == Spec => []TypeOK
  <1>1. GameInv => TypeOK BY DEF GameInv
  <1>2. QED BY <1>1, Invariance, PTL

\* There is one ball at most, whoever has it and whatever is lost.
THEOREM BallIsUnique == Spec => []OneBall
  <1>1. GameInv => OneBall BY DEF GameInv
  <1>2. QED BY <1>1, Invariance, PTL

\* The server scores an answer for the ball it was given to.
THEOREM AnswerFits == Spec => []AnswerIsForTheBall
  <1>1. GameInv => AnswerIsForTheBall BY DEF GameInv, BallInv
  <1>2. QED BY <1>1, Invariance, PTL

\* A match that is won is over, and every round before was worth a point.
THEOREM MatchDecided == Spec => []MatchIsDecidedOnce
  <1>1. GameInv => MatchIsDecidedOnce
    BY DEF GameInv, BallInv, OneWinner, MatchIsDecidedOnce, Won
  <1>2. QED BY <1>1, Invariance, PTL

\* After DISCONNECT the server sends nothing, and plays a ball only in a game
\* asked for since; after the end of its handler it plays the ball that is under
\* way at most.
THEOREM LeftAlone == Spec => QuietAfterLeaving
  <1> DEFINE Quieter ==
               /\ goodbye # "no" =>
                    NothingSent /\ (BallPlayed => goodbye = "again" /\ game_task = "before serve")
               /\ ended /\ BallPlayed => Starting = 0 /\ serving' + returning' = 0
  <1>1. GameInv /\ [Next]_vars => [Quieter]_vars
    <2> SUFFICES ASSUME GameInv, Next PROVE Quieter OBVIOUS
    <2> USE DEF GameInv, TypeOK, QueueType
    <2>1. /\ goodbye # "no" => ~connected
          /\ goodbye = "said" => Starting = 0
          /\ ended => Starting = 0
      BY DEF LeaveInv
    <2>2. toClient' = Tail(toClient) => NothingSent BY DEF NothingSent
    <2>3. UNCHANGED toClient => NothingSent BY DEF NothingSent
    <2>4. UNCHANGED last_server_direction \/ last_server_direction' = None => ~BallPlayed
      BY DEF BallPlayed
    <2>5. CASE HandleFrame /\ UNCHANGED playerVars
      <3>1. ~ended BY <2>5 DEF HandleFrame, _handle_connect, _handle_subscribe,
              _handle_unsubscribe, _handle_disconnect, Rematch, NoRematch, ServerReaches,
              ServerMisses, ClientMissed
      <3>2. UNCHANGED last_server_direction \/ last_server_direction' = None
        BY <2>5 DEF HandleFrame, _handle_connect, _handle_subscribe,
             _handle_unsubscribe, _handle_disconnect, Rematch, NoRematch, ServerReaches,
             ServerMisses, ClientMissed, Announce
      <3>3. goodbye # "no" => UNCHANGED toClient
        <4>1. ASSUME goodbye # "no", _handle_connect PROVE FALSE
          <5>1. Took(toServer, toServer', FromPlayer, "CONNECT")
            BY <4>1, Handled DEF _handle_connect
          <5>2. QED BY <4>1, <5>1 DEF LeaveInv, Took
        <4>2. \A m : goodbye # "no" /\ broadcast_message(m) => UNCHANGED toClient
          BY <2>1 DEF broadcast_message
        <4>3. QED BY <2>5, <4>1, <4>2 DEF HandleFrame, _handle_subscribe,
               _handle_unsubscribe, _handle_disconnect, Rematch, NoRematch, ServerReaches,
               ServerMisses, ClientMissed, Announce
      <3>4. QED BY <2>3, <2>4, <3>1, <3>2, <3>3
    <2>6. CASE RunTask /\ UNCHANGED playerVars
      <3>1. goodbye # "no" => UNCHANGED toClient
        <4>1. \A m : goodbye # "no" /\ broadcast_message(m) => UNCHANGED toClient
          BY <2>1 DEF broadcast_message
        <4>2. QED BY <2>1, <2>6, <4>1
                DEF RunTask, StartGame, FirstServe, NextServe, RallyReturn, _serve, _play_ball
      <3>2. game_task = "before serve" => Starting = 1 BY DEF Starting
      <3>3. CASE StartGame BY <2>3, <2>4, <3>1, <3>3 DEF StartGame
      <3>4. CASE FirstServe
        <4>1. game_task = "before serve" BY <3>4 DEF FirstServe
        <4>2. ~(Starting = 0)
          <5>1. 0 # 1 OBVIOUS
          <5>2. QED BY ONLY <3>2, <4>1, <5>1
        <4>3. goodbye # "no" => goodbye = "again" BY <2>1, <4>2 DEF ServerType
        <4>4. ~ended BY <2>1, <4>2
        <4>5. QED BY <2>3, <3>1, <4>1, <4>3, <4>4
      <3>5. CASE NextServe
        <4>1. Starting = 0 /\ serving = 1 /\ returning = 0
          BY <3>5, Alone DEF NextServe, ServerType
        <4>2. serving' + returning' = 0 BY <3>5, <4>1 DEF NextServe
        <4>3. ~connected => ~BallPlayed BY <2>4, <3>5 DEF NextServe
        <4>4. QED BY <2>1, <2>3, <3>1, <4>1, <4>2, <4>3
      <3>6. CASE RallyReturn
        <4>1. Starting = 0 /\ returning = 1 /\ serving = 0
          BY <3>6, Alone DEF RallyReturn, ServerType
        <4>2. serving' + returning' = 0 BY <3>6, <4>1 DEF RallyReturn
        <4>3. ~connected => ~BallPlayed BY <2>4, <3>6 DEF RallyReturn
        <4>4. QED BY <2>1, <2>3, <3>1, <4>1, <4>2, <4>3
      <3>7. QED BY <2>6, <3>3, <3>4, <3>5, <3>6 DEF RunTask
    <2>7. CASE HandlerEnds BY <2>3, <2>4, <2>7 DEF HandlerEnds
    <2>8. CASE PlayerNext
      <3>1. UNCHANGED last_server_direction
        BY <2>8 DEF PlayerNext, Callback, OnConnected, Join, OnGameStart, OutOfReach, PlayBack,
           OnScore, OnMatchFinish, OnGameOver, Dropped, Connect, Answer, Interrupt, Disconnect,
           Close, Unsubscribe, SubscribeAgain, LoseConnection
      <3>2. UNCHANGED toClient \/ toClient' = Tail(toClient) \/ toClient' = <<>>
        BY <2>8 DEF PlayerNext, Callback, OnConnected, Join, OnGameStart, OutOfReach, PlayBack,
           OnScore, OnMatchFinish, OnGameOver, Dropped, Connect, Answer, Interrupt, Disconnect,
           Close, Unsubscribe, SubscribeAgain, LoseConnection
      <3>3. toClient' = <<>> => NothingSent BY DEF NothingSent
      <3>4. QED BY <2>2, <2>3, <2>4, <3>1, <3>2, <3>3
    <2>9. QED BY <2>5, <2>6, <2>7, <2>8 DEF Next, ServerStep, ServerNext
  <1>2. QED BY <1>1, Invariance, PTL DEF Spec, QuietAfterLeaving, Quieter
=============================================================================
