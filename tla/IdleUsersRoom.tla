--------------------------- MODULE IdleUsersRoom ---------------------------
(***************************************************************************)
(* The idle thread.  It owns every client that is in no game, and the room *)
(* table: the GameRoom objects are only read and written here.  It takes   *)
(* new clients from the accept thread, answers the messages of idle        *)
(* clients, starts a game thread when two clients want the same room and   *)
(* follows the state changes that a game thread reports.                   *)
(*                                                                         *)
(* An event of the thread's epoll starts a task: the messages of one read  *)
(* and possibly a hang-up.  Only the pushes of a hand-over are visible to  *)
(* other threads while it runs, so a message is one action, except that    *)
(* the clients of a new game are pushed in actions of their own.           *)
(***************************************************************************)
EXTENDS Game

CONSTANTS
    NoRoom,         \* a client that waits for no room
    MaxPlayerCount  \* the limit read from the configuration file

ASSUME IdleUsersRoomAssumption ==
    /\ NoRoom \notin Room
    /\ Missing \notin Room \cup Name
    /\ MaxPlayerCount \in Nat

VARIABLES
    clientsMap,         \* _clientsMap: the clients in the idle room
    waitingToJoinGame,  \* _waitingToJoinGame, a map from clients to rooms
    gameState,          \* per room: GameRoom::gameState
    roomUsers,          \* per room: usernameA and usernameB, the empty ones left out
    pausedGameRooms,    \* _pausedGameRooms
    idleTask,           \* the client event being handled, messages and hang-up left
    handOver            \* the calls of _sendClientToGameThread still to be made

roomVars == <<gameState, roomUsers, pausedGameRooms>>
idleVars == <<clientsMap, waitingToJoinGame, roomVars, idleTask, handOver>>

NoIdleTask == [client |-> Nobody, left |-> 0, hangup |-> FALSE]

IdleTypeOK ==
    /\ clientsMap \subseteq Client
    /\ waitingToJoinGame \in [Client -> Room \cup {NoRoom}]
    /\ gameState \in [Room -> GameState]
    /\ roomUsers \in [Room -> Seq(Name)]
    /\ pausedGameRooms \subseteq Room
    /\ idleTask \in [client : ClientOrNobody, left : 0 .. MaxBatch, hangup : BOOLEAN]
    /\ handOver \in Seq(Room \X Client)

IdleInit ==
    /\ clientsMap = {}
    /\ waitingToJoinGame = [c \in Client |-> NoRoom]
    /\ gameState = [r \in Room |-> "IDLE"]
    /\ roomUsers = [r \in Room |-> <<>>]
    /\ pausedGameRooms = {}
    /\ idleTask = NoIdleTask
    /\ handOver = <<>>

IdleMessage ==
         {[method |-> "ENTER_USERNAME", arg |-> n] : n \in Name \cup {Missing}}
    \cup {[method |-> "JOIN_GAME", arg |-> r] : r \in Room \cup {Missing}}
    \cup {[method |-> m, arg |-> Missing] :
             m \in {"TERMINATE_CONNECTION", "GET_ROOM_LIST", "OTHER"}}

\* GameRoom::hasUsername
HasUsername(r, n) == \E i \in DOMAIN roomUsers[r] : roomUsers[r][i] = n

-----------------------------------------------------------------------------
(* The functions the handlers are made of.  Each says what happens to the  *)
(* variables a message can change; IdleProcessMessage adds the others.     *)

clientVars == <<clientsMap, waitingToJoinGame, conn>>

\* Mutant: a client that disconnects stays in the waiting list.
NotWaitingForgotten(c) == waitingToJoinGame

NotWaiting(c) == [waitingToJoinGame EXCEPT ![c] = NoRoom]

IdleOnClientDisconnect(c) ==
    /\ clientsMap' = clientsMap \ {c}
    /\ waitingToJoinGame' = NotWaiting(c)
    /\ conn' = [conn EXCEPT ![c] = "closed"]

\* Only the request counter and the client itself are touched by a denial.
IdleDenyRequest(c) ==
    /\ IF TooManyDenials(reqDeniedCnt[c])
       THEN IdleOnClientDisconnect(c) /\ UNCHANGED reqDeniedCnt
       ELSE /\ reqDeniedCnt' = [reqDeniedCnt EXCEPT ![c] = @ + 1]
            /\ UNCHANGED clientVars
    /\ UNCHANGED <<process, clientName, roomVars, game, handOver>>

\* A reply is all that happens.
IdleReply == UNCHANGED <<process, clientVars, reqDeniedCnt, clientName,
                         roomVars, game, handOver>>

\* Mutant: the players of the rooms are forgotten.
UsernameOfIdleClient(c, n) == \E d \in clientsMap \ {c} : HasName(d) /\ clientName[d] = n

\* The three checks of a new name: idle clients, rooms, paused rooms.
UsernameTaken(c, n) ==
    \/ \E d \in clientsMap \ {c} : HasName(d) /\ clientName[d] = n
    \/ \E r \in Room : HasUsername(r, n)
    \/ \E r \in pausedGameRooms : HasUsername(r, n)

\* _setGameAsRunning, _setGameAsPaused and _setGameAsIdle. The first one with
\* usernames is in NewGameThread.
SetGameAsRunning(r) ==
    /\ gameState' = [gameState EXCEPT ![r] = "RUNNING"]
    /\ pausedGameRooms' = pausedGameRooms \ {r}

SetGameAsPaused(r) ==
    /\ gameState' = [gameState EXCEPT ![r] = "PAUSED"]
    /\ pausedGameRooms' = pausedGameRooms \cup {r}
    /\ UNCHANGED roomUsers

\* Mutant: the room keeps its users when its game is over.
SetGameAsIdleWithUsers(r) ==
    /\ gameState' = [gameState EXCEPT ![r] = "IDLE"]
    /\ pausedGameRooms' = pausedGameRooms \ {r}
    /\ UNCHANGED roomUsers

SetGameAsIdle(r) ==
    /\ gameState' = [gameState EXCEPT ![r] = "IDLE"]
    /\ pausedGameRooms' = pausedGameRooms \ {r}
    /\ roomUsers' = [roomUsers EXCEPT ![r] = <<>>]

\* A client that takes its name back joins its paused game again.
RejoinPausedGame(c, r) ==
    /\ handOver' = <<<<r, c>>>>
    /\ SetGameAsRunning(r)
    /\ UNCHANGED roomUsers

EnterUsername(c, n) ==
    IF UsernameTaken(c, n)
    THEN IdleDenyRequest(c)
    ELSE LET rejoined == {r \in pausedGameRooms : HasUsername(r, n)}
         IN  /\ clientName' = [clientName EXCEPT ![c] = n]
             /\ IF rejoined # {}
                THEN \E r \in rejoined : RejoinPausedGame(c, r)
                ELSE UNCHANGED <<roomVars, handOver>>
             /\ UNCHANGED <<process, clientVars, reqDeniedCnt, game>>

\* The room is marked and a game thread is started. addUser throws if the room
\* still has two users, and nothing in the idle thread catches that.
NewGameThread(c, d, r) ==
    /\ IF roomUsers[r] = <<>>
       THEN /\ roomUsers' = [roomUsers EXCEPT ![r] = <<clientName[c], clientName[d]>>]
            /\ UNCHANGED process
       ELSE process' = "terminated" /\ UNCHANGED roomUsers
    /\ SetGameAsRunning(r)
    /\ game' = [game EXCEPT ![r] = NewGame]
    /\ handOver' = <<<<r, c>>, <<r, d>>>>

Joinable(r) == gameState[r] = "IDLE"

\* r names no room if it is Missing. The first client found waiting for the room
\* decides: it is c itself, or it is c's opponent.
JoinGameRoom(c, r) ==
    LET waiting == {d \in Client : waitingToJoinGame[d] = r}
    IN  IF r = Missing \/ (r # Missing /\ ~Joinable(r))
        THEN IdleDenyRequest(c)
        ELSE IF waiting # {}
        THEN \E d \in waiting :
                IF d = c THEN IdleDenyRequest(c)
                ELSE /\ NewGameThread(c, d, r)
                     /\ UNCHANGED <<clientVars, reqDeniedCnt, clientName>>
        ELSE /\ waitingToJoinGame' = [waitingToJoinGame EXCEPT ![c] = r]
             /\ UNCHANGED <<process, clientsMap, conn, reqDeniedCnt, clientName,
                            roomVars, game, handOver>>

IdleProcessClientMessage(c, m) ==
    CASE m.method = "TERMINATE_CONNECTION" ->
            /\ IdleOnClientDisconnect(c)
            /\ UNCHANGED <<process, reqDeniedCnt, clientName, roomVars, game, handOver>>
      [] m.method = "ENTER_USERNAME" /\ m.arg # Missing /\ ~HasName(c) ->
            EnterUsername(c, m.arg)
      [] m.method = "GET_ROOM_LIST" /\ HasName(c) -> IdleReply
      [] m.method = "JOIN_GAME" /\ HasName(c) -> JoinGameRoom(c, m.arg)
      [] OTHER -> IdleDenyRequest(c)

-----------------------------------------------------------------------------
(* Steps of the idle thread *)

IdleBetweenEvents == idleTask = NoIdleTask /\ handOver = <<>>

\* A new client is taken from the accept thread's queue, and closed again if
\* the idle room is full.
IdleOnNewClientConnect ==
    /\ IdleBetweenEvents
    /\ newClientsQueue # <<>>
    /\ newClientsQueue' = Tail(newClientsQueue)
    /\ LET c == Head(newClientsQueue)
       IN  IF Cardinality(clientsMap \cup {c}) > MaxPlayerCount
           THEN conn' = [conn EXCEPT ![c] = "closed"] /\ UNCHANGED clientsMap
           ELSE clientsMap' = clientsMap \cup {c} /\ UNCHANGED conn
    /\ UNCHANGED <<process, clientName, reqDeniedCnt, gameInput, gameOutput, game,
                   waitingToJoinGame, roomVars, idleTask, handOver>>

\* An event of an idle client: messages, a hang-up or both.
IdleOnClientWrite(c) ==
    /\ IdleBetweenEvents
    /\ c \in clientsMap
    /\ \E left \in 0 .. MaxBatch, hangup \in BOOLEAN :
          /\ left > 0 \/ hangup
          /\ idleTask' = [client |-> c, left |-> left, hangup |-> hangup]
    /\ UNCHANGED <<sharedVars, game, clientsMap, waitingToJoinGame, roomVars, handOver>>

\* The read fails, or what was read breaks the protocol's format.
IdleOnClientWriteFails(c) ==
    /\ IdleBetweenEvents
    /\ c \in clientsMap
    /\ IdleOnClientDisconnect(c)
    /\ UNCHANGED <<process, clientName, reqDeniedCnt, newClientsQueue, gameInput,
                   gameOutput, game, roomVars, idleTask, handOver>>

\* The next message of the event. The loop over the messages goes on after one
\* of them has destroyed the client or handed it over.
IdleProcessMessage(c) ==
    /\ handOver = <<>>
    /\ idleTask.client = c /\ idleTask.left > 0
    /\ idleTask' = IF idleTask.left = 1 /\ ~idleTask.hangup
                   THEN NoIdleTask ELSE [idleTask EXCEPT !.left = @ - 1]
    /\ IF c \in clientsMap
       THEN \E m \in IdleMessage : IdleProcessClientMessage(c, m)
       ELSE /\ process' = "undefined"
            /\ UNCHANGED <<clientVars, reqDeniedCnt, clientName, roomVars, game, handOver>>
    /\ UNCHANGED <<newClientsQueue, gameInput, gameOutput>>

\* Mutant: the event loop goes on with a removed descriptor.
AlwaysMonitored(c) == TRUE

\* The idle thread's epoll has the descriptors of the clients in the idle room.
Monitored(c) == c \in clientsMap

\* The hang-up after the messages. The event loop skips it if the client's
\* descriptor has been removed.
IdleOnHangup(c) ==
    /\ handOver = <<>>
    /\ idleTask.client = c /\ idleTask.left = 0
    /\ idleTask' = NoIdleTask
    /\ IF Monitored(c) THEN IdleOnClientDisconnect(c) ELSE UNCHANGED clientVars
    /\ UNCHANGED <<process, clientName, reqDeniedCnt, newClientsQueue, gameInput,
                   gameOutput, game, roomVars, handOver>>

\* _sendClientToGameThread: the client leaves the idle room for the input queue.
\* A client that is not in the idle room would be a dangling pointer.
SendClientToGameThread ==
    /\ handOver # <<>>
    /\ LET r == Head(handOver)[1]
           c == Head(handOver)[2]
       IN  /\ process' = IF c \in clientsMap THEN process ELSE "undefined"
           /\ waitingToJoinGame' = NotWaiting(c)
           /\ gameInput' = [gameInput EXCEPT ![r] = Append(@, c)]
           /\ clientsMap' = clientsMap \ {c}
    /\ handOver' = Tail(handOver)
    /\ UNCHANGED <<conn, clientName, reqDeniedCnt, newClientsQueue,
                   gameOutput, game, roomVars, idleTask>>

\* A state change of room r is taken from its output queue. The clients of a
\* game that has ended are idle again.
OnGameStateChange(r) ==
    /\ IdleBetweenEvents
    /\ gameOutput[r] # <<>>
    /\ gameOutput' = [gameOutput EXCEPT ![r] = Tail(@)]
    /\ LET change == Head(gameOutput[r])
       IN  CASE change.newState = "IDLE" ->
                   /\ clientsMap' = clientsMap
                                    \cup ({change.client1, change.client2} \ {Nobody})
                   /\ SetGameAsIdle(r)
             [] change.newState = "PAUSED" -> SetGameAsPaused(r) /\ UNCHANGED clientsMap
             [] OTHER -> UNCHANGED <<clientsMap, roomVars>>
    /\ UNCHANGED <<process, conn, clientName, reqDeniedCnt, newClientsQueue, gameInput,
                   game, waitingToJoinGame, idleTask, handOver>>

IdleNext ==
    \/ IdleOnNewClientConnect
    \/ \E c \in Client : \/ IdleOnClientWrite(c)
                         \/ IdleOnClientWriteFails(c)
                         \/ IdleProcessMessage(c)
                         \/ IdleOnHangup(c)
    \/ SendClientToGameThread
    \/ \E r \in Room : OnGameStateChange(r)
=============================================================================
