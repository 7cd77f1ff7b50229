----------------------------- MODULE UpsServer -----------------------------
(***************************************************************************)
(* The whole server: the accept thread, the idle thread and the game       *)
(* threads, which share nothing but the process, the client objects they   *)
(* hand to each other and the queues these travel through.                 *)
(***************************************************************************)
EXTENDS IdleUsersRoom

vars == <<sharedVars, game, idleVars>>

Init == SharedInit /\ GameInit /\ IdleInit

\* The accept thread: a client connects and its descriptor is queued.
TcpAcceptLoop(c) ==
    /\ conn[c] = "new"
    /\ conn' = [conn EXCEPT ![c] = "open"]
    /\ newClientsQueue' = Append(newClientsQueue, c)
    /\ UNCHANGED <<process, clientName, reqDeniedCnt, gameInput, gameOutput,
                   game, idleVars>>

AcceptNext == \E c \in Client : TcpAcceptLoop(c)

GamesNext == (\E r \in Room : GameNext(r)) /\ UNCHANGED idleVars

\* No thread takes a step once the process has failed.
Next ==
    /\ process = "up"
    /\ AcceptNext \/ IdleNext \/ GamesNext

Spec == Init /\ [][Next]_vars

\* What the scheduler and epoll give a game thread: it gets on with the batch it
\* has, and a wait in epoll ends while there are clients in its input queue.
\* Nothing makes a player send, so a wait for players alone need not end.
GameProgress(r) ==
    /\ process = "up"
    /\ \/ GameWaitForEvents(r) /\ gameInput[r] # <<>>
       \/ GameDispatchInput(r)
       \/ GameOnNewClientConnect(r)
       \/ \E c \in Client : \/ GameOnClientWrite(r, c)
                            \/ GameProcessMessage(r, c)
                            \/ GameOnHangup(r, c)
       \/ GameExit(r)
    /\ UNCHANGED idleVars

\* The idle thread gets on with the handler it is in. Nothing is assumed of the
\* next event: its loop can drop the rest of a batch.
IdleProgress ==
    /\ process = "up"
    /\ \/ SendClientToGameThread
       \/ \E c \in Client : IdleProcessMessage(c) \/ IdleOnHangup(c)

FairSpec ==
    /\ Spec
    /\ WF_vars(IdleProgress)
    /\ \A r \in Room : WF_vars(GameProgress(r))

TypeOK == SharedTypeOK /\ GameTypeOK /\ IdleTypeOK

-----------------------------------------------------------------------------
(* What the idle thread believes about a room and what is so *)

NoIdleChange(changes) == \A k \in DOMAIN changes : changes[k].newState # "IDLE"

EndsIdle(changes) ==
    /\ changes # <<>>
    /\ changes[Len(changes)].newState = "IDLE"
    /\ \A k \in 1 .. Len(changes) - 1 : changes[k].newState # "IDLE"

\* The room table follows the game threads without ever being ahead of them: a
\* room that can be joined has no thread, no user and no unread report; the
\* report that frees a room is the last of its thread's life. This is what
\* lets _joinGameRoom start a thread on the room's queues with no lock.
RoomAgrees(r) ==
    /\ gameState[r] = "IDLE" => /\ game[r].thread = "none"
                                /\ gameOutput[r] = <<>>
                                /\ roomUsers[r] = <<>>
    /\ game[r].thread # "none" => NoIdleChange(gameOutput[r])
    /\ game[r].thread = "none" /\ gameState[r] # "IDLE" => EndsIdle(gameOutput[r])
    /\ r \in pausedGameRooms <=> gameState[r] = "PAUSED"

RoomAgreement == \A r \in Room : RoomAgrees(r)

\* addUser never finds a room full, so its exception, which nothing in the idle
\* thread catches, never ends the server. It is the only exception modelled there.
NeverTerminated == process # "terminated"

-----------------------------------------------------------------------------
(* Who owns a client *)

\* The places that hold client c, each a queue position, a map or a player slot.
Custody(c) ==
         {<<"accepted", k>> : k \in {k \in DOMAIN newClientsQueue : newClientsQueue[k] = c}}
    \cup {<<"idle", 0>> : k \in {k \in {0} : c \in clientsMap}}
    \cup UNION {
           {<<"input", r, k>> : k \in {k \in DOMAIN gameInput[r] : gameInput[r][k] = c}}
      \cup {<<"slot", r, i>> : i \in {i \in Slot : game[r].client[i] = c}}
      \cup {<<"back1", r, k>> :
              k \in {k \in DOMAIN gameOutput[r] : gameOutput[r][k].client1 = c}}
      \cup {<<"back2", r, k>> :
              k \in {k \in DOMAIN gameOutput[r] : gameOutput[r][k].client2 = c}} : r \in Room}

\* An open connection is in exactly one place, and no place holds a client that
\* is closed: the unique_ptr is never lost and its socket never leaks.
SingleCustody ==
    \A c \in Client : Cardinality(Custody(c)) = IF conn[c] = "open" THEN 1 ELSE 0

\* The clients a thread may use: those it holds, and the one it takes next.
IdleOwns(c) ==
    \/ c \in clientsMap
    \/ newClientsQueue # <<>> /\ c = Head(newClientsQueue)

GameOwns(r, c) ==
    \/ HasPlayer(game[r], c)
    \/ gameInput[r] # <<>> /\ c = Head(gameInput[r])

\* The clients a step changes belong to the thread that makes the step.
ClientsChangedByOwner ==
    \A c \in Client :
        \/ clientName'[c] # clientName[c]
        \/ reqDeniedCnt'[c] # reqDeniedCnt[c]
        \/ conn[c] = "open" /\ conn'[c] = "closed"
        => \/ IdleOwns(c) /\ UNCHANGED <<game, gameOutput>>
           \/ \E r \in Room :
                 /\ GameOwns(r, c)
                 /\ \A q \in Room \ {r} : game'[q] = game[q]
                 /\ UNCHANGED idleVars

\* Client objects have no lock: a client whose name, denial counter or socket
\* changes belongs to the thread that makes the step, be it the idle thread or
\* a game thread, and the client of another thread or of a queue is left alone.
OwnerOnly == [][ClientsChangedByOwner]_vars

\* The waiting list never dangles: a waiting client is in the idle room and has
\* a name, it waits for a room that can be joined, and nobody else waits there.
\* While a new game's clients are handed over the room is no longer joinable.
WaitingListSound ==
    /\ \A c \in Client :
          waitingToJoinGame[c] # NoRoom =>
              /\ c \in clientsMap
              /\ HasName(c)
              /\ \/ gameState[waitingToJoinGame[c]] = "IDLE"
                 \/ \E k \in DOMAIN handOver : handOver[k] = <<waitingToJoinGame[c], c>>
    /\ \A c, d \in Client :
          waitingToJoinGame[c] = waitingToJoinGame[d] /\ c # d
              => waitingToJoinGame[c] = NoRoom

\* Nothing dangles in a hand-over either: the pointers still to be passed to
\* _sendClientToGameThread are of clients in the idle room, and each is passed once,
\* although between two of them the new game may already have begun and ended.
HandOverSound ==
    /\ \A k \in DOMAIN handOver : handOver[k][2] \in clientsMap
    /\ \A k, l \in DOMAIN handOver : handOver[k][2] = handOver[l][2] => k = l

-----------------------------------------------------------------------------
(* The room table and the games *)

\* The idle thread learns of every pause: while a game is paused its room is in
\* the table as paused, or the report is in the output queue.
PauseReported ==
    \A r \in Room :
        game[r].isPaused =>
            \/ gameState[r] = "PAUSED"
            \/ \E k \in DOMAIN gameOutput[r] : gameOutput[r][k].newState = "PAUSED"

\* Nobody plays alone: once both players have been seated, a game that goes on with
\* one of them missing is paused, however he went.
PausedWhileMissing ==
    \A r \in Room :
        LET g == game[r]
        IN  InLoop(r) /\ g.isRunning /\ g.lastSeen[2] # "never" /\ ~BothPlayersOnline(g)
            => g.isPaused

Play == INSTANCE Sim WITH graph <- [r \in Room |-> game[r].graph],
                          turn <- [r \in Room |-> IF game[r].isPlayerOneTurn THEN 1 ELSE 2]

\* Every game thread plays Sim: over pauses, denials, disconnections and the
\* messages of a whole read, an edge is only ever drawn by the player on turn,
\* and only an edge nobody has.
GamesPlaySim == Play!SimSpec

\* No edge is in both players' graphs, nobody's graph is a lost one, and the
\* players take turns: whoever has an edge more is not on turn.
TurnsAlternate == Play!FairPlay

\* A room is free, played in or over. It is over between the last report of its
\* thread and the moment the idle thread reads it.
phaseOfRoom ==
    [r \in Room |-> IF game[r].thread # "none" THEN "playing"
                    ELSE IF gameState[r] # "IDLE" THEN "over" ELSE "free"]

Lifecycle == INSTANCE RoomLifecycle WITH phase <- phaseOfRoom, users <- roomUsers

\* The server implements the life of a room: a game starts only in a free room,
\* and its users stay the room's users until its last report has been read.
RoomsFollowLifecycle == Lifecycle!LifecycleSpec

\* Who is seated in a game, and who travels with reports.
Seated(g) == {g.client[i] : i \in Slot} \ {Nobody}

Returning(out) ==
    ({out[k].client1 : k \in DOMAIN out} \cup {out[k].client2 : k \in DOMAIN out}) \ {Nobody}

Places == INSTANCE ClientLifecycle
          WITH accepted <- newClientsQueue, idle <- clientsMap, joining <- gameInput,
               playing <- [r \in Room |-> Seated(game[r])],
               returning <- [r \in Room |-> Returning(gameOutput[r])],
               gone <- {c \in Client : conn[c] = "closed"}

\* The server implements the life of a client: however the threads interleave, a
\* client goes from place to place only as it should, a game takes its clients in
\* the order they were sent and has two at the most, all its players come back
\* together, and whoever is not in the next place has been disconnected.
ClientsFollowLifecycle == Places!PlacesSpec

\* Client c is with room r: on the way to its game, seated in it or coming back.
WithRoom(c, r) ==
    \/ \E k \in DOMAIN gameInput[r] : gameInput[r][k] = c
    \/ HasPlayer(game[r], c)
    \/ \E k \in DOMAIN gameOutput[r] :
          c \in {gameOutput[r][k].client1, gameOutput[r][k].client2}

\* The room a client is with knows its name. A client left in the queue of a room
\* whose game is over is not known there any more.
KnownAtRoom(c) == \A r \in Room : WithRoom(c, r) => HasUsername(r, clientName[c])

\* The idle thread looks for a new name in its own clients and in the room table
\* only. That is enough, through hand-overs, pauses and reports: a name is never
\* given away while another open client has it, be he in the idle room, on the way
\* to a game, seated or coming back, unless the room he is with has forgotten him.
NamesGivenOnce ==
    [][\A c, d \in Client :
          /\ c # d /\ ~HasName(c) /\ clientName'[c] # NoName
          /\ conn[d] = "open" /\ clientName[d] = clientName'[c]
          => ~KnownAtRoom(d)]_vars

-----------------------------------------------------------------------------
(* What a game thread eventually does, unless the process fails *)

\* Clients handed to a game are served: whoever is in the input queue of a
\* running game is taken from it, however much the seated player sends, or the
\* game ends first.
InputServed ==
    \A r \in Room, c \in Client :
        InLoop(r) /\ game[r].isRunning /\ (\E k \in DOMAIN gameInput[r] : gameInput[r][k] = c)
            ~> \/ process # "up"
               \/ ~InLoop(r) \/ ~game[r].isRunning
               \/ \A k \in DOMAIN gameInput[r] : gameInput[r][k] # c

\* No thread runs on without players: a game that has none, because its first
\* clients are still handed over or because the last one left, gets one or ends.
\* Otherwise the room would stay RUNNING and nobody could play in it again.
NoEmptyGame ==
    \A r \in Room :
        game[r].thread # "none" /\ NoPlayerOnline(game[r])
            ~> \/ process # "up"
               \/ game[r].thread = "none" \/ ~NoPlayerOnline(game[r])

\* A game that is over is reported: once a player has left or an exception has
\* ended the loop, the remaining players are handed back and the thread is gone.
OverGamesReport ==
    \A r \in Room :
        game[r].thread # "none" /\ ~game[r].isRunning
            ~> process # "up" \/ game[r].thread = "none"

-----------------------------------------------------------------------------
(* What a comment of the repository says, and the code does not do         *)

\* "After this the object will destruct and any clients will be returned to
\* idle thread": nobody is left in the queues of a room whose game is over.
NobodyStranded == \A r \in Room : gameState[r] = "IDLE" => gameInput[r] = <<>>
=============================================================================
