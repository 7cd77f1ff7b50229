-------------------------------- MODULE Game --------------------------------
(***************************************************************************)
(* The game thread of a room: a Game object, alive from startGame until    *)
(* its destructor has pushed the IDLE state change.                        *)
(*                                                                         *)
(* The thread waits in epoll for a batch of events (GameWaitForEvents) and *)
(* dispatches them one descriptor at a time.  Everything a handler does is *)
(* private to the thread except its pushes and pops, so a handler is one   *)
(* action, with two exceptions that other threads can see: the messages of *)
(* one read are processed one per action, and so are the clients the       *)
(* handler of the input queue takes out.                                   *)
(*                                                                         *)
(* A handler calls functions that change the same state one after the      *)
(* other.  They are written as operators on a world w, the record of what  *)
(* a game thread can change, and an action commits the last world.         *)
(***************************************************************************)
EXTENDS RoomStructs

CONSTANTS
    Edge,      \* the undirected edges between two different nodes of the board
    Losing,    \* the edge sets in which hasCycleOfLength3 finds a cycle
    Input,     \* the event descriptor of the room's input queue
    Missing,   \* a message field that is absent or that names nothing valid
    TooShort   \* an add_edge field of fewer than three characters

ASSUME GameAssumption ==
    /\ IsFiniteSet(Edge)
    /\ Losing \subseteq SUBSET Edge
    /\ {} \notin Losing
    /\ Input \notin Client
    /\ Nobody # Input
    /\ Missing \notin Edge
    /\ TooShort \notin Edge \cup {Missing}

VARIABLE game  \* per room: the Game object, or NoGame

Slot == {1, 2}   \* _player1 and _player2

NoTask == [fd |-> Nobody, left |-> 0, hangups |-> 0]

\* thread is "none" without a thread, "loop" in the event loop and "thrown"
\* once an exception has left it. lastSeen abstracts the clock: "never" is 0,
\* "expired" a time more than MAX_INACTIVITY_MS before now (in the unsigned
\* arithmetic of the code also one after now). events holds the descriptors of
\* the batch not yet dispatched; task is the one being dispatched, with the
\* number of messages and of hang-up handler calls it still has to process.
NewGame ==
    [thread |-> "loop", isRunning |-> TRUE, isPaused |-> FALSE,
     isPlayerOneTurn |-> TRUE,
     client |-> [i \in Slot |-> Nobody],
     lastSeen |-> [i \in Slot |-> "never"],
     graph |-> [i \in Slot |-> {}],
     events |-> {}, task |-> NoTask]

NoGame == [NewGame EXCEPT !.thread = "none"]

Task == [fd : Client \cup {Nobody, Input}, left : 0 .. MaxBatch, hangups : 0 .. 2]

GameRecord ==
    [thread : {"none", "loop", "thrown"}, isRunning : BOOLEAN, isPaused : BOOLEAN,
     isPlayerOneTurn : BOOLEAN,
     client : [Slot -> ClientOrNobody],
     lastSeen : [Slot -> {"never", "recent", "expired"}],
     graph : [Slot -> SUBSET Edge],
     events : SUBSET (Client \cup {Input}), task : Task]

GameTypeOK == game \in [Room -> GameRecord]

GameInit == game = [r \in Room |-> NoGame]

GameMessage ==
         {[method |-> "GAME_COMMAND", arg |-> e] : e \in Edge \cup {Missing, TooShort}}
    \cup {[method |-> m, arg |-> Missing] : m \in {"GAME_LEAVE", "GAME_PING", "OTHER"}}

-----------------------------------------------------------------------------
(* Worlds *)

World(r) == [g |-> game[r], out |-> gameOutput[r], denied |-> reqDeniedCnt,
             conn |-> conn, defined |-> TRUE]

Commit(r, w) ==
    /\ process' = IF w.defined THEN "up" ELSE "undefined"
    /\ game' = [game EXCEPT ![r] = w.g]
    /\ gameOutput' = [gameOutput EXCEPT ![r] = w.out]
    /\ reqDeniedCnt' = w.denied
    /\ conn' = w.conn

\* An exception that only startGameLoop catches.
Throw(w) == [w EXCEPT !.g.thread = "thrown", !.g.isRunning = FALSE]

\* A null or dangling client is used: nothing is known of what follows.
Undefined(w) == [w EXCEPT !.defined = FALSE]

Interrupted(w) == w.g.thread = "thrown" \/ ~w.defined

Online(g, i) == g.client[i] # Nobody
BothPlayersOnline(g) == \A i \in Slot : Online(g, i)
NoPlayerOnline(g) == \A i \in Slot : ~Online(g, i)

\* getPlayer(clientFd) finds a slot, or throws when there is none.
HasPlayer(g, c) == \E i \in Slot : g.client[i] = c
PlayerSlot(g, c) == IF g.client[1] = c THEN 1 ELSE 2
Other(i) == 3 - i

-----------------------------------------------------------------------------
(* The functions the handlers are made of *)

\* Mutant: the pause is not reported.
PauseGameSilently(w) == [w EXCEPT !.g.isPaused = TRUE]

\* Mutant: the pause is reported, and the game goes on.
ReportPauseOnly(w) == [w EXCEPT !.out = Append(@, PausedChange)]

PauseGame(w) == [w EXCEPT !.g.isPaused = TRUE, !.out = Append(@, PausedChange)]

\* Mutant: a game whose last player has left goes on.
NobodyEndsGame(w, c) ==
    PauseGame([w EXCEPT
        !.g.client = [i \in Slot |-> IF @[i] = c THEN Nobody ELSE @[i]],
        !.conn = [d \in Client |-> IF d = c /\ HasPlayer(w.g, c) THEN "closed" ELSE @[d]]])

\* A slot that holds c is emptied, which destroys the client and closes its
\* socket. Then the game ends or, with a player left, it is paused.
OnClientDisconnect(w, c) ==
    LET w1 == [w EXCEPT
                 !.g.client = [i \in Slot |-> IF @[i] = c THEN Nobody ELSE @[i]],
                 !.conn = [d \in Client |-> IF d = c /\ HasPlayer(w.g, c)
                                            THEN "closed" ELSE @[d]]]
    IN  IF NoPlayerOnline(w1.g)
        THEN [w1 EXCEPT !.g.isRunning = FALSE]
        ELSE PauseGame(w1)

GameDenyRequest(w, c) ==
    IF TooManyDenials(w.denied[c])
    THEN OnClientDisconnect(w, c)
    ELSE [w EXCEPT !.denied[c] = @ + 1]

\* c's own time has just been set, so only the other player can be found
\* inactive.
UpdateClientLastSeen(w, c) ==
    IF ~HasPlayer(w.g, c)
    THEN Throw(w)
    ELSE LET i == PlayerSlot(w.g, c)
             j == Other(i)
             w1 == [w EXCEPT !.g.lastSeen[i] = "recent"]
         IN  IF w.g.lastSeen[j] = "expired" /\ Online(w.g, j)
             THEN OnClientDisconnect(w1, w.g.client[j])
             ELSE w1

\* Mutant: only the first player's graph is cleared.
ClearFirstGraph(graph) == [graph EXCEPT ![1] = {}]

ClearGame(graph) == [i \in Slot |-> {}]

\* An edge nobody has yet is added to the player's graph and the turn passes.
\* A player whose graph now has a triangle loses, and both graphs are cleared.
AddEdge(w, i, e) ==
    LET graph == [w.g.graph EXCEPT ![i] = @ \cup {e}]
        lost == graph[i] \in Losing
    IN  [w EXCEPT !.g.isPlayerOneTurn = ~@,
                  !.g.graph = IF lost THEN ClearGame(graph) ELSE graph]

\* Mutant: whose turn it is is not asked.
AnybodyOnTurn(g, i) == TRUE

OnTurn(g, i) == i = IF g.isPlayerOneTurn THEN 1 ELSE 2

\* The turn check reads the client of the slot whose turn it is not,
\* without asking whether that player is online.
ProcessGameCommand(w, c, arg) ==
    LET g == w.g
        i == PlayerSlot(g, c)
        waiting == IF g.isPlayerOneTurn THEN 2 ELSE 1
    IN  IF g.isPaused THEN GameDenyRequest(w, c)
        ELSE IF ~Online(g, waiting) THEN Undefined(w)
        ELSE IF ~OnTurn(g, i) \/ arg = Missing THEN GameDenyRequest(w, c)
        ELSE IF arg = TooShort THEN Throw(w)
        ELSE IF \E j \in Slot : arg \in g.graph[j] THEN GameDenyRequest(w, c)
        ELSE AddEdge(w, i, arg)

\* The last call reads the client's descriptor even if the client has just been
\* disconnected and destroyed; what it then reads can be any descriptor.
ProcessClientMessage(w, c, m) ==
    LET w1 == CASE m.method = "GAME_COMMAND" -> ProcessGameCommand(w, c, m.arg)
                [] m.method = "GAME_LEAVE"   -> [w EXCEPT !.g.isRunning = FALSE]
                [] m.method = "GAME_PING"    -> w
                [] OTHER                     -> GameDenyRequest(w, c)
    IN  IF Interrupted(w1) THEN {w1}
        ELSE {UpdateClientLastSeen(w1, d) :
                 d \in IF HasPlayer(w1.g, c) THEN {c} ELSE Client}

\* A client taken from the input queue becomes the first player that is
\* missing. With two players the game (re)starts, and the second is used
\* after a call that can have disconnected it.
SeatClient(w, c) ==
    LET i == IF Online(w.g, 1) THEN 2 ELSE 1
        w1 == [w EXCEPT !.g.client[i] = c]
    IN  IF ~BothPlayersOnline(w1.g) THEN w1
        ELSE LET w2 == UpdateClientLastSeen([w1 EXCEPT !.g.isPaused = FALSE],
                                            w1.g.client[1])
             IN  IF ~Online(w2.g, 2) THEN Undefined(w2)
                 ELSE UpdateClientLastSeen(w2, w2.g.client[2])

\* A task with nothing left to do is over.
Remaining(task) == IF task.left = 0 /\ task.hangups = 0 THEN NoTask ELSE task

-----------------------------------------------------------------------------
(* Steps of the game thread of room r *)

gameKeeps == <<clientName, newClientsQueue>>

InLoop(r) == game[r].thread = "loop"

\* Mutant: clients in the input queue are only reported if no player writes.
PlayersFirst(r) ==
    /\ InLoop(r) /\ game[r].isRunning
    /\ game[r].events = {} /\ game[r].task = NoTask
    /\ \E players \in SUBSET ({game[r].client[i] : i \in Slot} \ {Nobody}) :
          LET ready == IF players = {} /\ gameInput[r] # <<>> THEN {Input} ELSE players
          IN  /\ ready # {}
              /\ game' = [game EXCEPT ![r].events = ready]
    /\ UNCHANGED sharedVars

\* epoll_wait returns whatever is ready: the input queue if it has clients, and
\* any of the players. The loop condition is only tested between two batches.
GameWaitForEvents(r) ==
    /\ InLoop(r) /\ game[r].isRunning
    /\ game[r].events = {} /\ game[r].task = NoTask
    /\ \E players \in SUBSET ({game[r].client[i] : i \in Slot} \ {Nobody}) :
          LET ready == players \cup IF gameInput[r] # <<>> THEN {Input} ELSE {}
          IN  /\ ready # {}
              /\ game' = [game EXCEPT ![r].events = ready]
    /\ UNCHANGED sharedVars

\* The input queue's handler runs until it finds the queue empty.
GameDispatchInput(r) ==
    /\ InLoop(r) /\ game[r].task = NoTask
    /\ Input \in game[r].events
    /\ game' = [game EXCEPT ![r].events = @ \ {Input}, ![r].task.fd = Input]
    /\ UNCHANGED sharedVars

GameOnNewClientConnect(r) ==
    /\ InLoop(r) /\ game[r].task.fd = Input
    /\ IF gameInput[r] = <<>>
       THEN /\ game' = [game EXCEPT ![r].task = NoTask]
            /\ UNCHANGED sharedVars
       ELSE /\ IF BothPlayersOnline(game[r])
               THEN Commit(r, Throw(World(r))) /\ UNCHANGED gameInput
               ELSE /\ Commit(r, SeatClient(World(r), Head(gameInput[r])))
                    /\ gameInput' = [gameInput EXCEPT ![r] = Tail(@)]
            /\ UNCHANGED gameKeeps

\* An event of client c: its messages, then up to two hang-up events. c may
\* have been disconnected by an earlier event of the batch.
GameOnClientWrite(r, c) ==
    /\ InLoop(r) /\ game[r].task = NoTask
    /\ c \in game[r].events
    /\ LET w == [World(r) EXCEPT !.g.events = @ \ {c}]
       IN  IF ~HasPlayer(game[r], c) THEN Commit(r, Throw(w))
           ELSE \E left \in 0 .. MaxBatch, hangups \in 0 .. 2 :
                   Commit(r, [w EXCEPT !.g.task =
                       Remaining([fd |-> c, left |-> left, hangups |-> hangups])])
    /\ UNCHANGED <<gameInput, gameKeeps>>

\* The read fails, or what was read breaks the protocol's format.
GameOnClientWriteFails(r, c) ==
    /\ InLoop(r) /\ game[r].task = NoTask
    /\ c \in game[r].events /\ HasPlayer(game[r], c)
    /\ \E hangups \in 0 .. 2 :
          Commit(r, OnClientDisconnect(
              [World(r) EXCEPT !.g.events = @ \ {c},
                  !.g.task = Remaining([fd |-> c, left |-> 0, hangups |-> hangups])], c))
    /\ UNCHANGED <<gameInput, gameKeeps>>

GameProcessMessage(r, c) ==
    /\ InLoop(r) /\ game[r].task.fd = c /\ game[r].task.left > 0
    /\ LET w == [World(r) EXCEPT !.g.task = Remaining([game[r].task EXCEPT !.left = @ - 1])]
       IN  IF ~HasPlayer(game[r], c) THEN Commit(r, Undefined(w))
           ELSE \E m \in GameMessage : \E w1 \in ProcessClientMessage(w, c, m) :
                   Commit(r, w1)
    /\ UNCHANGED <<gameInput, gameKeeps>>

GameOnHangup(r, c) ==
    /\ InLoop(r) /\ game[r].task.fd = c
    /\ game[r].task.left = 0 /\ game[r].task.hangups > 0
    /\ Commit(r, OnClientDisconnect(
           [World(r) EXCEPT !.g.task = Remaining([game[r].task EXCEPT !.hangups = @ - 1])], c))
    /\ UNCHANGED <<gameInput, gameKeeps>>

\* Mutant: the second player is not handed back.
EndReportOfFirst(g) == Change("IDLE", g.client[1], Nobody)

EndReport(g) == Change("IDLE", g.client[1], g.client[2])

\* Mutant: only the loop condition ends a game, not an exception.
ExitByCondition(r) ==
    /\ InLoop(r) /\ ~game[r].isRunning
    /\ game[r].events = {} /\ game[r].task = NoTask
    /\ gameOutput' = [gameOutput EXCEPT ![r] = Append(@, EndReport(game[r]))]
    /\ game' = [game EXCEPT ![r] = NoGame]
    /\ UNCHANGED <<process, conn, reqDeniedCnt, gameInput, gameKeeps>>

\* The loop has ended, by its condition or by an exception, and the destructor
\* hands the remaining clients back. What is in the input queue stays there.
GameExit(r) ==
    /\ \/ game[r].thread = "thrown"
       \/ /\ InLoop(r) /\ ~game[r].isRunning
          /\ game[r].events = {} /\ game[r].task = NoTask
    /\ gameOutput' = [gameOutput EXCEPT ![r] = Append(@, EndReport(game[r]))]
    /\ game' = [game EXCEPT ![r] = NoGame]
    /\ UNCHANGED <<process, conn, reqDeniedCnt, gameInput, gameKeeps>>

\* Time passes: a player was last seen too long ago.
InactivityExpires(r, i) ==
    /\ game[r].lastSeen[i] = "recent"
    /\ game' = [game EXCEPT ![r].lastSeen[i] = "expired"]
    /\ UNCHANGED sharedVars

GameNext(r) ==
    \/ GameWaitForEvents(r)
    \/ GameDispatchInput(r)
    \/ GameOnNewClientConnect(r)
    \/ \E c \in Client : \/ GameOnClientWrite(r, c)
                         \/ GameOnClientWriteFails(r, c)
                         \/ GameProcessMessage(r, c)
                         \/ GameOnHangup(r, c)
    \/ GameExit(r)
    \/ \E i \in Slot : InactivityExpires(r, i)
=============================================================================
