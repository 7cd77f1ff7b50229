--------------------------- MODULE PlayerProofs ---------------------------
(***************************************************************************)
(* What the players are promised: their game is played by its rules, a     *)
(* pause reaches the idle thread, names are given once, and a game in      *)
(* which a player is missing is paused.                                    *)
(*                                                                         *)
(* A handler of a game thread takes the thread from world to world.  All   *)
(* but one of the functions it is made of are quiet: they leave the board  *)
(* alone and pause the game only by reporting it.  AddEdge is the other.   *)
(***************************************************************************)
EXTENDS ClientProofs

SameBoard(w, w2) ==
    /\ w2.g.graph = w.g.graph
    /\ w2.g.isPlayerOneTurn = w.g.isPlayerOneTurn

PausedIn(out) == \E k \in DOMAIN out : out[k].newState = "PAUSED"

PauseKept(w, w2) ==
    /\ w2.g.isPaused => w.g.isPaused \/ PausedIn(w2.out)
    /\ PausedIn(w.out) => PausedIn(w2.out)

Quiet(w, w2) == SameBoard(w, w2) /\ PauseKept(w, w2)

LEMMA QuietTransitive ==
    ASSUME NEW w1, NEW w2, NEW w3, Quiet(w1, w2), Quiet(w2, w3) PROVE Quiet(w1, w3)
BY DEF Quiet, SameBoard, PauseKept

\* Changes of a world that the board and the pause do not see.
LEMMA QuietChanges ==
    ASSUME NEW w, LiveWorld(w)
    PROVE  /\ Quiet(w, w)
           /\ Quiet(w, Throw(w))
           /\ Quiet(w, Undefined(w))
           /\ Quiet(w, [w EXCEPT !.g.isRunning = FALSE])
           /\ Quiet(w, [w EXCEPT !.g.isPaused = FALSE])
           /\ \A i \in Slot : Quiet(w, [w EXCEPT !.g.lastSeen[i] = "recent"])
           /\ \A i \in Slot, c \in Client : Quiet(w, [w EXCEPT !.g.client[i] = c])
           /\ \A c \in Client : Quiet(w, [w EXCEPT !.denied[c] = @ + 1])
           /\ \A events, task : Quiet(w, [w EXCEPT !.g.events = events, !.g.task = task])
BY DEF LiveWorld, WorldRecord, GameRecord, Quiet, SameBoard, PauseKept, PausedIn, Throw, Undefined

LEMMA PausedReported ==
    ASSUME NEW out \in Seq(GameStateChange)
    PROVE  PausedIn(Append(out, PausedChange))
<1>1. /\ Append(out, PausedChange)[Len(out) + 1] = PausedChange
      /\ Len(out) + 1 \in DOMAIN Append(out, PausedChange)
  OBVIOUS
<1>2. PausedChange.newState = "PAUSED"
  BY DEF PausedChange, Change
<1> QED
  BY <1>1, <1>2 DEF PausedIn

LEMMA OnClientDisconnectQuiet ==
    ASSUME NEW w, LiveWorld(w), NEW c \in Client
    PROVE  Quiet(w, OnClientDisconnect(w, c))
<1> DEFINE w1 == [w EXCEPT
                 !.g.client = [i \in Slot |-> IF @[i] = c THEN Nobody ELSE @[i]],
                 !.conn = [d \in Client |-> IF d = c /\ HasPlayer(w.g, c)
                                            THEN "closed" ELSE @[d]]]
<1>1. LiveWorld(w1) /\ Quiet(w, w1)
  BY DEF LiveWorld, WorldRecord, GameRecord, ClientOrNobody, Slot,
         Quiet, SameBoard, PauseKept, PausedIn
<1>2. Quiet(w1, [w1 EXCEPT !.g.isRunning = FALSE])
  BY <1>1, QuietChanges
<1>3. Quiet(w1, PauseGame(w1))
  <2>1. w1.out \in Seq(GameStateChange)
    BY <1>1 DEF LiveWorld, WorldRecord
  <2>2. PausedIn(PauseGame(w1).out) /\ SameBoard(w1, PauseGame(w1))
    BY <1>1, <2>1, PausedReported DEF PauseGame, LiveWorld, WorldRecord, GameRecord, SameBoard
  <2> QED
    BY <2>2 DEF Quiet, PauseKept
<1>4. \/ OnClientDisconnect(w, c) = [w1 EXCEPT !.g.isRunning = FALSE]
      \/ OnClientDisconnect(w, c) = PauseGame(w1)
  BY DEF OnClientDisconnect
<1> HIDE DEF w1
<1>5. Quiet(w, [w1 EXCEPT !.g.isRunning = FALSE])
  BY <1>1, <1>2, QuietTransitive
<1>6. Quiet(w, PauseGame(w1))
  BY <1>1, <1>3, QuietTransitive
<1> QED
  BY <1>4, <1>5, <1>6

LEMMA GameDenyRequestQuiet ==
    ASSUME NEW w, LiveWorld(w), NEW c \in Client
    PROVE  Quiet(w, GameDenyRequest(w, c))
BY OnClientDisconnectQuiet, QuietChanges DEF GameDenyRequest

LEMMA UpdateClientLastSeenQuiet ==
    ASSUME NEW w, LiveWorld(w), NEW c \in Client
    PROVE  Quiet(w, UpdateClientLastSeen(w, c))
<1> DEFINE i == PlayerSlot(w.g, c)
           j == Other(i)
           w1 == [w EXCEPT !.g.lastSeen[i] = "recent"]
<1>1. CASE ~HasPlayer(w.g, c)
  BY <1>1, QuietChanges DEF UpdateClientLastSeen
<1>2. CASE HasPlayer(w.g, c)
  <2>1. i \in Slot /\ j \in Slot
    BY PlayerSlotIsSlot
  <2>2. LiveWorld(w1) /\ Quiet(w, w1)
    BY <2>1, QuietChanges DEF LiveWorld, WorldRecord, GameRecord
  <2>3. CASE Online(w.g, j)
    <3>1. w.g.client[j] \in Client
      BY <2>1, <2>3 DEF Online, ClientOrNobody, LiveWorld, WorldRecord, GameRecord
    <3>2. Quiet(w, OnClientDisconnect(w1, w.g.client[j]))
      BY <2>2, <3>1, OnClientDisconnectQuiet, QuietTransitive
    <3> QED
      BY <1>2, <2>2, <3>2 DEF UpdateClientLastSeen
  <2>4. CASE ~Online(w.g, j)
    BY <1>2, <2>2, <2>4 DEF UpdateClientLastSeen
  <2> QED
    BY <2>3, <2>4
<1> QED
  BY <1>1, <1>2

LEMMA SeatClientQuiet ==
    ASSUME NEW w, LiveWorld(w), NEW c \in Client
    PROVE  Quiet(w, SeatClient(w, c))
<1> DEFINE i == IF Online(w.g, 1) THEN 2 ELSE 1
           w1 == [w EXCEPT !.g.client[i] = c]
           w1a == [w1 EXCEPT !.g.isPaused = FALSE]
           w2 == UpdateClientLastSeen(w1a, w1.g.client[1])
<1>1. i \in Slot
  BY DEF Slot
<1>2. LiveWorld(w1) /\ Quiet(w, w1)
  BY <1>1, QuietChanges DEF LiveWorld, WorldRecord, GameRecord, ClientOrNobody
<1>3. CASE ~BothPlayersOnline(w1.g)
  BY <1>2, <1>3 DEF SeatClient
<1>4. CASE BothPlayersOnline(w1.g)
  <2>1. LiveWorld(w1a) /\ Quiet(w1, w1a)
    BY <1>2, QuietChanges, ZenonT(30) DEF LiveWorld, WorldRecord, GameRecord
  <2>2. w1.g.client[1] \in Client
    BY <1>2, <1>4 DEF LiveWorld, WorldRecord, GameRecord, ClientOrNobody, Slot,
                      BothPlayersOnline, Online
  <2>3. LiveWorld(w2) /\ Quiet(w1a, w2)
    BY <2>1, <2>2, UpdateClientLastSeenLive, UpdateClientLastSeenQuiet
  <2>4. Quiet(w, w2)
    BY <1>2, <2>1, <2>3, QuietTransitive
  <2>5. CASE ~Online(w2.g, 2)
    <3>1. Quiet(w, Undefined(w2))
      BY <2>3, <2>4, QuietChanges, QuietTransitive
    <3> QED
      BY <1>4, <2>5, <3>1 DEF SeatClient
  <2>6. CASE Online(w2.g, 2)
    <3>1. w2.g.client[2] \in Client
      BY <2>3, <2>6, ZenonT(30) DEF LiveWorld, WorldRecord, GameRecord, ClientOrNobody, Slot, Online
    <3>2. Quiet(w, UpdateClientLastSeen(w2, w2.g.client[2]))
      BY <2>3, <2>4, <3>1, UpdateClientLastSeenQuiet, QuietTransitive
    <3> QED
      BY <1>4, <2>6, <3>2 DEF SeatClient
  <2> QED
    BY <2>5, <2>6
<1> QED
  BY <1>3, <1>4

-----------------------------------------------------------------------------
(* Moves *)

\* The player on turn in w has drawn e in w2, in the words of Sim.
Drawn(w, w2, e) ==
    LET i == IF w.g.isPlayerOneTurn THEN 1 ELSE 2
        drawn == w.g.graph[i] \cup {e}
    IN  /\ \A j \in Slot : e \notin w.g.graph[j]
        /\ w2.g.isPlayerOneTurn = ~w.g.isPlayerOneTurn
        /\ w2.g.graph = IF drawn \in Losing THEN [j \in Slot |-> {}]
                        ELSE [w.g.graph EXCEPT ![i] = drawn]

Moved(w, w2) ==
    /\ PauseKept(w, w2)
    /\ SameBoard(w, w2) \/ \E e \in Edge : Drawn(w, w2, e)

LEMMA QuietAndMoved ==
    ASSUME NEW w1, NEW w2, NEW w3
    PROVE  /\ Quiet(w1, w2) => Moved(w1, w2)
           /\ Moved(w1, w2) /\ Quiet(w2, w3) => Moved(w1, w3)
           /\ Quiet(w1, w2) /\ Moved(w2, w3) => Moved(w1, w3)
BY DEF Quiet, Moved, SameBoard, PauseKept, Drawn

LEMMA AddEdgeDraws ==
    ASSUME NEW w, LiveWorld(w), NEW i \in Slot, OnTurn(w.g, i), NEW e \in Edge,
           \A j \in Slot : e \notin w.g.graph[j]
    PROVE  Moved(w, AddEdge(w, i, e))
<1>1. w.g.graph \in [Slot -> SUBSET Edge] /\ w.g.isPlayerOneTurn \in BOOLEAN
  BY DEF LiveWorld, WorldRecord, GameRecord
<1> DEFINE drawn == [w.g.graph EXCEPT ![i] = @ \cup {e}]
           after == IF drawn[i] \in Losing THEN ClearGame(drawn) ELSE drawn
<1>2. AddEdge(w, i, e) = [w EXCEPT !.g.isPlayerOneTurn = ~@, !.g.graph = after]
  BY DEF AddEdge
<1>3. \A g : LET w2 == [w EXCEPT !.g.isPlayerOneTurn = ~@, !.g.graph = g]
            IN  /\ w2.g.isPlayerOneTurn = ~w.g.isPlayerOneTurn
                /\ w2.g.graph = g
                /\ w2.g.isPaused = w.g.isPaused
                /\ w2.out = w.out
  BY DEF LiveWorld, WorldRecord, GameRecord
<1>4. /\ drawn[i] = w.g.graph[i] \cup {e}
      /\ after = IF w.g.graph[i] \cup {e} \in Losing THEN [j \in Slot |-> {}]
                 ELSE [w.g.graph EXCEPT ![i] = w.g.graph[i] \cup {e}]
  BY <1>1 DEF ClearGame
<1> HIDE DEF drawn, after
<1>5. /\ AddEdge(w, i, e).g.isPlayerOneTurn = ~w.g.isPlayerOneTurn
      /\ AddEdge(w, i, e).g.graph = after
      /\ AddEdge(w, i, e).g.isPaused = w.g.isPaused
      /\ AddEdge(w, i, e).out = w.out
  BY <1>2, <1>3
<1>6. Drawn(w, AddEdge(w, i, e), e)
  BY <1>4, <1>5 DEF Drawn, OnTurn
<1> QED
  BY <1>5, <1>6 DEF Moved, PauseKept

LEMMA ProcessGameCommandMoves ==
    ASSUME NEW w, LiveWorld(w), NEW c \in Client,
           NEW arg \in Edge \cup {Missing, TooShort}
    PROVE  Moved(w, ProcessGameCommand(w, c, arg))
<1>1. PlayerSlot(w.g, c) \in Slot
  BY PlayerSlotIsSlot
<1>2. /\ Quiet(w, GameDenyRequest(w, c))
      /\ Quiet(w, Undefined(w))
      /\ Quiet(w, Throw(w))
  BY GameDenyRequestQuiet, QuietChanges
<1>3. \/ ProcessGameCommand(w, c, arg) \in {GameDenyRequest(w, c), Undefined(w), Throw(w)}
      \/ /\ OnTurn(w.g, PlayerSlot(w.g, c)) /\ arg \in Edge
         /\ \A j \in Slot : arg \notin w.g.graph[j]
         /\ ProcessGameCommand(w, c, arg) = AddEdge(w, PlayerSlot(w.g, c), arg)
  BY DEF ProcessGameCommand
<1> QED
  BY <1>1, <1>2, <1>3, AddEdgeDraws, QuietAndMoved

LEMMA ProcessClientMessageMoves ==
    ASSUME NEW w, LiveWorld(w), NEW c \in Client, NEW m \in GameMessage,
           NEW w2 \in ProcessClientMessage(w, c, m)
    PROVE  Moved(w, w2)
<1> DEFINE w1 == CASE m.method = "GAME_COMMAND" -> ProcessGameCommand(w, c, m.arg)
                   [] m.method = "GAME_LEAVE"   -> [w EXCEPT !.g.isRunning = FALSE]
                   [] m.method = "GAME_PING"    -> w
                   [] OTHER                     -> GameDenyRequest(w, c)
<1>1. m.method = "GAME_COMMAND" => m.arg \in Edge \cup {Missing, TooShort}
  BY DEF GameMessage
<1>2. LiveWorld([w EXCEPT !.g.isRunning = FALSE])
  BY DEF LiveWorld, WorldRecord, GameRecord
<1>3. LiveWorld(w1)
  BY <1>1, <1>2, ProcessGameCommandLive, GameDenyRequestLive
<1>4. \/ m.method = "GAME_COMMAND" /\ w1 = ProcessGameCommand(w, c, m.arg)
      \/ w1 = [w EXCEPT !.g.isRunning = FALSE]
      \/ w1 = w
      \/ w1 = GameDenyRequest(w, c)
  OBVIOUS
<1>5. w2 = w1 \/ \E d \in Client : w2 = UpdateClientLastSeen(w1, d)
  BY DEF ProcessClientMessage
<1> HIDE DEF w1
<1>6. Moved(w, w1)
  <2>1. /\ Quiet(w, [w EXCEPT !.g.isRunning = FALSE])
        /\ Quiet(w, w)
        /\ Quiet(w, GameDenyRequest(w, c))
    BY QuietChanges, GameDenyRequestQuiet
  <2>2. m.method = "GAME_COMMAND" => Moved(w, ProcessGameCommand(w, c, m.arg))
    BY <1>1, ProcessGameCommandMoves
  <2> QED
    BY <1>4, <2>1, <2>2, QuietAndMoved
<1> QED
  BY <1>3, <1>5, <1>6, UpdateClientLastSeenQuiet, QuietAndMoved

-----------------------------------------------------------------------------
(* Steps of a game thread *)

\* The world of room r after a step.
WorldAfter(r) == [g |-> game'[r], out |-> gameOutput'[r]]

\* What any step of a thread but its exit does to its own room.
GameStep(r) ==
    /\ Moved(World(r), WorldAfter(r))
    /\ game[r].thread = "none" => game'[r].isPaused = game[r].isPaused
    /\ \A q \in Room \ {r} : game'[q] = game[q] /\ gameOutput'[q] = gameOutput[q]

LEMMA CommitIsGameStep ==
    ASSUME IInv, NEW r \in Room, InLoop(r), NEW w, Moved(World(r), w), Commit(r, w)
    PROVE  GameStep(r)
<1>1. game \in [Room -> GameRecord] /\ gameOutput \in [Room -> Seq(GameStateChange)]
  BY DEF IInv, TypeOK, SharedTypeOK, GameTypeOK
<1>2. WorldAfter(r).g = w.g /\ WorldAfter(r).out = w.out
  BY <1>1 DEF WorldAfter, Commit
<1>3. Moved(World(r), WorldAfter(r))
  BY <1>2 DEF Moved, SameBoard, PauseKept, Drawn
<1> QED
  BY <1>1, <1>3 DEF GameStep, Commit, InLoop

\* A step that leaves the board, the pause and the reports alone.
LEMMA OtherFieldsGameStep ==
    ASSUME IInv, NEW r \in Room, NEW g, game' = [game EXCEPT ![r] = g], UNCHANGED gameOutput,
           g.graph = game[r].graph, g.isPlayerOneTurn = game[r].isPlayerOneTurn,
           g.isPaused = game[r].isPaused
    PROVE  GameStep(r)
<1>1. game \in [Room -> GameRecord]
  BY DEF IInv, TypeOK, GameTypeOK
<1>2. WorldAfter(r).g = g /\ WorldAfter(r).out = gameOutput[r]
  BY <1>1 DEF WorldAfter
<1>3. World(r).g = game[r] /\ World(r).out = gameOutput[r]
  BY DEF World
<1>4. Moved(World(r), WorldAfter(r))
  BY <1>2, <1>3 DEF Moved, SameBoard, PauseKept
<1> QED
  BY <1>1, <1>4, <1>2 DEF GameStep

LEMMA GameNextSteps ==
    ASSUME IInv, NEW r \in Room, GameNext(r)
    PROVE  GameExit(r) \/ GameStep(r)
<1>0. /\ game \in [Room -> GameRecord]
      /\ gameInput \in [Room -> Seq(Client)]
      /\ game[r].task \in Task
  BY DEF IInv, TypeOK, SharedTypeOK, GameTypeOK, GameRecord
<1>1. ASSUME NEW i \in Slot, InactivityExpires(r, i) PROVE GameStep(r)
  <2> DEFINE g == [game[r] EXCEPT !.lastSeen[i] = "expired"]
  <2>1. /\ g.graph = game[r].graph /\ g.isPlayerOneTurn = game[r].isPlayerOneTurn
        /\ g.isPaused = game[r].isPaused
    BY <1>0 DEF GameRecord
  <2>2. game' = [game EXCEPT ![r] = g] /\ UNCHANGED gameOutput
    BY <1>0, <1>1 DEF InactivityExpires, sharedVars
  <2> QED
    BY <2>1, <2>2, OtherFieldsGameStep
<1>2. InLoop(r) => LiveWorld(World(r))
  BY WorldLive DEF IInv, InLoop
<1>3. ASSUME GameWaitForEvents(r) PROVE GameStep(r)
  <2>1. PICK ready : game' = [game EXCEPT ![r].events = ready] /\ UNCHANGED gameOutput
    BY <1>3 DEF GameWaitForEvents, sharedVars
  <2> DEFINE g == [game[r] EXCEPT !.events = ready]
  <2>2. /\ g.graph = game[r].graph /\ g.isPlayerOneTurn = game[r].isPlayerOneTurn
        /\ g.isPaused = game[r].isPaused
    BY <1>0 DEF GameRecord
  <2>3. game' = [game EXCEPT ![r] = g]
    BY <1>0, <2>1
  <2> QED
    BY <2>1, <2>2, <2>3, OtherFieldsGameStep
<1>4. ASSUME GameDispatchInput(r) PROVE GameStep(r)
  <2> DEFINE g == [game[r] EXCEPT !.events = @ \ {Input}, !.task = [@ EXCEPT !.fd = Input]]
  <2>1. /\ g.graph = game[r].graph /\ g.isPlayerOneTurn = game[r].isPlayerOneTurn
        /\ g.isPaused = game[r].isPaused
    BY <1>0 DEF GameRecord
  <2>2. game' = [game EXCEPT ![r] = g] /\ UNCHANGED gameOutput
    BY <1>0, <1>4 DEF GameDispatchInput, GameRecord, sharedVars
  <2> QED
    BY <2>1, <2>2, OtherFieldsGameStep
<1>5. ASSUME GameOnNewClientConnect(r) PROVE GameStep(r)
  <2>1. InLoop(r) /\ LiveWorld(World(r))
    BY <1>2, <1>5 DEF GameOnNewClientConnect
  <2>2. CASE gameInput[r] = <<>>
    <3> DEFINE g == [game[r] EXCEPT !.task = NoTask]
    <3>1. /\ g.graph = game[r].graph /\ g.isPlayerOneTurn = game[r].isPlayerOneTurn
          /\ g.isPaused = game[r].isPaused
      BY <1>0 DEF GameRecord
    <3>2. game' = [game EXCEPT ![r] = g] /\ UNCHANGED gameOutput
      BY <1>0, <1>5, <2>2 DEF GameOnNewClientConnect, sharedVars
    <3> QED
      BY <3>1, <3>2, OtherFieldsGameStep
  <2>3. CASE gameInput[r] # <<>>
    <3>1. Head(gameInput[r]) \in Client
      BY <1>0, <2>3
    <3>2. /\ Quiet(World(r), Throw(World(r)))
          /\ Quiet(World(r), SeatClient(World(r), Head(gameInput[r])))
      BY <2>1, <3>1, QuietChanges, SeatClientQuiet
    <3>3. \/ Commit(r, Throw(World(r)))
          \/ Commit(r, SeatClient(World(r), Head(gameInput[r])))
      BY <1>5, <2>3 DEF GameOnNewClientConnect
    <3> QED
      BY <2>1, <3>2, <3>3, QuietAndMoved, CommitIsGameStep
  <2> QED
    BY <2>2, <2>3
<1>6. ASSUME NEW c \in Client, GameOnClientWrite(r, c) PROVE GameStep(r)
  <2> DEFINE w == [World(r) EXCEPT !.g.events = @ \ {c}]
  <2>1. InLoop(r) /\ LiveWorld(w) /\ Quiet(World(r), w)
    BY <1>2, <1>6 DEF GameOnClientWrite, LiveWorld, WorldRecord, GameRecord,
                      Quiet, SameBoard, PauseKept
  <2>2. CASE ~HasPlayer(game[r], c)
    <3>1. Quiet(w, Throw(w))
      BY <2>1, QuietChanges
    <3>2. Quiet(World(r), Throw(w))
      BY <2>1, <3>1, QuietTransitive
    <3>3. Moved(World(r), Throw(w))
      BY <3>2, QuietAndMoved
    <3> QED
      BY <1>6, <2>1, <2>2, <3>3, CommitIsGameStep DEF GameOnClientWrite
  <2>3. CASE HasPlayer(game[r], c)
    <3>1. PICK task : Commit(r, [w EXCEPT !.g.task = task])
      BY <1>6, <2>3 DEF GameOnClientWrite
    <3>2. Moved(World(r), [w EXCEPT !.g.task = task])
      BY <2>1 DEF LiveWorld, WorldRecord, GameRecord, Moved, Quiet, SameBoard, PauseKept
    <3> QED
      BY <2>1, <3>1, <3>2, CommitIsGameStep
  <2> QED
    BY <2>2, <2>3
<1>7. ASSUME NEW c \in Client, GameOnClientWriteFails(r, c) PROVE GameStep(r)
  <2>1. InLoop(r) /\ LiveWorld(World(r))
    BY <1>2, <1>7 DEF GameOnClientWriteFails
  <2>2. PICK hangups \in 0 .. 2 :
           Commit(r, OnClientDisconnect(
             [World(r) EXCEPT !.g.events = @ \ {c},
                 !.g.task = Remaining([fd |-> c, left |-> 0, hangups |-> hangups])], c))
    BY <1>7 DEF GameOnClientWriteFails
  <2> DEFINE w == [World(r) EXCEPT !.g.events = @ \ {c},
                 !.g.task = Remaining([fd |-> c, left |-> 0, hangups |-> hangups])]
  <2>3. [fd |-> c, left |-> 0, hangups |-> hangups] \in Task
    BY RoomStructsAssumption DEF Task, RoomStructsAssumption
  <2>4. LiveWorld(w) /\ Quiet(World(r), w)
    BY <2>1, <2>3, RemainingTask DEF LiveWorld, WorldRecord, GameRecord,
                                     Quiet, SameBoard, PauseKept
  <2> HIDE DEF w
  <2>5. Moved(World(r), OnClientDisconnect(w, c))
    BY <2>4, OnClientDisconnectQuiet, QuietTransitive, QuietAndMoved
  <2> QED
    BY <2>1, <2>2, <2>5, CommitIsGameStep DEF w
<1>8. ASSUME NEW c \in Client, GameProcessMessage(r, c) PROVE GameStep(r)
  <2> DEFINE w == [World(r) EXCEPT !.g.task = Remaining([game[r].task EXCEPT !.left = @ - 1])]
  <2>1. InLoop(r) /\ LiveWorld(World(r)) /\ game[r].task.left > 0
    BY <1>2, <1>8 DEF GameProcessMessage
  <2>2. LiveWorld(w)
    BY <2>1, TaskLive
  <2>3. Quiet(World(r), w)
    BY <2>1 DEF LiveWorld, WorldRecord, GameRecord, Quiet, SameBoard, PauseKept
  <2>4. PICK w1 : /\ Commit(r, w1)
                  /\ \/ w1 = Undefined(w)
                     \/ \E m \in GameMessage : w1 \in ProcessClientMessage(w, c, m)
    BY <1>8 DEF GameProcessMessage
  <2> HIDE DEF w
  <2>5. Moved(w, w1)
    BY <2>2, <2>4, QuietChanges, QuietAndMoved, ProcessClientMessageMoves
  <2>6. Moved(World(r), w1)
    BY <2>3, <2>5, QuietAndMoved
  <2> QED
    BY <2>1, <2>4, <2>6, CommitIsGameStep
<1>9. ASSUME NEW c \in Client, GameOnHangup(r, c) PROVE GameStep(r)
  <2> DEFINE w == [World(r) EXCEPT !.g.task = Remaining([game[r].task EXCEPT !.hangups = @ - 1])]
  <2>1. InLoop(r) /\ LiveWorld(World(r)) /\ game[r].task.hangups > 0 /\ Commit(r, OnClientDisconnect(w, c))
    BY <1>2, <1>9 DEF GameOnHangup
  <2>2. LiveWorld(w)
    BY <2>1, TaskLive
  <2>3. Quiet(World(r), w)
    BY <2>1 DEF LiveWorld, WorldRecord, GameRecord, Quiet, SameBoard, PauseKept
  <2> HIDE DEF w
  <2>4. Moved(World(r), OnClientDisconnect(w, c))
    BY <2>2, <2>3, OnClientDisconnectQuiet, QuietTransitive, QuietAndMoved
  <2> QED
    BY <2>1, <2>4, CommitIsGameStep
<1> QED
  BY <1>1, <1>3, <1>4, <1>5, <1>6, <1>7, <1>8, <1>9 DEF GameNext

\* A step that clears the Game object of room r, because a thread starts or ends.
NewObject(r) ==
    /\ game' = [game EXCEPT ![r] = NewGame] \/ game' = [game EXCEPT ![r] = NoGame]
    /\ \A q \in Room \ {r} : UNCHANGED <<gameState[q], gameOutput[q]>>

\* The games change only in steps of their threads and when a thread starts.
LEMMA NextSteps ==
    ASSUME IInv, [Next]_vars
    PROVE  \/ UNCHANGED game /\ (AcceptNext \/ IdleNext \/ UNCHANGED vars)
           \/ \E r \in Room : NewObject(r)
           \/ \E r \in Room : GameStep(r) /\ UNCHANGED gameState /\ SameLife
<1>0. IdleTyped
  BY IdleTypes
<1>1. CASE AcceptNext \/ UNCHANGED vars
  BY <1>1 DEF AcceptNext, TcpAcceptLoop, vars
<1>2. CASE GamesNext
  <2>1. PICK r \in Room : GameNext(r)
    BY <1>2 DEF GamesNext
  <2>2. UNCHANGED idleVars
    BY <1>2 DEF GamesNext
  <2>3. GameExit(r) => NewObject(r)
    BY <2>2 DEF GameExit, NewObject, IInv, TypeOK, SharedTypeOK, idleVars, roomVars
  <2>4. GameExit(r) \/ SameLife
    BY <2>1, <2>2, GameNextKeepsIInv
  <2> QED
    BY <2>1, <2>2, <2>3, <2>4, GameNextSteps DEF idleVars, roomVars
<1>3. CASE IdleNext
  <2>1. CASE \E c \in Client : IdleProcessMessage(c)
    <3>1. PICK c \in Client : IdleProcessMessage(c)
      BY <2>1
    <3>2. UNCHANGED gameOutput
      BY <3>1 DEF IdleProcessMessage
    <3>3. ASSUME NEW d \in Client, NEW r \in Room, NewGameThread(c, d, r)
          PROVE  NewObject(r)
      BY <1>0, <3>2, <3>3 DEF NewGameThread, SetGameAsRunning, NewObject, IdleTyped
    <3>4. UNCHANGED game \/ \E d \in Client, r \in Room : NewGameThread(c, d, r)
      BY <3>1, MessageAndRooms DEF IdleProcessMessage
    <3> QED
      BY <1>3, <3>3, <3>4
  <2>2. CASE ~\E c \in Client : IdleProcessMessage(c)
    <3>1. UNCHANGED game
      BY <1>3, <2>2 DEF IdleNext, IdleOnNewClientConnect, IdleOnClientWrite,
         IdleOnClientWriteFails, IdleOnHangup, SendClientToGameThread, OnGameStateChange, sharedVars
    <3> QED
      BY <1>3, <3>1
  <2> QED
    BY <2>1, <2>2
<1> QED
  BY <1>1, <1>2, <1>3 DEF Next

-----------------------------------------------------------------------------
(* The server plays Sim *)

LEMMA GameStepPlays ==
    ASSUME IInv, NEW r \in Room, GameStep(r), game' \in [Room -> GameRecord]
    PROVE  [Play!SimNext]_(Play!simVars)
<1>0. game \in [Room -> GameRecord]
  BY DEF IInv, TypeOK, GameTypeOK
<1>1. \A q \in Room \ {r} : game'[q] = game[q]
  BY DEF GameStep
<1>2. CASE SameBoard(World(r), WorldAfter(r))
  <2>1. \A q \in Room : /\ game'[q].graph = game[q].graph
                        /\ game'[q].isPlayerOneTurn = game[q].isPlayerOneTurn
    BY <1>1, <1>2 DEF SameBoard, World, WorldAfter
  <2> QED
    BY <2>1 DEF Play!simVars
<1>3. ASSUME NEW e \in Edge, Drawn(World(r), WorldAfter(r), e)
      PROVE  Play!Draw(r, e)
  <2> DEFINE i == IF game[r].isPlayerOneTurn THEN 1 ELSE 2
             drawn == game[r].graph[i] \cup {e}
  <2>1. /\ \A j \in Slot : e \notin game[r].graph[j]
        /\ game'[r].isPlayerOneTurn = ~game[r].isPlayerOneTurn
        /\ game'[r].graph = IF drawn \in Losing THEN [j \in Slot |-> {}]
                            ELSE [game[r].graph EXCEPT ![i] = drawn]
    BY <1>3 DEF Drawn, World, WorldAfter
  <2>2. game[r].isPlayerOneTurn \in BOOLEAN
    BY <1>0 DEF GameRecord
  <2> HIDE DEF drawn
  <2>3. [q \in Room |-> game'[q].graph] =
            [[q \in Room |-> game[q].graph] EXCEPT ![r] =
               IF drawn \in Losing THEN [j \in Slot |-> {}] ELSE [@ EXCEPT ![i] = drawn]]
    BY <1>1, <2>1
  <2>4. [q \in Room |-> IF game'[q].isPlayerOneTurn THEN 1 ELSE 2] =
            [[q \in Room |-> IF game[q].isPlayerOneTurn THEN 1 ELSE 2] EXCEPT ![r] =
               Play!Opponent(i)]
    <3>1. (IF game'[r].isPlayerOneTurn THEN 1 ELSE 2) = Play!Opponent(i)
      <4>1. CASE game[r].isPlayerOneTurn
        <5>1. ~game'[r].isPlayerOneTurn /\ i = 1
          BY <2>1, <4>1
        <5> QED
          BY <5>1 DEF Play!Opponent
      <4>2. CASE ~game[r].isPlayerOneTurn
        <5>1. game'[r].isPlayerOneTurn /\ i = 2
          BY <2>1, <4>2
        <5> QED
          BY <5>1 DEF Play!Opponent
      <4> QED
        BY <4>1, <4>2
    <3>2. \A q \in Room \ {r} : (IF game'[q].isPlayerOneTurn THEN 1 ELSE 2)
                              = IF game[q].isPlayerOneTurn THEN 1 ELSE 2
      BY <1>1
    <3> DEFINE old == [q \in Room |-> IF game[q].isPlayerOneTurn THEN 1 ELSE 2]
               new == [q \in Room |-> IF game'[q].isPlayerOneTurn THEN 1 ELSE 2]
    <3>3. /\ new = [q \in Room |-> new[q]] /\ old = [q \in Room |-> old[q]]
          /\ new[r] = Play!Opponent(i)
          /\ \A q \in Room \ {r} : new[q] = old[q]
      BY <3>1, <3>2
    <3> HIDE DEF old, new
    <3>4. new = [old EXCEPT ![r] = Play!Opponent(i)]
      BY <3>3
    <3> QED
      BY <3>4 DEF old, new
  <2>5. i = [q \in Room |-> IF game[q].isPlayerOneTurn THEN 1 ELSE 2][r]
    OBVIOUS
  <2> HIDE DEF i
  <2> QED
    BY <2>1, <2>3, <2>4, <2>5 DEF Play!Draw, Play!EmptyBoard, Play!Player, Slot, drawn
<1> QED
  BY <1>2, <1>3 DEF GameStep, Moved, Play!SimNext

LEMMA NewObjectPlays ==
    ASSUME IInv, NEW r \in Room, NewObject(r)
    PROVE  Play!NewBoard(r)
<1>1. game \in [Room -> GameRecord]
  BY DEF IInv, TypeOK, GameTypeOK
<1>2. /\ \A q \in Room \ {r} : game'[q] = game[q]
      /\ game'[r].graph = [i \in Slot |-> {}] /\ game'[r].isPlayerOneTurn = TRUE
  <2>1. \A g \in {NewGame, NoGame} : g.graph = [i \in Slot |-> {}] /\ g.isPlayerOneTurn = TRUE
    BY SMTT(30) DEF NewGame, NoGame
  <2>2. game'[r] \in {NewGame, NoGame} /\ \A q \in Room \ {r} : game'[q] = game[q]
    BY <1>1 DEF NewObject
  <2> QED
    BY <2>1, <2>2
<1>3. [q \in Room |-> game'[q].graph] =
          [[q \in Room |-> game[q].graph] EXCEPT ![r] = [i \in Slot |-> {}]]
  BY <1>2
<1>4. [q \in Room |-> IF game'[q].isPlayerOneTurn THEN 1 ELSE 2] =
          [[q \in Room |-> IF game[q].isPlayerOneTurn THEN 1 ELSE 2] EXCEPT ![r] = 1]
  BY <1>2
<1> QED
  BY <1>3, <1>4 DEF Play!NewBoard, Play!EmptyBoard, Play!Player, Slot

LEMMA InitPlays == Init => Play!SimInit
BY DEF Init, GameInit, NoGame, NewGame, Play!SimInit, Play!EmptyBoard, Play!Player, Slot

LEMMA NextPlays == IInv /\ [Next]_vars /\ IInv' => [Play!SimNext]_(Play!simVars)
<1>1. UNCHANGED game => UNCHANGED Play!simVars
  BY DEF Play!simVars
<1>2. IInv' => game' \in [Room -> GameRecord]
  BY DEF IInv, TypeOK, GameTypeOK
<1> QED
  BY <1>1, <1>2, NextSteps, NewObjectPlays, GameStepPlays DEF Play!SimNext

\* Every game thread plays Sim: an edge is only ever drawn by the player on turn,
\* and only an edge nobody has, whatever is denied, paused or disconnected.
THEOREM ServerPlaysSim == Spec => GamesPlaySim
<1>1. Spec => []IInv
  BY Invariance, PTL
<1> QED
  BY <1>1, InitPlays, NextPlays, PTL DEF Spec, GamesPlaySim, Play!SimSpec

-----------------------------------------------------------------------------
(* The players take turns *)

LEMMA NewBoardFair ==
    ASSUME NEW board, board[1] = {}, board[2] = {}, NEW i \in Slot
    PROVE  Play!FairBoard(board, i)
BY GameAssumption, FS_EmptySet DEF Play!FairBoard, Play!Opponent, Play!Player, Slot, GameAssumption

\* An edge more for the player on turn, and then it is the opponent's turn.
LEMMA DrawFair ==
    ASSUME NEW board \in [Slot -> SUBSET Edge], NEW i \in Slot, Play!FairBoard(board, i),
           NEW e \in Edge, \A j \in Slot : e \notin board[j],
           board[i] \cup {e} \notin Losing
    PROVE  Play!FairBoard([board EXCEPT ![i] = @ \cup {e}], Play!Opponent(i))
<1> DEFINE j == Play!Opponent(i)
           after == [board EXCEPT ![i] = @ \cup {e}]
<1>1. j \in Slot /\ j # i /\ Play!Opponent(j) = i
  BY DEF Play!Opponent, Slot
<1>2. after[i] = board[i] \cup {e} /\ after[j] = board[j]
  BY <1>1
<1>3. \A p \in Slot : IsFiniteSet(board[p])
  BY GameAssumption, FS_Subset DEF GameAssumption
<1>4. /\ Cardinality(board[i]) \in Nat /\ Cardinality(board[j]) \in Nat
      /\ Cardinality(after[i]) = Cardinality(board[i]) + 1
  BY <1>1, <1>2, <1>3, FS_CardinalityType, FS_AddElement
<1>5. Cardinality(board[j]) \in {Cardinality(board[i]), Cardinality(board[i]) + 1}
  BY DEF Play!FairBoard, Play!Cardinality, Cardinality
<1>6. Cardinality(after[i]) \in {Cardinality(after[j]), Cardinality(after[j]) + 1}
  BY <1>2, <1>4, <1>5
<1>7. after[1] \cap after[2] = {}
  BY <1>2 DEF Play!FairBoard, Slot, Play!Player
<1>8. \A p \in Slot : after[p] \notin Losing
  BY <1>2 DEF Play!FairBoard, Slot, Play!Player
<1> QED
  <2> HIDE DEF after, j
  <2>1. Cardinality(after[Play!Opponent(j)]) \in {Cardinality(after[j]), Cardinality(after[j]) + 1}
    BY <1>1, <1>6
  <2>2. Play!FairBoard(after, j)
    BY <1>7, <1>8, <2>1 DEF Play!FairBoard, Slot, Play!Player, Play!Cardinality, Cardinality
  <2> QED
    BY <2>2 DEF after, j

TurnOf(g) == IF g.isPlayerOneTurn THEN 1 ELSE 2

LEMMA RoomsAreFair ==
    /\ TurnsAlternate <=> \A r \in Room : Play!FairBoard(game[r].graph, TurnOf(game[r]))
    /\ TurnsAlternate' <=> \A r \in Room : Play!FairBoard(game'[r].graph, TurnOf(game'[r]))
<1>1. ASSUME NEW G, NEW r \in Room
      PROVE  /\ [q \in Room |-> G[q].graph][r] = G[r].graph
             /\ [q \in Room |-> IF G[q].isPlayerOneTurn THEN 1 ELSE 2][r] = TurnOf(G[r])
  BY DEF TurnOf
<1>2. TurnsAlternate <=> \A r \in Room : Play!FairBoard(game[r].graph, TurnOf(game[r]))
  BY <1>1 DEF TurnsAlternate, Play!FairPlay
<1>3. TurnsAlternate' <=> \A r \in Room : Play!FairBoard(game'[r].graph, TurnOf(game'[r]))
  BY <1>1 DEF TurnsAlternate, Play!FairPlay
<1> QED
  BY <1>2, <1>3

LEMMA NextFair == IInv /\ TurnsAlternate /\ [Next]_vars => TurnsAlternate'
<1> SUFFICES ASSUME IInv, TurnsAlternate, [Next]_vars, NEW q \in Room
             PROVE  Play!FairBoard(game'[q].graph, TurnOf(game'[q]))
  BY RoomsAreFair
<1>0. game \in [Room -> GameRecord] /\ Play!FairBoard(game[q].graph, TurnOf(game[q]))
  BY RoomsAreFair DEF IInv, TypeOK, GameTypeOK
<1>1. CASE game'[q] = game[q]
  BY <1>0, <1>1
<1>2. CASE NewObject(q)
  <2>1. \A g \in {NewGame, NoGame} :
           g.graph[1] = {} /\ g.graph[2] = {} /\ TurnOf(g) \in Slot
    BY DEF NewGame, NoGame, Slot, TurnOf
  <2>2. game'[q] \in {NewGame, NoGame}
    BY <1>0, <1>2 DEF NewObject
  <2> QED
    BY <2>1, <2>2, NewBoardFair
<1>3. ASSUME GameStep(q), NEW e \in Edge, Drawn(World(q), WorldAfter(q), e)
      PROVE  Play!FairBoard(game'[q].graph, TurnOf(game'[q]))
  <2> DEFINE board == game[q].graph
             i == TurnOf(game[q])
             drawn == board[i] \cup {e}
  <2>1. /\ \A j \in Slot : e \notin board[j]
        /\ game'[q].isPlayerOneTurn = ~game[q].isPlayerOneTurn
        /\ game'[q].graph = IF drawn \in Losing THEN [j \in Slot |-> {}]
                            ELSE [board EXCEPT ![i] = drawn]
    BY <1>3 DEF Drawn, World, WorldAfter, TurnOf
  <2>2. board \in [Slot -> SUBSET Edge]
    BY <1>0 DEF GameRecord
  <2>3. i \in Slot /\ TurnOf(game'[q]) \in Slot
    BY DEF TurnOf, Slot
  <2>4. TurnOf(game'[q]) = Play!Opponent(i)
    <3>1. CASE game[q].isPlayerOneTurn
      <4>1. ~game'[q].isPlayerOneTurn /\ i = 1
        BY <2>1, <3>1 DEF TurnOf
      <4> QED
        BY <4>1 DEF TurnOf, Play!Opponent
    <3>2. CASE ~game[q].isPlayerOneTurn
      <4>1. game'[q].isPlayerOneTurn /\ i = 2
        BY <2>1, <3>2 DEF TurnOf
      <4> QED
        BY <4>1 DEF TurnOf, Play!Opponent
    <3> QED
      BY <3>1, <3>2
  <2> HIDE DEF i
  <2>5. CASE drawn \in Losing
    <3>1. game'[q].graph[1] = {} /\ game'[q].graph[2] = {}
      BY <2>1, <2>5 DEF Slot
    <3> QED
      BY <2>3, <3>1, NewBoardFair
  <2>6. CASE drawn \notin Losing
    <3>1. Play!FairBoard([board EXCEPT ![i] = @ \cup {e}], Play!Opponent(i))
      BY <1>0, <2>1, <2>2, <2>3, <2>6, DrawFair DEF i
    <3> QED
      BY <2>1, <2>4, <2>6, <3>1
  <2> QED
    BY <2>5, <2>6
<1>4. CASE GameStep(q) /\ SameBoard(World(q), WorldAfter(q))
  BY <1>0, <1>4 DEF SameBoard, World, WorldAfter, TurnOf
<1>5. ASSUME NEW r \in Room, r # q, NewObject(r) \/ GameStep(r) PROVE game'[q] = game[q]
  BY <1>0, <1>5 DEF NewObject, GameStep
<1> QED
  BY <1>1, <1>2, <1>3, <1>4, <1>5, NextSteps DEF GameStep, Moved

\* No edge has two owners, no lost graph stays on the board, and the turn goes
\* back and forth.
THEOREM PlayersTakeTurns == Spec => []TurnsAlternate
<1>1. Init => TurnsAlternate
  <2> SUFFICES ASSUME Init, NEW r \in Room PROVE Play!FairBoard(game[r].graph, TurnOf(game[r]))
    BY RoomsAreFair
  <2>1. game[r] = NoGame
    BY DEF Init, GameInit
  <2>2. NoGame.graph[1] = {} /\ NoGame.graph[2] = {} /\ TurnOf(NoGame) \in Slot
    BY DEF NoGame, NewGame, Slot, TurnOf
  <2> QED
    BY <2>1, <2>2, NewBoardFair
<1>2. Spec => []IInv
  BY Invariance, PTL
<1> QED
  BY <1>1, <1>2, NextFair, PTL DEF Spec

-----------------------------------------------------------------------------
(* Pauses are reported *)

\* A room without a thread is not paused, so that the report that its game has
\* ended may be read.
PauseInv ==
    /\ PauseReported
    /\ \A r \in Room : game[r].thread = "none" => ~game[r].isPaused

\* The room table forgets a pause only with the end of the game.
LEMMA NextPauses == IInv /\ PauseInv /\ [Next]_vars => PauseInv'
<1> SUFFICES ASSUME IInv, PauseInv, [Next]_vars
             PROVE  PauseInv'
  OBVIOUS
<1>0. /\ game \in [Room -> GameRecord]
      /\ gameOutput \in [Room -> Seq(GameStateChange)]
      /\ IdleTyped
  BY IdleTypes DEF IInv, TypeOK, SharedTypeOK, GameTypeOK
<1> DEFINE Reported(q) == gameState[q] = "PAUSED" \/ PausedIn(gameOutput[q])
<1>1. \A q \in Room : game[q].isPaused => Reported(q)
  BY DEF PauseInv, PauseReported, PausedIn
<1>2. SUFFICES ASSUME NEW q \in Room, game'[q].isPaused
               PROVE  game'[q].thread # "none" /\ Reported(q)'
  BY DEF PauseInv, PauseReported, PausedIn
<1>3. CASE UNCHANGED game /\ (AcceptNext \/ IdleNext \/ UNCHANGED vars)
  <2>1. game[q].thread # "none" /\ Reported(q)
    BY <1>1, <1>2, <1>3 DEF PauseInv
  <2>2. CASE UNCHANGED <<gameState, gameOutput>>
    BY <1>3, <2>1, <2>2
  <2>3. ASSUME NEW r \in Room, OnGameStateChange(r) PROVE Reported(q)'
    <3>1. CASE r # q
      BY <1>0, <2>1, <2>3, <3>1 DEF OnGameStateChange, SetGameAsIdle, SetGameAsPaused,
                                    roomVars, IdleTyped
    <3>2. CASE r = q
      <4>1. /\ gameOutput[q] # <<>> /\ gameOutput[q] \in Seq(GameStateChange)
            /\ gameOutput'[q] = Tail(gameOutput[q])
            /\ gameOutput[q][1] = Head(gameOutput[q])
        BY <1>0, <2>3, <3>2 DEF OnGameStateChange
      <4>2. Head(gameOutput[q]).newState # "IDLE"
        BY <2>1, <4>1 DEF IInv, RoomAgreement, RoomAgrees, NoIdleChange
      <4>3. CASE Head(gameOutput[q]).newState = "PAUSED"
        BY <1>0, <2>3, <3>2, <4>3 DEF OnGameStateChange, SetGameAsPaused, IdleTyped
      <4>4. CASE Head(gameOutput[q]).newState # "PAUSED"
        <5>1. UNCHANGED gameState
          BY <2>3, <3>2, <4>2, <4>4 DEF OnGameStateChange, roomVars
        <5>2. ASSUME NEW k \in DOMAIN gameOutput[q], gameOutput[q][k].newState = "PAUSED"
              PROVE  PausedIn(gameOutput'[q])
          <6>1. k \in 2 .. Len(gameOutput[q])
            BY <4>1, <4>4, <5>2
          <6>2. k - 1 \in DOMAIN gameOutput'[q] /\ gameOutput'[q][k - 1] = gameOutput[q][k]
            BY <4>1, <6>1
          <6> QED
            BY <5>2, <6>2 DEF PausedIn
        <5> QED
          BY <2>1, <5>1, <5>2 DEF PausedIn
      <4> QED
        BY <4>3, <4>4
    <3> QED
      BY <3>1, <3>2
  <2>4. ASSUME NEW c \in Client, IdleProcessMessage(c)
        PROVE  UNCHANGED <<gameState, gameOutput>> \/ ~UNCHANGED game
    <3>1. UNCHANGED gameOutput
      BY <2>4 DEF IdleProcessMessage
    <3>2. UNCHANGED gameState \/ \E m \in IdleMessage : IdleProcessClientMessage(c, m)
      BY <2>4 DEF IdleProcessMessage, roomVars
    <3>3. ASSUME NEW d \in Client, NEW r \in Room, NewGameThread(c, d, r), gameState[r] = "IDLE"
          PROVE  ~UNCHANGED game
      <4>1. game[r].thread = "none" /\ game'[r] = NewGame
        BY <1>0, <3>3 DEF NewGameThread, IInv, RoomAgreement, RoomAgrees
      <4> QED
        BY <4>1 DEF NewGame
    <3>4. ASSUME NEW m \in IdleMessage, IdleProcessClientMessage(c, m)
          PROVE  \/ UNCHANGED gameState
                 \/ \E d \in Client, r \in Room : NewGameThread(c, d, r) /\ gameState[r] = "IDLE"
      <4>1. CASE IdleDenyRequest(c) \/ IdleReply \/ m.method = "TERMINATE_CONNECTION"
        BY <3>4, <4>1 DEF IdleDenyRequest, IdleReply, IdleProcessClientMessage, roomVars
      <4>2. CASE EnterUsername(c, m.arg)
        BY <4>1, <4>2 DEF EnterUsername, UsernameTaken, roomVars
      <4>3. CASE m.method = "JOIN_GAME" /\ JoinGameRoom(c, m.arg)
        <5>1. m.arg \in Room \cup {Missing}
          BY <4>3 DEF IdleMessage
        <5> QED
          BY <4>1, <4>3, <5>1 DEF JoinGameRoom, Joinable, roomVars
      <4> QED
        BY <3>4, <4>1, <4>2, <4>3 DEF IdleProcessClientMessage
    <3> QED
      BY <3>1, <3>2, <3>3, <3>4
  <2>5. CASE AcceptNext \/ UNCHANGED vars
    BY <2>2, <2>5 DEF vars, AcceptNext, TcpAcceptLoop, idleVars, roomVars, sharedVars
  <2>6. CASE IdleOnNewClientConnect \/ SendClientToGameThread
    BY <2>2, <2>6 DEF IdleOnNewClientConnect, SendClientToGameThread, roomVars
  <2>7. ASSUME NEW c \in Client,
               IdleOnClientWrite(c) \/ IdleOnClientWriteFails(c) \/ IdleOnHangup(c)
        PROVE  UNCHANGED <<gameState, gameOutput>>
    BY <2>7 DEF IdleOnClientWrite, IdleOnClientWriteFails, IdleOnHangup, roomVars, sharedVars
  <2> HIDE DEF Reported
  <2>8. game'[q].thread # "none"
    BY <1>3, <2>1
  <2>9. Reported(q)'
    <3>1. CASE IdleNext
      BY <1>3, <2>2, <2>3, <2>4, <2>6, <2>7, <3>1 DEF IdleNext
    <3> QED
      BY <1>3, <2>5, <3>1, <2>8
  <2> QED
    BY <2>8, <2>9
<1>4. ASSUME NEW r \in Room, NewObject(r) PROVE game'[q].thread # "none" /\ Reported(q)'
  <2>1. r # q
    <3>1. ~NewGame.isPaused /\ ~NoGame.isPaused
      BY DEF NewGame, NoGame
    <3> QED
      BY <1>0, <1>2, <1>4, <3>1 DEF NewObject
  <2>2. game'[q] = game[q]
    BY <1>0, <1>4, <2>1 DEF NewObject
  <2> QED
    BY <1>1, <1>2, <1>4, <2>1, <2>2 DEF NewObject, PauseInv
<1>5. ASSUME NEW r \in Room, GameStep(r), UNCHANGED gameState, SameLife
      PROVE  game'[q].thread # "none" /\ Reported(q)'
  <2>1. game[q].thread # "none"
    BY <1>2, <1>5 DEF GameStep, PauseInv
  <2>2. game'[q].thread # "none"
    BY <1>5, <2>1 DEF SameLife
  <2>3. CASE r # q
    BY <1>1, <1>2, <1>5, <2>2, <2>3 DEF GameStep
  <2>4. CASE r = q
    BY <1>1, <1>2, <1>5, <2>2, <2>4 DEF GameStep, Moved, PauseKept, World, WorldAfter
  <2> QED
    BY <2>3, <2>4
<1> QED
  BY <1>3, <1>4, <1>5, NextSteps

\* While a game is paused, the table has its room as paused or the report is on
\* its way.
THEOREM PausesReported == Spec => []PauseReported
<1>1. Init => PauseInv
  <2>1. ~NoGame.isPaused
    BY DEF NoGame, NewGame
  <2> QED
    BY <2>1 DEF Init, GameInit, PauseInv, PauseReported
<1>2. Spec => []IInv
  BY Invariance, PTL
<1>3. PauseInv => PauseReported
  BY DEF PauseInv
<1> QED
  BY <1>1, <1>2, <1>3, NextPauses, PTL DEF Spec

-----------------------------------------------------------------------------
(* Names. Where an open client can be is known from ClientProofs; what is   *)
(* missing is that a client has no name before the idle thread has taken it *)
(* from the accept thread's queue, where the idle thread does not look.     *)

\* Who has not been in the idle room yet has no name.
NewNameless ==
    \A c \in Client : conn[c] = "new" \/ c \in Elems(newClientsQueue) => ~HasName(c)

\* The only step that changes a name: a free name goes to a client of the idle
\* room that has none.
NameGiven(c, n) ==
    /\ c \in clientsMap
    /\ ~HasName(c) /\ ~UsernameTaken(c, n)
    /\ clientName' = [clientName EXCEPT ![c] = n]

\* No step makes a connection new, and only a new one enters the accept queue.
Aging ==
    /\ \A c \in Client : conn'[c] = "new" => conn[c] = "new"
    /\ \A c \in Client : c \in Elems(newClientsQueue)' =>
                            c \in Elems(newClientsQueue) \/ conn[c] = "new"

-----------------------------------------------------------------------------
(* One lemma per part of the server: which names and sockets it changes *)

\* Closing a socket.
LEMMA DisconnectAges ==
    ASSUME IdleTyped, NEW c \in Client, UNCHANGED newClientsQueue,
           UNCHANGED conn \/ conn' = [conn EXCEPT ![c] = "closed"]
    PROVE  Aging
BY DEF IdleTyped, Aging, Elems

\* A game thread.
LEMMA GameNames ==
    ASSUME IInv, NEW r \in Room, GameNext(r)
    PROVE  UNCHANGED clientName /\ Aging
<1>1. UNCHANGED <<clientName, newClientsQueue>>
  BY DEF GameNext, GameWaitForEvents, GameDispatchInput, GameOnNewClientConnect,
     GameOnClientWrite, GameOnClientWriteFails, GameProcessMessage, GameOnHangup, GameExit,
     InactivityExpires, gameKeeps, sharedVars
<1>2. \A c \in Client : conn'[c] = "new" => conn[c] = "new"
  <2>1. ASSUME NEW w, NEW w2, Touches(w, w2), w.conn = conn, Commit(r, w2)
        PROVE  \A c \in Client : conn'[c] = "new" => conn[c] = "new"
    BY <2>1 DEF Touches, Commit
  <2>2. World(r).conn = conn /\ Seat(World(r), Head(gameInput[r])).conn = conn
    BY DEF World, Seat
  <2>3. CASE HandlerStep(r)
    BY <2>1, <2>2, <2>3 DEF HandlerStep
  <2>4. CASE SeatStep(r)
    BY <2>1, <2>2, <2>4 DEF SeatStep
  <2>5. CASE QuietStep(r) \/ GameExit(r)
    BY <2>5 DEF QuietStep, GameExit
  <2> QED
    BY <2>3, <2>4, <2>5, GameNextTouches
<1> QED
  BY <1>1, <1>2 DEF Aging, Elems

\* A message of an idle client.
LEMMA MessageNames ==
    ASSUME IdleTyped, NEW c \in clientsMap, NEW m \in IdleMessage,
           IdleProcessClientMessage(c, m), UNCHANGED newClientsQueue
    PROVE  /\ UNCHANGED clientName \/ NameGiven(c, m.arg)
           /\ Aging
<1>1. CASE IdleDenyRequest(c)
  <2>1. UNCHANGED clientName /\ (UNCHANGED conn \/ IdleOnClientDisconnect(c))
    BY <1>1 DEF IdleDenyRequest, clientVars
  <2> QED
    BY <2>1, DisconnectAges DEF IdleOnClientDisconnect, IdleTyped
<1>2. CASE m.method = "ENTER_USERNAME" /\ m.arg # Missing /\ ~HasName(c)
  <2>1. EnterUsername(c, m.arg)
    BY <1>2 DEF IdleProcessClientMessage
  <2>2. CASE UsernameTaken(c, m.arg)
    BY <1>1, <2>1, <2>2 DEF EnterUsername
  <2>3. CASE ~UsernameTaken(c, m.arg)
    <3>1. UNCHANGED conn /\ NameGiven(c, m.arg)
      BY <1>2, <2>1, <2>3 DEF EnterUsername, NameGiven, clientVars
    <3> QED
      BY <3>1, DisconnectAges DEF IdleTyped
  <2> QED
    BY <2>2, <2>3
<1>3. CASE ~(m.method = "ENTER_USERNAME" /\ m.arg # Missing /\ ~HasName(c)) /\ ~IdleDenyRequest(c)
  <2>1. UNCHANGED clientName /\ (UNCHANGED conn \/ conn' = [conn EXCEPT ![c] = "closed"])
    BY <1>3 DEF IdleProcessClientMessage, IdleReply, IdleOnClientDisconnect, JoinGameRoom,
       clientVars
  <2> QED
    BY <2>1, DisconnectAges DEF IdleTyped
<1> QED
  BY <1>1, <1>2, <1>3

\* The idle thread.
LEMMA IdleNames ==
    ASSUME IInv, IdleNext
    PROVE  /\ UNCHANGED clientName \/ \E c \in Client, n \in Name : NameGiven(c, n)
           /\ Aging
<1>0. IdleTyped /\ newClientsQueue \in Seq(Client)
  BY IdleTypes DEF IInv, TypeOK, SharedTypeOK
<1>1. CASE IdleOnNewClientConnect
  <2> DEFINE c == Head(newClientsQueue)
  <2>1. /\ newClientsQueue # <<>> /\ newClientsQueue' = Tail(newClientsQueue)
        /\ UNCHANGED clientName
        /\ UNCHANGED conn \/ conn' = [conn EXCEPT ![c] = "closed"]
    BY <1>1 DEF IdleOnNewClientConnect
  <2>2. \A d \in Client : conn'[d] = "new" => conn[d] = "new"
    BY <1>0, <2>1 DEF IdleTyped
  <2>3. Elems(newClientsQueue)' \subseteq Elems(newClientsQueue)
    BY <1>0, <2>1, Taken
  <2> QED
    BY <2>1, <2>2, <2>3 DEF Aging
<1>2. CASE UNCHANGED <<clientName, conn, newClientsQueue>>
  BY <1>2 DEF Aging, Elems
<1>3. ASSUME NEW c \in Client, IdleOnClientWriteFails(c) \/ IdleOnHangup(c)
      PROVE  UNCHANGED clientName /\ Aging
  <2>1. UNCHANGED <<clientName, newClientsQueue>>
    BY <1>3 DEF IdleOnClientWriteFails, IdleOnHangup
  <2>2. UNCHANGED conn \/ conn' = [conn EXCEPT ![c] = "closed"]
    BY <1>3 DEF IdleOnClientWriteFails, IdleOnHangup, IdleOnClientDisconnect, clientVars
  <2> QED
    BY <1>0, <2>1, <2>2, DisconnectAges
<1>4. ASSUME NEW c \in Client, IdleProcessMessage(c), c \in clientsMap
      PROVE  (UNCHANGED clientName \/ \E n \in Name : NameGiven(c, n)) /\ Aging
  <2>1. /\ UNCHANGED newClientsQueue
        /\ \E m \in IdleMessage : IdleProcessClientMessage(c, m)
    BY <1>4 DEF IdleProcessMessage
  <2>2. PICK m \in IdleMessage : IdleProcessClientMessage(c, m)
    BY <2>1
  <2>3. /\ UNCHANGED clientName \/ NameGiven(c, m.arg)
        /\ Aging
    BY <1>0, <1>4, <2>1, <2>2, MessageNames
  <2>4. ASSUME ~UNCHANGED clientName PROVE m.arg \in Name
    <3>1. clientName' # clientName
      BY <2>4
    <3>2. m.method = "ENTER_USERNAME" /\ m.arg # Missing
      BY <2>2, <3>1 DEF IdleProcessClientMessage, IdleReply, IdleDenyRequest,
         IdleOnClientDisconnect, JoinGameRoom
    <3> QED
      BY <3>2 DEF IdleMessage
  <2> QED
    BY <2>3, <2>4
<1>5. ASSUME NEW c \in Client, IdleProcessMessage(c), c \notin clientsMap
      PROVE  UNCHANGED <<clientName, conn, newClientsQueue>>
  BY <1>5 DEF IdleProcessMessage, clientVars
<1>6. \/ IdleOnNewClientConnect
      \/ UNCHANGED <<clientName, conn, newClientsQueue>>
      \/ \E c \in Client : \/ IdleOnClientWriteFails(c) \/ IdleOnHangup(c)
                           \/ IdleProcessMessage(c)
  BY DEF IdleNext, IdleOnClientWrite, sharedVars, SendClientToGameThread, OnGameStateChange
<1> QED
  BY <1>1, <1>2, <1>3, <1>4, <1>5, <1>6

\* All threads.
LEMMA NextNames ==
    ASSUME IInv, [Next]_vars
    PROVE  /\ UNCHANGED clientName \/ \E c \in Client, n \in Name : NameGiven(c, n)
           /\ Aging
<1>1. CASE AcceptNext
  <2>1. PICK c \in Client : TcpAcceptLoop(c)
    BY <1>1 DEF AcceptNext
  <2>2. /\ conn[c] = "new" /\ conn' = [conn EXCEPT ![c] = "open"]
        /\ newClientsQueue' = Append(newClientsQueue, c)
        /\ UNCHANGED clientName
        /\ newClientsQueue \in Seq(Client)
        /\ conn \in [Client -> {"new", "open", "closed"}]
    BY <2>1 DEF TcpAcceptLoop, IInv, TypeOK, SharedTypeOK
  <2>3. Elems(newClientsQueue)' = Elems(newClientsQueue) \cup {c}
    BY <2>2, Appended
  <2> QED
    BY <2>2, <2>3 DEF Aging
<1>2. CASE GamesNext
  BY <1>2, GameNames DEF GamesNext
<1>3. CASE UNCHANGED vars
  BY <1>3 DEF vars, sharedVars, Aging, Elems
<1> QED
  BY <1>1, <1>2, <1>3, IdleNames DEF Next

-----------------------------------------------------------------------------

\* A client gets its name in the idle room, where no new client is.
LEMMA NewStayNameless ==
    IInv /\ CInv /\ NewNameless /\ [Next]_vars => NewNameless'
<1> SUFFICES ASSUME IInv, CInv, NewNameless, [Next]_vars,
                    NEW d \in Client, conn'[d] = "new" \/ d \in Elems(newClientsQueue)'
             PROVE  ~HasName(d)'
  BY DEF NewNameless
<1>1. conn[d] = "new" \/ d \in Elems(newClientsQueue)
  BY NextNames DEF Aging
<1>2. ~HasName(d) /\ d \notin clientsMap
  BY <1>1 DEF NewNameless, CInv, Apart, OpenIsHeld
<1>3. clientName'[d] = clientName[d]
  <2>1. ASSUME NEW c \in Client, NEW n \in Name, NameGiven(c, n)
        PROVE  clientName'[d] = clientName[d]
    BY <1>2, <2>1 DEF NameGiven, IInv, TypeOK, SharedTypeOK
  <2> QED
    BY <2>1, NextNames
<1> QED
  BY <1>2, <1>3 DEF HasName

\* What the two searches of the idle thread cover.
LEMMA FreeNameIsUnused ==
    ASSUME IInv, CInv, NewNameless, NEW c \in Client, NEW n \in Name, ~UsernameTaken(c, n),
           NEW d \in Client, d # c, conn[d] = "open", clientName[d] = n
    PROVE  ~KnownAtRoom(d)
<1>1. HasName(d)
  BY RoomStructsAssumption DEF HasName, RoomStructsAssumption
<1>2. d \notin Elems(newClientsQueue)
  BY <1>1 DEF NewNameless
<1>3. d \notin clientsMap
  BY <1>1 DEF UsernameTaken
<1>4. PICK r \in Room : d \in AtRoom(r)
  BY <1>2, <1>3 DEF CInv, OpenIsHeld
<1>5. WithRoom(d, r)
  BY <1>4 DEF AtRoom, Elems, Seated, Returning, WithRoom, HasPlayer
<1> QED
  BY <1>5 DEF KnownAtRoom, UsernameTaken

\* A step gives no used name away.
LEMMA NextGivesOnce ==
    IInv /\ CInv /\ NewNameless /\ [Next]_vars
    => \A c, d \in Client :
          /\ c # d /\ ~HasName(c) /\ clientName'[c] # NoName
          /\ conn[d] = "open" /\ clientName[d] = clientName'[c]
          => ~KnownAtRoom(d)
<1> SUFFICES ASSUME IInv, CInv, NewNameless, [Next]_vars, NEW c \in Client, NEW d \in Client,
                    c # d, ~HasName(c), clientName'[c] # NoName,
                    conn[d] = "open", clientName[d] = clientName'[c]
             PROVE  ~KnownAtRoom(d)
  OBVIOUS
<1>1. PICK e \in Client, n \in Name : NameGiven(e, n)
  BY NextNames DEF HasName
<1>2. e = c /\ clientName'[c] = n
  BY <1>1 DEF NameGiven, HasName, IInv, TypeOK, SharedTypeOK
<1> QED
  BY <1>1, <1>2, FreeNameIsUnused DEF NameGiven

\* Through hand-overs, pauses and reports, the idle thread gives no client a name
\* that another open client has whom his room still knows: its two searches, among
\* the idle clients and in the room table, miss nobody.
THEOREM NamesAreGivenOnce == Spec => NamesGivenOnce
<1>1. Init => CInv /\ HandOverSound /\ NewNameless
  <2>1. Init => NewNameless
    BY DEF Init, SharedInit, NewNameless, HasName
  <2> QED
    BY <2>1, InitCInv
<1>2. IInv /\ WaitingListSound /\ HandOverSound /\ CInv /\ [Next]_vars => CInv' /\ HandOverSound'
  BY NextKeepsCInv
<1>3. IInv /\ CInv /\ NewNameless /\ [Next]_vars => NewNameless'
  BY NewStayNameless
<1>4. IInv /\ CInv /\ NewNameless /\ [Next]_vars
      => [\A c, d \in Client :
             /\ c # d /\ ~HasName(c) /\ clientName'[c] # NoName
             /\ conn[d] = "open" /\ clientName[d] = clientName'[c]
             => ~KnownAtRoom(d)]_vars
  BY NextGivesOnce
<1> QED
  BY Invariance, WaitingListIsSound, <1>1, <1>2, <1>3, <1>4, PTL DEF Spec, NamesGivenOnce
-----------------------------------------------------------------------------
(* Nobody plays alone. A game that has had its second player and goes on    *)
(* without both is paused. The handlers pass through worlds in which this   *)
(* is not so, between seating a player and the calls that follow; the proof *)
(* follows the worlds of a handler, as for the board and the pause.         *)

\* Who is in the second slot has been seen there.
SecondSeen(g) == Online(g, 2) => g.lastSeen[2] # "never"

PausedIfMissing(g) == g.lastSeen[2] # "never" /\ ~BothPlayersOnline(g) => g.isPaused

\* A game that goes on.
GoesOn(g) == g.thread = "loop" /\ g.isRunning

PauseSound(g) == GoesOn(g) => SecondSeen(g) /\ PausedIfMissing(g)

AloneInv == \A r \in Room : PauseSound(game[r])

-----------------------------------------------------------------------------
(* The functions the handlers are made of *)

\* Whoever goes, the game ends or is paused.
LEMMA DisconnectPauses ==
    ASSUME NEW w, LiveWorld(w), NEW c, GoesOn(w.g) => SecondSeen(w.g)
    PROVE  PauseSound(OnClientDisconnect(w, c).g)
<1> DEFINE w1 == [w EXCEPT
                 !.g.client = [i \in Slot |-> IF @[i] = c THEN Nobody ELSE @[i]],
                 !.conn = [d \in Client |-> IF d = c /\ HasPlayer(w.g, c)
                                            THEN "closed" ELSE @[d]]]
<1>1. /\ w1.g.thread = w.g.thread /\ w1.g.isRunning = w.g.isRunning
      /\ w1.g.lastSeen = w.g.lastSeen
      /\ Online(w1.g, 2) => Online(w.g, 2)
  BY DEF LiveWorld, WorldRecord, GameRecord, Online, Slot
<1>2. CASE NoPlayerOnline(w1.g)
  <2>1. OnClientDisconnect(w, c) = [w1 EXCEPT !.g.isRunning = FALSE]
    BY <1>2 DEF OnClientDisconnect
  <2>2. ~OnClientDisconnect(w, c).g.isRunning
    <3>1. LiveWorld(w1)
      BY DEF LiveWorld, WorldRecord, GameRecord, ClientOrNobody, Slot
    <3> HIDE DEF w1
    <3> QED
      BY <2>1, <3>1 DEF LiveWorld, WorldRecord, GameRecord
  <2> QED
    BY <2>2 DEF PauseSound, GoesOn
<1>3. CASE ~NoPlayerOnline(w1.g)
  <2> DEFINE w2 == OnClientDisconnect(w, c)
  <2>1. w2 = PauseGame(w1)
    BY <1>3 DEF OnClientDisconnect
  <2>2. /\ w2.g.isPaused /\ w2.g.client = w1.g.client
        /\ w2.g.thread = w.g.thread /\ w2.g.isRunning = w.g.isRunning
        /\ w2.g.lastSeen = w.g.lastSeen
    <3>1. LiveWorld(w1)
      BY DEF LiveWorld, WorldRecord, GameRecord, ClientOrNobody, Slot
    <3> HIDE DEF w1
    <3> QED
      BY <1>1, <2>1, <3>1 DEF PauseGame, LiveWorld, WorldRecord, GameRecord
  <2> QED
    BY <1>1, <2>2 DEF PauseSound, PausedIfMissing, SecondSeen, GoesOn, Online
<1> QED
  BY <1>2, <1>3

\* Who is disconnected leaves his slot.
LEMMA DisconnectEmpties ==
    ASSUME NEW w, LiveWorld(w), NEW c, NEW i \in Slot, w.g.client[i] = c
    PROVE  OnClientDisconnect(w, c).g.client[i] = Nobody
<1> DEFINE w1 == [w EXCEPT
                 !.g.client = [k \in Slot |-> IF @[k] = c THEN Nobody ELSE @[k]],
                 !.conn = [d \in Client |-> IF d = c /\ HasPlayer(w.g, c)
                                            THEN "closed" ELSE @[d]]]
<1>1. LiveWorld(w1) /\ w1.g.client[i] = Nobody
  BY DEF LiveWorld, WorldRecord, GameRecord, ClientOrNobody, Slot
<1>2. OnClientDisconnect(w, c) \in {[w1 EXCEPT !.g.isRunning = FALSE], PauseGame(w1)}
  BY DEF OnClientDisconnect
<1> HIDE DEF w1
<1>3. [w1 EXCEPT !.g.isRunning = FALSE].g.client = w1.g.client
  BY <1>1 DEF LiveWorld, WorldRecord, GameRecord
<1>4. PauseGame(w1).g.client = w1.g.client
  BY <1>1 DEF PauseGame, LiveWorld, WorldRecord, GameRecord
<1> QED
  BY <1>1, <1>2, <1>3, <1>4

\* A change that leaves the players, their times and the pause alone.
LEMMA SamePause ==
    ASSUME NEW g, NEW h, PauseSound(g), GoesOn(h) => GoesOn(g),
           h.client = g.client, h.lastSeen = g.lastSeen, h.isPaused = g.isPaused
    PROVE  PauseSound(h)
BY DEF PauseSound, PausedIfMissing, SecondSeen, Online, BothPlayersOnline

\* A denial changes a counter, or disconnects.
LEMMA DenialPauses ==
    ASSUME NEW w, LiveWorld(w), NEW c, PauseSound(w.g)
    PROVE  PauseSound(GameDenyRequest(w, c).g)
<1>1. CASE TooManyDenials(w.denied[c])
  BY <1>1, DisconnectPauses DEF GameDenyRequest, PauseSound
<1>2. CASE ~TooManyDenials(w.denied[c])
  BY <1>2 DEF GameDenyRequest, LiveWorld, WorldRecord
<1> QED
  BY <1>1, <1>2

\* Seeing a seated player disturbs nothing, and seeing the second one makes the
\* second slot seen.
LEMMA SeenPauses ==
    ASSUME NEW w, LiveWorld(w), NEW c \in Client,
           \/ PauseSound(w.g)
           \/ w.g.client[1] # c /\ w.g.client[2] = c /\ BothPlayersOnline(w.g)
    PROVE  PauseSound(UpdateClientLastSeen(w, c).g)
<1> DEFINE i == PlayerSlot(w.g, c)
           j == Other(i)
           w1 == [w EXCEPT !.g.lastSeen[i] = "recent"]
<1>1. CASE ~HasPlayer(w.g, c)
  BY <1>1 DEF UpdateClientLastSeen, Throw, PauseSound, GoesOn, LiveWorld, WorldRecord, GameRecord
<1>2. CASE HasPlayer(w.g, c)
  <2>1. i \in Slot /\ w.g.client[i] = c /\ Online(w.g, i)
    BY <1>2, RoomStructsAssumption
       DEF HasPlayer, PlayerSlot, Online, Slot, RoomStructsAssumption
  <2>2. LiveWorld(w1)
    BY <2>1 DEF LiveWorld, WorldRecord, GameRecord
  <2>3. /\ w1.g.client = w.g.client /\ w1.g.isPaused = w.g.isPaused
        /\ w1.g.thread = w.g.thread /\ w1.g.isRunning = w.g.isRunning
        /\ w1.g.lastSeen[2] = IF i = 2 THEN "recent" ELSE w.g.lastSeen[2]
    BY <2>1 DEF LiveWorld, WorldRecord, GameRecord, Slot
  <2>4. PauseSound(w1.g)
    <3>1. CASE PauseSound(w.g)
      BY <2>1, <2>3, <3>1 DEF PauseSound, PausedIfMissing, SecondSeen, GoesOn, Online,
         BothPlayersOnline
    <3>2. CASE w.g.client[1] # c /\ w.g.client[2] = c /\ BothPlayersOnline(w.g)
      BY <2>3, <3>2 DEF PlayerSlot, PauseSound, PausedIfMissing, SecondSeen, Online,
         BothPlayersOnline
    <3> QED
      BY <3>1, <3>2
  <2>5. PauseSound(OnClientDisconnect(w1, w.g.client[j]).g)
    BY <2>2, <2>4, DisconnectPauses DEF PauseSound
  <2> QED
    BY <1>2, <2>4, <2>5 DEF UpdateClientLastSeen
<1> QED
  BY <1>1, <1>2

\* A command draws an edge, is denied or throws.
LEMMA CommandPauses ==
    ASSUME NEW w, LiveWorld(w), NEW c \in Client, PauseSound(w.g),
           NEW arg \in Edge \cup {Missing, TooShort}
    PROVE  PauseSound(ProcessGameCommand(w, c, arg).g)
<1>1. PauseSound(GameDenyRequest(w, c).g)
  BY DenialPauses
<1>2. PauseSound(Undefined(w).g) /\ PauseSound(Throw(w).g)
  BY DEF Undefined, Throw, PauseSound, GoesOn, LiveWorld, WorldRecord, GameRecord
<1>3. \A i \in Slot : PauseSound(AddEdge(w, i, arg).g)
  <2> SUFFICES ASSUME NEW i \in Slot PROVE PauseSound(AddEdge(w, i, arg).g)
    OBVIOUS
  <2> DEFINE h == AddEdge(w, i, arg).g
  <2>1. /\ h.client = w.g.client /\ h.lastSeen = w.g.lastSeen /\ h.isPaused = w.g.isPaused
        /\ h.thread = w.g.thread /\ h.isRunning = w.g.isRunning
    BY DEF AddEdge, LiveWorld, WorldRecord, GameRecord
  <2> QED
    BY <2>1, SamePause DEF GoesOn
<1>4. PlayerSlot(w.g, c) \in Slot
  BY PlayerSlotIsSlot
<1> QED
  BY <1>1, <1>2, <1>3, <1>4 DEF ProcessGameCommand

\* Any message of a player.
LEMMA MessagePauses ==
    ASSUME NEW w, LiveWorld(w), NEW c \in Client, PauseSound(w.g), NEW m \in GameMessage,
           NEW w2 \in ProcessClientMessage(w, c, m)
    PROVE  PauseSound(w2.g)
<1> DEFINE w1 == CASE m.method = "GAME_COMMAND" -> ProcessGameCommand(w, c, m.arg)
                   [] m.method = "GAME_LEAVE"   -> [w EXCEPT !.g.isRunning = FALSE]
                   [] m.method = "GAME_PING"    -> w
                   [] OTHER                     -> GameDenyRequest(w, c)
<1>1. m.method = "GAME_COMMAND" => m.arg \in Edge \cup {Missing, TooShort}
  BY DEF GameMessage
<1>2. LiveWorld(w1) /\ PauseSound(w1.g)
  <2>1. CASE m.method = "GAME_COMMAND"
    BY <1>1, <2>1, ProcessGameCommandLive, CommandPauses
  <2>2. CASE m.method = "GAME_LEAVE"
    BY <2>2 DEF PauseSound, GoesOn, LiveWorld, WorldRecord, GameRecord
  <2>3. CASE m.method = "GAME_PING"
    BY <2>3
  <2>4. CASE m.method \notin {"GAME_COMMAND", "GAME_LEAVE", "GAME_PING"}
    BY <2>4, GameDenyRequestLive, DenialPauses
  <2> QED
    BY <2>1, <2>2, <2>3, <2>4
<1>3. w2 = w1 \/ \E d \in Client : w2 = UpdateClientLastSeen(w1, d)
  BY DEF ProcessClientMessage
<1> QED
  BY <1>2, <1>3, SeenPauses

\* The new player is not the one who is seated, so with two players the second
\* is seen before the game goes on.
LEMMA SeatPauses ==
    ASSUME NEW w, LiveWorld(w), NEW c \in Client, PauseSound(w.g),
           ~BothPlayersOnline(w.g), ~HasPlayer(w.g, c),
           w.g.client[1] = w.g.client[2] => w.g.client[1] = Nobody
    PROVE  PauseSound(SeatClient(w, c).g)
<1> DEFINE i == IF Online(w.g, 1) THEN 2 ELSE 1
           w1 == [w EXCEPT !.g.client[i] = c]
           w1a == [w1 EXCEPT !.g.isPaused = FALSE]
           w2 == UpdateClientLastSeen(w1a, w1.g.client[1])
<1>1. /\ i \in Slot
      /\ \A k \in Slot : w1.g.client[k] = IF k = i THEN c ELSE w.g.client[k]
      /\ w1.g.lastSeen = w.g.lastSeen /\ w1.g.isPaused = w.g.isPaused
      /\ w1.g.thread = w.g.thread /\ w1.g.isRunning = w.g.isRunning
  BY DEF LiveWorld, WorldRecord, GameRecord, Slot
<1>2. LiveWorld(w1) /\ LiveWorld(w1a)
  BY <1>1 DEF LiveWorld, WorldRecord, GameRecord, ClientOrNobody
<1>3. /\ w1a.g.client = w1.g.client /\ w1a.g.lastSeen = w.g.lastSeen
      /\ w1a.g.thread = w.g.thread /\ w1a.g.isRunning = w.g.isRunning
  BY <1>1 DEF LiveWorld, WorldRecord, GameRecord
<1> HIDE DEF w1a
<1>4. CASE ~BothPlayersOnline(w1.g)
  <2>1. SeatClient(w, c) = w1
    BY <1>4 DEF SeatClient
  <2>2. i = 1 /\ ~Online(w1.g, 2)
    BY <1>1, <1>4, RoomStructsAssumption
       DEF BothPlayersOnline, Online, Slot, RoomStructsAssumption
  <2>3. PauseSound(w1.g)
    BY <1>1, <1>4, <2>2 DEF PauseSound, PausedIfMissing, SecondSeen, GoesOn, BothPlayersOnline,
       Online, Slot
  <2> QED
    BY <2>1, <2>3
<1>5. CASE BothPlayersOnline(w1.g)
  <2>1. SeatClient(w, c) = IF ~Online(w2.g, 2) THEN Undefined(w2)
                           ELSE UpdateClientLastSeen(w2, w2.g.client[2])
    BY <1>5 DEF SeatClient, w1a
  <2>2. /\ w1.g.client[1] \in Client /\ w1.g.client[2] \in Client
        /\ w1.g.client[1] # w1.g.client[2]
    <3>1. w1.g.client[1] \in ClientOrNobody /\ w1.g.client[2] \in ClientOrNobody
      BY <1>2 DEF LiveWorld, WorldRecord, GameRecord, Slot
    <3>2. w1.g.client[1] # Nobody /\ w1.g.client[2] # Nobody
      BY <1>5 DEF BothPlayersOnline, Online, Slot
    <3>3. w1.g.client[1] # w1.g.client[2]
      BY <1>1 DEF HasPlayer, Slot
    <3> QED
      BY <3>1, <3>2, <3>3 DEF ClientOrNobody
  <2>3. LiveWorld(w2)
    BY <1>2, <2>2, UpdateClientLastSeenLive
  <2> DEFINE w3 == [w1a EXCEPT !.g.lastSeen[1] = "recent"]
  <2>4. w2 = IF w1a.g.lastSeen[2] = "expired" /\ Online(w1a.g, 2)
             THEN OnClientDisconnect(w3, w1a.g.client[2]) ELSE w3
    <3>1. PlayerSlot(w1a.g, w1.g.client[1]) = 1 /\ HasPlayer(w1a.g, w1.g.client[1]) /\ Other(1) = 2
      BY <1>3 DEF PlayerSlot, HasPlayer, Other, Slot
    <3> QED
      BY <3>1 DEF UpdateClientLastSeen
  <2>5. /\ LiveWorld(w3)
        /\ w3.g.client = w1.g.client
        /\ w3.g.lastSeen[2] = w1a.g.lastSeen[2]
    <3>1. w3.g.client = w1a.g.client
      BY <1>2 DEF LiveWorld, WorldRecord, GameRecord
    <3>2. w3.g.lastSeen[2] = w1a.g.lastSeen[2]
      BY <1>2 DEF LiveWorld, WorldRecord, GameRecord, Slot
    <3>3. LiveWorld(w3)
      BY <1>2 DEF LiveWorld, WorldRecord, GameRecord, Slot
    <3> QED
      BY <1>3, <3>1, <3>2, <3>3
  <2> HIDE DEF w2, w3
  \* Either the second player is found inactive and the game is paused ...
  <2>6. CASE w1a.g.lastSeen[2] = "expired" /\ Online(w1a.g, 2)
    <3>1. SecondSeen(w3.g) /\ w3.g.client[2] = w1a.g.client[2] /\ 2 \in Slot
      BY <1>3, <2>5, <2>6 DEF SecondSeen, Slot
    <3>2. PauseSound(w2.g) /\ w2.g.client[2] = Nobody
      <4>1. PauseSound(w2.g)
        BY <2>4, <2>5, <2>6, <3>1, DisconnectPauses
      <4>2. w2.g.client[2] = Nobody
        BY <2>4, <2>5, <2>6, <3>1, DisconnectEmpties
      <4> QED
        BY <4>1, <4>2
    <3> QED
      BY <2>1, <2>3, <3>2 DEF Undefined, Online, LiveWorld, WorldRecord
  \* ... or both are there, and the second one is seen.
  <2>7. CASE ~(w1a.g.lastSeen[2] = "expired" /\ Online(w1a.g, 2))
    <3>1. w2.g.client = w1.g.client
      BY <2>4, <2>5, <2>7
    <3>2. BothPlayersOnline(w2.g) /\ Online(w2.g, 2)
      BY <1>5, <3>1 DEF BothPlayersOnline, Online, Slot
    <3> QED
      BY <2>1, <2>2, <2>3, <3>1, <3>2, SeenPauses
  <2> QED
    BY <2>6, <2>7
<1> QED
  BY <1>4, <1>5

-----------------------------------------------------------------------------
(* Steps *)

\* What a handler ends with is the game.
LEMMA CommitKeepsAloneInv ==
    ASSUME IInv, AloneInv, NEW r \in Room, NEW w, PauseSound(w.g), Commit(r, w)
    PROVE  AloneInv'
<1>1. game \in [Room -> GameRecord]
  BY DEF IInv, TypeOK, GameTypeOK
<1>2. game'[r] = w.g /\ \A q \in Room \ {r} : game'[q] = game[q]
  BY <1>1 DEF Commit
<1> QED
  BY <1>2 DEF AloneInv

\* A step that leaves the players of every game that goes on alone.
LEMMA QuietKeepsAloneInv ==
    ASSUME AloneInv,
           \A r \in Room : GoesOn(game'[r]) =>
               /\ GoesOn(game[r]) /\ game'[r].client = game[r].client
               /\ game'[r].isPaused = game[r].isPaused
               /\ (game'[r].lastSeen[2] = "never") <=> (game[r].lastSeen[2] = "never")
    PROVE  AloneInv'
BY DEF AloneInv, PauseSound, PausedIfMissing, SecondSeen, Online, BothPlayersOnline

\* The steps of a game thread.
LEMMA GameKeepsAloneInv ==
    ASSUME IInv, CInv, AloneInv, NEW r \in Room, GameNext(r) PROVE AloneInv'
<1>0. /\ game \in [Room -> GameRecord] /\ gameInput \in [Room -> Seq(Client)]
      /\ game[r].task \in Task
  BY DEF IInv, TypeOK, GameTypeOK, SharedTypeOK, GameRecord
<1>1. /\ InLoop(r) => LiveWorld(World(r))
      /\ World(r).g = game[r] /\ PauseSound(game[r])
  BY WorldLive DEF IInv, InLoop, AloneInv, World
<1>2. ASSUME GameWaitForEvents(r) \/ GameDispatchInput(r) \/ GameExit(r)
             \/ (\E i \in Slot : InactivityExpires(r, i))
      PROVE  AloneInv'
  <2>1. \A q \in Room \ {r} : game'[q] = game[q]
    BY <1>0, <1>2 DEF GameWaitForEvents, GameDispatchInput, GameExit, InactivityExpires
  <2>2. CASE GameExit(r)
    <3>1. game'[r].thread = "none"
      BY <1>0, <2>2 DEF GameExit, NoGame, NewGame
    <3> QED
      BY <2>1, <3>1, QuietKeepsAloneInv DEF GoesOn
  <2>3. CASE GameWaitForEvents(r) \/ GameDispatchInput(r)
    <3>1. /\ game'[r].thread = game[r].thread /\ game'[r].isRunning = game[r].isRunning
          /\ game'[r].client = game[r].client /\ game'[r].isPaused = game[r].isPaused
          /\ game'[r].lastSeen = game[r].lastSeen
      BY <1>0, <2>3 DEF GameWaitForEvents, GameDispatchInput, GameRecord
    <3> QED
      BY <2>1, <3>1, QuietKeepsAloneInv DEF GoesOn
  <2>4. ASSUME NEW i \in Slot, InactivityExpires(r, i) PROVE AloneInv'
    <3>1. /\ game'[r].thread = game[r].thread /\ game'[r].isRunning = game[r].isRunning
          /\ game'[r].client = game[r].client /\ game'[r].isPaused = game[r].isPaused
          /\ game'[r].lastSeen[2] = IF i = 2 THEN "expired" ELSE game[r].lastSeen[2]
          /\ game[r].lastSeen[i] = "recent"
      BY <1>0, <2>4 DEF InactivityExpires, GameRecord, Slot
    <3> QED
      BY <2>1, <3>1, QuietKeepsAloneInv DEF GoesOn
  <2> QED
    BY <1>2, <2>2, <2>3, <2>4
<1>3. ASSUME GameOnNewClientConnect(r) PROVE AloneInv'
  <2> DEFINE c == Head(gameInput[r])
  <2>1. CASE gameInput[r] = <<>>
    <3>1. game' = [game EXCEPT ![r].task = NoTask]
      BY <1>3, <2>1 DEF GameOnNewClientConnect
    <3>2. /\ game'[r].thread = game[r].thread /\ game'[r].isRunning = game[r].isRunning
          /\ game'[r].client = game[r].client /\ game'[r].isPaused = game[r].isPaused
          /\ game'[r].lastSeen = game[r].lastSeen
          /\ \A q \in Room \ {r} : game'[q] = game[q]
      BY <1>0, <3>1 DEF GameRecord
    <3> QED
      BY <3>2, QuietKeepsAloneInv DEF GoesOn
  <2>2. CASE gameInput[r] # <<>> /\ BothPlayersOnline(game[r])
    <3>1. Commit(r, Throw(World(r))) /\ LiveWorld(World(r))
      BY <1>1, <1>3, <2>2 DEF GameOnNewClientConnect
    <3>2. PauseSound(Throw(World(r)).g)
      BY <3>1 DEF Throw, PauseSound, GoesOn, LiveWorld, WorldRecord, GameRecord
    <3> QED
      BY <3>1, <3>2, CommitKeepsAloneInv
  <2>3. CASE gameInput[r] # <<>> /\ ~BothPlayersOnline(game[r])
    <3>1. Commit(r, SeatClient(World(r), c)) /\ LiveWorld(World(r))
      BY <1>1, <1>3, <2>3 DEF GameOnNewClientConnect
    <3>2. c \in Client /\ c \in Elems(gameInput[r])
      BY <1>0, <2>3, Taken
    <3>3. /\ ~HasPlayer(game[r], c)
          /\ game[r].client[1] = game[r].client[2] => game[r].client[1] = Nobody
      BY <3>2, RoomStructsAssumption
         DEF CInv, RoomPlaces, Seated, HasPlayer, RoomStructsAssumption
    <3>4. PauseSound(SeatClient(World(r), c).g)
      BY <1>1, <2>3, <3>1, <3>2, <3>3, SeatPauses
    <3> QED
      BY <3>1, <3>4, CommitKeepsAloneInv
  <2> QED
    BY <2>1, <2>2, <2>3
<1>4. ASSUME NEW c \in Client, GameOnClientWrite(r, c) PROVE AloneInv'
  <2> DEFINE w == [World(r) EXCEPT !.g.events = @ \ {c}]
  <2>1. LiveWorld(World(r)) /\ World(r) \in WorldRecord
    BY <1>1, <1>4 DEF GameOnClientWrite, LiveWorld
  <2>2. PauseSound(Throw(w).g)
    BY <2>1 DEF Throw, PauseSound, GoesOn, WorldRecord, GameRecord
  <2>3. \A task : PauseSound([w EXCEPT !.g.task = task].g)
    <3> SUFFICES ASSUME NEW task PROVE PauseSound([w EXCEPT !.g.task = task].g)
      OBVIOUS
    <3> DEFINE h == [w EXCEPT !.g.task = task].g
    <3>1. /\ h.client = game[r].client /\ h.lastSeen = game[r].lastSeen
          /\ h.isPaused = game[r].isPaused
          /\ h.thread = game[r].thread /\ h.isRunning = game[r].isRunning
      BY <1>1, <2>1 DEF WorldRecord, GameRecord
    <3> QED
      BY <1>1, <3>1, SamePause DEF GoesOn
  <2>4. \/ Commit(r, Throw(w)) \/ \E task : Commit(r, [w EXCEPT !.g.task = task])
    BY <1>4 DEF GameOnClientWrite
  <2> QED
    BY <2>2, <2>3, <2>4, CommitKeepsAloneInv
<1>5. ASSUME NEW c \in Client, GameOnClientWriteFails(r, c) PROVE AloneInv'
  <2>1. LiveWorld(World(r)) /\ c \in game[r].events
    BY <1>1, <1>5 DEF GameOnClientWriteFails
  <2>2. PICK hangups \in 0 .. 2 :
           Commit(r, OnClientDisconnect(
              [World(r) EXCEPT !.g.events = @ \ {c},
                  !.g.task = Remaining([fd |-> c, left |-> 0, hangups |-> hangups])], c))
    BY <1>5 DEF GameOnClientWriteFails
  <2> DEFINE task == [fd |-> c, left |-> 0, hangups |-> hangups]
             w == [World(r) EXCEPT !.g.events = @ \ {c}, !.g.task = Remaining(task)]
  <2>3. Remaining(task) \in Task
    <3>1. task \in Task
      BY RoomStructsAssumption DEF Task, RoomStructsAssumption
    <3> QED
      BY <3>1, RemainingTask
  <2>4. LiveWorld(w) /\ PauseSound(w.g)
    <3>1. LiveWorld(w)
      BY <2>1, <2>3 DEF LiveWorld, WorldRecord, GameRecord
    <3>2. /\ w.g.client = game[r].client /\ w.g.lastSeen = game[r].lastSeen
          /\ w.g.isPaused = game[r].isPaused
          /\ w.g.thread = game[r].thread /\ w.g.isRunning = game[r].isRunning
      BY <1>1, <2>1 DEF LiveWorld, WorldRecord, GameRecord
    <3> QED
      BY <1>1, <3>1, <3>2, SamePause DEF GoesOn
  <2> QED
    BY <2>2, <2>4, DisconnectPauses, CommitKeepsAloneInv DEF PauseSound
<1>6. ASSUME NEW c \in Client, GameProcessMessage(r, c) PROVE AloneInv'
  <2> DEFINE w == [World(r) EXCEPT !.g.task = Remaining([game[r].task EXCEPT !.left = @ - 1])]
  <2>1. LiveWorld(World(r)) /\ LiveWorld(w)
    BY <1>1, <1>6, TaskLive DEF GameProcessMessage
  <2>2. PauseSound(w.g)
    <3>1. /\ w.g.client = game[r].client /\ w.g.lastSeen = game[r].lastSeen
          /\ w.g.isPaused = game[r].isPaused
          /\ w.g.thread = game[r].thread /\ w.g.isRunning = game[r].isRunning
      BY <1>1, <2>1 DEF LiveWorld, WorldRecord, GameRecord
    <3> QED
      BY <1>1, <3>1, SamePause DEF GoesOn
  <2>3. \/ Commit(r, Undefined(w))
        \/ \E m \in GameMessage : \E w1 \in ProcessClientMessage(w, c, m) : Commit(r, w1)
    BY <1>6 DEF GameProcessMessage
  <2>4. PauseSound(Undefined(w).g)
    BY <2>1, <2>2 DEF Undefined, LiveWorld, WorldRecord
  <2> QED
    BY <2>1, <2>2, <2>3, <2>4, MessagePauses, CommitKeepsAloneInv
<1>7. ASSUME NEW c \in Client, GameOnHangup(r, c) PROVE AloneInv'
  <2> DEFINE w == [World(r) EXCEPT !.g.task = Remaining([game[r].task EXCEPT !.hangups = @ - 1])]
  <2>1. LiveWorld(World(r)) /\ LiveWorld(w) /\ Commit(r, OnClientDisconnect(w, c))
    BY <1>1, <1>7, TaskLive DEF GameOnHangup
  <2>2. PauseSound(w.g)
    <3>1. /\ w.g.client = game[r].client /\ w.g.lastSeen = game[r].lastSeen
          /\ w.g.isPaused = game[r].isPaused
          /\ w.g.thread = game[r].thread /\ w.g.isRunning = game[r].isRunning
      BY <1>1, <2>1 DEF LiveWorld, WorldRecord, GameRecord
    <3> QED
      BY <1>1, <3>1, SamePause DEF GoesOn
  <2> QED
    BY <2>1, <2>2, DisconnectPauses, CommitKeepsAloneInv DEF PauseSound
<1> QED
  BY <1>2, <1>3, <1>4, <1>5, <1>6, <1>7 DEF GameNext

\* The idle thread changes a game only by starting one, which nobody has joined.
LEMMA NextLeavesNobodyAlone == IInv /\ CInv /\ AloneInv /\ [Next]_vars => AloneInv'
<1> SUFFICES ASSUME IInv, CInv, AloneInv, [Next]_vars PROVE AloneInv'
  OBVIOUS
<1>1. CASE UNCHANGED game
  BY <1>1 DEF AloneInv
<1>2. CASE GamesNext
  BY <1>2, GameKeepsAloneInv DEF GamesNext
<1>3. CASE \E r \in Room : game' = [game EXCEPT ![r] = NewGame]
  <2>1. PICK r \in Room : game' = [game EXCEPT ![r] = NewGame]
    BY <1>3
  <2>2. game'[r] = NewGame /\ \A q \in Room \ {r} : game'[q] = game[q]
    BY <2>1 DEF IInv, TypeOK, GameTypeOK
  <2>3. PauseSound(NewGame)
    BY DEF PauseSound, SecondSeen, PausedIfMissing, Online, NewGame, Slot
  <2> QED
    BY <2>2, <2>3 DEF AloneInv
<1>4. CASE IdleNext
  <2>1. \/ UNCHANGED game
        \/ \E c \in clientsMap, m \in IdleMessage : IdleProcessClientMessage(c, m)
    BY <1>4 DEF IdleNext, IdleOnNewClientConnect, IdleOnClientWrite, IdleOnClientWriteFails,
       IdleProcessMessage, IdleOnHangup, SendClientToGameThread, OnGameStateChange
  <2>2. ASSUME NEW c \in clientsMap, NEW m \in IdleMessage, IdleProcessClientMessage(c, m)
        PROVE  UNCHANGED game \/ \E r \in Room : game' = [game EXCEPT ![r] = NewGame]
    <3>1. m.method = "JOIN_GAME" => m.arg \in Room \cup {Missing}
      BY DEF IdleMessage
    <3>2. ASSUME NEW r \in Room \cup {Missing}, JoinGameRoom(c, r)
          PROVE  UNCHANGED game \/ \E q \in Room : game' = [game EXCEPT ![q] = NewGame]
      BY <3>2 DEF JoinGameRoom, NewGameThread, IdleDenyRequest
    <3> QED
      BY <2>2, <3>1, <3>2 DEF IdleProcessClientMessage, IdleReply, IdleDenyRequest, EnterUsername
  <2> QED
    BY <1>1, <1>3, <2>1, <2>2
<1>5. CASE AcceptNext \/ UNCHANGED vars
  BY <1>1, <1>5 DEF AcceptNext, TcpAcceptLoop, vars
<1> QED
  BY <1>2, <1>4, <1>5 DEF Next

\* The invariant says more than the property.
LEMMA AloneInvSuffices == AloneInv => PausedWhileMissing
BY DEF AloneInv, PauseSound, PausedIfMissing, GoesOn, InLoop, PausedWhileMissing

\* Nobody plays alone: however a player of a started game goes, by a hang-up, a
\* failed read, too many denials or his silence, the game is paused when it goes on.
THEOREM MissingPlayersPauseGames == Spec => []PausedWhileMissing
<1>1. Init => CInv /\ HandOverSound /\ AloneInv
  <2>1. Init => AloneInv
    BY DEF Init, GameInit, AloneInv, PauseSound, GoesOn, NoGame, NewGame
  <2> QED
    BY <2>1, InitCInv
<1>2. IInv /\ WaitingListSound /\ HandOverSound /\ CInv /\ [Next]_vars => CInv' /\ HandOverSound'
  BY NextKeepsCInv
<1>3. IInv /\ CInv /\ AloneInv /\ [Next]_vars => AloneInv'
  BY NextLeavesNobodyAlone
<1>4. AloneInv => PausedWhileMissing
  BY AloneInvSuffices
<1> QED
  BY Invariance, WaitingListIsSound, <1>1, <1>2, <1>3, <1>4, PTL DEF Spec
=============================================================================
