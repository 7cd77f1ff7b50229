-------------------------- MODULE UpsServerProofs --------------------------
(***************************************************************************)
(* Proofs about the server for any number of clients, names and rooms and  *)
(* for every board.                                                        *)
(*                                                                         *)
(* The inductive invariant is the type invariant, the agreement of the     *)
(* room table with the threads, and the fact that a client waiting for a   *)
(* room has a name (without it the names in the table are not known to be  *)
(* names).                                                                 *)
(***************************************************************************)
EXTENDS UpsServer, TLAPS

WaitingNamed ==
    \A c \in Client : waitingToJoinGame[c] # NoRoom => HasName(c)

IInv == TypeOK /\ RoomAgreement /\ WaitingNamed

-----------------------------------------------------------------------------
(* The worlds a handler of a game thread goes through: typed, with a thread *)
(* and without a report of the end in the output queue.                     *)

WorldRecord ==
    [g : GameRecord, out : Seq(GameStateChange),
     denied : [Client -> 0 .. MaxReqDenied],
     conn : [Client -> {"new", "open", "closed"}], defined : BOOLEAN]

LiveWorld(w) ==
    /\ w \in WorldRecord
    /\ w.g.thread # "none"
    /\ NoIdleChange(w.out)

LEMMA ThrowLive ==
    ASSUME NEW w, LiveWorld(w) PROVE LiveWorld(Throw(w))
BY DEF LiveWorld, WorldRecord, GameRecord, Throw

LEMMA UndefinedLive ==
    ASSUME NEW w, LiveWorld(w) PROVE LiveWorld(Undefined(w))
BY DEF LiveWorld, WorldRecord, Undefined

\* Reporting a pause keeps the reports free of the end.
LEMMA PausedReport ==
    ASSUME NEW out \in Seq(GameStateChange), NoIdleChange(out)
    PROVE  /\ Append(out, PausedChange) \in Seq(GameStateChange)
           /\ NoIdleChange(Append(out, PausedChange))
BY DEF NoIdleChange, PausedChange, Change, GameStateChange, GameState, ClientOrNobody

LEMMA OnClientDisconnectLive ==
    ASSUME NEW w, LiveWorld(w), NEW c \in Client
    PROVE  LiveWorld(OnClientDisconnect(w, c))
<1> DEFINE w1 == [w EXCEPT
                 !.g.client = [i \in Slot |-> IF @[i] = c THEN Nobody ELSE @[i]],
                 !.conn = [d \in Client |-> IF d = c /\ HasPlayer(w.g, c)
                                            THEN "closed" ELSE @[d]]]
<1>1. LiveWorld(w1)
  BY DEF LiveWorld, WorldRecord, GameRecord, ClientOrNobody, Slot
<1>2. LiveWorld([w1 EXCEPT !.g.isRunning = FALSE])
  BY <1>1 DEF LiveWorld, WorldRecord, GameRecord
<1>3. LiveWorld([w1 EXCEPT !.g.isPaused = TRUE, !.out = Append(@, PausedChange)])
  BY <1>1, PausedReport DEF LiveWorld, WorldRecord, GameRecord
<1> QED
  BY <1>2, <1>3 DEF OnClientDisconnect, PauseGame

LEMMA GameDenyRequestLive ==
    ASSUME NEW w, LiveWorld(w), NEW c \in Client
    PROVE  LiveWorld(GameDenyRequest(w, c))
<1>1. CASE TooManyDenials(w.denied[c])
  BY <1>1, OnClientDisconnectLive DEF GameDenyRequest
<1>2. CASE ~(TooManyDenials(w.denied[c]))
  <2>1. w.denied \in [Client -> 0 .. MaxReqDenied]
    BY DEF LiveWorld, WorldRecord
  <2>2. w.denied[c] + 1 \in 0 .. MaxReqDenied
    BY <1>2, <2>1, RoomStructsAssumption DEF TooManyDenials, RoomStructsAssumption
  <2>3. [w.denied EXCEPT ![c] = @ + 1] \in [Client -> 0 .. MaxReqDenied]
    BY <2>1, <2>2
  <2>4. LiveWorld([w EXCEPT !.denied = [w.denied EXCEPT ![c] = @ + 1]])
    BY <2>3 DEF LiveWorld, WorldRecord
  <2>5. GameDenyRequest(w, c) = [w EXCEPT !.denied = [w.denied EXCEPT ![c] = @ + 1]]
    BY <1>2 DEF GameDenyRequest, LiveWorld, WorldRecord
  <2> QED
    BY <2>4, <2>5
<1> QED
  BY <1>1, <1>2

\* A seated client's slot is one of the two.
LEMMA PlayerSlotIsSlot ==
    ASSUME NEW g, NEW c PROVE PlayerSlot(g, c) \in Slot /\ Other(PlayerSlot(g, c)) \in Slot
BY DEF PlayerSlot, Slot, Other

LEMMA UpdateClientLastSeenLive ==
    ASSUME NEW w, LiveWorld(w), NEW c \in Client
    PROVE  LiveWorld(UpdateClientLastSeen(w, c))
<1> DEFINE i == PlayerSlot(w.g, c)
           j == Other(i)
           w1 == [w EXCEPT !.g.lastSeen[i] = "recent"]
<1>1. CASE ~HasPlayer(w.g, c)
  BY <1>1, ThrowLive DEF UpdateClientLastSeen
<1>2. CASE HasPlayer(w.g, c)
  <2>1. i \in Slot /\ j \in Slot
    BY PlayerSlotIsSlot
  <2>2. LiveWorld(w1)
    BY <2>1 DEF LiveWorld, WorldRecord, GameRecord
  <2>3. w.g.client[j] \in ClientOrNobody
    BY <2>1 DEF LiveWorld, WorldRecord, GameRecord
  <2>4. CASE Online(w.g, j)
    <3>1. w.g.client[j] \in Client
      BY <2>3, <2>4 DEF Online, ClientOrNobody
    <3> QED
      BY <1>2, <2>2, <3>1, OnClientDisconnectLive DEF UpdateClientLastSeen
  <2>5. CASE ~Online(w.g, j)
    BY <1>2, <2>2, <2>5 DEF UpdateClientLastSeen
  <2> QED
    BY <2>4, <2>5
<1> QED
  BY <1>1, <1>2

LEMMA AddEdgeLive ==
    ASSUME NEW w, LiveWorld(w), NEW i \in Slot, NEW e \in Edge
    PROVE  LiveWorld(AddEdge(w, i, e))
<1>1. w.g.graph \in [Slot -> SUBSET Edge] /\ w.g.isPlayerOneTurn \in BOOLEAN
  BY DEF LiveWorld, WorldRecord, GameRecord
<1>2. [w.g.graph EXCEPT ![i] = @ \cup {e}] \in [Slot -> SUBSET Edge]
  BY <1>1
<1>3. [j \in Slot |-> {}] \in [Slot -> SUBSET Edge]
  OBVIOUS
<1>4. \A graph \in [Slot -> SUBSET Edge] :
         LiveWorld([w EXCEPT !.g.isPlayerOneTurn = ~@, !.g.graph = graph])
  BY <1>1 DEF LiveWorld, WorldRecord, GameRecord
<1> QED
  BY <1>2, <1>3, <1>4 DEF AddEdge, ClearGame

LEMMA ProcessGameCommandLive ==
    ASSUME NEW w, LiveWorld(w), NEW c \in Client,
           NEW arg \in Edge \cup {Missing, TooShort}
    PROVE  LiveWorld(ProcessGameCommand(w, c, arg))
<1>1. PlayerSlot(w.g, c) \in Slot
  BY PlayerSlotIsSlot
<1>2. arg # Missing /\ arg # TooShort => arg \in Edge
  OBVIOUS
<1>3. /\ LiveWorld(GameDenyRequest(w, c))
      /\ LiveWorld(Undefined(w))
      /\ LiveWorld(Throw(w))
  BY GameDenyRequestLive, UndefinedLive, ThrowLive
<1>4. arg \in Edge => LiveWorld(AddEdge(w, PlayerSlot(w.g, c), arg))
  BY <1>1, AddEdgeLive
<1> QED
  BY <1>2, <1>3, <1>4 DEF ProcessGameCommand

LEMMA ProcessClientMessageLive ==
    ASSUME NEW w, LiveWorld(w), NEW c \in Client, NEW m \in GameMessage,
           NEW w2 \in ProcessClientMessage(w, c, m)
    PROVE  LiveWorld(w2)
<1> DEFINE w1 == CASE m.method = "GAME_COMMAND" -> ProcessGameCommand(w, c, m.arg)
                   [] m.method = "GAME_LEAVE"   -> [w EXCEPT !.g.isRunning = FALSE]
                   [] m.method = "GAME_PING"    -> w
                   [] OTHER                     -> GameDenyRequest(w, c)
<1>1. m.method = "GAME_COMMAND" => m.arg \in Edge \cup {Missing, TooShort}
  BY DEF GameMessage
<1>2. LiveWorld([w EXCEPT !.g.isRunning = FALSE])
  BY DEF LiveWorld, WorldRecord, GameRecord
<1>3. LiveWorld(w1)
  BY <1>1, <1>2, ProcessGameCommandLive, GameDenyRequestLive
<1>4. w2 = w1 \/ \E d \in Client : w2 = UpdateClientLastSeen(w1, d)
  BY DEF ProcessClientMessage
<1> QED
  BY <1>3, <1>4, UpdateClientLastSeenLive

LEMMA SeatClientLive ==
    ASSUME NEW w, LiveWorld(w), NEW c \in Client
    PROVE  LiveWorld(SeatClient(w, c))
<1> DEFINE i == IF Online(w.g, 1) THEN 2 ELSE 1
           w1 == [w EXCEPT !.g.client[i] = c]
           w1a == [w1 EXCEPT !.g.isPaused = FALSE]
           w2 == UpdateClientLastSeen(w1a, w1.g.client[1])
<1>1. i \in Slot
  BY DEF Slot
<1>2. LiveWorld(w1)
  BY <1>1 DEF LiveWorld, WorldRecord, GameRecord, ClientOrNobody
<1>3. CASE ~BothPlayersOnline(w1.g)
  BY <1>2, <1>3 DEF SeatClient
<1>4. CASE BothPlayersOnline(w1.g)
  <2>1. LiveWorld(w1a)
    BY <1>2 DEF LiveWorld, WorldRecord, GameRecord
  <2>2. w1.g.client[1] \in Client
    BY <1>2, <1>4 DEF LiveWorld, WorldRecord, GameRecord, ClientOrNobody, Slot,
                      BothPlayersOnline, Online
  <2>3. LiveWorld(w2)
    BY <2>1, <2>2, UpdateClientLastSeenLive
  <2>4. CASE ~Online(w2.g, 2)
    BY <1>4, <2>3, <2>4, UndefinedLive DEF SeatClient
  <2>5. CASE Online(w2.g, 2)
    <3>1. w2.g.client[2] \in Client
      BY <2>3, <2>5, ZenonT(30) DEF LiveWorld, WorldRecord, GameRecord, ClientOrNobody, Slot, Online
    <3>2. LiveWorld(UpdateClientLastSeen(w2, w2.g.client[2]))
      BY <2>3, <3>1, UpdateClientLastSeenLive
    <3> QED
      BY <1>4, <2>5, <3>2 DEF SeatClient
  <2> QED
    BY <2>4, <2>5
<1> QED
  BY <1>3, <1>4

-----------------------------------------------------------------------------
(* Steps of a game thread *)

\* No thread starts and none ends.
SameLife == \A q \in Room : game'[q].thread = "none" <=> game[q].thread = "none"

\* Before its handlers run, the world of a thread is a live one.
LEMMA WorldLive ==
    ASSUME TypeOK, RoomAgreement, NEW r \in Room, game[r].thread # "none"
    PROVE  LiveWorld(World(r))
BY DEF TypeOK, SharedTypeOK, GameTypeOK, RoomAgreement, RoomAgrees,
       LiveWorld, WorldRecord, World

\* Committing a live world of a thread keeps the invariant.
LEMMA CommitKeepsIInv ==
    ASSUME IInv, NEW r \in Room, InLoop(r), NEW w, LiveWorld(w), Commit(r, w),
           UNCHANGED <<gameKeeps, idleVars>>,
           gameInput' \in [Room -> Seq(Client)]
    PROVE  IInv' /\ SameLife
<1> USE DEF IInv, gameKeeps, idleVars, roomVars
<1>1. SharedTypeOK'
  BY DEF TypeOK, SharedTypeOK, Commit, LiveWorld, WorldRecord
<1>2. GameTypeOK'
  BY DEF TypeOK, GameTypeOK, Commit, LiveWorld, WorldRecord
<1>3. IdleTypeOK'
  BY DEF TypeOK, IdleTypeOK
<1>4. ASSUME NEW q \in Room PROVE RoomAgrees(q)'
  <2>1. CASE q = r
    BY <2>1 DEF TypeOK, SharedTypeOK, GameTypeOK, RoomAgreement, RoomAgrees, Commit,
                LiveWorld, InLoop
  <2>2. CASE q # r
    <3>1. game'[q] = game[q] /\ gameOutput'[q] = gameOutput[q]
      BY <2>2 DEF TypeOK, SharedTypeOK, GameTypeOK, Commit
    <3> QED
      BY <3>1 DEF RoomAgreement, RoomAgrees, NoIdleChange, EndsIdle
  <2> QED
    BY <2>1, <2>2
<1>5. WaitingNamed'
  BY DEF WaitingNamed, HasName
<1>6. SameLife
  BY DEF SameLife, TypeOK, GameTypeOK, Commit, LiveWorld, InLoop
<1> QED
  BY <1>1, <1>2, <1>3, <1>4, <1>5, <1>6 DEF TypeOK, RoomAgreement

\* A step that changes neither the room table, the queues of reports nor who is
\* waiting, and that starts and ends no thread, keeps the agreement.
LEMMA SameRooms ==
    ASSUME IInv, UNCHANGED <<idleVars, gameOutput, clientName>>,
           game' \in [Room -> GameRecord],
           \A q \in Room : game'[q].thread = game[q].thread
    PROVE  RoomAgreement' /\ WaitingNamed' /\ IdleTypeOK'
<1>1. RoomAgreement'
  BY DEF IInv, idleVars, roomVars, RoomAgreement, RoomAgrees, NoIdleChange, EndsIdle
<1>2. WaitingNamed' /\ IdleTypeOK'
  BY DEF IInv, idleVars, roomVars, WaitingNamed, HasName, TypeOK, IdleTypeOK
<1> QED
  BY <1>1, <1>2

\* A task with one thing less to do is a task.
LEMMA RemainingTask ==
    ASSUME NEW task \in Task
    PROVE  /\ Remaining(task) \in Task
           /\ task.left > 0 => Remaining([task EXCEPT !.left = @ - 1]) \in Task
           /\ task.hangups > 0 => Remaining([task EXCEPT !.hangups = @ - 1]) \in Task
<1>1. NoTask \in Task
  BY RoomStructsAssumption DEF NoTask, Task, RoomStructsAssumption
<1>2. task.left > 0 => [task EXCEPT !.left = @ - 1] \in Task
  BY RoomStructsAssumption DEF Task, RoomStructsAssumption
<1>3. task.hangups > 0 => [task EXCEPT !.hangups = @ - 1] \in Task
  BY DEF Task
<1> QED
  BY <1>1, <1>2, <1>3 DEF Remaining

LEMMA TaskLive ==
    ASSUME NEW r, LiveWorld(World(r))
    PROVE  /\ game[r].task.left > 0 =>
                LiveWorld([World(r) EXCEPT !.g.task = Remaining([game[r].task EXCEPT !.left = @ - 1])])
           /\ game[r].task.hangups > 0 =>
                LiveWorld([World(r) EXCEPT !.g.task = Remaining([game[r].task EXCEPT !.hangups = @ - 1])])
<1>1. World(r) \in WorldRecord /\ World(r).g = game[r]
  BY DEF LiveWorld, World
<1>2. game[r].task \in Task
  BY <1>1 DEF WorldRecord, GameRecord
<1>3. \A task \in Task : LiveWorld([World(r) EXCEPT !.g.task = task])
  BY DEF LiveWorld, WorldRecord, GameRecord
<1>4. game[r].task.left > 0 => Remaining([game[r].task EXCEPT !.left = @ - 1]) \in Task
  BY <1>2, RemainingTask
<1>5. game[r].task.hangups > 0 => Remaining([game[r].task EXCEPT !.hangups = @ - 1]) \in Task
  BY <1>2, RemainingTask
<1> QED
  BY <1>3, <1>4, <1>5

\* A step that only changes the Game object of one room, and not its thread.
LEMMA SameThread ==
    ASSUME IInv, UNCHANGED <<sharedVars, idleVars>>,
           NEW r \in Room, NEW g \in GameRecord, g.thread = game[r].thread,
           game' = [game EXCEPT ![r] = g]
    PROVE  IInv' /\ SameLife
<1>1. game \in [Room -> GameRecord]
  BY DEF IInv, TypeOK, GameTypeOK
<1>2. game' \in [Room -> GameRecord] /\ \A q \in Room : game'[q].thread = game[q].thread
  BY <1>1
<1>3. RoomAgreement' /\ WaitingNamed' /\ IdleTypeOK'
  BY <1>2, SameRooms DEF sharedVars
<1>4. SharedTypeOK' /\ GameTypeOK'
  BY <1>2 DEF IInv, TypeOK, SharedTypeOK, GameTypeOK, sharedVars
<1> QED
  BY <1>2, <1>3, <1>4 DEF IInv, TypeOK, SameLife

\* The exit of a game thread reports the end, and nothing is reported before.
LEMMA GameExitKeepsIInv ==
    ASSUME IInv, NEW r \in Room, GameExit(r), UNCHANGED idleVars
    PROVE  IInv'
<1> DEFINE report == Change("IDLE", game[r].client[1], game[r].client[2])
<1> USE DEF gameKeeps
<1>0. game \in [Room -> GameRecord] /\ gameOutput \in [Room -> Seq(GameStateChange)]
  BY DEF IInv, TypeOK, SharedTypeOK, GameTypeOK
<1>1. /\ gameOutput' = [gameOutput EXCEPT ![r] = Append(@, report)]
      /\ game' = [game EXCEPT ![r] = NoGame]
      /\ game[r].thread # "none"
      /\ UNCHANGED <<process, conn, reqDeniedCnt, gameInput, gameKeeps>>
  BY DEF GameExit, InLoop, EndReport
<1>2. report \in GameStateChange /\ report.newState = "IDLE"
  BY <1>0 DEF Change, GameStateChange, GameState, GameRecord, Slot
<1>3. gameOutput' \in [Room -> Seq(GameStateChange)]
  BY <1>0, <1>1, <1>2
<1>4. NoGame \in GameRecord /\ NoGame.thread = "none"
  <2>1. NoTask \in Task
    BY RoomStructsAssumption DEF NoTask, Task, RoomStructsAssumption
  <2>2. NewGame \in GameRecord
    BY <2>1 DEF NewGame, GameRecord, Slot, ClientOrNobody
  <2> QED
    BY <2>2 DEF NoGame, GameRecord
<1>5. SharedTypeOK' /\ GameTypeOK' /\ IdleTypeOK' /\ WaitingNamed'
  BY <1>0, <1>1, <1>3, <1>4 DEF IInv, TypeOK, SharedTypeOK, GameTypeOK, IdleTypeOK,
     idleVars, roomVars, WaitingNamed, HasName
<1>6. ASSUME NEW q \in Room PROVE RoomAgrees(q)'
  <2>1. RoomAgrees(q) /\ RoomAgrees(r)
    BY DEF IInv, RoomAgreement
  <2>2. CASE q = r
    <3>1. game'[q].thread = "none"
      BY <1>0, <1>1, <1>4, <2>2
    <3>2. NoIdleChange(gameOutput[r]) /\ gameState[r] # "IDLE"
      BY <1>1, <2>1 DEF RoomAgrees
    <3>3. gameOutput'[r] = Append(gameOutput[r], report)
      BY <1>0, <1>1
    <3>4. gameOutput[r] \in Seq(GameStateChange)
      BY <1>0
    <3>5. \A out \in Seq(GameStateChange) :
             NoIdleChange(out) => EndsIdle(Append(out, report))
      BY <1>2 DEF EndsIdle, NoIdleChange
    <3>6. EndsIdle(gameOutput'[r])
      BY <3>2, <3>3, <3>4, <3>5
    <3> QED
      BY <2>1, <2>2, <3>1, <3>2, <3>6 DEF RoomAgrees, idleVars, roomVars, EndsIdle
  <2>3. CASE q # r
    <3>1. game'[q] = game[q] /\ gameOutput'[q] = gameOutput[q]
      BY <1>0, <1>1, <2>3
    <3> QED
      BY <2>1, <3>1 DEF RoomAgrees, NoIdleChange, EndsIdle, idleVars, roomVars
  <2> QED
    BY <2>2, <2>3
<1> QED
  BY <1>5, <1>6 DEF IInv, TypeOK, RoomAgreement

LEMMA GameNextKeepsIInv ==
    ASSUME IInv, NEW r \in Room, GameNext(r), UNCHANGED idleVars
    PROVE  IInv' /\ (GameExit(r) \/ SameLife)
<1> USE DEF gameKeeps
<1>0. /\ game \in [Room -> GameRecord]
      /\ gameInput \in [Room -> Seq(Client)]
      /\ game[r].task \in Task
      /\ game[r].events \subseteq Client \cup {Input}
  BY DEF IInv, TypeOK, SharedTypeOK, GameTypeOK, GameRecord
<1>1. ASSUME GameExit(r) PROVE IInv'
  BY <1>1, GameExitKeepsIInv
<1>2. ASSUME NEW i \in Slot, InactivityExpires(r, i) PROVE IInv' /\ SameLife
  <2> DEFINE g == [game[r] EXCEPT !.lastSeen[i] = "expired"]
  <2>1. g \in GameRecord /\ g.thread = game[r].thread
    BY <1>0 DEF GameRecord
  <2>2. game' = [game EXCEPT ![r] = g] /\ UNCHANGED sharedVars
    BY <1>0, <1>2 DEF InactivityExpires
  <2> QED
    BY <2>1, <2>2, SameThread
<1>3. ASSUME InLoop(r) PROVE LiveWorld(World(r))
  BY <1>3, WorldLive DEF IInv, InLoop
<1>4. ASSUME InLoop(r), LiveWorld(World(r)), ~GameExit(r),
             ~\E i \in Slot : InactivityExpires(r, i)
      PROVE  IInv' /\ SameLife
  <2>1. ASSUME GameWaitForEvents(r) PROVE IInv' /\ SameLife
    <3>1. PICK players \in SUBSET ({game[r].client[i] : i \in Slot} \ {Nobody}) :
             game' = [game EXCEPT ![r].events =
                        players \cup IF gameInput[r] # <<>> THEN {Input} ELSE {}]
      BY <2>1 DEF GameWaitForEvents
    <3> DEFINE ready == players \cup IF gameInput[r] # <<>> THEN {Input} ELSE {}
               g == [game[r] EXCEPT !.events = ready]
    <3>2. \A i \in Slot : game[r].client[i] \in ClientOrNobody
      BY <1>0 DEF GameRecord
    <3>3. ready \subseteq Client \cup {Input}
      BY <3>1, <3>2 DEF ClientOrNobody
    <3>4. g \in GameRecord /\ g.thread = game[r].thread
      BY <1>0, <3>3 DEF GameRecord
    <3>5. game' = [game EXCEPT ![r] = g]
      BY <1>0, <3>1
    <3>6. UNCHANGED sharedVars
      BY <2>1 DEF GameWaitForEvents
    <3> QED
      BY <3>4, <3>5, <3>6, SameThread
  <2>2. ASSUME GameDispatchInput(r) PROVE IInv' /\ SameLife
    <3> DEFINE g == [game[r] EXCEPT !.events = @ \ {Input}, !.task = [@ EXCEPT !.fd = Input]]
    <3>1. [game[r].task EXCEPT !.fd = Input] \in Task
      BY <1>0 DEF Task
    <3>2. g \in GameRecord /\ g.thread = game[r].thread
      BY <1>0, <3>1 DEF GameRecord
    <3>3. game' = [game EXCEPT ![r] = g]
      BY <1>0, <2>2 DEF GameDispatchInput, GameRecord
    <3>4. UNCHANGED sharedVars
      BY <2>2 DEF GameDispatchInput
    <3> QED
      BY <3>2, <3>3, <3>4, SameThread
  <2>3. ASSUME GameOnNewClientConnect(r) PROVE IInv' /\ SameLife
    <3>1. CASE gameInput[r] = <<>>
      <4> DEFINE g == [game[r] EXCEPT !.task = NoTask]
      <4>1. NoTask \in Task
        BY RoomStructsAssumption DEF NoTask, Task, RoomStructsAssumption
      <4>2. g \in GameRecord /\ g.thread = game[r].thread
        BY <1>0, <4>1 DEF GameRecord
      <4>3. game' = [game EXCEPT ![r] = g] /\ UNCHANGED sharedVars
        BY <1>0, <2>3, <3>1 DEF GameOnNewClientConnect
      <4> QED
        BY <4>2, <4>3, SameThread
    <3>2. CASE gameInput[r] # <<>>
      <4>1. Head(gameInput[r]) \in Client /\ Tail(gameInput[r]) \in Seq(Client)
        BY <1>0, <3>2
      <4>2. [gameInput EXCEPT ![r] = Tail(@)] \in [Room -> Seq(Client)]
        BY <1>0, <4>1
      <4>3. LiveWorld(Throw(World(r))) /\ LiveWorld(SeatClient(World(r), Head(gameInput[r])))
        BY <1>4, <4>1, ThrowLive, SeatClientLive
      <4>4. CASE BothPlayersOnline(game[r])
        BY <1>0, <1>4, <2>3, <3>2, <4>3, <4>4, CommitKeepsIInv DEF GameOnNewClientConnect
      <4>5. CASE ~BothPlayersOnline(game[r])
        BY <1>4, <2>3, <3>2, <4>2, <4>3, <4>5, CommitKeepsIInv DEF GameOnNewClientConnect
      <4> QED
        BY <4>4, <4>5
    <3> QED
      BY <3>1, <3>2
  <2>4. ASSUME NEW c \in Client, GameOnClientWrite(r, c) PROVE IInv' /\ SameLife
    <3> DEFINE w == [World(r) EXCEPT !.g.events = @ \ {c}]
    <3>1. LiveWorld(w)
      BY <1>4 DEF LiveWorld, WorldRecord, GameRecord
    <3>2. CASE ~HasPlayer(game[r], c)
      <4>1. LiveWorld(Throw(w))
        BY <3>1, ThrowLive
      <4> QED
        BY <1>0, <1>4, <2>4, <3>2, <4>1, CommitKeepsIInv DEF GameOnClientWrite
    <3>3. CASE HasPlayer(game[r], c)
      <4>1. PICK left \in 0 .. MaxBatch, hangups \in 0 .. 2 :
               Commit(r, [w EXCEPT !.g.task =
                   Remaining([fd |-> c, left |-> left, hangups |-> hangups])])
        BY <2>4, <3>3 DEF GameOnClientWrite
      <4>2. [fd |-> c, left |-> left, hangups |-> hangups] \in Task
        BY DEF Task
      <4>3. LiveWorld([w EXCEPT !.g.task =
                   Remaining([fd |-> c, left |-> left, hangups |-> hangups])])
        BY <3>1, <4>2, RemainingTask DEF LiveWorld, WorldRecord, GameRecord
      <4> QED
        BY <1>0, <1>4, <2>4, <4>1, <4>3, CommitKeepsIInv DEF GameOnClientWrite
    <3> QED
      BY <3>2, <3>3
  <2>5. ASSUME NEW c \in Client, GameOnClientWriteFails(r, c) PROVE IInv' /\ SameLife
    <3>1. PICK hangups \in 0 .. 2 :
             Commit(r, OnClientDisconnect(
               [World(r) EXCEPT !.g.events = @ \ {c},
                   !.g.task = Remaining([fd |-> c, left |-> 0, hangups |-> hangups])], c))
      BY <2>5 DEF GameOnClientWriteFails
    <3>2. [fd |-> c, left |-> 0, hangups |-> hangups] \in Task
      BY RoomStructsAssumption DEF Task, RoomStructsAssumption
    <3>3. LiveWorld([World(r) EXCEPT !.g.events = @ \ {c},
               !.g.task = Remaining([fd |-> c, left |-> 0, hangups |-> hangups])])
      BY <1>4, <3>2, RemainingTask DEF LiveWorld, WorldRecord, GameRecord
    <3> QED
      BY <1>0, <1>4, <2>5, <3>1, <3>3, OnClientDisconnectLive, CommitKeepsIInv
         DEF GameOnClientWriteFails
  <2>6. ASSUME NEW c \in Client, GameProcessMessage(r, c) PROVE IInv' /\ SameLife
    <3> DEFINE w == [World(r) EXCEPT !.g.task = Remaining([game[r].task EXCEPT !.left = @ - 1])]
    <3>1. game[r].task.left > 0
      BY <2>6 DEF GameProcessMessage
    <3>2. LiveWorld(w)
      BY <1>4, <3>1, TaskLive
    <3>3. CASE ~HasPlayer(game[r], c)
      <4>1. LiveWorld(Undefined(w))
        BY <3>2, UndefinedLive
      <4> QED
        BY <1>0, <1>4, <2>6, <3>3, <4>1, CommitKeepsIInv DEF GameProcessMessage
    <3>4. CASE HasPlayer(game[r], c)
      <4>1. PICK m \in GameMessage : \E w1 \in ProcessClientMessage(w, c, m) : Commit(r, w1)
        BY <2>6, <3>4 DEF GameProcessMessage
      <4>2. PICK w1 \in ProcessClientMessage(w, c, m) : Commit(r, w1)
        BY <4>1
      <4>3. LiveWorld(w1)
        BY <3>2, <4>2, ProcessClientMessageLive
      <4> QED
        BY <1>0, <1>4, <2>6, <4>2, <4>3, CommitKeepsIInv DEF GameProcessMessage
    <3> QED
      BY <3>3, <3>4
  <2>7. ASSUME NEW c \in Client, GameOnHangup(r, c) PROVE IInv' /\ SameLife
    <3> DEFINE w == [World(r) EXCEPT !.g.task = Remaining([game[r].task EXCEPT !.hangups = @ - 1])]
    <3>1. game[r].task.hangups > 0
      BY <2>7 DEF GameOnHangup
    <3>2. LiveWorld(w)
      BY <1>4, <3>1, TaskLive
    <3> QED
      BY <1>0, <1>4, <2>7, <3>2, OnClientDisconnectLive, CommitKeepsIInv DEF GameOnHangup
  <2> QED
    BY <1>4, <2>1, <2>2, <2>3, <2>4, <2>5, <2>6, <2>7 DEF GameNext
<1>5. GameExit(r) \/ (\E i \in Slot : InactivityExpires(r, i)) \/ InLoop(r)
  BY DEF GameNext, GameWaitForEvents, GameDispatchInput, GameOnNewClientConnect,
         GameOnClientWrite, GameOnClientWriteFails, GameProcessMessage, GameOnHangup
<1> QED
  BY <1>1, <1>2, <1>3, <1>4, <1>5


-----------------------------------------------------------------------------
(* Steps of the idle thread *)

\* A step that touches no room and no game keeps what is known of the rooms.
LEMMA SameRoomTable ==
    ASSUME IInv, UNCHANGED <<roomVars, game, gameOutput>>
    PROVE  RoomAgreement' /\ GameTypeOK'
BY DEF IInv, roomVars, RoomAgreement, RoomAgrees, NoIdleChange, EndsIdle, TypeOK, GameTypeOK

\* The facts about types the idle thread's steps start from.
IdleTyped ==
    /\ process \in {"up", "undefined", "terminated"}
    /\ conn \in [Client -> {"new", "open", "closed"}]
    /\ clientName \in [Client -> Name \cup {NoName}]
    /\ reqDeniedCnt \in [Client -> 0 .. MaxReqDenied]
    /\ clientsMap \subseteq Client
    /\ waitingToJoinGame \in [Client -> Room \cup {NoRoom}]
    /\ gameState \in [Room -> GameState]
    /\ roomUsers \in [Room -> Seq(Name)]
    /\ pausedGameRooms \subseteq Room
    /\ handOver \in Seq(Room \X Client)
    /\ game \in [Room -> GameRecord]

LEMMA IdleTypes ==
    /\ IInv => IdleTyped
    /\ /\ IdleTyped
       /\ newClientsQueue \in Seq(Client)
       /\ gameInput \in [Room -> Seq(Client)]
       /\ gameOutput \in [Room -> Seq(GameStateChange)]
       /\ idleTask \in [client : ClientOrNobody, left : 0 .. MaxBatch, hangup : BOOLEAN]
       => TypeOK
BY DEF IInv, IdleTyped, TypeOK, SharedTypeOK, GameTypeOK, IdleTypeOK

\* What a message leaves behind: everything the rest of an idle step needs.
MessageOutcome ==
    IdleTyped' /\ RoomAgreement' /\ WaitingNamed' /\ (process = "up" => process' # "terminated")

LEMMA IdleOnClientDisconnectOutcome ==
    ASSUME IInv, NEW c \in Client, IdleOnClientDisconnect(c),
           UNCHANGED <<process, reqDeniedCnt, clientName, roomVars, game, handOver, gameOutput>>
    PROVE  MessageOutcome
<1>1. IdleTyped
  BY IdleTypes
<1>2. RoomAgreement'
  BY SameRoomTable
<1>3. IdleTyped'
  BY <1>1 DEF IdleTyped, IdleOnClientDisconnect, NotWaiting, roomVars
<1>4. WaitingNamed'
  BY <1>1 DEF IInv, IdleTyped, IdleOnClientDisconnect, NotWaiting, WaitingNamed, HasName
<1> QED
  BY <1>2, <1>3, <1>4 DEF MessageOutcome

LEMMA IdleDenyRequestOutcome ==
    ASSUME IInv, NEW c \in Client, IdleDenyRequest(c), UNCHANGED gameOutput
    PROVE  MessageOutcome
<1>1. CASE TooManyDenials(reqDeniedCnt[c])
  BY <1>1, IdleOnClientDisconnectOutcome DEF IdleDenyRequest
<1>2. CASE ~(TooManyDenials(reqDeniedCnt[c]))
  <2>1. IdleTyped
    BY IdleTypes
  <2>2. /\ reqDeniedCnt' = [reqDeniedCnt EXCEPT ![c] = @ + 1]
        /\ UNCHANGED <<clientVars, process, clientName, roomVars, game, handOver>>
    BY <1>2 DEF IdleDenyRequest
  <2>3. reqDeniedCnt[c] + 1 \in 0 .. MaxReqDenied
    BY <1>2, <2>1, RoomStructsAssumption DEF IdleTyped, TooManyDenials, RoomStructsAssumption
  <2>4. RoomAgreement'
    BY <2>2, SameRoomTable
  <2>5. IdleTyped'
    BY <2>1, <2>2, <2>3 DEF IdleTyped, clientVars, roomVars
  <2>6. WaitingNamed'
    BY <2>2 DEF IInv, clientVars, WaitingNamed, HasName
  <2> QED
    BY <2>2, <2>4, <2>5, <2>6 DEF MessageOutcome
<1> QED
  BY <1>1, <1>2

LEMMA EnterUsernameOutcome ==
    ASSUME IInv, NEW c \in Client, NEW n \in Name, EnterUsername(c, n), UNCHANGED gameOutput
    PROVE  MessageOutcome
<1>0. IdleTyped
  BY IdleTypes
<1>1. CASE UsernameTaken(c, n)
  BY <1>1, IdleDenyRequestOutcome DEF EnterUsername
<1>2. CASE ~UsernameTaken(c, n)
  <2>1. /\ clientName' = [clientName EXCEPT ![c] = n]
        /\ UNCHANGED <<process, clientVars, reqDeniedCnt, game>>
    BY <1>2 DEF EnterUsername
  <2>2. WaitingNamed'
    BY <1>0, <2>1, RoomStructsAssumption
       DEF IInv, IdleTyped, WaitingNamed, HasName, clientVars, RoomStructsAssumption
  <2>3. CASE UNCHANGED <<roomVars, handOver>>
    <3>1. RoomAgreement'
      BY <2>1, <2>3, SameRoomTable
    <3>2. IdleTyped'
      BY <1>0, <2>1, <2>3 DEF IdleTyped, clientVars, roomVars
    <3> QED
      BY <2>1, <2>2, <3>1, <3>2 DEF MessageOutcome
  <2>4. CASE \E r \in pausedGameRooms : RejoinPausedGame(c, r)
    <3>1. PICK r \in pausedGameRooms : RejoinPausedGame(c, r)
      BY <2>4
    <3>2. r \in Room /\ gameState[r] = "PAUSED"
      BY <1>0, <3>1 DEF IdleTyped, IInv, RoomAgreement, RoomAgrees
    <3>3. IdleTyped'
      BY <1>0, <2>1, <3>1, <3>2 DEF IdleTyped, clientVars, RejoinPausedGame, SetGameAsRunning, GameState
    <3>4. ASSUME NEW q \in Room PROVE RoomAgrees(q)'
      BY <1>0, <2>1, <3>1, <3>2
         DEF IdleTyped, RejoinPausedGame, SetGameAsRunning, IInv, RoomAgreement, RoomAgrees, NoIdleChange, EndsIdle
    <3> QED
      BY <2>1, <2>2, <3>3, <3>4 DEF MessageOutcome, RoomAgreement
  <2> QED
    BY <1>2, <2>3, <2>4 DEF EnterUsername
<1> QED
  BY <1>1, <1>2

\* A new game starts in a room that agrees it is idle: there is no thread, no
\* report and no user, so addUser does not throw.
LEMMA NewGameThreadOutcome ==
    ASSUME IInv, NEW c \in Client, NEW d \in Client, NEW r \in Room,
           HasName(c), HasName(d), gameState[r] = "IDLE", NewGameThread(c, d, r),
           UNCHANGED <<clientVars, reqDeniedCnt, clientName, gameOutput>>
    PROVE  MessageOutcome
<1>0. IdleTyped
  BY IdleTypes
<1>1. roomUsers[r] = <<>> /\ gameOutput[r] = <<>>
  BY DEF IInv, RoomAgreement, RoomAgrees
<1>2. /\ roomUsers' = [roomUsers EXCEPT ![r] = <<clientName[c], clientName[d]>>]
      /\ UNCHANGED process
      /\ gameState' = [gameState EXCEPT ![r] = "RUNNING"]
      /\ pausedGameRooms' = pausedGameRooms \ {r}
      /\ game' = [game EXCEPT ![r] = NewGame]
      /\ handOver' = <<<<r, c>>, <<r, d>>>>
  BY <1>1 DEF NewGameThread, SetGameAsRunning
<1>3. clientName[c] \in Name /\ clientName[d] \in Name
  BY <1>0 DEF IdleTyped, HasName
<1>4. NewGame \in GameRecord /\ NewGame.thread = "loop"
  <2>1. NoTask \in Task
    BY RoomStructsAssumption DEF NoTask, Task, RoomStructsAssumption
  <2> QED
    BY <2>1 DEF NewGame, GameRecord, Slot, ClientOrNobody
<1>5. IdleTyped'
  <2>1. roomUsers' \in [Room -> Seq(Name)]
    BY <1>0, <1>2, <1>3 DEF IdleTyped
  <2>2. handOver' \in Seq(Room \X Client)
    BY <1>2
  <2> QED
    BY <1>0, <1>2, <1>4, <2>1, <2>2 DEF IdleTyped, clientVars, GameState
<1>6. WaitingNamed'
  BY DEF IInv, WaitingNamed, HasName, clientVars
<1>7. ASSUME NEW q \in Room PROVE RoomAgrees(q)'
  <2>1. CASE q = r
    BY <1>0, <1>1, <1>2, <1>4, <2>1 DEF IdleTyped, RoomAgrees, NoIdleChange
  <2>2. CASE q # r
    BY <1>0, <1>2, <2>2 DEF IdleTyped, IInv, RoomAgreement, RoomAgrees, NoIdleChange, EndsIdle
  <2> QED
    BY <2>1, <2>2
<1> QED
  BY <1>2, <1>5, <1>6, <1>7 DEF MessageOutcome, RoomAgreement

LEMMA JoinGameRoomOutcome ==
    ASSUME IInv, NEW c \in Client, HasName(c), NEW r \in Room \cup {Missing},
           JoinGameRoom(c, r), UNCHANGED gameOutput
    PROVE  MessageOutcome
<1> DEFINE waiting == {d \in Client : waitingToJoinGame[d] = r}
<1>0. IdleTyped
  BY IdleTypes
<1>1. CASE r = Missing \/ (r # Missing /\ gameState[r] # "IDLE")
  BY <1>1, IdleDenyRequestOutcome DEF JoinGameRoom, Joinable
<1>2. CASE r \in Room /\ r # Missing /\ gameState[r] = "IDLE" /\ waiting # {}
  <2>1. PICK d \in waiting :
           IF d = c THEN IdleDenyRequest(c)
           ELSE /\ NewGameThread(c, d, r)
                /\ UNCHANGED <<clientVars, reqDeniedCnt, clientName>>
    BY <1>2 DEF JoinGameRoom, Joinable
  <2>2. HasName(d)
    BY <1>2, <2>1, IdleUsersRoomAssumption DEF IInv, WaitingNamed, IdleUsersRoomAssumption
  <2>3. CASE d = c
    BY <2>1, <2>3, IdleDenyRequestOutcome
  <2>4. CASE d # c
    BY <1>2, <2>1, <2>2, <2>4, NewGameThreadOutcome
  <2> QED
    BY <2>3, <2>4
<1>3. CASE r \in Room /\ r # Missing /\ gameState[r] = "IDLE" /\ waiting = {}
  <2>1. /\ waitingToJoinGame' = [waitingToJoinGame EXCEPT ![c] = r]
        /\ UNCHANGED <<process, clientsMap, conn, reqDeniedCnt, clientName,
                       roomVars, game, handOver>>
    BY <1>3 DEF JoinGameRoom, Joinable
  <2>2. RoomAgreement'
    BY <2>1, SameRoomTable
  <2>3. IdleTyped'
    BY <1>0, <1>3, <2>1 DEF IdleTyped, roomVars
  <2>4. WaitingNamed'
    BY <1>0, <2>1 DEF IInv, IdleTyped, WaitingNamed, HasName
  <2> QED
    BY <2>1, <2>2, <2>3, <2>4 DEF MessageOutcome
<1> QED
  BY <1>1, <1>2, <1>3

LEMMA IdleProcessClientMessageOutcome ==
    ASSUME IInv, NEW c \in Client, NEW m \in IdleMessage,
           IdleProcessClientMessage(c, m), UNCHANGED gameOutput
    PROVE  MessageOutcome
<1>1. CASE m.method = "TERMINATE_CONNECTION"
  BY <1>1, IdleOnClientDisconnectOutcome DEF IdleProcessClientMessage
<1>2. CASE m.method = "ENTER_USERNAME" /\ m.arg # Missing /\ ~HasName(c)
  <2>1. m.arg \in Name
    BY <1>2 DEF IdleMessage
  <2>2. EnterUsername(c, m.arg)
    BY <1>2 DEF IdleProcessClientMessage
  <2> QED
    BY <2>1, <2>2, EnterUsernameOutcome
<1>3. CASE m.method = "GET_ROOM_LIST" /\ HasName(c)
  <2>1. IdleReply
    BY <1>3 DEF IdleProcessClientMessage
  <2>2. RoomAgreement'
    BY <2>1, SameRoomTable DEF IdleReply
  <2>3. IdleTyped' /\ WaitingNamed'
    BY <2>1, IdleTypes
       DEF IInv, IdleReply, IdleTyped, clientVars, roomVars, WaitingNamed, HasName
  <2> QED
    BY <2>1, <2>2, <2>3 DEF MessageOutcome, IdleReply
<1>4. CASE m.method = "JOIN_GAME" /\ HasName(c)
  <2>1. m.arg \in Room \cup {Missing}
    BY <1>4 DEF IdleMessage
  <2>2. JoinGameRoom(c, m.arg)
    BY <1>4 DEF IdleProcessClientMessage
  <2> QED
    BY <1>4, <2>1, <2>2, JoinGameRoomOutcome
<1>5. CASE IdleDenyRequest(c)
  BY <1>5, IdleDenyRequestOutcome
<1> QED
  BY <1>1, <1>2, <1>3, <1>4, <1>5 DEF IdleProcessClientMessage

\* The report that is read is the last one exactly if it is the end of the game.
LEMMA OnGameStateChangeKeepsIInv ==
    ASSUME IInv, process = "up", NEW r \in Room, OnGameStateChange(r)
    PROVE  IInv' /\ NeverTerminated'
<1> DEFINE change == Head(gameOutput[r])
<1>0. IdleTyped /\ gameOutput \in [Room -> Seq(GameStateChange)]
  BY IdleTypes DEF IInv, TypeOK, SharedTypeOK
<1>1. /\ gameOutput[r] # <<>>
      /\ gameOutput' = [gameOutput EXCEPT ![r] = Tail(@)]
      /\ UNCHANGED <<process, conn, clientName, reqDeniedCnt, newClientsQueue, gameInput,
                     game, waitingToJoinGame, idleTask, handOver>>
  BY DEF OnGameStateChange, SetGameAsIdle, SetGameAsPaused
<1>2. change \in GameStateChange /\ gameOutput' \in [Room -> Seq(GameStateChange)]
  BY <1>0, <1>1
<1>3. \A q \in Room \ {r} : gameOutput'[q] = gameOutput[q]
  BY <1>0, <1>1
<1>4. RoomAgrees(r) /\ gameState[r] # "IDLE" /\ gameOutput'[r] = Tail(gameOutput[r])
  BY <1>0, <1>1 DEF IInv, RoomAgreement, RoomAgrees
<1>5. WaitingNamed'
  BY <1>1 DEF IInv, WaitingNamed, HasName
<1>6. ASSUME clientsMap' \subseteq Client, gameState' \in [Room -> GameState],
             roomUsers' \in [Room -> Seq(Name)], pausedGameRooms' \subseteq Room
      PROVE  TypeOK'
  BY <1>0, <1>1, <1>2, <1>6
     DEF IInv, TypeOK, SharedTypeOK, GameTypeOK, IdleTypeOK, IdleTyped
<1>7. ASSUME NEW q \in Room \ {r}, gameState'[q] = gameState[q], roomUsers'[q] = roomUsers[q],
             q \in pausedGameRooms' <=> q \in pausedGameRooms
      PROVE  RoomAgrees(q)'
  BY <1>1, <1>3, <1>7 DEF IInv, RoomAgreement, RoomAgrees, NoIdleChange, EndsIdle
<1>8. CASE change.newState = "IDLE"
  <2>1. /\ clientsMap' = clientsMap \cup ({change.client1, change.client2} \ {Nobody})
        /\ gameState' = [gameState EXCEPT ![r] = "IDLE"]
        /\ roomUsers' = [roomUsers EXCEPT ![r] = <<>>]
        /\ pausedGameRooms' = pausedGameRooms \ {r}
    BY <1>8 DEF OnGameStateChange, SetGameAsIdle, SetGameAsPaused
  <2>2. TypeOK'
    <3>1. clientsMap' \subseteq Client
      BY <1>0, <1>2, <2>1 DEF IdleTyped, GameStateChange, ClientOrNobody
    <3>2. /\ gameState' \in [Room -> GameState]
          /\ roomUsers' \in [Room -> Seq(Name)]
          /\ pausedGameRooms' \subseteq Room
      BY <1>0, <2>1 DEF IdleTyped, GameState
    <3> QED
      BY <1>6, <3>1, <3>2
  <2>3. game[r].thread = "none" /\ EndsIdle(gameOutput[r])
    BY <1>0, <1>1, <1>4, <1>8 DEF RoomAgrees, NoIdleChange
  <2>4. Tail(gameOutput[r]) = <<>>
    BY <1>0, <1>1, <1>8, <2>3 DEF EndsIdle
  <2>5. RoomAgrees(r)'
    BY <1>0, <1>1, <1>4, <2>1, <2>3, <2>4 DEF RoomAgrees, IdleTyped
  <2>6. \A q \in Room \ {r} : RoomAgrees(q)'
    BY <1>0, <1>7, <2>1 DEF IdleTyped
  <2> QED
    BY <1>1, <1>5, <2>2, <2>5, <2>6 DEF IInv, RoomAgreement, NeverTerminated
<1>9. CASE change.newState # "IDLE"
  <2>1. /\ \/ /\ gameState' = [gameState EXCEPT ![r] = "PAUSED"]
              /\ pausedGameRooms' = pausedGameRooms \cup {r}
              /\ UNCHANGED <<clientsMap, roomUsers>>
           \/ UNCHANGED <<clientsMap, roomVars>>
    BY <1>9 DEF OnGameStateChange, SetGameAsIdle, SetGameAsPaused
  <2>2. TypeOK'
    <3>1. /\ clientsMap' \subseteq Client
          /\ gameState' \in [Room -> GameState]
          /\ roomUsers' \in [Room -> Seq(Name)]
          /\ pausedGameRooms' \subseteq Room
      BY <1>0, <2>1 DEF IdleTyped, roomVars, GameState
    <3> QED
      BY <1>6, <3>1
  <2>3. NoIdleChange(gameOutput[r]) => NoIdleChange(Tail(gameOutput[r]))
    BY <1>0, <1>1 DEF NoIdleChange
  <2>4. EndsIdle(gameOutput[r]) => EndsIdle(Tail(gameOutput[r]))
    <3> DEFINE out == gameOutput[r]
    <3>1. out \in Seq(GameStateChange) /\ out # <<>> /\ out[1].newState # "IDLE"
      BY <1>0, <1>1, <1>9
    <3>2. ASSUME EndsIdle(out) PROVE EndsIdle(Tail(out))
      <4>1. out[Len(out)].newState = "IDLE" /\ Len(out) \in Nat /\ Len(out) >= 1
        BY <3>1, <3>2 DEF EndsIdle
      <4>2. Len(out) >= 2
        BY <3>1, <4>1
      <4>3. Len(Tail(out)) = Len(out) - 1 /\ \A k \in 1 .. Len(out) - 1 : Tail(out)[k] = out[k + 1]
        BY <3>1
      <4>4. Tail(out)[Len(Tail(out))].newState = "IDLE"
        BY <4>1, <4>2, <4>3
      <4>5. \A k \in 1 .. Len(Tail(out)) - 1 : Tail(out)[k].newState # "IDLE"
        BY <3>1, <3>2, <4>1, <4>2, <4>3 DEF EndsIdle
      <4>6. Tail(out) # <<>>
        <5>1. Len(Tail(out)) >= 1
          BY <4>1, <4>2, <4>3
        <5>2. Len(<<>>) = 0
          OBVIOUS
        <5>3. ASSUME Tail(out) = <<>> PROVE FALSE
          <6>1. Len(Tail(out)) = 0
            BY <5>2, <5>3
          <6> QED
            BY <5>1, <6>1
        <5> QED
          BY <5>3
      <4> QED
        BY <4>4, <4>5, <4>6 DEF EndsIdle
    <3> QED
      BY <3>2
  <2>5. RoomAgrees(r)'
    BY <1>0, <1>1, <1>4, <2>1, <2>3, <2>4 DEF RoomAgrees, IdleTyped, roomVars
  <2>6. \A q \in Room \ {r} : RoomAgrees(q)'
    BY <1>0, <1>7, <2>1 DEF IdleTyped, roomVars
  <2> QED
    BY <1>1, <1>5, <2>2, <2>5, <2>6 DEF IInv, RoomAgreement, NeverTerminated
<1> QED
  BY <1>8, <1>9

\* A step of the idle thread keeps the invariant, and never ends the process by
\* an exception.
LEMMA IdleNextKeepsIInv ==
    ASSUME IInv, process = "up", IdleNext
    PROVE  IInv' /\ NeverTerminated'
<1>0. /\ IdleTyped
      /\ newClientsQueue \in Seq(Client)
      /\ gameInput \in [Room -> Seq(Client)]
      /\ gameOutput \in [Room -> Seq(GameStateChange)]
      /\ idleTask \in [client : ClientOrNobody, left : 0 .. MaxBatch, hangup : BOOLEAN]
  BY IdleTypes DEF IInv, TypeOK, SharedTypeOK, IdleTypeOK
<1>1. NoIdleTask \in [client : ClientOrNobody, left : 0 .. MaxBatch, hangup : BOOLEAN]
  BY RoomStructsAssumption DEF NoIdleTask, ClientOrNobody, RoomStructsAssumption
<1>2. CASE IdleOnNewClientConnect
  <2>1. Head(newClientsQueue) \in Client /\ Tail(newClientsQueue) \in Seq(Client)
    BY <1>0, <1>2 DEF IdleOnNewClientConnect
  <2>2. /\ newClientsQueue' = Tail(newClientsQueue)
        /\ \/ conn' = [conn EXCEPT ![Head(newClientsQueue)] = "closed"] /\ UNCHANGED clientsMap
           \/ clientsMap' = clientsMap \cup {Head(newClientsQueue)} /\ UNCHANGED conn
        /\ UNCHANGED <<process, clientName, reqDeniedCnt, gameInput, gameOutput, game,
                       waitingToJoinGame, roomVars, idleTask, handOver>>
    BY <1>2 DEF IdleOnNewClientConnect
  <2>3. RoomAgreement'
    BY <2>2, SameRoomTable
  <2>4. IdleTyped'
    BY <1>0, <2>1, <2>2 DEF IdleTyped, roomVars
  <2>5. WaitingNamed'
    BY <2>2 DEF IInv, WaitingNamed, HasName
  <2>6. TypeOK'
    BY <1>0, <2>1, <2>2, <2>4 DEF IdleTyped, TypeOK, SharedTypeOK, GameTypeOK, IdleTypeOK
  <2> QED
    BY <2>2, <2>3, <2>5, <2>6 DEF IInv, NeverTerminated
<1>3. ASSUME NEW c \in Client, IdleOnClientWrite(c) PROVE IInv' /\ NeverTerminated'
  <2>1. PICK left \in 0 .. MaxBatch, hangup \in BOOLEAN :
           idleTask' = [client |-> c, left |-> left, hangup |-> hangup]
    BY <1>3 DEF IdleOnClientWrite
  <2>2. UNCHANGED <<sharedVars, game, clientsMap, waitingToJoinGame, roomVars, handOver>>
    BY <1>3 DEF IdleOnClientWrite
  <2>3. RoomAgreement'
    BY <2>2, SameRoomTable DEF sharedVars
  <2>4. TypeOK'
    BY <2>1, <2>2 DEF IInv, TypeOK, SharedTypeOK, GameTypeOK, IdleTypeOK, sharedVars,
                      roomVars, ClientOrNobody
  <2> QED
    BY <2>2, <2>3, <2>4 DEF IInv, WaitingNamed, HasName, sharedVars, NeverTerminated
<1>4. ASSUME NEW c \in Client, IdleOnClientWriteFails(c) PROVE IInv' /\ NeverTerminated'
  <2>1. MessageOutcome
    BY <1>4, IdleOnClientDisconnectOutcome DEF IdleOnClientWriteFails
  <2>2. UNCHANGED <<process, newClientsQueue, gameInput, gameOutput, idleTask>>
    BY <1>4 DEF IdleOnClientWriteFails
  <2> QED
    BY <1>0, <2>1, <2>2 DEF MessageOutcome, IInv, NeverTerminated, IdleTyped, TypeOK,
                            SharedTypeOK, GameTypeOK, IdleTypeOK
<1>5. ASSUME NEW c \in Client, IdleProcessMessage(c) PROVE IInv' /\ NeverTerminated'
  <2>1. MessageOutcome
    <3>1. CASE c \in clientsMap
      BY <1>5, <3>1, IdleProcessClientMessageOutcome DEF IdleProcessMessage
    <3>2. CASE c \notin clientsMap
      <4>1. /\ process' = "undefined"
            /\ UNCHANGED <<clientVars, reqDeniedCnt, clientName, roomVars, game, handOver,
                           gameOutput>>
        BY <1>5, <3>2 DEF IdleProcessMessage
      <4>2. RoomAgreement'
        BY <4>1, SameRoomTable
      <4> QED
        BY <1>0, <4>1, <4>2
           DEF MessageOutcome, IdleTyped, clientVars, roomVars, IInv, WaitingNamed, HasName
    <3> QED
      BY <3>1, <3>2
  <2>2. idleTask' \in [client : ClientOrNobody, left : 0 .. MaxBatch, hangup : BOOLEAN]
    BY <1>0, <1>1, <1>5, RoomStructsAssumption DEF IdleProcessMessage, RoomStructsAssumption
  <2>3. UNCHANGED <<newClientsQueue, gameInput, gameOutput>>
    BY <1>5 DEF IdleProcessMessage
  <2> QED
    BY <1>0, <2>1, <2>2, <2>3 DEF MessageOutcome, IInv, NeverTerminated, IdleTyped, TypeOK,
                                  SharedTypeOK, GameTypeOK, IdleTypeOK
<1>6. ASSUME NEW c \in Client, IdleOnHangup(c) PROVE IInv' /\ NeverTerminated'
  <2>1. /\ idleTask' = NoIdleTask
        /\ UNCHANGED <<process, clientName, reqDeniedCnt, newClientsQueue, gameInput,
                       gameOutput, game, roomVars, handOver>>
    BY <1>6 DEF IdleOnHangup, Monitored
  <2>2. MessageOutcome
    <3>1. CASE c \in clientsMap
      BY <1>6, <2>1, <3>1, IdleOnClientDisconnectOutcome DEF IdleOnHangup, Monitored
    <3>2. CASE c \notin clientsMap
      <4>1. UNCHANGED clientVars
        BY <1>6, <3>2 DEF IdleOnHangup, Monitored
      <4>2. RoomAgreement'
        BY <2>1, SameRoomTable
      <4> QED
        BY <1>0, <2>1, <4>1, <4>2
           DEF MessageOutcome, IdleTyped, clientVars, roomVars, IInv, WaitingNamed, HasName
    <3> QED
      BY <3>1, <3>2
  <2> QED
    BY <1>0, <1>1, <2>1, <2>2 DEF MessageOutcome, IInv, NeverTerminated, IdleTyped, TypeOK,
                                  SharedTypeOK, GameTypeOK, IdleTypeOK
<1>7. CASE SendClientToGameThread
  <2> DEFINE r == Head(handOver)[1]
             c == Head(handOver)[2]
  <2>1. r \in Room /\ c \in Client /\ Tail(handOver) \in Seq(Room \X Client)
    <3>1. handOver \in Seq(Room \X Client) /\ handOver # <<>>
      BY <1>0, <1>7 DEF IdleTyped, SendClientToGameThread
    <3>2. Head(handOver) \in Room \X Client
      BY <3>1
    <3> QED
      BY <3>1, <3>2
  <2>2. /\ process' = IF c \in clientsMap THEN process ELSE "undefined"
        /\ waitingToJoinGame' = [waitingToJoinGame EXCEPT ![c] = NoRoom]
        /\ gameInput' = [gameInput EXCEPT ![r] = Append(@, c)]
        /\ clientsMap' = clientsMap \ {c}
        /\ handOver' = Tail(handOver)
        /\ UNCHANGED <<conn, clientName, reqDeniedCnt, newClientsQueue,
                       gameOutput, game, roomVars, idleTask>>
    BY <1>7 DEF SendClientToGameThread, NotWaiting
  <2>3. RoomAgreement'
    BY <2>2, SameRoomTable
  <2>4. IdleTyped'
    BY <1>0, <2>1, <2>2 DEF IdleTyped, roomVars
  <2>5. gameInput' \in [Room -> Seq(Client)]
    BY <1>0, <2>1, <2>2
  <2>6. WaitingNamed'
    BY <1>0, <2>1, <2>2 DEF IInv, IdleTyped, WaitingNamed, HasName
  <2> QED
    BY <1>0, <2>2, <2>3, <2>4, <2>5, <2>6
       DEF IInv, NeverTerminated, IdleTyped, TypeOK, SharedTypeOK, GameTypeOK, IdleTypeOK
<1>8. ASSUME NEW r \in Room, OnGameStateChange(r) PROVE IInv' /\ NeverTerminated'
  BY <1>8, OnGameStateChangeKeepsIInv
<1> QED
  BY <1>2, <1>3, <1>4, <1>5, <1>6, <1>7, <1>8 DEF IdleNext

-----------------------------------------------------------------------------
(* The theorems *)

LEMMA InitIInv == Init => IInv /\ NeverTerminated
<1> SUFFICES ASSUME Init PROVE IInv /\ NeverTerminated
  OBVIOUS
<1> USE DEF Init, SharedInit, GameInit, IdleInit
<1>1. NoGame \in GameRecord /\ NoGame.thread = "none"
  <2>1. NoTask \in Task
    BY RoomStructsAssumption DEF NoTask, Task, RoomStructsAssumption
  <2>2. NewGame \in GameRecord
    BY <2>1 DEF NewGame, GameRecord, Slot, ClientOrNobody
  <2> QED
    BY <2>2 DEF NoGame, GameRecord
<1>2. SharedTypeOK
  BY RoomStructsAssumption DEF SharedTypeOK, RoomStructsAssumption
<1>3. GameTypeOK
  BY <1>1 DEF GameTypeOK
<1>4. IdleTypeOK
  BY RoomStructsAssumption
     DEF IdleTypeOK, NoIdleTask, ClientOrNobody, GameState, RoomStructsAssumption
<1>5. RoomAgreement
  BY <1>1 DEF RoomAgreement, RoomAgrees
<1> QED
  BY <1>2, <1>3, <1>4, <1>5 DEF IInv, TypeOK, WaitingNamed, NeverTerminated

\* One step per thread: accept, idle, games, and the stuttering step.
LEMMA NextKeepsIInv == IInv /\ NeverTerminated /\ [Next]_vars => IInv' /\ NeverTerminated'
<1> SUFFICES ASSUME IInv, NeverTerminated, [Next]_vars PROVE IInv' /\ NeverTerminated'
  OBVIOUS
<1>1. CASE Next /\ AcceptNext
  <2>1. PICK c \in Client : TcpAcceptLoop(c)
    BY <1>1 DEF AcceptNext
  <2>2. /\ conn' = [conn EXCEPT ![c] = "open"]
        /\ newClientsQueue' = Append(newClientsQueue, c)
        /\ UNCHANGED <<process, clientName, reqDeniedCnt, gameInput, gameOutput, game, idleVars>>
    BY <2>1 DEF TcpAcceptLoop
  <2>3. RoomAgreement'
    BY <2>2, SameRoomTable DEF idleVars
  <2>4. TypeOK'
    BY <2>2 DEF IInv, TypeOK, SharedTypeOK, GameTypeOK, IdleTypeOK, idleVars, roomVars
  <2> QED
    BY <2>2, <2>3, <2>4 DEF IInv, WaitingNamed, HasName, idleVars, NeverTerminated
<1>2. CASE Next /\ IdleNext
  BY <1>2, IdleNextKeepsIInv DEF Next
<1>3. CASE Next /\ GamesNext
  <2>1. PICK r \in Room : GameNext(r)
    BY <1>3 DEF GamesNext
  <2>2. IInv'
    BY <1>3, <2>1, GameNextKeepsIInv DEF GamesNext
  <2>3. NeverTerminated'
    BY <2>1, <1>3, ZenonT(30)
    DEF  NeverTerminated, Next, GameNext, GameWaitForEvents, GameDispatchInput,
         GameOnNewClientConnect, GameOnClientWrite, GameOnClientWriteFails,
         GameProcessMessage, GameOnHangup, GameExit, InactivityExpires, Commit, sharedVars
  <2> QED
    BY <2>2, <2>3
<1>4. CASE UNCHANGED vars
  <2>1. UNCHANGED <<sharedVars, game, idleVars>>
    BY <1>4 DEF vars
  <2>2. RoomAgreement'
    BY <2>1, SameRoomTable DEF idleVars, sharedVars
  <2> QED
    BY <2>1, <2>2 DEF IInv, TypeOK, SharedTypeOK, GameTypeOK, IdleTypeOK, WaitingNamed, HasName,
                      idleVars, roomVars, sharedVars, NeverTerminated
<1> QED
  BY <1>1, <1>2, <1>3, <1>4 DEF Next

\* The inductive invariant holds for any number of clients, names and rooms, on
\* any board and with any limits.
THEOREM Invariance == Spec => [](IInv /\ NeverTerminated)
BY InitIInv, NextKeepsIInv, PTL DEF Spec

\* Every variable of the server keeps its type.
THEOREM TypeCorrect == Spec => []TypeOK
<1>1. IInv => TypeOK
  BY DEF IInv
<1> QED
  BY Invariance, <1>1, PTL

\* What the idle thread reads in its room table is so: an idle room has no
\* thread, no user and no unread report, and a thread's last report is the end.
THEOREM RoomTableAgrees == Spec => []RoomAgreement
<1>1. IInv => RoomAgreement
  BY DEF IInv
<1> QED
  BY Invariance, <1>1, PTL

\* GameRoom::addUser never throws out of the idle thread.
THEOREM ServerNeverTerminates == Spec => []NeverTerminated
BY Invariance, PTL

-----------------------------------------------------------------------------
(* The life of a room. Nothing but the start of a game, the exit of its     *)
(* thread and the reading of its last report moves a room from one phase to *)
(* the next.                                                                *)

LEMMA SamePhases ==
    ASSUME UNCHANGED roomUsers, SameLife,
           \A q \in Room : gameState'[q] = "IDLE" <=> gameState[q] = "IDLE"
    PROVE  UNCHANGED Lifecycle!lifecycleVars
BY DEF Lifecycle!lifecycleVars, phaseOfRoom, SameLife

LEMMA InitLifecycle == Init => Lifecycle!LifecycleInit
BY DEF Init, SharedInit, GameInit, IdleInit, Lifecycle!LifecycleInit, phaseOfRoom, NoGame, NewGame

\* A room that a client can join is free, and its game starts with two names.
LEMMA NewGameThreadStarts ==
    ASSUME IInv, NEW c \in Client, NEW d \in Client, NEW r \in Room,
           HasName(c), HasName(d), gameState[r] = "IDLE", NewGameThread(c, d, r)
    PROVE  Lifecycle!StartGame(r)
<1>1. IdleTyped
  BY IdleTypes
<1>2. roomUsers[r] = <<>> /\ game[r].thread = "none"
  BY DEF IInv, RoomAgreement, RoomAgrees
<1>3. /\ roomUsers' = [roomUsers EXCEPT ![r] = <<clientName[c], clientName[d]>>]
      /\ gameState' = [gameState EXCEPT ![r] = "RUNNING"]
      /\ game' = [game EXCEPT ![r] = NewGame]
  BY <1>2 DEF NewGameThread, SetGameAsRunning
<1>4. clientName[c] \in Name /\ clientName[d] \in Name
  BY <1>1 DEF IdleTyped, HasName
<1>5. phaseOfRoom[r] = "free"
  BY <1>2 DEF phaseOfRoom
<1>6. phaseOfRoom' = [phaseOfRoom EXCEPT ![r] = "playing"]
  BY <1>1, <1>3 DEF IdleTyped, phaseOfRoom, NewGame
<1> QED
  BY <1>3, <1>4, <1>5, <1>6 DEF Lifecycle!StartGame

LEMMA GameExitFinishes ==
    ASSUME IInv, NEW r \in Room, GameExit(r), UNCHANGED idleVars
    PROVE  Lifecycle!FinishGame(r)
<1>1. IdleTyped
  BY IdleTypes
<1>2. game' = [game EXCEPT ![r] = NoGame] /\ game[r].thread # "none"
  BY DEF GameExit, InLoop, EndReport
<1>3. gameState[r] # "IDLE" /\ UNCHANGED <<gameState, roomUsers>>
  BY <1>2 DEF IInv, RoomAgreement, RoomAgrees, idleVars, roomVars
<1>4. phaseOfRoom[r] = "playing"
  BY <1>2 DEF phaseOfRoom
<1>5. /\ game'[r].thread = "none"
      /\ \A q \in Room \ {r} : game'[q] = game[q]
  BY <1>1, <1>2 DEF IdleTyped, NoGame, NewGame
<1>6. phaseOfRoom' = [phaseOfRoom EXCEPT ![r] = "over"]
  BY <1>3, <1>5 DEF phaseOfRoom
<1> QED
  BY <1>3, <1>4, <1>6 DEF Lifecycle!FinishGame

\* A report that is not the end leaves the room in its phase.
LEMMA OnGameStateChangeFrees ==
    ASSUME IInv, NEW r \in Room, OnGameStateChange(r)
    PROVE  Lifecycle!FreeRoom(r) \/ UNCHANGED Lifecycle!lifecycleVars
<1> DEFINE change == Head(gameOutput[r])
<1>0. IdleTyped /\ gameOutput[r] \in Seq(GameStateChange) /\ gameOutput[r] # <<>> /\ UNCHANGED game
  BY IdleTypes DEF IInv, TypeOK, SharedTypeOK, OnGameStateChange
<1>1. RoomAgrees(r) /\ gameState[r] # "IDLE"
  BY <1>0 DEF IInv, RoomAgreement, RoomAgrees
<1>2. CASE change.newState = "IDLE"
  <2>1. /\ gameState' = [gameState EXCEPT ![r] = "IDLE"]
        /\ roomUsers' = [roomUsers EXCEPT ![r] = <<>>]
    BY <1>2 DEF OnGameStateChange, SetGameAsIdle, SetGameAsPaused
  <2>2. game[r].thread = "none"
    BY <1>0, <1>1, <1>2 DEF RoomAgrees, NoIdleChange
  <2>3. phaseOfRoom[r] = "over"
    BY <1>1, <2>2 DEF phaseOfRoom
  <2>4. phaseOfRoom' = [phaseOfRoom EXCEPT ![r] = "free"]
    BY <1>0, <2>1, <2>2 DEF IdleTyped, phaseOfRoom
  <2> QED
    BY <2>1, <2>3, <2>4 DEF Lifecycle!FreeRoom
<1>3. CASE change.newState # "IDLE"
  <2>1. UNCHANGED roomUsers
    BY <1>3 DEF OnGameStateChange, SetGameAsPaused, roomVars
  <2>2. \A q \in Room : gameState'[q] = "IDLE" <=> gameState[q] = "IDLE"
    BY <1>0, <1>1, <1>3 DEF OnGameStateChange, SetGameAsPaused, IdleTyped, roomVars
  <2> QED
    BY <1>0, <2>1, <2>2, SamePhases DEF SameLife
<1> QED
  BY <1>2, <1>3

\* What a message can do to the rooms: nothing, start a game, or continue one.
LEMMA MessageAndRooms ==
    ASSUME IInv, NEW c \in Client, NEW m \in IdleMessage, IdleProcessClientMessage(c, m)
    PROVE  \/ UNCHANGED <<roomVars, game>>
           \/ \E d \in Client, r \in Room :
                 HasName(c) /\ HasName(d) /\ gameState[r] = "IDLE" /\ NewGameThread(c, d, r)
           \/ \E r \in pausedGameRooms : RejoinPausedGame(c, r) /\ UNCHANGED game
<1>1. CASE IdleDenyRequest(c) \/ m.method = "TERMINATE_CONNECTION" \/ IdleReply
  BY <1>1 DEF IdleDenyRequest, IdleProcessClientMessage, IdleReply
<1>2. CASE m.method = "ENTER_USERNAME" /\ EnterUsername(c, m.arg)
  BY <1>1, <1>2 DEF EnterUsername
<1>3. CASE m.method = "JOIN_GAME" /\ HasName(c) /\ JoinGameRoom(c, m.arg)
  <2>1. m.arg \in Room \cup {Missing}
    BY <1>3 DEF IdleMessage
  <2>2. ASSUME NEW d \in Client, waitingToJoinGame[d] = m.arg, m.arg \in Room PROVE HasName(d)
    BY <2>2, IdleUsersRoomAssumption DEF IInv, WaitingNamed, IdleUsersRoomAssumption
  <2> QED
    BY <1>1, <1>3, <2>1, <2>2 DEF JoinGameRoom, Joinable
<1> QED
  BY <1>1, <1>2, <1>3 DEF IdleProcessClientMessage

LEMMA IdleNextLifecycle ==
    ASSUME IInv, IdleNext
    PROVE  [Lifecycle!LifecycleNext]_(Lifecycle!lifecycleVars)
<1>1. CASE UNCHANGED <<roomVars, game>>
  BY <1>1, SamePhases DEF roomVars, SameLife
<1>2. ASSUME NEW c \in Client, IdleProcessMessage(c)
      PROVE  [Lifecycle!LifecycleNext]_(Lifecycle!lifecycleVars)
  <2>1. CASE c \notin clientsMap
    BY <1>1, <1>2, <2>1 DEF IdleProcessMessage
  <2>2. CASE \E m \in IdleMessage : IdleProcessClientMessage(c, m)
    <3>1. PICK m \in IdleMessage : IdleProcessClientMessage(c, m)
      BY <2>2
    <3>2. CASE \E d \in Client, r \in Room :
                 HasName(c) /\ HasName(d) /\ gameState[r] = "IDLE" /\ NewGameThread(c, d, r)
      BY <3>2, NewGameThreadStarts DEF Lifecycle!LifecycleNext
    <3>3. CASE \E r \in pausedGameRooms : RejoinPausedGame(c, r) /\ UNCHANGED game
      <4>1. PICK r \in pausedGameRooms : RejoinPausedGame(c, r) /\ UNCHANGED game
        BY <3>3
      <4>2. r \in Room /\ gameState[r] = "PAUSED"
        BY <4>1, IdleTypes DEF IdleTyped, IInv, RoomAgreement, RoomAgrees
      <4>3. \A q \in Room : gameState'[q] = "IDLE" <=> gameState[q] = "IDLE"
        BY <4>1, <4>2, IdleTypes DEF IdleTyped, RejoinPausedGame, SetGameAsRunning
      <4> QED
        BY <4>1, <4>3, SamePhases DEF RejoinPausedGame, SetGameAsRunning, SameLife
    <3> QED
      BY <1>1, <3>1, <3>2, <3>3, MessageAndRooms
  <2> QED
    BY <1>2, <2>1, <2>2 DEF IdleProcessMessage
<1>3. ASSUME NEW r \in Room, OnGameStateChange(r)
      PROVE  [Lifecycle!LifecycleNext]_(Lifecycle!lifecycleVars)
  BY <1>3, OnGameStateChangeFrees DEF Lifecycle!LifecycleNext
<1>4. CASE IdleOnNewClientConnect \/ SendClientToGameThread
  BY <1>1, <1>4 DEF IdleOnNewClientConnect, SendClientToGameThread
<1>5. ASSUME NEW c \in Client,
             IdleOnClientWrite(c) \/ IdleOnClientWriteFails(c) \/ IdleOnHangup(c)
      PROVE  [Lifecycle!LifecycleNext]_(Lifecycle!lifecycleVars)
  BY <1>1, <1>5 DEF IdleOnClientWrite, IdleOnClientWriteFails, IdleOnHangup
<1> QED
  BY <1>2, <1>3, <1>4, <1>5 DEF IdleNext

LEMMA NextLifecycle ==
    IInv /\ [Next]_vars => [Lifecycle!LifecycleNext]_(Lifecycle!lifecycleVars)
<1> SUFFICES ASSUME IInv, [Next]_vars
             PROVE  [Lifecycle!LifecycleNext]_(Lifecycle!lifecycleVars)
  OBVIOUS
<1>1. CASE UNCHANGED <<game, idleVars>>
  BY <1>1, SamePhases DEF idleVars, roomVars, SameLife
<1>2. CASE Next /\ AcceptNext
  BY <1>1, <1>2 DEF AcceptNext, TcpAcceptLoop
<1>3. CASE Next /\ IdleNext
  BY <1>3, IdleNextLifecycle
<1>4. CASE Next /\ GamesNext
  <2>1. PICK r \in Room : GameNext(r)
    BY <1>4 DEF GamesNext
  <2>2. UNCHANGED idleVars
    BY <1>4 DEF GamesNext
  <2>3. CASE GameExit(r)
    BY <2>2, <2>3, GameExitFinishes DEF Lifecycle!LifecycleNext
  <2>4. CASE SameLife
    BY <2>2, <2>4, SamePhases DEF idleVars, roomVars
  <2> QED
    BY <2>1, <2>2, <2>3, <2>4, GameNextKeepsIInv
<1>5. CASE UNCHANGED vars
  BY <1>1, <1>5 DEF vars
<1> QED
  BY <1>2, <1>3, <1>4, <1>5 DEF Next

\* The server implements the life of a room: a game starts in a free room only,
\* and its users stay until the last report of its thread has been read.
THEOREM ServerFollowsLifecycle == Spec => RoomsFollowLifecycle
<1>1. IInv /\ [Next]_vars => [Lifecycle!LifecycleNext]_(Lifecycle!lifecycleVars)
  BY NextLifecycle
<1>2. Spec => []IInv
  BY Invariance, PTL
<1> QED
  BY InitLifecycle, <1>1, <1>2, PTL DEF Spec, RoomsFollowLifecycle, Lifecycle!LifecycleSpec
=============================================================================
