---------------------------- MODULE ClientProofs ----------------------------
(***************************************************************************)
(* What is proved of the client objects, which no lock guards: the waiting *)
(* list never dangles, a client is changed by the thread that owns it and  *)
(* by no other, an open connection is in exactly one place, and its life   *)
(* follows ClientLifecycle.                                                *)
(***************************************************************************)
EXTENDS UpsServerProofs, FiniteSetTheorems

-----------------------------------------------------------------------------
(* The waiting list.  WaitingListSound is inductive by itself once the room *)
(* table agrees with the threads: a room somebody waits for becomes         *)
(* unjoinable only in NewGameThread, which hands the one who waits over.    *)

\* Where nothing about the waiting clients and their rooms changes.
LEMMA SameWaiting ==
    ASSUME WaitingListSound, UNCHANGED <<waitingToJoinGame, gameState, handOver>>,
           clientsMap \subseteq clientsMap', \A c \in Client : HasName(c) => HasName(c)'
    PROVE  WaitingListSound'
BY DEF WaitingListSound

\* A client that leaves the idle room leaves the waiting list.
LEMMA LeavesWaiting ==
    ASSUME IInv, WaitingListSound, NEW c \in Client,
           clientsMap' = clientsMap \ {c}, waitingToJoinGame' = NotWaiting(c),
           UNCHANGED <<gameState, handOver, clientName>>
    PROVE  WaitingListSound'
<1>1. waitingToJoinGame \in [Client -> Room \cup {NoRoom}]
  BY DEF IInv, TypeOK, IdleTypeOK
<1>2. \A d \in Client : waitingToJoinGame'[d] = IF d = c THEN NoRoom ELSE waitingToJoinGame[d]
  BY <1>1 DEF NotWaiting
<1> QED
  BY <1>2 DEF WaitingListSound, HasName

LEMMA DenialAndWaiting ==
    ASSUME IInv, WaitingListSound, NEW c \in Client, IdleDenyRequest(c)
    PROVE  WaitingListSound'
<1>1. CASE TooManyDenials(reqDeniedCnt[c])
  BY <1>1, LeavesWaiting DEF IdleDenyRequest, IdleOnClientDisconnect, roomVars
<1>2. CASE ~TooManyDenials(reqDeniedCnt[c])
  BY <1>2, SameWaiting DEF IdleDenyRequest, clientVars, roomVars, HasName
<1> QED
  BY <1>1, <1>2

\* Nobody waits for a paused room, so rejoining its game disturbs nobody.
LEMMA NameAndWaiting ==
    ASSUME IInv, WaitingListSound, handOver = <<>>, NEW c \in Client, NEW n \in Name,
           EnterUsername(c, n)
    PROVE  WaitingListSound'
<1>0. IdleTyped
  BY IdleTypes
<1>1. CASE UsernameTaken(c, n)
  BY <1>1, DenialAndWaiting DEF EnterUsername
<1>2. CASE ~UsernameTaken(c, n)
  <2>1. /\ clientName' = [clientName EXCEPT ![c] = n]
        /\ UNCHANGED <<clientsMap, waitingToJoinGame>>
    BY <1>2 DEF EnterUsername, clientVars
  <2>2. \A d \in Client : HasName(d) => HasName(d)'
    BY <1>0, <2>1, RoomStructsAssumption DEF IdleTyped, HasName, RoomStructsAssumption
  <2>3. CASE UNCHANGED <<roomVars, handOver>>
    BY <2>1, <2>2, <2>3, SameWaiting DEF roomVars
  <2>4. CASE \E r \in pausedGameRooms : RejoinPausedGame(c, r)
    <3>1. PICK r \in pausedGameRooms : RejoinPausedGame(c, r)
      BY <2>4
    <3>2. r \in Room /\ gameState[r] # "IDLE"
      BY <1>0, <3>1 DEF IdleTyped, IInv, RoomAgreement, RoomAgrees
    <3>3. gameState' = [gameState EXCEPT ![r] = "RUNNING"]
      BY <3>1 DEF RejoinPausedGame, SetGameAsRunning
    <3>4. ASSUME NEW d \in Client, waitingToJoinGame[d] # NoRoom
          PROVE  gameState'[waitingToJoinGame[d]] = "IDLE"
      BY <1>0, <3>2, <3>3, <3>4 DEF WaitingListSound, IdleTyped
    <3> QED
      BY <2>1, <2>2, <3>4 DEF WaitingListSound
  <2> QED
    BY <1>2, <2>3, <2>4 DEF EnterUsername
<1> QED
  BY <1>1, <1>2

\* The one who waited for the room of a new game is handed over; whoever else
\* waits, waits for another room.
LEMMA NewGameAndWaiting ==
    ASSUME IInv, WaitingListSound, handOver = <<>>, NEW c \in Client, NEW d \in Client,
           NEW r \in Room, waitingToJoinGame[d] = r, NewGameThread(c, d, r),
           UNCHANGED <<clientVars, clientName>>
    PROVE  WaitingListSound'
<1>0. IdleTyped
  BY IdleTypes
<1>1. /\ gameState' = [gameState EXCEPT ![r] = "RUNNING"]
      /\ handOver' = <<<<r, c>>, <<r, d>>>>
      /\ UNCHANGED <<waitingToJoinGame, clientsMap, clientName>>
  BY DEF NewGameThread, SetGameAsRunning, clientVars
<1>2. ASSUME NEW a \in Client, waitingToJoinGame[a] # NoRoom
      PROVE  \/ gameState'[waitingToJoinGame[a]] = "IDLE"
             \/ \E k \in DOMAIN handOver' : handOver'[k] = <<waitingToJoinGame[a], a>>
  <2>1. gameState[waitingToJoinGame[a]] = "IDLE"
    BY <1>2 DEF WaitingListSound
  <2>2. CASE a = d
    <3>1. 2 \in DOMAIN handOver' /\ handOver'[2] = <<r, d>>
      BY <1>1
    <3> QED
      BY <2>2, <3>1
  <2>3. CASE a # d
    <3>1. waitingToJoinGame[a] # r
      BY <1>2, <2>3 DEF WaitingListSound
    <3> QED
      BY <1>0, <1>1, <1>2, <2>1, <3>1 DEF IdleTyped
  <2> QED
    BY <2>2, <2>3
<1> QED
  BY <1>1, <1>2 DEF WaitingListSound, HasName

LEMMA JoinAndWaiting ==
    ASSUME IInv, WaitingListSound, handOver = <<>>, NEW c \in clientsMap, HasName(c),
           NEW r \in Room \cup {Missing}, JoinGameRoom(c, r)
    PROVE  WaitingListSound'
<1> DEFINE waiting == {d \in Client : waitingToJoinGame[d] = r}
<1>0. IdleTyped /\ c \in Client
  BY IdleTypes DEF IdleTyped
<1>1. CASE r = Missing \/ (r # Missing /\ ~Joinable(r))
  BY <1>0, <1>1, DenialAndWaiting DEF JoinGameRoom
<1>2. CASE r # Missing /\ Joinable(r) /\ waiting # {}
  <2>1. PICK d \in waiting :
           IF d = c THEN IdleDenyRequest(c)
           ELSE /\ NewGameThread(c, d, r)
                /\ UNCHANGED <<clientVars, reqDeniedCnt, clientName>>
    BY <1>2 DEF JoinGameRoom
  <2> QED
    BY <1>0, <1>2, <2>1, DenialAndWaiting, NewGameAndWaiting
<1>3. CASE r # Missing /\ Joinable(r) /\ waiting = {}
  <2>1. /\ waitingToJoinGame' = [waitingToJoinGame EXCEPT ![c] = r]
        /\ UNCHANGED <<clientsMap, clientName, gameState, handOver>>
    BY <1>3 DEF JoinGameRoom, roomVars
  <2>2. \A d \in Client : waitingToJoinGame'[d] = IF d = c THEN r ELSE waitingToJoinGame[d]
    BY <1>0, <2>1 DEF IdleTyped
  <2>3. gameState[r] = "IDLE" /\ \A d \in Client : waitingToJoinGame[d] # r
    BY <1>3 DEF Joinable
  <2> QED
    BY <2>1, <2>2, <2>3 DEF WaitingListSound, HasName
<1> QED
  BY <1>1, <1>2, <1>3

LEMMA MessageAndWaiting ==
    ASSUME IInv, WaitingListSound, handOver = <<>>, NEW c \in clientsMap, NEW m \in IdleMessage,
           IdleProcessClientMessage(c, m)
    PROVE  WaitingListSound'
<1>0. c \in Client
  BY IdleTypes DEF IdleTyped
<1>1. CASE IdleOnClientDisconnect(c) /\ UNCHANGED <<clientName, roomVars, handOver>>
  BY <1>0, <1>1, LeavesWaiting DEF IdleOnClientDisconnect, roomVars
<1>2. CASE m.method = "ENTER_USERNAME" /\ m.arg # Missing /\ ~HasName(c)
  <2>1. m.arg \in Name
    BY <1>2 DEF IdleMessage
  <2>2. EnterUsername(c, m.arg)
    BY <1>2 DEF IdleProcessClientMessage
  <2> QED
    BY <1>0, <2>1, <2>2, NameAndWaiting
<1>3. CASE IdleReply
  BY <1>3, SameWaiting DEF IdleReply, clientVars, roomVars, HasName
<1>4. CASE m.method = "JOIN_GAME" /\ HasName(c)
  <2>1. m.arg \in Room \cup {Missing} /\ JoinGameRoom(c, m.arg)
    BY <1>4 DEF IdleMessage, IdleProcessClientMessage
  <2> QED
    BY <1>4, <2>1, JoinAndWaiting
<1>5. CASE IdleDenyRequest(c)
  BY <1>0, <1>5, DenialAndWaiting
<1> QED
  BY <1>1, <1>2, <1>3, <1>4, <1>5 DEF IdleProcessClientMessage

\* A client is off the waiting list before its entry leaves the hand-over.
LEMMA SendAndWaiting ==
    ASSUME IInv, WaitingListSound, SendClientToGameThread PROVE WaitingListSound'
<1> DEFINE c == Head(handOver)[2]
<1>0. IdleTyped
  BY IdleTypes
<1>1. /\ handOver # <<>>
      /\ waitingToJoinGame' = [waitingToJoinGame EXCEPT ![c] = NoRoom]
      /\ clientsMap' = clientsMap \ {c}
      /\ handOver' = Tail(handOver)
      /\ UNCHANGED <<clientName, gameState>>
  BY DEF SendClientToGameThread, NotWaiting, roomVars
<1>2. handOver \in Seq(Room \X Client)
  BY <1>0 DEF IdleTyped
<1>3. \A k \in DOMAIN handOver : k = 1 \/ (k - 1 \in DOMAIN handOver' /\ handOver'[k - 1] = handOver[k])
  BY <1>1, <1>2
<1>4. handOver[1] = Head(handOver)
  BY <1>1, <1>2
<1>5. \A d \in Client : waitingToJoinGame'[d] = IF d = c THEN NoRoom ELSE waitingToJoinGame[d]
  BY <1>0, <1>1 DEF IdleTyped
<1>6. ASSUME NEW d \in Client, waitingToJoinGame'[d] # NoRoom
      PROVE  /\ d \in clientsMap' /\ HasName(d)'
             /\ \/ gameState'[waitingToJoinGame'[d]] = "IDLE"
                \/ \E k \in DOMAIN handOver' : handOver'[k] = <<waitingToJoinGame'[d], d>>
  <2>1. d # c /\ waitingToJoinGame'[d] = waitingToJoinGame[d] /\ waitingToJoinGame[d] # NoRoom
    BY <1>5, <1>6
  <2>2. d \in clientsMap' /\ HasName(d)'
    BY <1>1, <2>1 DEF WaitingListSound, HasName
  <2>3. CASE gameState[waitingToJoinGame[d]] = "IDLE"
    BY <1>1, <2>1, <2>2, <2>3
  <2>4. CASE \E k \in DOMAIN handOver : handOver[k] = <<waitingToJoinGame[d], d>>
    <3>1. PICK k \in DOMAIN handOver : handOver[k] = <<waitingToJoinGame[d], d>>
      BY <2>4
    <3>2. k # 1
      BY <1>4, <2>1, <3>1
    <3> QED
      BY <1>3, <2>1, <2>2, <3>1, <3>2
  <2> QED
    BY <2>1, <2>3, <2>4 DEF WaitingListSound
<1> QED
  BY <1>5, <1>6 DEF WaitingListSound

\* A report only arrives from a room that is not idle, so nobody waits for it.
LEMMA ReportAndWaiting ==
    ASSUME IInv, WaitingListSound, NEW r \in Room, OnGameStateChange(r)
    PROVE  WaitingListSound'
<1>0. IdleTyped
  BY IdleTypes
<1>1. gameState[r] # "IDLE" /\ handOver = <<>>
  BY DEF OnGameStateChange, IdleBetweenEvents, IInv, RoomAgreement, RoomAgrees
<1>2. /\ UNCHANGED <<clientName, waitingToJoinGame, handOver>>
      /\ clientsMap \subseteq clientsMap'
      /\ \A q \in Room \ {r} : gameState'[q] = gameState[q]
  BY <1>0 DEF OnGameStateChange, SetGameAsIdle, SetGameAsPaused, roomVars, IdleTyped
<1>3. ASSUME NEW d \in Client, waitingToJoinGame[d] # NoRoom
      PROVE  gameState'[waitingToJoinGame[d]] = "IDLE"
  BY <1>0, <1>1, <1>2, <1>3 DEF WaitingListSound, IdleTyped
<1> QED
  BY <1>2, <1>3 DEF WaitingListSound, HasName

LEMMA NextAndWaiting == IInv /\ WaitingListSound /\ [Next]_vars => WaitingListSound'
<1> SUFFICES ASSUME IInv, WaitingListSound, [Next]_vars PROVE WaitingListSound'
  OBVIOUS
<1>1. CASE UNCHANGED <<idleVars, clientName>>
  BY <1>1, SameWaiting DEF idleVars, roomVars, HasName
<1>2. CASE AcceptNext \/ GamesNext \/ UNCHANGED vars
  <2>1. UNCHANGED <<idleVars, clientName>>
    BY <1>2, ZenonT(30)
    DEF AcceptNext, TcpAcceptLoop, vars, sharedVars, GamesNext, GameNext, gameKeeps,
       GameWaitForEvents, GameDispatchInput, GameOnNewClientConnect, GameOnClientWrite,
       GameOnClientWriteFails, GameProcessMessage, GameOnHangup, GameExit, InactivityExpires
  <2> QED
    BY <1>1, <2>1
<1>3. CASE IdleNext
  <2>1. CASE IdleOnNewClientConnect
    BY <2>1, SameWaiting DEF IdleOnNewClientConnect, roomVars, HasName
  <2>2. ASSUME NEW c \in Client, IdleOnClientWrite(c) PROVE WaitingListSound'
    BY <2>2, SameWaiting DEF IdleOnClientWrite, sharedVars, roomVars, HasName
  <2>3. ASSUME NEW c \in Client, IdleOnClientWriteFails(c) PROVE WaitingListSound'
    BY <2>3, LeavesWaiting DEF IdleOnClientWriteFails, IdleOnClientDisconnect, roomVars
  <2>4. ASSUME NEW c \in Client, IdleProcessMessage(c) PROVE WaitingListSound'
    <3>1. CASE c \in clientsMap
      BY <2>4, <3>1, MessageAndWaiting DEF IdleProcessMessage
    <3>2. CASE c \notin clientsMap
      BY <2>4, <3>2, SameWaiting DEF IdleProcessMessage, clientVars, roomVars, HasName
    <3> QED
      BY <3>1, <3>2
  <2>5. ASSUME NEW c \in Client, IdleOnHangup(c) PROVE WaitingListSound'
    <3>1. CASE Monitored(c)
      BY <2>5, <3>1, LeavesWaiting DEF IdleOnHangup, IdleOnClientDisconnect, roomVars
    <3>2. CASE ~Monitored(c)
      BY <2>5, <3>2, SameWaiting DEF IdleOnHangup, clientVars, roomVars, HasName
    <3> QED
      BY <3>1, <3>2
  <2>6. CASE SendClientToGameThread
    BY <2>6, SendAndWaiting
  <2>7. ASSUME NEW r \in Room, OnGameStateChange(r) PROVE WaitingListSound'
    BY <2>7, ReportAndWaiting
  <2> QED
    BY <1>3, <2>1, <2>2, <2>3, <2>4, <2>5, <2>6, <2>7 DEF IdleNext
<1> QED
  BY <1>2, <1>3 DEF Next

\* A client on the waiting list is in the idle room, has a name and waits alone
\* for a room that can be joined or that it is already on its way to.
THEOREM WaitingListIsSound == Spec => []WaitingListSound
<1>1. Init => WaitingListSound
  BY DEF Init, IdleInit, WaitingListSound
<1>2. IInv /\ WaitingListSound /\ [Next]_vars => WaitingListSound'
  BY NextAndWaiting
<1> QED
  BY Invariance, <1>1, <1>2, PTL DEF Spec

-----------------------------------------------------------------------------
(* Ownership.  The handlers of a game thread only touch the clients that    *)
(* have a slot: they close exactly those they unseat, and report no client. *)

\* Only the report of the end has clients, and it has each of them once.
ReportsSound(out) ==
    \A k \in DOMAIN out :
        /\ out[k].newState # "IDLE" => out[k].client1 = Nobody /\ out[k].client2 = Nobody
        /\ out[k].client1 = out[k].client2 => out[k].client1 = Nobody

SameReturns(out, out2) ==
    /\ Returning(out2) = Returning(out)
    /\ ReportsSound(out) => ReportsSound(out2)

Touches(w, w2) ==
    /\ \A c \in Client :
          /\ w2.denied[c] # w.denied[c] => HasPlayer(w.g, c)
          /\ w2.conn[c] = IF HasPlayer(w.g, c) /\ ~HasPlayer(w2.g, c) THEN "closed" ELSE w.conn[c]
    /\ \A i \in Slot : w2.g.client[i] \in {w.g.client[i], Nobody}
    /\ SameReturns(w.out, w2.out)

LEMMA TouchesTransitive ==
    ASSUME NEW w1, NEW w2, NEW w3, Touches(w1, w2), Touches(w2, w3) PROVE Touches(w1, w3)
<1>1. \A c \in Client : HasPlayer(w3.g, c) => HasPlayer(w2.g, c)
  BY RoomStructsAssumption DEF Touches, HasPlayer, RoomStructsAssumption
<1>2. \A c \in Client : HasPlayer(w2.g, c) => HasPlayer(w1.g, c)
  BY RoomStructsAssumption DEF Touches, HasPlayer, RoomStructsAssumption
<1>3. SameReturns(w1.out, w3.out)
  BY DEF Touches, SameReturns
<1>4. \A i \in Slot : w3.g.client[i] \in {w1.g.client[i], Nobody}
  BY DEF Touches
<1> QED
  BY <1>1, <1>2, <1>3, <1>4 DEF Touches

\* Changes of a world that leave the clients alone.
LEMMA TouchesNobody ==
    ASSUME NEW w, LiveWorld(w)
    PROVE  /\ Touches(w, w)
           /\ Touches(w, Throw(w))
           /\ Touches(w, Undefined(w))
           /\ Touches(w, [w EXCEPT !.g.isRunning = FALSE])
           /\ Touches(w, [w EXCEPT !.g.isPaused = FALSE])
           /\ \A i \in Slot : Touches(w, [w EXCEPT !.g.lastSeen[i] = "recent"])
           /\ \A i \in Slot, e \in Edge : Touches(w, AddEdge(w, i, e))
           /\ \A events, task : Touches(w, [w EXCEPT !.g.events = events, !.g.task = task])
<1> USE DEF LiveWorld, WorldRecord, GameRecord, Touches, HasPlayer, SameReturns
<1>1. /\ Touches(w, w)
      /\ Touches(w, Throw(w))
      /\ Touches(w, Undefined(w))
      /\ Touches(w, [w EXCEPT !.g.isRunning = FALSE])
      /\ Touches(w, [w EXCEPT !.g.isPaused = FALSE])
  BY DEF Throw, Undefined
<1>2. \A i \in Slot : Touches(w, [w EXCEPT !.g.lastSeen[i] = "recent"])
  OBVIOUS
<1>3. ASSUME NEW i \in Slot, NEW e \in Edge PROVE Touches(w, AddEdge(w, i, e))
  <2> DEFINE w2 == AddEdge(w, i, e)
  <2>1. w2.denied = w.denied /\ w2.conn = w.conn /\ w2.out = w.out /\ w2.g.client = w.g.client
    BY DEF AddEdge
  <2> QED
    BY <2>1
<1>4. \A events, task : Touches(w, [w EXCEPT !.g.events = events, !.g.task = task])
  OBVIOUS
<1> QED
  BY <1>1, <1>2, <1>3, <1>4, ZenonT(30)

\* A report of a pause has no clients.
LEMMA PausedReportsNobody ==
    ASSUME NEW out \in Seq(GameStateChange) PROVE SameReturns(out, Append(out, PausedChange))
<1> DEFINE out2 == Append(out, PausedChange)
<1>1. /\ DOMAIN out2 = DOMAIN out \cup {Len(out) + 1}
      /\ \A k \in DOMAIN out : out2[k] = out[k]
      /\ out2[Len(out) + 1] = PausedChange
  OBVIOUS
<1>2. PausedChange.client1 = Nobody /\ PausedChange.client2 = Nobody
  BY DEF PausedChange, Change
<1> HIDE DEF out2
<1>3. Returning(out2) = Returning(out)
  BY <1>1, <1>2 DEF Returning
<1>4. ReportsSound(out) => ReportsSound(out2)
  BY <1>1, <1>2 DEF ReportsSound
<1> QED
  BY <1>3, <1>4 DEF SameReturns, out2

LEMMA OnClientDisconnectTouches ==
    ASSUME NEW w, LiveWorld(w), NEW c \in Client
    PROVE  Touches(w, OnClientDisconnect(w, c))
<1> DEFINE w1 == [w EXCEPT
                 !.g.client = [i \in Slot |-> IF @[i] = c THEN Nobody ELSE @[i]],
                 !.conn = [d \in Client |-> IF d = c /\ HasPlayer(w.g, c)
                                            THEN "closed" ELSE @[d]]]
           w2 == OnClientDisconnect(w, c)
<1>1. /\ \A i \in Slot : w1.g.client[i] = IF w.g.client[i] = c THEN Nobody ELSE w.g.client[i]
      /\ w1.denied = w.denied
      /\ \A d \in Client : w1.conn[d] = IF d = c /\ HasPlayer(w.g, c) THEN "closed" ELSE w.conn[d]
      /\ w1 \in WorldRecord
  BY DEF LiveWorld, WorldRecord, GameRecord, ClientOrNobody, Slot
<1>2. w2.g.client = w1.g.client /\ w2.denied = w1.denied /\ w2.conn = w1.conn
  BY <1>1 DEF OnClientDisconnect, PauseGame, WorldRecord, GameRecord
<1>3. SameReturns(w.out, w2.out)
  <2>1. w.out \in Seq(GameStateChange) /\ w1.out = w.out
    BY DEF LiveWorld, WorldRecord
  <2>2. w2.out = w.out \/ w2.out = Append(w.out, PausedChange)
    BY <1>1, <2>1 DEF OnClientDisconnect, PauseGame, WorldRecord, GameRecord
  <2> QED
    BY <2>1, <2>2, PausedReportsNobody DEF SameReturns
<1> HIDE DEF w1, w2
<1>4. \A d \in Client : d # Nobody
  BY RoomStructsAssumption DEF RoomStructsAssumption
<1> QED
  BY <1>1, <1>2, <1>3, <1>4 DEF Touches, HasPlayer, w2

\* A denial is counted for the client whose request it is.
LEMMA GameDenyRequestTouches ==
    ASSUME NEW w, LiveWorld(w), NEW c \in Client, HasPlayer(w.g, c)
    PROVE  Touches(w, GameDenyRequest(w, c))
<1>1. Touches(w, [w EXCEPT !.denied[c] = @ + 1])
  BY DEF LiveWorld, WorldRecord, GameRecord, Touches, SameReturns, HasPlayer
<1> QED
  BY <1>1, OnClientDisconnectTouches DEF GameDenyRequest

LEMMA UpdateClientLastSeenTouches ==
    ASSUME NEW w, LiveWorld(w), NEW c \in Client
    PROVE  Touches(w, UpdateClientLastSeen(w, c))
<1> DEFINE i == PlayerSlot(w.g, c)
           j == Other(i)
           w1 == [w EXCEPT !.g.lastSeen[i] = "recent"]
<1>1. CASE ~HasPlayer(w.g, c)
  BY <1>1, TouchesNobody DEF UpdateClientLastSeen
<1>2. CASE HasPlayer(w.g, c)
  <2>1. i \in Slot /\ j \in Slot
    BY PlayerSlotIsSlot
  <2>2. LiveWorld(w1) /\ Touches(w, w1)
    BY <2>1, TouchesNobody DEF LiveWorld, WorldRecord, GameRecord
  <2>3. CASE Online(w.g, j)
    <3>1. w.g.client[j] \in Client
      BY <2>1, <2>3 DEF Online, ClientOrNobody, LiveWorld, WorldRecord, GameRecord
    <3>2. Touches(w, OnClientDisconnect(w1, w.g.client[j]))
      BY <2>2, <3>1, OnClientDisconnectTouches, TouchesTransitive
    <3> QED
      BY <1>2, <2>2, <3>2 DEF UpdateClientLastSeen
  <2>4. CASE ~Online(w.g, j)
    BY <1>2, <2>2, <2>4 DEF UpdateClientLastSeen
  <2> QED
    BY <2>3, <2>4
<1> QED
  BY <1>1, <1>2

LEMMA ProcessClientMessageTouches ==
    ASSUME NEW w, LiveWorld(w), NEW c \in Client, HasPlayer(w.g, c), NEW m \in GameMessage,
           NEW w2 \in ProcessClientMessage(w, c, m)
    PROVE  Touches(w, w2)
<1> DEFINE w1 == CASE m.method = "GAME_COMMAND" -> ProcessGameCommand(w, c, m.arg)
                   [] m.method = "GAME_LEAVE"   -> [w EXCEPT !.g.isRunning = FALSE]
                   [] m.method = "GAME_PING"    -> w
                   [] OTHER                     -> GameDenyRequest(w, c)
<1>1. m.method = "GAME_COMMAND" => m.arg \in Edge \cup {Missing, TooShort}
  BY DEF GameMessage
<1>2. ASSUME NEW arg \in Edge \cup {Missing, TooShort}
      PROVE  /\ LiveWorld(ProcessGameCommand(w, c, arg))
             /\ Touches(w, ProcessGameCommand(w, c, arg))
  <2>1. LiveWorld(ProcessGameCommand(w, c, arg))
    BY ProcessGameCommandLive
  <2>2. arg # Missing /\ arg # TooShort => arg \in Edge
    OBVIOUS
  <2>3. PlayerSlot(w.g, c) \in Slot
    BY PlayerSlotIsSlot
  <2>4. /\ Touches(w, GameDenyRequest(w, c))
        /\ Touches(w, Undefined(w))
        /\ Touches(w, Throw(w))
        /\ arg \in Edge => Touches(w, AddEdge(w, PlayerSlot(w.g, c), arg))
    BY <2>3, GameDenyRequestTouches, TouchesNobody
  <2> QED
    BY <2>1, <2>2, <2>4 DEF ProcessGameCommand
<1>3. LiveWorld([w EXCEPT !.g.isRunning = FALSE])
  BY DEF LiveWorld, WorldRecord, GameRecord
<1>4. LiveWorld(w1) /\ Touches(w, w1)
  BY <1>1, <1>2, <1>3, GameDenyRequestLive, GameDenyRequestTouches, TouchesNobody
<1>5. w2 = w1 \/ \E d \in Client : w2 = UpdateClientLastSeen(w1, d)
  BY DEF ProcessClientMessage
<1> HIDE DEF w1
<1> QED
  BY <1>4, <1>5, UpdateClientLastSeenTouches, TouchesTransitive

\* Client c gets the first free slot; whatever else seating does, it touches
\* only who then has a slot.
Seat(w, c) == [w EXCEPT !.g.client[IF Online(w.g, 1) THEN 2 ELSE 1] = c]

LEMMA SeatClientTouches ==
    ASSUME NEW w, LiveWorld(w), NEW c \in Client
    PROVE  Touches(Seat(w, c), SeatClient(w, c))
<1> DEFINE i == IF Online(w.g, 1) THEN 2 ELSE 1
           w1 == [w EXCEPT !.g.client[i] = c]
           w1a == [w1 EXCEPT !.g.isPaused = FALSE]
           w2 == UpdateClientLastSeen(w1a, w1.g.client[1])
<1>1. i \in Slot
  BY DEF Slot
<1>2. LiveWorld(w1)
  BY <1>1 DEF LiveWorld, WorldRecord, GameRecord, ClientOrNobody
<1>3. Touches(w1, SeatClient(w, c))
  <2>1. CASE ~BothPlayersOnline(w1.g)
    BY <1>2, <2>1, TouchesNobody DEF SeatClient
  <2>2. CASE BothPlayersOnline(w1.g)
    <3>1. LiveWorld(w1a) /\ Touches(w1, w1a)
      BY <1>2, TouchesNobody DEF LiveWorld, WorldRecord, GameRecord
    <3>2. w1.g.client[1] \in Client
      BY <1>2, <2>2 DEF LiveWorld, WorldRecord, GameRecord, ClientOrNobody, Slot,
                        BothPlayersOnline, Online
    <3>3. LiveWorld(w2) /\ Touches(w1, w2)
      BY <3>1, <3>2, UpdateClientLastSeenLive, UpdateClientLastSeenTouches, TouchesTransitive
    <3>4. CASE ~Online(w2.g, 2)
      <4>1. Touches(w1, Undefined(w2))
        BY <3>3, TouchesNobody, TouchesTransitive
      <4> QED
        BY <2>2, <3>4, <4>1 DEF SeatClient
    <3>5. CASE Online(w2.g, 2)
      <4>1. w2.g.client[2] \in Client
        BY <3>3, <3>5, ZenonT(30) DEF LiveWorld, WorldRecord, GameRecord, ClientOrNobody, Slot, Online
      <4>2. Touches(w1, UpdateClientLastSeen(w2, w2.g.client[2]))
        BY <3>3, <4>1, UpdateClientLastSeenTouches, TouchesTransitive
      <4> QED
        BY <2>2, <3>5, <4>2 DEF SeatClient
    <3> QED
      BY <3>4, <3>5
  <2> QED
    BY <2>1, <2>2
<1> QED
  BY <1>3 DEF Seat

\* What a step of game r does to the clients: nothing, or what its handlers do
\* to those who have a slot, or it seats the first client of the input queue.
QuietStep(r) ==
    /\ UNCHANGED <<conn, reqDeniedCnt, gameInput, gameOutput>>
    /\ \E g : /\ game' = [game EXCEPT ![r] = g]
             /\ g.client = game[r].client /\ g.thread = game[r].thread

HandlerStep(r) ==
    /\ InLoop(r)
    /\ UNCHANGED gameInput
    /\ \E w : Touches(World(r), w) /\ Commit(r, w)

SeatStep(r) ==
    /\ InLoop(r) /\ ~BothPlayersOnline(game[r]) /\ gameInput[r] # <<>>
    /\ gameInput' = [gameInput EXCEPT ![r] = Tail(@)]
    /\ \E w : Touches(Seat(World(r), Head(gameInput[r])), w) /\ Commit(r, w)

LEMMA GameNextTouches ==
    ASSUME IInv, NEW r \in Room, GameNext(r)
    PROVE  QuietStep(r) \/ HandlerStep(r) \/ SeatStep(r) \/ GameExit(r)
<1>0. /\ game \in [Room -> GameRecord] /\ gameInput \in [Room -> Seq(Client)]
      /\ game[r].task \in Task
  BY DEF IInv, TypeOK, GameTypeOK, SharedTypeOK, GameRecord
<1>1. InLoop(r) => LiveWorld(World(r))
  BY WorldLive DEF IInv, InLoop
<1>3. ASSUME GameWaitForEvents(r) PROVE QuietStep(r)
  <2>1. PICK ready : game' = [game EXCEPT ![r].events = ready]
    BY <1>3 DEF GameWaitForEvents
  <2> DEFINE g == [game[r] EXCEPT !.events = ready]
  <2>2. g.client = game[r].client /\ g.thread = game[r].thread /\ game' = [game EXCEPT ![r] = g]
    BY <1>0, <2>1 DEF GameRecord
  <2> QED
    BY <1>3, <2>2 DEF GameWaitForEvents, QuietStep, sharedVars
<1>4. ASSUME GameDispatchInput(r) PROVE QuietStep(r)
  <2> DEFINE g == [game[r] EXCEPT !.events = @ \ {Input}, !.task = [@ EXCEPT !.fd = Input]]
  <2>1. g.client = game[r].client /\ g.thread = game[r].thread /\ game' = [game EXCEPT ![r] = g]
    BY <1>0, <1>4 DEF GameDispatchInput, GameRecord
  <2> QED
    BY <1>4, <2>1 DEF GameDispatchInput, QuietStep, sharedVars
<1>5. ASSUME GameOnNewClientConnect(r) PROVE QuietStep(r) \/ HandlerStep(r) \/ SeatStep(r)
  <2>1. InLoop(r) /\ LiveWorld(World(r))
    BY <1>1, <1>5 DEF GameOnNewClientConnect
  <2>2. CASE gameInput[r] = <<>>
    <3> DEFINE g == [game[r] EXCEPT !.task = NoTask]
    <3>1. g.client = game[r].client /\ g.thread = game[r].thread /\ game' = [game EXCEPT ![r] = g]
      BY <1>0, <1>5, <2>2 DEF GameOnNewClientConnect, GameRecord
    <3> QED
      BY <1>5, <2>2, <3>1 DEF GameOnNewClientConnect, QuietStep, sharedVars
  <2>3. CASE gameInput[r] # <<>> /\ BothPlayersOnline(game[r])
    BY <1>5, <2>1, <2>3, TouchesNobody DEF GameOnNewClientConnect, HandlerStep
  <2>4. CASE gameInput[r] # <<>> /\ ~BothPlayersOnline(game[r])
    <3>1. Head(gameInput[r]) \in Client
      BY <1>0, <2>4
    <3>2. /\ Commit(r, SeatClient(World(r), Head(gameInput[r])))
          /\ gameInput' = [gameInput EXCEPT ![r] = Tail(@)]
      BY <1>5, <2>4 DEF GameOnNewClientConnect
    <3> QED
      BY <2>1, <2>4, <3>1, <3>2, SeatClientTouches DEF SeatStep
  <2> QED
    BY <2>2, <2>3, <2>4
<1>6. ASSUME NEW c \in Client, GameOnClientWrite(r, c) PROVE HandlerStep(r)
  <2> DEFINE w == [World(r) EXCEPT !.g.events = @ \ {c}]
  <2>1. LiveWorld(w) /\ Touches(World(r), w)
    BY <1>1, <1>6 DEF GameOnClientWrite, LiveWorld, WorldRecord, GameRecord, Touches, SameReturns, HasPlayer
  <2>2. Touches(w, Throw(w))
    BY <2>1, TouchesNobody
  <2>3. \A task : Touches(w, [w EXCEPT !.g.task = task])
    BY <2>1 DEF LiveWorld, WorldRecord, GameRecord, Touches, SameReturns, HasPlayer
  <2>4. PICK w2 : Commit(r, w2) /\ (w2 = Throw(w) \/ \E task : w2 = [w EXCEPT !.g.task = task])
    BY <1>6 DEF GameOnClientWrite
  <2> HIDE DEF w
  <2>5. Touches(World(r), w2)
    BY <2>1, <2>2, <2>3, <2>4, TouchesTransitive
  <2> QED
    BY <1>6, <2>4, <2>5 DEF GameOnClientWrite, HandlerStep
<1>7. ASSUME NEW c \in Client, GameOnClientWriteFails(r, c) PROVE HandlerStep(r)
  <2>1. PICK hangups \in 0 .. 2 :
           Commit(r, OnClientDisconnect(
             [World(r) EXCEPT !.g.events = @ \ {c},
                 !.g.task = Remaining([fd |-> c, left |-> 0, hangups |-> hangups])], c))
    BY <1>7 DEF GameOnClientWriteFails
  <2> DEFINE w == [World(r) EXCEPT !.g.events = @ \ {c},
                 !.g.task = Remaining([fd |-> c, left |-> 0, hangups |-> hangups])]
  <2>2. [fd |-> c, left |-> 0, hangups |-> hangups] \in Task
    BY RoomStructsAssumption DEF Task, RoomStructsAssumption
  <2>3. LiveWorld(w) /\ Touches(World(r), w)
    BY <1>1, <1>7, <2>2, RemainingTask
       DEF GameOnClientWriteFails, LiveWorld, WorldRecord, GameRecord, Touches, SameReturns, HasPlayer
  <2> HIDE DEF w
  <2>4. Touches(World(r), OnClientDisconnect(w, c))
    BY <2>3, OnClientDisconnectTouches, TouchesTransitive
  <2> QED
    BY <1>7, <2>1, <2>4 DEF GameOnClientWriteFails, HandlerStep, w
<1>8. ASSUME NEW c \in Client, GameProcessMessage(r, c) PROVE HandlerStep(r)
  <2> DEFINE w == [World(r) EXCEPT !.g.task = Remaining([game[r].task EXCEPT !.left = @ - 1])]
  <2>1. InLoop(r) /\ LiveWorld(World(r)) /\ game[r].task.left > 0
    BY <1>1, <1>8 DEF GameProcessMessage
  <2>2. LiveWorld(w)
    BY <2>1, TaskLive
  <2>3. Touches(World(r), w) /\ w.g.client = game[r].client
    BY <2>1 DEF LiveWorld, WorldRecord, GameRecord, Touches, SameReturns, HasPlayer, World
  <2>4. PICK w1 : /\ Commit(r, w1)
                  /\ \/ w1 = Undefined(w)
                     \/ /\ HasPlayer(game[r], c)
                        /\ \E m \in GameMessage : w1 \in ProcessClientMessage(w, c, m)
    BY <1>8 DEF GameProcessMessage
  <2> HIDE DEF w
  <2>5. HasPlayer(game[r], c) => HasPlayer(w.g, c)
    BY <2>3 DEF HasPlayer
  <2>6. Touches(w, w1)
    BY <2>2, <2>4, <2>5, TouchesNobody, ProcessClientMessageTouches
  <2>7. Touches(World(r), w1)
    BY <2>3, <2>6, TouchesTransitive
  <2> QED
    BY <1>8, <2>4, <2>7 DEF GameProcessMessage, HandlerStep
<1>9. ASSUME NEW c \in Client, GameOnHangup(r, c) PROVE HandlerStep(r)
  <2> DEFINE w == [World(r) EXCEPT !.g.task = Remaining([game[r].task EXCEPT !.hangups = @ - 1])]
  <2>1. /\ InLoop(r) /\ LiveWorld(World(r)) /\ game[r].task.hangups > 0
        /\ Commit(r, OnClientDisconnect(w, c))
    BY <1>1, <1>9 DEF GameOnHangup
  <2>2. LiveWorld(w)
    BY <2>1, TaskLive
  <2>3. Touches(World(r), w)
    BY <2>1 DEF LiveWorld, WorldRecord, GameRecord, Touches, SameReturns, HasPlayer
  <2> HIDE DEF w
  <2>4. Touches(World(r), OnClientDisconnect(w, c))
    BY <2>2, <2>3, OnClientDisconnectTouches, TouchesTransitive
  <2> QED
    BY <1>9, <2>1, <2>4 DEF GameOnHangup, HandlerStep
<1>10. ASSUME NEW i \in Slot, InactivityExpires(r, i) PROVE QuietStep(r)
  <2> DEFINE g == [game[r] EXCEPT !.lastSeen[i] = "expired"]
  <2>1. g.client = game[r].client /\ g.thread = game[r].thread /\ game' = [game EXCEPT ![r] = g]
    BY <1>0, <1>10 DEF InactivityExpires, GameRecord
  <2> QED
    BY <1>10, <2>1 DEF InactivityExpires, QuietStep, sharedVars
<1> QED
  BY <1>3, <1>4, <1>5, <1>6, <1>7, <1>8, <1>9, <1>10 DEF GameNext

\* So a game thread leaves the clients of the others alone.
LEMMA GameNextTouchesOwn ==
    ASSUME IInv, NEW r \in Room, GameNext(r)
    PROVE  /\ \A c \in Client :
                 reqDeniedCnt'[c] # reqDeniedCnt[c] \/ conn'[c] # conn[c] => GameOwns(r, c)
           /\ \A q \in Room \ {r} : game'[q] = game[q]
<1>0. game \in [Room -> GameRecord] /\ gameInput \in [Room -> Seq(Client)]
  BY DEF IInv, TypeOK, GameTypeOK, SharedTypeOK
<1>1. CASE QuietStep(r)
  BY <1>0, <1>1 DEF QuietStep
<1>2. CASE HandlerStep(r)
  BY <1>0, <1>2 DEF HandlerStep, Touches, World, Commit, GameOwns
<1>3. CASE SeatStep(r)
  <2> DEFINE c == Head(gameInput[r])
             w1 == Seat(World(r), c)
  <2>1. PICK w : Touches(w1, w) /\ Commit(r, w)
    BY <1>3 DEF SeatStep
  <2>2. /\ w1.denied = reqDeniedCnt /\ w1.conn = conn
        /\ \A d \in Client : HasPlayer(w1.g, d) => d = c \/ HasPlayer(game[r], d)
    BY <1>0 DEF Seat, World, HasPlayer, GameRecord
  <2> HIDE DEF w1
  <2> QED
    BY <1>0, <1>3, <2>1, <2>2 DEF Touches, Commit, GameOwns, SeatStep
<1>4. CASE GameExit(r)
  BY <1>0, <1>4 DEF GameExit
<1> QED
  BY <1>1, <1>2, <1>3, <1>4, GameNextTouches

\* The idle thread touches nobody but c, which it owns, and it does so in no
\* step in which it starts a game or takes a report.
IdleTouches(c) ==
    /\ IdleOwns(c)
    /\ \A d \in Client \ {c} :
          UNCHANGED <<clientName[d], reqDeniedCnt[d], conn[d]>>
    /\ UNCHANGED <<clientName, reqDeniedCnt, conn>> \/ UNCHANGED <<game, gameOutput>>

LEMMA DenialTouches ==
    ASSUME IdleTyped, NEW c \in clientsMap, IdleDenyRequest(c), UNCHANGED gameOutput
    PROVE  IdleTouches(c)
BY DEF IdleTyped, IdleDenyRequest, IdleOnClientDisconnect, clientVars, IdleTouches, IdleOwns

LEMMA MessageTouches ==
    ASSUME IdleTyped, NEW c \in clientsMap, NEW m \in IdleMessage,
           IdleProcessClientMessage(c, m), UNCHANGED gameOutput
    PROVE  IdleTouches(c)
<1>0. IdleOwns(c)
  BY DEF IdleOwns
<1>1. CASE IdleOnClientDisconnect(c) /\ UNCHANGED <<clientName, reqDeniedCnt, game>>
  BY <1>0, <1>1 DEF IdleTyped, IdleOnClientDisconnect, IdleTouches
<1>2. CASE UNCHANGED <<clientName, reqDeniedCnt, conn>>
  BY <1>0, <1>2 DEF IdleTouches
<1>3. CASE IdleDenyRequest(c)
  BY <1>3, DenialTouches
<1>4. CASE m.method = "ENTER_USERNAME" /\ m.arg # Missing /\ ~HasName(c)
  <2>1. EnterUsername(c, m.arg)
    BY <1>4 DEF IdleProcessClientMessage
  <2>2. CASE ~UsernameTaken(c, m.arg)
    BY <1>0, <2>1, <2>2 DEF IdleTyped, EnterUsername, clientVars, IdleTouches
  <2> QED
    BY <2>1, <2>2, <1>3 DEF EnterUsername
<1>5. CASE m.method = "JOIN_GAME" /\ HasName(c)
  <2>1. JoinGameRoom(c, m.arg)
    BY <1>5 DEF IdleProcessClientMessage
  <2> QED
    BY <1>2, <1>3, <2>1 DEF JoinGameRoom, clientVars
<1> QED
  BY <1>1, <1>2, <1>3, <1>4, <1>5 DEF IdleProcessClientMessage, IdleReply, clientVars

LEMMA IdleNextTouches ==
    ASSUME IInv, IdleNext
    PROVE  UNCHANGED <<clientName, reqDeniedCnt, conn>> \/ \E c \in Client : IdleTouches(c)
<1>0. IdleTyped /\ newClientsQueue \in Seq(Client)
  BY IdleTypes DEF IInv, TypeOK, SharedTypeOK
<1>1. CASE IdleOnNewClientConnect
  <2>1. Head(newClientsQueue) \in Client
    BY <1>0, <1>1 DEF IdleOnNewClientConnect
  <2>2. IdleTouches(Head(newClientsQueue))
    BY <1>0, <1>1, <2>1 DEF IdleOnNewClientConnect, IdleTyped, IdleTouches, IdleOwns
  <2> QED
    BY <2>1, <2>2
<1>2. ASSUME NEW c \in Client, IdleOnClientWriteFails(c) PROVE IdleTouches(c)
  BY <1>0, <1>2 DEF IdleOnClientWriteFails, IdleOnClientDisconnect, IdleTyped, IdleTouches, IdleOwns
<1>3. ASSUME NEW c \in Client, IdleProcessMessage(c), c \in clientsMap PROVE IdleTouches(c)
  BY <1>0, <1>3, MessageTouches DEF IdleProcessMessage
<1>4. ASSUME NEW c \in Client, IdleProcessMessage(c), c \notin clientsMap
      PROVE  UNCHANGED <<clientName, reqDeniedCnt, conn>>
  BY <1>4 DEF IdleProcessMessage, clientVars
<1>5. ASSUME NEW c \in Client, IdleOnHangup(c), Monitored(c) PROVE IdleTouches(c)
  BY <1>0, <1>5 DEF IdleOnHangup, Monitored, IdleOnClientDisconnect, IdleTyped, IdleTouches, IdleOwns
<1>6. ASSUME NEW c \in Client, IdleOnHangup(c), ~Monitored(c)
      PROVE  UNCHANGED <<clientName, reqDeniedCnt, conn>>
  BY <1>6 DEF IdleOnHangup, clientVars
<1>7. ASSUME \/ \E c \in Client : IdleOnClientWrite(c)
             \/ SendClientToGameThread
             \/ \E r \in Room : OnGameStateChange(r)
      PROVE  UNCHANGED <<clientName, reqDeniedCnt, conn>>
  BY <1>7 DEF IdleOnClientWrite, SendClientToGameThread, OnGameStateChange, sharedVars
<1> QED
  BY <1>1, <1>2, <1>3, <1>4, <1>5, <1>6, <1>7 DEF IdleNext

LEMMA NextTouches == IInv /\ [Next]_vars => [ClientsChangedByOwner]_vars
<1> SUFFICES ASSUME IInv, [Next]_vars, UNCHANGED vars => FALSE PROVE ClientsChangedByOwner
  OBVIOUS
<1>1. ASSUME UNCHANGED <<clientName, reqDeniedCnt, conn>> PROVE ClientsChangedByOwner
  BY <1>1 DEF ClientsChangedByOwner
<1>2. CASE AcceptNext
  <2>1. PICK c \in Client : TcpAcceptLoop(c)
    BY <1>2 DEF AcceptNext
  <2> QED
    BY <2>1 DEF TcpAcceptLoop, IInv, TypeOK, SharedTypeOK, ClientsChangedByOwner
<1>3. CASE IdleNext
  <2>1. ASSUME NEW c \in Client, IdleTouches(c) PROVE ClientsChangedByOwner
    BY <1>1, <2>1 DEF IdleTouches, ClientsChangedByOwner
  <2> QED
    BY <1>1, <1>3, <2>1, IdleNextTouches
<1>4. CASE GamesNext
  <2>1. PICK r \in Room : GameNext(r) /\ UNCHANGED idleVars
    BY <1>4 DEF GamesNext
  <2>2. UNCHANGED clientName
    BY <2>1 DEF GameNext, GameWaitForEvents, GameDispatchInput, GameOnNewClientConnect,
       GameOnClientWrite, GameOnClientWriteFails, GameProcessMessage, GameOnHangup, GameExit,
       InactivityExpires, gameKeeps, sharedVars
  <2> QED
    BY <2>1, <2>2, GameNextTouchesOwn DEF ClientsChangedByOwner
<1> QED
  BY <1>2, <1>3, <1>4 DEF Next

\* Whatever the threads do, a client's name, denial counter and socket change
\* only in a step of the thread that owns the client.
THEOREM ClientsHaveOneOwner == Spec => OwnerOnly
BY Invariance, NextTouches, PTL DEF Spec, OwnerOnly
-----------------------------------------------------------------------------
(* SingleCustody: an open connection is in exactly one place.  From it,    *)
(* that the server implements ClientLifecycle.                             *)
(*                                                                         *)
(* The proof looks at the places as sets: the accept thread's queue, the   *)
(* idle room and, per room, the input queue, the slots and the reports.    *)
(* Each holds a client at most once, no two hold the same one, and what    *)
(* they hold is what is open.  A step moves a client from one to another   *)
(* or closes it.                                                           *)

Elems(s) == {s[k] : k \in DOMAIN s}

Distinct(s) == \A k, l \in DOMAIN s : s[k] = s[l] => k = l

AtRoom(r) == Elems(gameInput[r]) \cup Seated(game[r]) \cup Returning(gameOutput[r])

\* What a room holds it holds once. A room without a thread has no player.
RoomPlaces(r) ==
    /\ Distinct(gameInput[r])
    /\ game[r].client[1] = game[r].client[2] => game[r].client[1] = Nobody
    /\ ReportsSound(gameOutput[r])
    /\ Elems(gameInput[r]) \cap Seated(game[r]) = {}
    /\ Elems(gameInput[r]) \cap Returning(gameOutput[r]) = {}
    /\ Seated(game[r]) \cap Returning(gameOutput[r]) = {}
    /\ game[r].thread = "none" => Seated(game[r]) = {}

Apart ==
    /\ Elems(newClientsQueue) \cap clientsMap = {}
    /\ \A r \in Room : AtRoom(r) \cap (Elems(newClientsQueue) \cup clientsMap) = {}
    /\ \A r, q \in Room : r # q => AtRoom(r) \cap AtRoom(q) = {}

OpenIsHeld ==
    \A c \in Client :
        conn[c] = "open" <=> \/ c \in Elems(newClientsQueue) \/ c \in clientsMap
                             \/ \E r \in Room : c \in AtRoom(r)

CInv ==
    /\ Distinct(newClientsQueue)
    /\ \A r \in Room : RoomPlaces(r)
    /\ Apart
    /\ OpenIsHeld

-----------------------------------------------------------------------------
(* Queues *)

LEMMA Taken ==
    ASSUME NEW T, NEW s \in Seq(T), s # <<>>
    PROVE  /\ Head(s) \in Elems(s)
           /\ Elems(Tail(s)) \subseteq Elems(s)
           /\ Elems(s) \subseteq Elems(Tail(s)) \cup {Head(s)}
           /\ Distinct(s) => Distinct(Tail(s)) /\ Head(s) \notin Elems(Tail(s))
<1>1. /\ Len(s) \in Nat /\ Len(s) >= 1 /\ DOMAIN s = 1 .. Len(s) /\ Head(s) = s[1]
      /\ DOMAIN Tail(s) = 1 .. Len(s) - 1
      /\ \A k \in 1 .. Len(s) - 1 : Tail(s)[k] = s[k + 1]
  OBVIOUS
<1>2. Head(s) \in Elems(s)
  BY <1>1 DEF Elems
<1>3. Elems(Tail(s)) \subseteq Elems(s)
  BY <1>1 DEF Elems
<1>4. Elems(s) \subseteq Elems(Tail(s)) \cup {Head(s)}
  <2>1. ASSUME NEW k \in DOMAIN s PROVE s[k] \in Elems(Tail(s)) \cup {Head(s)}
    <3>1. CASE k = 1
      BY <1>1, <3>1
    <3>2. CASE k # 1
      <4>1. k - 1 \in 1 .. Len(s) - 1 /\ Tail(s)[k - 1] = s[k]
        BY <1>1, <3>2
      <4> QED
        BY <1>1, <4>1 DEF Elems
    <3> QED
      BY <3>1, <3>2
  <2> QED
    BY <2>1 DEF Elems
<1>5. Distinct(s) => Distinct(Tail(s)) /\ Head(s) \notin Elems(Tail(s))
  BY <1>1 DEF Distinct, Elems
<1> QED
  BY <1>2, <1>3, <1>4, <1>5

LEMMA Appended ==
    ASSUME NEW T, NEW s \in Seq(T), NEW e \in T
    PROVE  /\ Elems(Append(s, e)) = Elems(s) \cup {e}
           /\ Distinct(s) /\ e \notin Elems(s) => Distinct(Append(s, e))
<1>1. /\ Len(s) \in Nat /\ DOMAIN s = 1 .. Len(s)
      /\ DOMAIN Append(s, e) = 1 .. Len(s) + 1
      /\ \A k \in 1 .. Len(s) : Append(s, e)[k] = s[k]
      /\ Append(s, e)[Len(s) + 1] = e
  OBVIOUS
<1>2. Elems(Append(s, e)) = Elems(s) \cup {e}
  BY <1>1 DEF Elems
<1>3. Distinct(s) /\ e \notin Elems(s) => Distinct(Append(s, e))
  BY <1>1 DEF Distinct, Elems
<1> QED
  BY <1>2, <1>3

\* The clients of a room are clients.
LEMMA HeldAreClients ==
    ASSUME IInv
    PROVE  /\ Elems(newClientsQueue) \subseteq Client
           /\ clientsMap \subseteq Client
           /\ \A r \in Room : /\ Elems(gameInput[r]) \subseteq Client
                              /\ Seated(game[r]) \subseteq Client
                              /\ Returning(gameOutput[r]) \subseteq Client
<1>1. /\ newClientsQueue \in Seq(Client) /\ clientsMap \subseteq Client
      /\ gameInput \in [Room -> Seq(Client)] /\ game \in [Room -> GameRecord]
      /\ gameOutput \in [Room -> Seq(GameStateChange)]
  BY DEF IInv, TypeOK, SharedTypeOK, GameTypeOK, IdleTypeOK
<1>2. \A s \in Seq(Client) : Elems(s) \subseteq Client
  BY DEF Elems
<1>3. \A g \in GameRecord : Seated(g) \subseteq Client
  BY DEF Seated, GameRecord, ClientOrNobody
<1>4. ASSUME NEW out \in Seq(GameStateChange) PROVE Returning(out) \subseteq Client
  <2>1. \A k \in DOMAIN out : out[k] \in GameStateChange
    OBVIOUS
  <2>2. \A k \in DOMAIN out : out[k].client1 \in ClientOrNobody /\ out[k].client2 \in ClientOrNobody
    BY <2>1 DEF GameStateChange
  <2> QED
    BY <2>2 DEF Returning, ClientOrNobody
<1>5. ASSUME NEW r \in Room
      PROVE  /\ Elems(gameInput[r]) \subseteq Client
             /\ Seated(game[r]) \subseteq Client
             /\ Returning(gameOutput[r]) \subseteq Client
  <2>1. gameInput[r] \in Seq(Client) /\ game[r] \in GameRecord /\ gameOutput[r] \in Seq(GameStateChange)
    BY <1>1
  <2> QED
    BY <1>2, <1>3, <1>4, <2>1
<1> QED
  BY <1>1, <1>2, <1>5

-----------------------------------------------------------------------------
(* Steps that move clients *)

\* A step of one room: what it held and holds no more has been closed.
LEMMA RoomStep ==
    ASSUME IInv, CInv, NEW r \in Room, RoomPlaces(r)', AtRoom(r)' \subseteq AtRoom(r),
           \A q \in Room \ {r} : UNCHANGED <<game[q], gameInput[q], gameOutput[q]>>,
           \A c \in Client : conn'[c] = IF c \in AtRoom(r) /\ c \notin AtRoom(r)'
                                        THEN "closed" ELSE conn[c],
           UNCHANGED <<newClientsQueue, clientsMap>>
    PROVE  CInv'
<1>1. \A q \in Room \ {r} : AtRoom(q)' = AtRoom(q) /\ RoomPlaces(q)'
  BY DEF CInv, AtRoom, RoomPlaces
<1>2. Apart'
  BY <1>1 DEF CInv, Apart
<1>3. OpenIsHeld'
  BY <1>1 DEF CInv, Apart, OpenIsHeld
<1> QED
  BY <1>1, <1>2, <1>3 DEF CInv

\* A step that leaves the rooms alone: what the queue and the idle room held and
\* hold no more has been closed, and what is new there has been opened.
LEMMA OutsideStep ==
    ASSUME CInv, UNCHANGED <<game, gameInput, gameOutput>>, Distinct(newClientsQueue)',
           Elems(newClientsQueue)' \cap clientsMap' = {},
           \A c \in Client :
              LET before == c \in Elems(newClientsQueue) \/ c \in clientsMap
                  after == c \in Elems(newClientsQueue)' \/ c \in clientsMap'
              IN  /\ before <=> after => conn'[c] = conn[c]
                  /\ before /\ ~after => conn'[c] = "closed"
                  /\ ~before /\ after => conn'[c] = "open" /\ conn[c] # "open",
           Elems(newClientsQueue)' \subseteq Client, clientsMap' \subseteq Client
    PROVE  CInv'
<1>1. \A q \in Room : AtRoom(q)' = AtRoom(q) /\ RoomPlaces(q)'
  BY DEF CInv, AtRoom, RoomPlaces
<1>2. Apart'
  BY <1>1 DEF CInv, Apart, OpenIsHeld
<1>3. OpenIsHeld'
  BY <1>1 DEF CInv, Apart, OpenIsHeld
<1> QED
  BY <1>1, <1>2, <1>3 DEF CInv

-----------------------------------------------------------------------------
(* Steps of the game threads *)

LEMMA ExitKeepsCInv ==
    ASSUME IInv, CInv, NEW r \in Room, GameExit(r), UNCHANGED idleVars PROVE CInv'
<1> DEFINE report == EndReport(game[r])
<1>0. /\ game \in [Room -> GameRecord] /\ gameOutput \in [Room -> Seq(GameStateChange)]
      /\ RoomPlaces(r)
  BY DEF IInv, TypeOK, SharedTypeOK, GameTypeOK, CInv
<1>1. /\ gameOutput' = [gameOutput EXCEPT ![r] = Append(@, report)]
      /\ game' = [game EXCEPT ![r] = NoGame]
      /\ game[r].thread # "none"
      /\ UNCHANGED <<conn, gameInput, newClientsQueue, clientsMap>>
  BY DEF GameExit, InLoop, gameKeeps, idleVars
<1>2. /\ game'[r] = NoGame /\ gameOutput'[r] = Append(gameOutput[r], report)
      /\ gameOutput[r] \in Seq(GameStateChange)
      /\ \A q \in Room \ {r} : UNCHANGED <<game[q], gameInput[q], gameOutput[q]>>
  BY <1>0, <1>1
<1>3. /\ report.newState = "IDLE"
      /\ report.client1 = game[r].client[1] /\ report.client2 = game[r].client[2]
  BY DEF EndReport, Change
<1>4. Returning(gameOutput[r])' = Returning(gameOutput[r]) \cup Seated(game[r])
  <2>1. /\ DOMAIN gameOutput'[r] = DOMAIN gameOutput[r] \cup {Len(gameOutput[r]) + 1}
        /\ \A k \in DOMAIN gameOutput[r] : gameOutput'[r][k] = gameOutput[r][k]
        /\ gameOutput'[r][Len(gameOutput[r]) + 1] = report
    BY <1>2
  <2>2. Seated(game[r]) = {report.client1, report.client2} \ {Nobody}
    BY <1>3 DEF Seated, Slot
  <2> HIDE DEF report
  <2> QED
    BY <2>1, <2>2 DEF Returning
<1>5. ReportsSound(gameOutput[r])'
  <2>1. /\ DOMAIN gameOutput'[r] = DOMAIN gameOutput[r] \cup {Len(gameOutput[r]) + 1}
        /\ \A k \in DOMAIN gameOutput[r] : gameOutput'[r][k] = gameOutput[r][k]
        /\ gameOutput'[r][Len(gameOutput[r]) + 1] = report
    BY <1>2
  <2> HIDE DEF report
  <2> QED
    BY <1>0, <1>3, <2>1 DEF ReportsSound, RoomPlaces
<1>6. Seated(NoGame) = {} /\ NoGame.client[1] = Nobody
  BY DEF Seated, NoGame, NewGame, Slot
<1>7. RoomPlaces(r)' /\ AtRoom(r)' = AtRoom(r)
  BY <1>0, <1>1, <1>2, <1>4, <1>5, <1>6 DEF RoomPlaces, AtRoom
<1> QED
  BY <1>1, <1>2, <1>7, RoomStep

LEMMA QuietKeepsCInv ==
    ASSUME IInv, CInv, NEW r \in Room, QuietStep(r), UNCHANGED <<newClientsQueue, clientsMap>>
    PROVE  CInv'
<1>0. game \in [Room -> GameRecord] /\ RoomPlaces(r)
  BY DEF IInv, TypeOK, GameTypeOK, CInv
<1>1. PICK g : /\ game' = [game EXCEPT ![r] = g]
               /\ g.client = game[r].client /\ g.thread = game[r].thread
  BY DEF QuietStep
<1>2. /\ game'[r] = g /\ \A q \in Room \ {r} : game'[q] = game[q]
      /\ UNCHANGED <<conn, gameInput, gameOutput>>
  BY <1>0, <1>1 DEF QuietStep
<1>3. RoomPlaces(r)' /\ AtRoom(r)' = AtRoom(r)
  BY <1>0, <1>1, <1>2 DEF RoomPlaces, AtRoom, Seated
<1> QED
  BY <1>2, <1>3, RoomStep

\* What handlers do to the clients of a world w, seen from the slots.
LEMMA TouchedSeats ==
    ASSUME NEW w, NEW w2, Touches(w, w2), Seated(w.g) \subseteq Client
    PROVE  /\ Seated(w2.g) \subseteq Seated(w.g)
           /\ Returning(w2.out) = Returning(w.out)
           /\ ReportsSound(w.out) => ReportsSound(w2.out)
           /\ \A c \in Client : w2.conn[c] = IF c \in Seated(w.g) /\ c \notin Seated(w2.g)
                                             THEN "closed" ELSE w.conn[c]
           /\ (w.g.client[1] = w.g.client[2] => w.g.client[1] = Nobody)
              => (w2.g.client[1] = w2.g.client[2] => w2.g.client[1] = Nobody)
<1>1. \A g, c : c \in Client => (HasPlayer(g, c) <=> c \in Seated(g))
  BY RoomStructsAssumption DEF HasPlayer, Seated, RoomStructsAssumption
<1>2. Returning(w2.out) = Returning(w.out) /\ (ReportsSound(w.out) => ReportsSound(w2.out))
  BY DEF Touches, SameReturns
<1>3. Seated(w2.g) \subseteq Seated(w.g)
  BY DEF Touches, Seated
<1>4. \A c \in Client : w2.conn[c] = IF c \in Seated(w.g) /\ c \notin Seated(w2.g)
                                     THEN "closed" ELSE w.conn[c]
  BY <1>1 DEF Touches
<1> QED
  BY <1>2, <1>3, <1>4 DEF Touches, Slot

\* A handler that starts from world w, in which room r has the clients it holds.
LEMMA TouchesKeepsCInv ==
    ASSUME IInv, CInv, NEW r \in Room, NEW w, NEW w2, Touches(w, w2), Commit(r, w2),
           w.conn = conn, w.out = gameOutput[r],
           Seated(w.g) \cup Elems(gameInput[r])' = Seated(game[r]) \cup Elems(gameInput[r]),
           Seated(w.g) \cap Elems(gameInput[r])' = {}, Distinct(gameInput[r])',
           w.g.client[1] = w.g.client[2] => w.g.client[1] = Nobody,
           game'[r].thread # "none",
           \A q \in Room \ {r} : UNCHANGED gameInput[q],
           UNCHANGED <<newClientsQueue, clientsMap>>
    PROVE  CInv'
<1>0. /\ game \in [Room -> GameRecord] /\ gameOutput \in [Room -> Seq(GameStateChange)]
      /\ RoomPlaces(r) /\ AtRoom(r) \subseteq Client
  BY HeldAreClients DEF IInv, TypeOK, SharedTypeOK, GameTypeOK, CInv, AtRoom
<1>1. /\ game'[r] = w2.g /\ gameOutput'[r] = w2.out /\ conn' = w2.conn
      /\ \A q \in Room \ {r} : UNCHANGED <<game[q], gameInput[q], gameOutput[q]>>
  BY <1>0 DEF Commit
<1>2. Seated(w.g) \subseteq Client
  BY <1>0 DEF AtRoom
<1>3. /\ Seated(w2.g) \subseteq Seated(w.g)
      /\ Returning(w2.out) = Returning(w.out)
      /\ ReportsSound(w2.out)
      /\ \A c \in Client : w2.conn[c] = IF c \in Seated(w.g) /\ c \notin Seated(w2.g)
                                         THEN "closed" ELSE w.conn[c]
      /\ w2.g.client[1] = w2.g.client[2] => w2.g.client[1] = Nobody
  BY <1>0, <1>2, TouchedSeats DEF RoomPlaces
<1>4. Returning(w.out) \cap (Seated(w.g) \cup Elems(gameInput[r])') = {}
  BY <1>0 DEF RoomPlaces
<1>5. RoomPlaces(r)'
  BY <1>1, <1>3, <1>4 DEF RoomPlaces
<1>6. AtRoom(r) = Seated(w.g) \cup Elems(gameInput[r])' \cup Returning(w.out)
  BY DEF AtRoom
<1>7. AtRoom(r)' = Seated(w2.g) \cup Elems(gameInput[r])' \cup Returning(w.out)
  BY <1>1, <1>3 DEF AtRoom
<1>8. \A c \in Client : conn'[c] = IF c \in AtRoom(r) /\ c \notin AtRoom(r)' THEN "closed" ELSE conn[c]
  BY <1>1, <1>3, <1>4, <1>6, <1>7
<1>9. AtRoom(r)' \subseteq AtRoom(r)
  BY <1>3, <1>6, <1>7
<1> QED
  BY <1>1, <1>5, <1>8, <1>9, RoomStep

LEMMA SeatedOnce ==
    ASSUME IInv, CInv, NEW r \in Room, ~BothPlayersOnline(game[r]), gameInput[r] # <<>>
    PROVE  LET c == Head(gameInput[r])
               w == Seat(World(r), c)
           IN  /\ Seated(w.g) = Seated(game[r]) \cup {c}
               /\ w.g.client[1] = w.g.client[2] => w.g.client[1] = Nobody
               /\ w.conn = conn /\ w.out = gameOutput[r]
<1> DEFINE c == Head(gameInput[r])
           w == Seat(World(r), c)
           i == IF Online(game[r], 1) THEN 2 ELSE 1
<1>0. game[r] \in GameRecord /\ gameInput[r] \in Seq(Client) /\ RoomPlaces(r)
  BY DEF IInv, TypeOK, SharedTypeOK, GameTypeOK, CInv
<1>1. c \in Client /\ c # Nobody /\ c \in Elems(gameInput[r])
  BY <1>0, Taken, RoomStructsAssumption DEF RoomStructsAssumption
<1>2. c \notin Seated(game[r])
  BY <1>0, <1>1 DEF RoomPlaces
<1>3. w.g.client = [game[r].client EXCEPT ![i] = c] /\ w.conn = conn /\ w.out = gameOutput[r]
  BY <1>0 DEF Seat, World, GameRecord
<1>4. i \in Slot /\ game[r].client[i] = Nobody
  BY DEF BothPlayersOnline, Online, Slot
<1>5. game[r].client \in [Slot -> ClientOrNobody]
  BY <1>0 DEF GameRecord
<1> HIDE DEF c, w, i
<1>6. /\ w.g.client[i] = c /\ \A j \in Slot \ {i} : w.g.client[j] = game[r].client[j]
  BY <1>3, <1>4, <1>5
<1>7. Seated(w.g) = Seated(game[r]) \cup {c}
  BY <1>1, <1>4, <1>6 DEF Seated
<1>8. w.g.client[1] # w.g.client[2]
  BY <1>1, <1>2, <1>4, <1>6 DEF Seated, Slot
<1> QED
  BY <1>3, <1>7, <1>8 DEF c, w

LEMMA GameKeepsCInv ==
    ASSUME IInv, CInv, NEW r \in Room, GameNext(r), UNCHANGED idleVars
    PROVE  CInv'
<1>0. /\ game[r] \in GameRecord /\ gameInput \in [Room -> Seq(Client)] /\ RoomPlaces(r)
      /\ UNCHANGED <<newClientsQueue, clientsMap>>
  BY DEF IInv, TypeOK, SharedTypeOK, GameTypeOK, CInv, idleVars, GameNext, GameWaitForEvents,
     GameDispatchInput, GameOnNewClientConnect, GameOnClientWrite, GameOnClientWriteFails,
     GameProcessMessage, GameOnHangup, GameExit, InactivityExpires, gameKeeps, sharedVars
<1>1. GameExit(r) \/ SameLife
  BY GameNextKeepsIInv
<1>2. CASE QuietStep(r)
  BY <1>0, <1>2, QuietKeepsCInv
<1>3. CASE GameExit(r)
  BY <1>3, ExitKeepsCInv
<1>4. CASE HandlerStep(r) /\ SameLife
  <2>1. PICK w2 : Touches(World(r), w2) /\ Commit(r, w2)
    BY <1>4 DEF HandlerStep
  <2>2. World(r).conn = conn /\ World(r).out = gameOutput[r] /\ World(r).g = game[r]
    BY DEF World
  <2>3. UNCHANGED gameInput /\ game'[r].thread # "none"
    BY <1>4 DEF HandlerStep, SameLife, InLoop
  <2> QED
    BY <1>0, <2>1, <2>2, <2>3, TouchesKeepsCInv DEF RoomPlaces
<1>5. CASE SeatStep(r) /\ SameLife
  <2> DEFINE c == Head(gameInput[r])
             w == Seat(World(r), c)
  <2>1. PICK w2 : Touches(w, w2) /\ Commit(r, w2)
    BY <1>5 DEF SeatStep
  <2>2. /\ Seated(w.g) = Seated(game[r]) \cup {c}
        /\ w.g.client[1] = w.g.client[2] => w.g.client[1] = Nobody
        /\ w.conn = conn /\ w.out = gameOutput[r]
    BY <1>5, SeatedOnce DEF SeatStep
  <2> HIDE DEF w
  <2>3. /\ gameInput[r] \in Seq(Client) /\ gameInput[r] # <<>>
        /\ gameInput'[r] = Tail(gameInput[r])
        /\ \A q \in Room \ {r} : UNCHANGED gameInput[q]
        /\ game'[r].thread # "none"
    BY <1>0, <1>5 DEF SeatStep, SameLife, InLoop
  <2>4. /\ Elems(gameInput[r])' \subseteq Elems(gameInput[r])
        /\ Elems(gameInput[r]) \subseteq Elems(gameInput[r])' \cup {c}
        /\ Distinct(gameInput[r])' /\ c \notin Elems(gameInput[r])' /\ c \in Elems(gameInput[r])
    BY <1>0, <2>3, Taken DEF RoomPlaces
  <2>5. /\ Seated(w.g) \cup Elems(gameInput[r])' = Seated(game[r]) \cup Elems(gameInput[r])
        /\ Seated(w.g) \cap Elems(gameInput[r])' = {}
    BY <1>0, <2>2, <2>4 DEF RoomPlaces
  <2> QED
    BY <1>0, <2>1, <2>2, <2>3, <2>4, <2>5, TouchesKeepsCInv
<1> QED
  BY <1>1, <1>2, <1>3, <1>4, <1>5, GameNextTouches

-----------------------------------------------------------------------------
(* Steps of the idle thread *)

\* A client in the idle room is disconnected.
LEMMA DisconnectKeepsCInv ==
    ASSUME IInv, CInv, NEW c \in clientsMap, IdleOnClientDisconnect(c),
           UNCHANGED <<game, gameInput, gameOutput, newClientsQueue>>
    PROVE  CInv'
<1>1. /\ conn \in [Client -> {"new", "open", "closed"}] /\ clientsMap' = clientsMap \ {c}
      /\ conn' = [conn EXCEPT ![c] = "closed"]
      /\ clientsMap \subseteq Client /\ Elems(newClientsQueue) \subseteq Client
  BY HeldAreClients DEF IdleOnClientDisconnect, IInv, TypeOK, SharedTypeOK
<1>2. Elems(newClientsQueue) \cap clientsMap = {} /\ Distinct(newClientsQueue)
  BY DEF CInv, Apart
<1>3. Elems(newClientsQueue)' = Elems(newClientsQueue) /\ Distinct(newClientsQueue)'
  BY <1>2 DEF Elems
<1> QED
  BY <1>1, <1>2, <1>3, OutsideStep

\* Nobody moves.
LEMMA StayKeepsCInv ==
    ASSUME CInv, UNCHANGED <<game, gameInput, gameOutput, newClientsQueue, clientsMap, conn>>
    PROVE  CInv'
BY DEF CInv, RoomPlaces, AtRoom, Apart, OpenIsHeld

LEMMA DenialKeepsCInv ==
    ASSUME IInv, CInv, NEW c \in clientsMap, IdleDenyRequest(c),
           UNCHANGED <<gameInput, gameOutput, newClientsQueue>>
    PROVE  CInv'
BY DisconnectKeepsCInv, StayKeepsCInv DEF IdleDenyRequest, clientVars

\* The Game object of a room that can be joined has no clients to lose.
LEMMA NewGameKeepsCInv ==
    ASSUME IInv, CInv, NEW c, NEW d, NEW r \in Room, Joinable(r), NewGameThread(c, d, r),
           UNCHANGED <<clientVars, gameInput, gameOutput, newClientsQueue>>
    PROVE  CInv'
<1>0. game \in [Room -> GameRecord] /\ RoomPlaces(r)
  BY DEF IInv, TypeOK, GameTypeOK, CInv
<1>1. game'[r] = NewGame /\ \A q \in Room \ {r} : game'[q] = game[q]
  BY <1>0 DEF NewGameThread
<1>2. Seated(game[r]) = {}
  BY <1>0 DEF Joinable, IInv, RoomAgreement, RoomAgrees, RoomPlaces
<1>3. Seated(NewGame) = {} /\ NewGame.client[1] = Nobody
  BY DEF Seated, NewGame, Slot
<1>4. RoomPlaces(r)' /\ AtRoom(r)' = AtRoom(r)
  BY <1>0, <1>1, <1>2, <1>3 DEF RoomPlaces, AtRoom
<1> QED
  BY <1>1, <1>4, RoomStep DEF clientVars

\* Nothing is being handed over yet, and a message hands over clients of the
\* idle room, each once.
LEMMA NobodyHandedOver == ASSUME handOver' = <<>> PROVE HandOverSound'
BY DEF HandOverSound

LEMMA JoinKeepsCInv ==
    ASSUME IInv, CInv, WaitingListSound, handOver = <<>>, NEW c \in clientsMap,
           NEW r \in Room \cup {Missing}, JoinGameRoom(c, r),
           UNCHANGED <<gameInput, gameOutput, newClientsQueue>>
    PROVE  CInv' /\ HandOverSound'
<1> DEFINE waiting == {d \in Client : waitingToJoinGame[d] = r}
<1>1. CASE IdleDenyRequest(c)
  <2>1. handOver' = <<>>
    BY <1>1 DEF IdleDenyRequest
  <2> QED
    BY <1>1, <2>1, DenialKeepsCInv, NobodyHandedOver
<1>2. CASE r # Missing /\ Joinable(r) /\ waiting # {} /\ ~IdleDenyRequest(c)
  <2>1. PICK d \in waiting : d # c /\ NewGameThread(c, d, r) /\ UNCHANGED clientVars
    BY <1>2 DEF JoinGameRoom
  <2>2. d \in clientsMap
    BY <1>2, <2>1, IdleUsersRoomAssumption DEF WaitingListSound, IdleUsersRoomAssumption
  <2>3. handOver' = <<<<r, c>>, <<r, d>>>> /\ clientsMap' = clientsMap
    BY <2>1 DEF NewGameThread, clientVars
  <2>4. HandOverSound'
    BY <2>1, <2>2, <2>3 DEF HandOverSound
  <2> QED
    BY <1>2, <2>1, <2>4, NewGameKeepsCInv
<1>3. CASE r # Missing /\ Joinable(r) /\ waiting = {}
  <2>1. UNCHANGED <<clientsMap, conn, game, handOver>>
    BY <1>3 DEF JoinGameRoom
  <2> QED
    BY <2>1, StayKeepsCInv, NobodyHandedOver
<1> QED
  BY <1>1, <1>2, <1>3 DEF JoinGameRoom

LEMMA NameKeepsCInv ==
    ASSUME IInv, CInv, handOver = <<>>, NEW c \in clientsMap, NEW n, EnterUsername(c, n),
           UNCHANGED <<gameInput, gameOutput, newClientsQueue>>
    PROVE  CInv' /\ HandOverSound'
<1>1. CASE UsernameTaken(c, n)
  <2>1. IdleDenyRequest(c)
    BY <1>1 DEF EnterUsername
  <2>2. handOver' = <<>>
    BY <2>1 DEF IdleDenyRequest
  <2> QED
    BY <2>1, <2>2, DenialKeepsCInv, NobodyHandedOver
<1>2. CASE ~UsernameTaken(c, n)
  <2>1. UNCHANGED <<clientsMap, conn, game>>
    BY <1>2 DEF EnterUsername, clientVars
  <2>2. handOver' = <<>> \/ \E r : handOver' = <<<<r, c>>>>
    BY <1>2 DEF EnterUsername, RejoinPausedGame
  <2>3. HandOverSound'
    BY <2>1, <2>2 DEF HandOverSound
  <2> QED
    BY <2>1, <2>3, StayKeepsCInv
<1> QED
  BY <1>1, <1>2

LEMMA MessageKeepsCInv ==
    ASSUME IInv, CInv, WaitingListSound, handOver = <<>>, NEW c \in clientsMap,
           NEW m \in IdleMessage, IdleProcessClientMessage(c, m),
           UNCHANGED <<gameInput, gameOutput, newClientsQueue>>
    PROVE  CInv' /\ HandOverSound'
<1>1. CASE IdleOnClientDisconnect(c) /\ UNCHANGED <<game, handOver>>
  BY <1>1, DisconnectKeepsCInv, NobodyHandedOver
<1>2. CASE IdleDenyRequest(c)
  <2>1. handOver' = <<>>
    BY <1>2 DEF IdleDenyRequest
  <2> QED
    BY <1>2, <2>1, DenialKeepsCInv, NobodyHandedOver
<1>3. CASE m.method = "ENTER_USERNAME" /\ m.arg # Missing /\ ~HasName(c)
  BY <1>3, NameKeepsCInv DEF IdleProcessClientMessage
<1>4. CASE IdleReply
  BY <1>4, StayKeepsCInv, NobodyHandedOver DEF IdleReply, clientVars
<1>5. CASE m.method = "JOIN_GAME" /\ HasName(c)
  <2>1. m.arg \in Room \cup {Missing} /\ JoinGameRoom(c, m.arg)
    BY <1>5 DEF IdleMessage, IdleProcessClientMessage
  <2> QED
    BY <2>1, JoinKeepsCInv
<1> QED
  BY <1>1, <1>2, <1>3, <1>4, <1>5 DEF IdleProcessClientMessage

\* Clients move between the idle room and room r.
LEMMA MoveStep ==
    ASSUME IInv, CInv, NEW r \in Room, RoomPlaces(r)',
           AtRoom(r)' \cup clientsMap' = AtRoom(r) \cup clientsMap,
           AtRoom(r)' \cap clientsMap' = {},
           \A q \in Room \ {r} : UNCHANGED <<game[q], gameInput[q], gameOutput[q]>>,
           UNCHANGED <<newClientsQueue, conn>>
    PROVE  CInv'
<1>1. \A q \in Room \ {r} : AtRoom(q)' = AtRoom(q) /\ RoomPlaces(q)'
  BY DEF CInv, AtRoom, RoomPlaces
<1>2. Apart'
  BY <1>1 DEF CInv, Apart
<1>3. OpenIsHeld'
  BY <1>1 DEF CInv, OpenIsHeld
<1> QED
  BY <1>1, <1>2, <1>3 DEF CInv

LEMMA SendKeepsCInv ==
    ASSUME IInv, CInv, HandOverSound, SendClientToGameThread
    PROVE  CInv' /\ HandOverSound'
<1>0. /\ handOver \in Seq(Room \X Client) /\ handOver # <<>>
      /\ gameInput \in [Room -> Seq(Client)]
  BY DEF IInv, TypeOK, SharedTypeOK, IdleTypeOK, SendClientToGameThread
<1>1. Head(handOver) \in Room \X Client /\ Head(handOver) = handOver[1] /\ 1 \in DOMAIN handOver
  BY <1>0
<1>2. PICK r \in Room, c \in Client :
         r = Head(handOver)[1] /\ c = Head(handOver)[2] /\ c \in clientsMap
  BY <1>1 DEF HandOverSound
<1>3. /\ gameInput' = [gameInput EXCEPT ![r] = Append(@, c)]
      /\ clientsMap' = clientsMap \ {c}
      /\ handOver' = Tail(handOver)
      /\ UNCHANGED <<conn, newClientsQueue, gameOutput, game>>
  BY <1>2 DEF SendClientToGameThread
<1>4. HandOverSound'
  <2>1. /\ \A k \in DOMAIN handOver' : /\ k \in Nat /\ k + 1 \in DOMAIN handOver /\ k # 0
                                      /\ handOver'[k] = handOver[k + 1]
    BY <1>0, <1>3
  <2>2. ASSUME NEW k \in DOMAIN handOver' PROVE handOver'[k][2] \in clientsMap'
    <3>1. k + 1 \in DOMAIN handOver /\ k + 1 # 1 /\ handOver'[k] = handOver[k + 1]
      BY <2>1
    <3>2. handOver[k + 1][2] \in clientsMap /\ handOver[k + 1][2] # c
      BY <1>1, <1>2, <3>1 DEF HandOverSound
    <3> QED
      BY <1>3, <3>1, <3>2
  <2>3. ASSUME NEW k \in DOMAIN handOver', NEW l \in DOMAIN handOver',
               handOver'[k][2] = handOver'[l][2]
        PROVE  k = l
    <3>1. k + 1 = l + 1
      BY <2>1, <2>3 DEF HandOverSound
    <3> QED
      BY <2>1, <3>1
  <2> QED
    BY <2>2, <2>3 DEF HandOverSound
<1>5. /\ gameInput[r] \in Seq(Client) /\ gameInput'[r] = Append(gameInput[r], c)
      /\ \A q \in Room \ {r} : UNCHANGED <<game[q], gameInput[q], gameOutput[q]>>
  BY <1>0, <1>2, <1>3
<1>6. /\ Elems(gameInput[r])' = Elems(gameInput[r]) \cup {c}
      /\ c \notin Elems(gameInput[r]) => Distinct(gameInput[r])'
  BY <1>2, <1>5, Appended DEF CInv, RoomPlaces
<1>7. c \notin AtRoom(r) /\ RoomPlaces(r) /\ AtRoom(r) \cap clientsMap = {}
  BY <1>2 DEF CInv, Apart
<1>8. RoomPlaces(r)'
  BY <1>3, <1>6, <1>7 DEF RoomPlaces, AtRoom
<1>9. AtRoom(r)' = AtRoom(r) \cup {c}
  BY <1>3, <1>6 DEF AtRoom
<1>10. AtRoom(r)' \cup clientsMap' = AtRoom(r) \cup clientsMap /\ AtRoom(r)' \cap clientsMap' = {}
  BY <1>2, <1>3, <1>7, <1>9
<1> QED
  BY <1>2, <1>3, <1>4, <1>5, <1>8, <1>10, MoveStep

\* The report of the end is the last one, so it brings all the clients back that
\* were on their way; a report of a pause brings nobody.
LEMMA ReportReturns ==
    ASSUME IInv, CInv, NEW r \in Room, gameOutput[r] # <<>>
    PROVE  LET out == gameOutput[r]
               change == Head(out)
           IN  /\ ReportsSound(Tail(out))
               /\ Returning(Tail(out)) \subseteq Returning(out)
               /\ change.newState = "IDLE" =>
                     /\ Returning(out) = {change.client1, change.client2} \ {Nobody}
                     /\ Returning(Tail(out)) = {}
               /\ change.newState # "IDLE" => Returning(Tail(out)) = Returning(out)
<1> DEFINE out == gameOutput[r]
           change == Head(out)
<1>0. out \in Seq(GameStateChange) /\ RoomAgrees(r) /\ ReportsSound(out)
  BY DEF IInv, TypeOK, SharedTypeOK, RoomAgreement, CInv, RoomPlaces
<1>1. /\ Len(out) \in Nat /\ Len(out) >= 1 /\ DOMAIN out = 1 .. Len(out) /\ change = out[1]
      /\ DOMAIN Tail(out) = 1 .. Len(out) - 1
      /\ \A k \in 1 .. Len(out) - 1 : Tail(out)[k] = out[k + 1]
  BY <1>0
<1> HIDE DEF out, change
<1>2. ReportsSound(Tail(out))
  BY <1>0, <1>1 DEF ReportsSound
<1>3. Returning(Tail(out)) \subseteq Returning(out)
  BY <1>1 DEF Returning
<1>4. Returning(out) \subseteq Returning(Tail(out)) \cup ({change.client1, change.client2} \ {Nobody})
  <2>1. ASSUME NEW k \in DOMAIN out
        PROVE  /\ out[k].client1 \in Returning(Tail(out)) \cup {change.client1, change.client2, Nobody}
               /\ out[k].client2 \in Returning(Tail(out)) \cup {change.client1, change.client2, Nobody}
    <3>1. CASE k = 1
      BY <1>1, <3>1
    <3>2. CASE k # 1
      <4>1. k - 1 \in DOMAIN Tail(out) /\ Tail(out)[k - 1] = out[k]
        BY <1>1, <3>2
      <4> QED
        BY <4>1 DEF Returning
    <3> QED
      BY <3>1, <3>2
  <2> QED
    BY <2>1 DEF Returning
<1>5. {change.client1, change.client2} \ {Nobody} \subseteq Returning(out)
  BY <1>1 DEF Returning
<1>6. ASSUME change.newState = "IDLE"
      PROVE  /\ Returning(out) = {change.client1, change.client2} \ {Nobody}
             /\ Returning(Tail(out)) = {}
  <2>1. Len(out) = 1
    <3>1. ~NoIdleChange(out)
      BY <1>1, <1>6 DEF NoIdleChange
    <3>2. EndsIdle(out)
      BY <1>0, <3>1 DEF RoomAgrees, out
    <3> QED
      BY <1>1, <1>6, <3>2 DEF EndsIdle
  <2>2. Returning(Tail(out)) = {}
    <3>1. DOMAIN Tail(out) = {}
      BY <1>1, <2>1
    <3> QED
      BY <3>1 DEF Returning
  <2> QED
    BY <1>4, <1>5, <2>2
<1>7. ASSUME change.newState # "IDLE" PROVE Returning(Tail(out)) = Returning(out)
  <2>1. change.client1 = Nobody /\ change.client2 = Nobody
    BY <1>0, <1>1, <1>7 DEF ReportsSound
  <2> QED
    BY <1>3, <1>4, <2>1
<1> QED
  BY <1>2, <1>3, <1>6, <1>7 DEF out, change

LEMMA ReportKeepsCInv ==
    ASSUME IInv, CInv, NEW r \in Room, OnGameStateChange(r) PROVE CInv'
<1> DEFINE change == Head(gameOutput[r])
           out == gameOutput[r]
<1>0. /\ gameOutput \in [Room -> Seq(GameStateChange)]
      /\ out # <<>> /\ RoomPlaces(r) /\ AtRoom(r) \cap clientsMap = {}
  BY DEF IInv, TypeOK, SharedTypeOK, CInv, Apart, OnGameStateChange
<1>1. /\ gameOutput' = [gameOutput EXCEPT ![r] = Tail(@)]
      /\ UNCHANGED <<conn, newClientsQueue, gameInput, game>>
  BY DEF OnGameStateChange, SetGameAsIdle, SetGameAsPaused
<1>2. gameOutput'[r] = Tail(out) /\ \A q \in Room \ {r} : UNCHANGED <<game[q], gameInput[q], gameOutput[q]>>
  BY <1>0, <1>1
<1>3. /\ ReportsSound(Tail(out))
      /\ Returning(Tail(out)) \subseteq Returning(out)
      /\ change.newState = "IDLE" =>
            /\ Returning(out) = {change.client1, change.client2} \ {Nobody}
            /\ Returning(Tail(out)) = {}
      /\ change.newState # "IDLE" => Returning(Tail(out)) = Returning(out)
  BY <1>0, ReportReturns
<1> HIDE DEF out, change
<1>4. RoomPlaces(r)'
  BY <1>0, <1>1, <1>2, <1>3 DEF RoomPlaces, out
<1>5. CASE change.newState = "IDLE"
  <2>1. clientsMap' = clientsMap \cup Returning(out)
    BY <1>3, <1>5 DEF OnGameStateChange, change
  <2>2. AtRoom(r) = Elems(gameInput[r]) \cup Seated(game[r]) \cup Returning(out)
    BY DEF AtRoom, out
  <2>3. AtRoom(r)' = Elems(gameInput[r]) \cup Seated(game[r])
    BY <1>1, <1>2, <1>3, <1>5 DEF AtRoom
  <2>4. (Elems(gameInput[r]) \cup Seated(game[r])) \cap Returning(out) = {}
    BY <1>0 DEF RoomPlaces, out
  <2>5. AtRoom(r)' \cup clientsMap' = AtRoom(r) \cup clientsMap /\ AtRoom(r)' \cap clientsMap' = {}
    BY <1>0, <2>1, <2>2, <2>3, <2>4
  <2> QED
    BY <1>1, <1>2, <1>4, <2>5, MoveStep
<1>6. CASE change.newState # "IDLE"
  <2>1. UNCHANGED clientsMap
    BY <1>6 DEF OnGameStateChange, change
  <2>2. AtRoom(r)' = AtRoom(r)
    BY <1>1, <1>2, <1>3, <1>6 DEF AtRoom, out
  <2> QED
    BY <1>0, <1>1, <1>2, <1>4, <2>1, <2>2, MoveStep
<1> QED
  BY <1>5, <1>6

LEMMA IdleKeepsCInv ==
    ASSUME IInv, CInv, WaitingListSound, HandOverSound, IdleNext
    PROVE  CInv' /\ HandOverSound'
<1>0. /\ newClientsQueue \in Seq(Client) /\ clientsMap \subseteq Client
      /\ Elems(newClientsQueue) \subseteq Client
      /\ conn \in [Client -> {"new", "open", "closed"}]
      /\ Distinct(newClientsQueue) /\ Elems(newClientsQueue) \cap clientsMap = {}
  BY HeldAreClients DEF IInv, TypeOK, SharedTypeOK, IdleTypeOK, CInv, Apart
<1>1. CASE IdleOnNewClientConnect
  <2> DEFINE c == Head(newClientsQueue)
  <2>1. /\ newClientsQueue # <<>> /\ handOver' = <<>>
        /\ newClientsQueue' = Tail(newClientsQueue)
        /\ \/ conn' = [conn EXCEPT ![c] = "closed"] /\ UNCHANGED clientsMap
           \/ clientsMap' = clientsMap \cup {c} /\ UNCHANGED conn
        /\ UNCHANGED <<game, gameInput, gameOutput>>
    BY <1>1 DEF IdleOnNewClientConnect, IdleBetweenEvents
  <2>2. /\ c \in Elems(newClientsQueue) /\ c \notin Elems(newClientsQueue')
        /\ Elems(newClientsQueue') \subseteq Elems(newClientsQueue)
        /\ Elems(newClientsQueue) \subseteq Elems(newClientsQueue') \cup {c}
        /\ Distinct(newClientsQueue')
    BY <1>0, <2>1, Taken
  <2>3. PICK d \in Client : d = c
    BY <1>0, <2>2
  <2>4. /\ Elems(newClientsQueue') \cap clientsMap' = {}
        /\ Elems(newClientsQueue)' = Elems(newClientsQueue')
        /\ Distinct(newClientsQueue)' = Distinct(newClientsQueue')
    BY <1>0, <2>1, <2>2 DEF Elems, Distinct
  <2> HIDE DEF c
  <2>5. ASSUME NEW e \in Client
        PROVE  LET before == e \in Elems(newClientsQueue) \/ e \in clientsMap
                   after == e \in Elems(newClientsQueue') \/ e \in clientsMap'
               IN  /\ before <=> after => conn'[e] = conn[e]
                   /\ before /\ ~after => conn'[e] = "closed"
                   /\ ~before /\ after => conn'[e] = "open" /\ conn[e] # "open"
    BY <1>0, <2>1, <2>2, <2>3
  <2>6. CInv'
    BY <1>0, <2>1, <2>2, <2>3, <2>4, <2>5, OutsideStep
  <2> QED
    BY <2>1, <2>6, NobodyHandedOver
<1>2. ASSUME NEW c \in Client, IdleOnClientWrite(c) PROVE CInv' /\ HandOverSound'
  BY <1>2, StayKeepsCInv DEF IdleOnClientWrite, sharedVars, HandOverSound
<1>3. ASSUME NEW c \in Client, IdleOnClientWriteFails(c) PROVE CInv' /\ HandOverSound'
  BY <1>3, DisconnectKeepsCInv, NobodyHandedOver DEF IdleOnClientWriteFails, IdleBetweenEvents
<1>4. ASSUME NEW c \in Client, IdleProcessMessage(c) PROVE CInv' /\ HandOverSound'
  <2>1. CASE c \in clientsMap
    BY <1>4, <2>1, MessageKeepsCInv DEF IdleProcessMessage
  <2>2. CASE c \notin clientsMap
    BY <1>4, <2>2, StayKeepsCInv, NobodyHandedOver DEF IdleProcessMessage, clientVars
  <2> QED
    BY <2>1, <2>2
<1>5. ASSUME NEW c \in Client, IdleOnHangup(c) PROVE CInv' /\ HandOverSound'
  <2>1. handOver' = <<>> /\ UNCHANGED <<newClientsQueue, gameInput, gameOutput, game>>
    BY <1>5 DEF IdleOnHangup
  <2>2. CASE c \in clientsMap
    BY <1>5, <2>1, <2>2, DisconnectKeepsCInv, NobodyHandedOver DEF IdleOnHangup, Monitored
  <2>3. CASE c \notin clientsMap
    BY <1>5, <2>1, <2>3, StayKeepsCInv, NobodyHandedOver DEF IdleOnHangup, Monitored, clientVars
  <2> QED
    BY <2>2, <2>3
<1>6. CASE SendClientToGameThread
  BY <1>6, SendKeepsCInv
<1>7. ASSUME NEW r \in Room, OnGameStateChange(r) PROVE CInv' /\ HandOverSound'
  BY <1>7, ReportKeepsCInv, NobodyHandedOver DEF OnGameStateChange, IdleBetweenEvents
<1> QED
  BY <1>1, <1>2, <1>3, <1>4, <1>5, <1>6, <1>7 DEF IdleNext

\* A connection that is not yet open is nowhere.
LEMMA AcceptKeepsCInv ==
    ASSUME IInv, CInv, NEW c \in Client, TcpAcceptLoop(c) PROVE CInv'
<1>0. /\ newClientsQueue \in Seq(Client) /\ clientsMap \subseteq Client
      /\ Elems(newClientsQueue) \subseteq Client
      /\ conn \in [Client -> {"new", "open", "closed"}]
      /\ Distinct(newClientsQueue) /\ Elems(newClientsQueue) \cap clientsMap = {}
  BY HeldAreClients DEF IInv, TypeOK, SharedTypeOK, IdleTypeOK, CInv, Apart
<1>1. /\ conn[c] = "new" /\ conn' = [conn EXCEPT ![c] = "open"]
      /\ newClientsQueue' = Append(newClientsQueue, c)
      /\ UNCHANGED <<game, gameInput, gameOutput, clientsMap>>
  BY DEF TcpAcceptLoop, idleVars
<1>2. c \notin Elems(newClientsQueue) /\ c \notin clientsMap
  BY <1>1 DEF CInv, OpenIsHeld
<1>3. Elems(newClientsQueue') = Elems(newClientsQueue) \cup {c} /\ Distinct(newClientsQueue')
  BY <1>0, <1>1, <1>2, Appended
<1>4. /\ Elems(newClientsQueue)' = Elems(newClientsQueue')
      /\ Distinct(newClientsQueue)' = Distinct(newClientsQueue')
  BY DEF Elems, Distinct
<1> QED
  BY <1>0, <1>1, <1>2, <1>3, <1>4, OutsideStep

LEMMA NextKeepsCInv ==
    IInv /\ WaitingListSound /\ HandOverSound /\ CInv /\ [Next]_vars
    => CInv' /\ HandOverSound'
<1> SUFFICES ASSUME IInv, WaitingListSound, HandOverSound, CInv, [Next]_vars
             PROVE  CInv' /\ HandOverSound'
  OBVIOUS
<1>1. CASE AcceptNext
  <2>1. UNCHANGED <<handOver, clientsMap>>
    BY <1>1 DEF AcceptNext, TcpAcceptLoop, idleVars
  <2> QED
    BY <1>1, <2>1, AcceptKeepsCInv DEF AcceptNext, HandOverSound
<1>2. CASE IdleNext
  BY <1>2, IdleKeepsCInv
<1>3. CASE GamesNext
  <2>1. UNCHANGED idleVars /\ UNCHANGED <<handOver, clientsMap>>
    BY <1>3 DEF GamesNext, idleVars
  <2> QED
    BY <1>3, <2>1, GameKeepsCInv DEF GamesNext, HandOverSound
<1>4. CASE UNCHANGED vars
  BY <1>4, StayKeepsCInv DEF vars, sharedVars, idleVars, HandOverSound
<1> QED
  BY <1>1, <1>2, <1>3, <1>4 DEF Next

LEMMA InitCInv == Init => CInv /\ HandOverSound
<1> SUFFICES ASSUME Init PROVE CInv /\ HandOverSound
  OBVIOUS
<1>1. /\ newClientsQueue = <<>> /\ clientsMap = {} /\ handOver = <<>>
      /\ \A c \in Client : conn[c] = "new"
      /\ \A r \in Room : game[r] = NoGame /\ gameInput[r] = <<>> /\ gameOutput[r] = <<>>
  BY DEF Init, SharedInit, GameInit, IdleInit
<1>2. Seated(NoGame) = {} /\ NoGame.client[1] = Nobody
  BY DEF Seated, NoGame, NewGame, Slot
<1>3. /\ Elems(<<>>) = {} /\ Distinct(<<>>)
      /\ Returning(<<>>) = {} /\ ReportsSound(<<>>)
  BY DEF Elems, Distinct, Returning, ReportsSound
<1>4. \A r \in Room : AtRoom(r) = {} /\ RoomPlaces(r)
  BY <1>1, <1>2, <1>3 DEF AtRoom, RoomPlaces
<1> QED
  BY <1>1, <1>3, <1>4 DEF CInv, Apart, OpenIsHeld, HandOverSound

-----------------------------------------------------------------------------
(* From the sets to the places *)

RoomCustody(c, r) ==
         {<<"input", r, k>> : k \in {k \in DOMAIN gameInput[r] : gameInput[r][k] = c}}
    \cup {<<"slot", r, i>> : i \in {i \in Slot : game[r].client[i] = c}}
    \cup {<<"back1", r, k>> : k \in {k \in DOMAIN gameOutput[r] : gameOutput[r][k].client1 = c}}
    \cup {<<"back2", r, k>> : k \in {k \in DOMAIN gameOutput[r] : gameOutput[r][k].client2 = c}}

\* Only one report can hold clients: the last one of a thread.
LEMMA OneReportHolds ==
    ASSUME IInv, CInv, NEW r \in Room, NEW c \in Client,
           NEW k \in DOMAIN gameOutput[r], NEW l \in DOMAIN gameOutput[r],
           c \in {gameOutput[r][k].client1, gameOutput[r][k].client2},
           c \in {gameOutput[r][l].client1, gameOutput[r][l].client2}
    PROVE  k = l /\ gameOutput[r][k].client1 # gameOutput[r][k].client2
<1>0. /\ gameOutput[r] \in Seq(GameStateChange) /\ RoomAgrees(r)
      /\ ReportsSound(gameOutput[r]) /\ c # Nobody
  BY RoomStructsAssumption DEF IInv, TypeOK, SharedTypeOK, RoomAgreement, CInv, RoomPlaces
<1>1. DOMAIN gameOutput[r] = 1 .. Len(gameOutput[r]) /\ Len(gameOutput[r]) \in Nat
  BY <1>0
<1>2. gameOutput[r][k].newState = "IDLE" /\ gameOutput[r][l].newState = "IDLE"
  BY <1>0 DEF ReportsSound
<1>3. EndsIdle(gameOutput[r])
  <2>1. ~NoIdleChange(gameOutput[r]) /\ gameOutput[r] # <<>>
    BY <1>1, <1>2 DEF NoIdleChange
  <2> QED
    BY <1>0, <2>1 DEF RoomAgrees
<1>4. k = Len(gameOutput[r]) /\ l = Len(gameOutput[r])
  BY <1>1, <1>2, <1>3 DEF EndsIdle
<1> QED
  BY <1>0, <1>4 DEF ReportsSound

LEMMA RoomHoldsOnce ==
    ASSUME IInv, CInv, NEW r \in Room, NEW c \in Client
    PROVE  /\ c \in AtRoom(r) <=> RoomCustody(c, r) # {}
           /\ \A p, q \in RoomCustody(c, r) : p = q
<1>0. /\ RoomPlaces(r) /\ c # Nobody
  BY RoomStructsAssumption DEF CInv
<1>1. \A p \in RoomCustody(c, r) :
         \/ \E k \in DOMAIN gameInput[r] : gameInput[r][k] = c /\ p = <<"input", r, k>>
         \/ \E i \in Slot : game[r].client[i] = c /\ p = <<"slot", r, i>>
         \/ \E k \in DOMAIN gameOutput[r] : gameOutput[r][k].client1 = c /\ p = <<"back1", r, k>>
         \/ \E k \in DOMAIN gameOutput[r] : gameOutput[r][k].client2 = c /\ p = <<"back2", r, k>>
  BY DEF RoomCustody
<1>2. c \in Elems(gameInput[r]) <=> \E k \in DOMAIN gameInput[r] : gameInput[r][k] = c
  BY DEF Elems
<1>3. c \in Seated(game[r]) <=> \E i \in Slot : game[r].client[i] = c
  BY <1>0 DEF Seated
<1>4. c \in Returning(gameOutput[r])
      <=> \E k \in DOMAIN gameOutput[r] :
             gameOutput[r][k].client1 = c \/ gameOutput[r][k].client2 = c
  BY <1>0 DEF Returning
<1>5. c \in AtRoom(r) <=> RoomCustody(c, r) # {}
  <2>1. /\ (\E k \in DOMAIN gameInput[r] : gameInput[r][k] = c) => RoomCustody(c, r) # {}
        /\ (\E i \in Slot : game[r].client[i] = c) => RoomCustody(c, r) # {}
        /\ (\E k \in DOMAIN gameOutput[r] :
               gameOutput[r][k].client1 = c \/ gameOutput[r][k].client2 = c)
           => RoomCustody(c, r) # {}
    BY DEF RoomCustody
  <2> QED
    BY <1>1, <1>2, <1>3, <1>4, <2>1 DEF AtRoom
<1>6. ASSUME NEW p \in RoomCustody(c, r), NEW q \in RoomCustody(c, r) PROVE p = q
  <2>1. CASE c \in Elems(gameInput[r])
    <3>1. c \notin Seated(game[r]) /\ c \notin Returning(gameOutput[r])
      BY <1>0, <2>1 DEF RoomPlaces
    <3>2. /\ \E k \in DOMAIN gameInput[r] : gameInput[r][k] = c /\ p = <<"input", r, k>>
          /\ \E k \in DOMAIN gameInput[r] : gameInput[r][k] = c /\ q = <<"input", r, k>>
      BY <1>1, <1>3, <1>4, <3>1
    <3> QED
      BY <1>0, <3>2 DEF RoomPlaces, Distinct
  <2>2. CASE c \in Seated(game[r])
    <3>1. c \notin Elems(gameInput[r]) /\ c \notin Returning(gameOutput[r])
      BY <1>0, <2>2 DEF RoomPlaces
    <3>2. /\ \E i \in Slot : game[r].client[i] = c /\ p = <<"slot", r, i>>
          /\ \E i \in Slot : game[r].client[i] = c /\ q = <<"slot", r, i>>
      BY <1>1, <1>2, <1>4, <3>1
    <3> QED
      BY <1>0, <3>2 DEF RoomPlaces, Slot
  <2>3. CASE c \notin Elems(gameInput[r]) /\ c \notin Seated(game[r])
    <3>1. PICK k \in DOMAIN gameOutput[r] :
             \/ gameOutput[r][k].client1 = c /\ p = <<"back1", r, k>>
             \/ gameOutput[r][k].client2 = c /\ p = <<"back2", r, k>>
      BY <1>1, <1>2, <1>3, <2>3
    <3>2. PICK l \in DOMAIN gameOutput[r] :
             \/ gameOutput[r][l].client1 = c /\ q = <<"back1", r, l>>
             \/ gameOutput[r][l].client2 = c /\ q = <<"back2", r, l>>
      BY <1>1, <1>2, <1>3, <2>3
    <3>3. k = l /\ gameOutput[r][k].client1 # gameOutput[r][k].client2
      BY <3>1, <3>2, OneReportHolds
    <3> QED
      BY <3>1, <3>2, <3>3
  <2> QED
    BY <2>1, <2>2, <2>3
<1> QED
  BY <1>5, <1>6

LEMMA HeldOnce ==
    ASSUME IInv, CInv, NEW c \in Client
    PROVE  /\ conn[c] = "open" <=> Custody(c) # {}
           /\ \A p, q \in Custody(c) : p = q
<1>1. \A p : p \in Custody(c) <=>
         \/ \E k \in DOMAIN newClientsQueue : newClientsQueue[k] = c /\ p = <<"accepted", k>>
         \/ c \in clientsMap /\ p = <<"idle", 0>>
         \/ \E r \in Room : p \in RoomCustody(c, r)
  BY DEF Custody, RoomCustody
<1>2. c \in Elems(newClientsQueue) <=> \E k \in DOMAIN newClientsQueue : newClientsQueue[k] = c
  BY DEF Elems
<1>3. \A r \in Room : c \in AtRoom(r) <=> \E p : p \in RoomCustody(c, r)
  BY RoomHoldsOnce
<1>4. conn[c] = "open" <=> Custody(c) # {}
  <2>1. Custody(c) # {} <=> \E p : p \in Custody(c)
    OBVIOUS
  <2>2. conn[c] = "open" <=> \/ c \in Elems(newClientsQueue) \/ c \in clientsMap
                             \/ \E r \in Room : c \in AtRoom(r)
    BY DEF CInv, OpenIsHeld
  <2>3. conn[c] = "open" => \E p : p \in Custody(c)
    BY <1>1, <1>2, <1>3, <2>2
  <2>4. (\E p : p \in Custody(c)) => conn[c] = "open"
    BY <1>1, <1>2, <1>3, <2>2
  <2> QED
    BY <2>1, <2>3, <2>4
<1>5. ASSUME NEW p \in Custody(c), NEW q \in Custody(c) PROVE p = q
  <2>1. CASE c \in Elems(newClientsQueue)
    <3>1. c \notin clientsMap /\ \A r \in Room : c \notin AtRoom(r)
      BY <2>1 DEF CInv, Apart
    <3>2. /\ \E k \in DOMAIN newClientsQueue : newClientsQueue[k] = c /\ p = <<"accepted", k>>
          /\ \E k \in DOMAIN newClientsQueue : newClientsQueue[k] = c /\ q = <<"accepted", k>>
      BY <1>1, <1>3, <3>1
    <3> QED
      BY <3>2 DEF CInv, Distinct
  <2>2. CASE c \in clientsMap
    <3>1. c \notin Elems(newClientsQueue) /\ \A r \in Room : c \notin AtRoom(r)
      BY <2>2 DEF CInv, Apart
    <3> QED
      BY <1>1, <1>2, <1>3, <3>1
  <2>3. CASE c \notin Elems(newClientsQueue) /\ c \notin clientsMap
    <3>1. PICK r \in Room : p \in RoomCustody(c, r)
      BY <1>1, <1>2, <2>3
    <3>2. PICK s \in Room : q \in RoomCustody(c, s)
      BY <1>1, <1>2, <2>3
    <3>3. c \in AtRoom(r) /\ c \in AtRoom(s)
      BY <1>3, <3>1, <3>2
    <3>4. r = s
      BY <3>3 DEF CInv, Apart
    <3> QED
      BY <3>1, <3>2, <3>4, RoomHoldsOnce
  <2> QED
    BY <2>1, <2>2, <2>3
<1> QED
  BY <1>4, <1>5

LEMMA CustodyIsSingle == IInv /\ CInv => SingleCustody
<1> SUFFICES ASSUME IInv, CInv, NEW c \in Client
             PROVE  Cardinality(Custody(c)) = IF conn[c] = "open" THEN 1 ELSE 0
  BY DEF SingleCustody
<1>1. CASE conn[c] = "open"
  <2>1. PICK p : p \in Custody(c)
    BY <1>1, HeldOnce
  <2>2. Custody(c) = {p}
    BY <2>1, HeldOnce
  <2> QED
    BY <1>1, <2>2, FS_Singleton
<1>2. CASE conn[c] # "open"
  BY <1>2, HeldOnce, FS_EmptySet
<1> QED
  BY <1>1, <1>2

\* Over connections, names, games, pauses, hang-ups and the reports that bring
\* the players back, an open connection is held in exactly one place and a closed
\* one in none: no unique_ptr is lost or shared, and no socket leaks.
THEOREM ClientsHaveOnePlace == Spec => []SingleCustody
<1>1. Init => CInv /\ HandOverSound
  BY InitCInv
<1>2. IInv /\ WaitingListSound /\ HandOverSound /\ CInv /\ [Next]_vars => CInv' /\ HandOverSound'
  BY NextKeepsCInv
<1>3. IInv /\ CInv => SingleCustody
  BY CustodyIsSingle
<1> QED
  BY Invariance, WaitingListIsSound, <1>1, <1>2, <1>3, PTL DEF Spec

\* The pointers of a hand-over are of clients in the idle room, each of them once:
\* the idle thread hands nobody over twice and nobody it has destroyed.
THEOREM HandOversAreSound == Spec => []HandOverSound
<1>1. Init => CInv /\ HandOverSound
  BY InitCInv
<1>2. IInv /\ WaitingListSound /\ HandOverSound /\ CInv /\ [Next]_vars => CInv' /\ HandOverSound'
  BY NextKeepsCInv
<1> QED
  BY Invariance, WaitingListIsSound, <1>1, <1>2, PTL DEF Spec

-----------------------------------------------------------------------------
(* The life of a client.  A step of the server is a step of ClientLifecycle *)
(* or leaves every client in its place.                                     *)

seated == [r \in Room |-> Seated(game[r])]
returning == [r \in Room |-> Returning(gameOutput[r])]
closed == {c \in Client : conn[c] = "closed"}

\* A step of room r: the other rooms keep their players and their reports.
LEMMA OtherSeats ==
    ASSUME NEW r \in Room, \A q \in Room \ {r} : UNCHANGED <<game[q], gameOutput[q]>>
    PROVE  /\ seated' = [seated EXCEPT ![r] = Seated(game'[r])]
           /\ returning' = [returning EXCEPT ![r] = Returning(gameOutput'[r])]
BY DEF seated, returning, Seated, Returning

LEMMA NobodyMoves ==
    ASSUME UNCHANGED <<newClientsQueue, clientsMap, conn, gameInput, game, gameOutput>>
    PROVE  UNCHANGED Places!placeVars
BY DEF Places!placeVars

LEMMA AcceptMoves ==
    ASSUME CInv, NEW c \in Client, TcpAcceptLoop(c) PROVE Places!Connect(c)
<1>1. /\ conn[c] = "new" /\ conn' = [conn EXCEPT ![c] = "open"]
      /\ newClientsQueue' = Append(newClientsQueue, c)
      /\ UNCHANGED <<game, gameInput, gameOutput, clientsMap>>
  BY DEF TcpAcceptLoop, idleVars
<1>2. /\ c \notin Elems(newClientsQueue) /\ c \notin clientsMap
      /\ \A r \in Room : c \notin AtRoom(r)
  BY <1>1 DEF CInv, OpenIsHeld
<1>3. c \notin Places!Known
  BY <1>1, <1>2 DEF Places!Known, Places!Members, Elems, AtRoom
<1>4. closed' = closed
  BY <1>1 DEF closed
<1> QED
  BY <1>1, <1>3, <1>4 DEF Places!Connect, closed

-----------------------------------------------------------------------------
(* Steps of the game threads *)

\* A thread that runs has handed nobody back yet.
LEMMA NobodyReturnsYet ==
    ASSUME IInv, CInv, NEW r \in Room, game[r].thread # "none"
    PROVE  Returning(gameOutput[r]) = {}
<1>1. NoIdleChange(gameOutput[r]) /\ ReportsSound(gameOutput[r])
  BY DEF IInv, RoomAgreement, RoomAgrees, CInv, RoomPlaces
<1> QED
  BY <1>1 DEF NoIdleChange, ReportsSound, Returning

LEMMA ExitMoves ==
    ASSUME IInv, CInv, NEW r \in Room, GameExit(r), UNCHANGED idleVars PROVE Places!EndGame(r)
<1> DEFINE report == EndReport(game[r])
<1>0. /\ game \in [Room -> GameRecord] /\ gameOutput \in [Room -> Seq(GameStateChange)]
  BY DEF IInv, TypeOK, SharedTypeOK, GameTypeOK
<1>1. /\ gameOutput' = [gameOutput EXCEPT ![r] = Append(@, report)]
      /\ game' = [game EXCEPT ![r] = NoGame]
      /\ game[r].thread # "none"
      /\ UNCHANGED <<conn, gameInput, newClientsQueue, clientsMap>>
  BY DEF GameExit, InLoop, gameKeeps, idleVars
<1>2. /\ game'[r] = NoGame /\ gameOutput'[r] = Append(gameOutput[r], report)
      /\ gameOutput[r] \in Seq(GameStateChange)
      /\ \A q \in Room \ {r} : UNCHANGED <<game[q], gameOutput[q]>>
  BY <1>0, <1>1
<1>3. Returning(gameOutput[r]) = {}
  BY <1>1, NobodyReturnsYet
<1>4. Returning(gameOutput'[r]) = Seated(game[r])
  <2>1. /\ DOMAIN gameOutput'[r] = DOMAIN gameOutput[r] \cup {Len(gameOutput[r]) + 1}
        /\ \A k \in DOMAIN gameOutput[r] : gameOutput'[r][k] = gameOutput[r][k]
        /\ gameOutput'[r][Len(gameOutput[r]) + 1] = report
    BY <1>2
  <2>2. Seated(game[r]) = {report.client1, report.client2} \ {Nobody}
    BY DEF EndReport, Change, Seated, Slot
  <2> HIDE DEF report
  <2>3. Returning(gameOutput'[r])
        = Returning(gameOutput[r]) \cup ({report.client1, report.client2} \ {Nobody})
    BY <2>1 DEF Returning
  <2> QED
    BY <1>3, <2>2, <2>3
<1>5. Seated(game'[r]) = {}
  BY <1>2 DEF Seated, NoGame, NewGame, Slot
<1>6. /\ seated' = [seated EXCEPT ![r] = {}]
      /\ returning' = [returning EXCEPT ![r] = seated[r]]
      /\ returning[r] = {}
  BY <1>2, <1>3, <1>4, <1>5, OtherSeats DEF seated, returning
<1>7. closed' = closed
  BY <1>1 DEF closed
<1> QED
  BY <1>1, <1>6, <1>7 DEF Places!EndGame, seated, returning, closed

LEMMA QuietMoves ==
    ASSUME IInv, NEW r \in Room, QuietStep(r), UNCHANGED <<newClientsQueue, clientsMap>>
    PROVE  UNCHANGED Places!placeVars
<1>1. PICK g : game' = [game EXCEPT ![r] = g] /\ g.client = game[r].client
  BY DEF QuietStep
<1>2. game \in [Room -> GameRecord]
  BY DEF IInv, TypeOK, GameTypeOK
<1>3. \A q \in Room : game'[q].client = game[q].client
  BY <1>1, <1>2
<1>4. seated' = seated
  BY <1>3 DEF seated, Seated
<1>5. UNCHANGED <<newClientsQueue, clientsMap, conn, gameInput, gameOutput>>
  BY DEF QuietStep
<1> QED
  BY <1>4, <1>5 DEF Places!placeVars, seated

\* A handler that starts from world w, in which the players of room r are those at
\* the table: some of them stay and the others have been disconnected.
LEMMA TouchesStays ==
    ASSUME IInv, NEW r \in Room, NEW w, NEW w2, Touches(w, w2), Commit(r, w2),
           w.conn = conn, w.out = gameOutput[r],
           NEW players \in SUBSET Client, players = Seated(w.g)
    PROVE  Places!Stay(r, players) /\ returning' = returning
<1>0. /\ game \in [Room -> GameRecord] /\ gameOutput \in [Room -> Seq(GameStateChange)]
  BY DEF IInv, TypeOK, SharedTypeOK, GameTypeOK
<1>1. /\ game'[r] = w2.g /\ gameOutput'[r] = w2.out /\ conn' = w2.conn
      /\ \A q \in Room \ {r} : UNCHANGED <<game[q], gameOutput[q]>>
  BY <1>0 DEF Commit
<1>2. /\ Seated(w2.g) \subseteq Seated(w.g)
      /\ Returning(w2.out) = Returning(w.out)
      /\ \A c \in Client : w2.conn[c] = IF c \in Seated(w.g) /\ c \notin Seated(w2.g)
                                         THEN "closed" ELSE w.conn[c]
  BY TouchedSeats
<1>3. /\ seated' = [seated EXCEPT ![r] = Seated(w2.g)]
      /\ returning' = [returning EXCEPT ![r] = Returning(w.out)]
  BY <1>1, <1>2, OtherSeats
<1>4. returning' = returning
  BY <1>3 DEF returning
<1>5. closed' = closed \cup (Seated(w.g) \ Seated(w2.g))
  BY <1>1, <1>2 DEF closed
<1>6. Places!Stay(r, players)
  BY <1>2, <1>3, <1>5 DEF Places!Stay, seated, closed
<1> QED
  BY <1>4, <1>6

LEMMA HandlerMoves ==
    ASSUME IInv, CInv, NEW r \in Room, HandlerStep(r), UNCHANGED <<newClientsQueue, clientsMap>>
    PROVE  Places!LosePlayers(r)
<1>1. PICK w2 : Touches(World(r), w2) /\ Commit(r, w2)
  BY DEF HandlerStep
<1>2. World(r).conn = conn /\ World(r).out = gameOutput[r] /\ World(r).g = game[r]
  BY DEF World
<1>3. Seated(game[r]) \subseteq Client
  BY HeldAreClients
<1>4. PICK players \in SUBSET Client : players = seated[r] /\ players = Seated(World(r).g)
  BY <1>2, <1>3 DEF seated
<1>5. Places!Stay(r, players) /\ returning' = returning
  BY <1>1, <1>2, <1>4, TouchesStays
<1> QED
  BY <1>4, <1>5 DEF Places!Stay, Places!LosePlayers, HandlerStep, seated, returning

\* The second player is the last one a game takes in.
LEMMA SeatMoves ==
    ASSUME IInv, CInv, NEW r \in Room, SeatStep(r), UNCHANGED <<newClientsQueue, clientsMap>>
    PROVE  Places!TakeIn(r)
<1> DEFINE c == Head(gameInput[r])
           w == Seat(World(r), c)
<1>0. /\ gameInput[r] \in Seq(Client) /\ gameInput[r] # <<>>
      /\ ~BothPlayersOnline(game[r])
      /\ gameInput' = [gameInput EXCEPT ![r] = Tail(@)]
  BY DEF IInv, TypeOK, SharedTypeOK, SeatStep
<1>1. PICK w2 : Touches(w, w2) /\ Commit(r, w2)
  BY DEF SeatStep
<1>2. /\ Seated(w.g) = Seated(game[r]) \cup {c}
      /\ w.conn = conn /\ w.out = gameOutput[r]
  BY <1>0, SeatedOnce
<1>3. Seated(game[r]) \subseteq Client /\ c \in Client
  BY <1>0, HeldAreClients
<1> HIDE DEF w, c
<1>4. PICK players \in SUBSET Client : players = seated[r] \cup {c} /\ players = Seated(w.g)
  BY <1>2, <1>3 DEF seated
<1>5. Places!SeatFree(r)
  <2>1. PICK i \in Slot : game[r].client[i] = Nobody
    BY <1>0 DEF BothPlayersOnline, Online
  <2>2. \A d \in Seated(game[r]) : d = game[r].client[Other(i)]
    BY <2>1 DEF Seated, Slot, Other
  <2> QED
    BY <2>2 DEF Places!SeatFree
<1>6. Places!Stay(r, players) /\ returning' = returning
  BY <1>1, <1>2, <1>4, TouchesStays
<1> QED
  BY <1>0, <1>4, <1>5, <1>6 DEF Places!TakeIn, Places!Stay, seated, returning, c

LEMMA GameMoves ==
    ASSUME IInv, CInv, NEW r \in Room, GameNext(r), UNCHANGED idleVars
    PROVE  \/ UNCHANGED Places!placeVars
           \/ Places!TakeIn(r) \/ Places!LosePlayers(r) \/ Places!EndGame(r)
<1>1. UNCHANGED <<newClientsQueue, clientsMap>>
  BY DEF idleVars, GameNext, GameWaitForEvents, GameDispatchInput, GameOnNewClientConnect,
     GameOnClientWrite, GameOnClientWriteFails, GameProcessMessage, GameOnHangup, GameExit,
     InactivityExpires, gameKeeps, sharedVars
<1> QED
  BY <1>1, GameNextTouches, ExitMoves, QuietMoves, HandlerMoves, SeatMoves

-----------------------------------------------------------------------------
(* Steps of the idle thread *)

\* A message leaves the clients where they are or disconnects the one who sent it.
\* The Game object of a room that can be joined has no clients to lose.
StaysOrLeaves(c) ==
    \/ UNCHANGED <<clientsMap, conn>> /\ seated' = seated
    \/ IdleOnClientDisconnect(c) /\ UNCHANGED game

LEMMA NewGameMoves ==
    ASSUME IInv, CInv, NEW c, NEW d, NEW r \in Room, Joinable(r), NewGameThread(c, d, r)
    PROVE  seated' = seated
<1>0. game \in [Room -> GameRecord] /\ RoomPlaces(r)
  BY DEF IInv, TypeOK, GameTypeOK, CInv
<1>1. game'[r] = NewGame /\ \A q \in Room \ {r} : game'[q] = game[q]
  BY <1>0 DEF NewGameThread
<1>2. Seated(game[r]) = {}
  BY <1>0 DEF Joinable, IInv, RoomAgreement, RoomAgrees, RoomPlaces
<1>3. Seated(NewGame) = {}
  BY DEF Seated, NewGame, Slot
<1>4. \A q \in Room : Seated(game'[q]) = Seated(game[q])
  BY <1>1, <1>2, <1>3
<1>5. seated' = [q \in Room |-> Seated(game'[q])]
  BY DEF seated, Seated
<1> QED
  BY <1>4, <1>5 DEF seated

LEMMA JoinMoves ==
    ASSUME IInv, CInv, NEW c \in clientsMap, NEW r \in Room \cup {Missing}, JoinGameRoom(c, r)
    PROVE  StaysOrLeaves(c)
<1> DEFINE waiting == {d \in Client : waitingToJoinGame[d] = r}
<1>1. CASE IdleDenyRequest(c)
  BY <1>1 DEF IdleDenyRequest, clientVars, StaysOrLeaves, seated
<1>2. CASE r # Missing /\ Joinable(r) /\ waiting # {} /\ ~IdleDenyRequest(c)
  <2>1. PICK d \in waiting : NewGameThread(c, d, r) /\ UNCHANGED clientVars
    BY <1>2 DEF JoinGameRoom
  <2>2. r \in Room
    BY <1>2
  <2>3. seated' = seated
    BY <1>2, <2>1, <2>2, NewGameMoves
  <2> QED
    BY <2>1, <2>3 DEF StaysOrLeaves, clientVars
<1>3. CASE r # Missing /\ Joinable(r) /\ waiting = {}
  BY <1>3 DEF JoinGameRoom, StaysOrLeaves, seated
<1> QED
  BY <1>1, <1>2, <1>3 DEF JoinGameRoom

LEMMA MessageMoves ==
    ASSUME IInv, CInv, NEW c \in clientsMap, NEW m \in IdleMessage, IdleProcessClientMessage(c, m)
    PROVE  StaysOrLeaves(c)
<1>1. CASE IdleOnClientDisconnect(c) /\ UNCHANGED game
  BY <1>1 DEF StaysOrLeaves
<1>2. CASE IdleDenyRequest(c)
  BY <1>2 DEF IdleDenyRequest, clientVars, StaysOrLeaves, seated
<1>3. CASE EnterUsername(c, m.arg) /\ ~IdleDenyRequest(c)
  BY <1>3 DEF EnterUsername, clientVars, StaysOrLeaves, seated
<1>4. CASE IdleReply
  BY <1>4 DEF IdleReply, clientVars, StaysOrLeaves, seated
<1>5. CASE m.method = "JOIN_GAME" /\ HasName(c)
  <2>1. m.arg \in Room \cup {Missing} /\ JoinGameRoom(c, m.arg)
    BY <1>5 DEF IdleMessage, IdleProcessClientMessage
  <2> QED
    BY <2>1, JoinMoves
<1> QED
  BY <1>1, <1>2, <1>3, <1>4, <1>5 DEF IdleProcessClientMessage

LEMMA StaysOrLeavesMoves ==
    ASSUME IInv, NEW c \in clientsMap, StaysOrLeaves(c),
           UNCHANGED <<newClientsQueue, gameInput, gameOutput>>
    PROVE  UNCHANGED Places!placeVars \/ Places!Leave(c)
<1>1. returning' = returning
  BY DEF returning
<1>2. CASE UNCHANGED <<clientsMap, conn>> /\ seated' = seated
  BY <1>1, <1>2 DEF Places!placeVars, seated, returning
<1>3. CASE IdleOnClientDisconnect(c) /\ UNCHANGED game
  <2>1. /\ conn \in [Client -> {"new", "open", "closed"}] /\ clientsMap \subseteq Client
        /\ clientsMap' = clientsMap \ {c} /\ conn' = [conn EXCEPT ![c] = "closed"]
    BY <1>3 DEF IdleOnClientDisconnect, IInv, TypeOK, SharedTypeOK, IdleTypeOK
  <2>2. closed' = closed \cup {c}
    BY <2>1 DEF closed
  <2> QED
    BY <1>3, <2>1, <2>2 DEF Places!Leave, closed
<1> QED
  BY <1>2, <1>3 DEF StaysOrLeaves

LEMMA ConnectMoves ==
    ASSUME IInv, IdleOnNewClientConnect PROVE Places!Admit \/ Places!Refuse
<1> DEFINE c == Head(newClientsQueue)
<1>1. /\ newClientsQueue # <<>>
      /\ newClientsQueue' = Tail(newClientsQueue)
      /\ \/ conn' = [conn EXCEPT ![c] = "closed"] /\ UNCHANGED clientsMap
         \/ clientsMap' = clientsMap \cup {c} /\ UNCHANGED conn
      /\ UNCHANGED <<game, gameInput, gameOutput>>
  BY DEF IdleOnNewClientConnect
<1>2. CASE clientsMap' = clientsMap \cup {c} /\ UNCHANGED conn
  BY <1>1, <1>2 DEF Places!Admit
<1>3. CASE conn' = [conn EXCEPT ![c] = "closed"] /\ UNCHANGED clientsMap
  <2>1. c \in Client /\ conn \in [Client -> {"new", "open", "closed"}]
    BY <1>1 DEF IInv, TypeOK, SharedTypeOK
  <2>2. closed' = closed \cup {c}
    BY <1>3, <2>1 DEF closed
  <2> QED
    BY <1>1, <1>3, <2>2 DEF Places!Refuse, closed
<1> QED
  BY <1>1, <1>2, <1>3

LEMMA SendMoves ==
    ASSUME IInv, HandOverSound, SendClientToGameThread
    PROVE  \E c \in Client, r \in Room : Places!SendToGame(c, r)
<1>1. /\ handOver \in Seq(Room \X Client) /\ handOver # <<>>
  BY DEF IInv, TypeOK, IdleTypeOK, SendClientToGameThread
<1>2. Head(handOver) \in Room \X Client /\ Head(handOver) = handOver[1] /\ 1 \in DOMAIN handOver
  BY <1>1
<1>3. PICK r \in Room, c \in Client :
         r = Head(handOver)[1] /\ c = Head(handOver)[2] /\ c \in clientsMap
  BY <1>2 DEF HandOverSound
<1>4. /\ gameInput' = [gameInput EXCEPT ![r] = Append(@, c)]
      /\ clientsMap' = clientsMap \ {c}
      /\ UNCHANGED <<conn, newClientsQueue, gameOutput, game>>
  BY <1>3 DEF SendClientToGameThread
<1> QED
  BY <1>3, <1>4 DEF Places!SendToGame

\* All who are on their way back arrive with the last report; another report has
\* nobody with it.
LEMMA ReportMoves ==
    ASSUME IInv, CInv, NEW r \in Room, OnGameStateChange(r)
    PROVE  UNCHANGED Places!placeVars \/ Places!ComeBack(r)
<1> DEFINE change == Head(gameOutput[r])
<1>1. /\ gameOutput' = [gameOutput EXCEPT ![r] = Tail(@)]
      /\ UNCHANGED <<conn, newClientsQueue, gameInput, game>>
  BY DEF OnGameStateChange, SetGameAsIdle, SetGameAsPaused
<1>2. /\ gameOutput'[r] = Tail(gameOutput[r])
      /\ \A q \in Room \ {r} : UNCHANGED <<game[q], gameOutput[q]>>
  BY <1>1 DEF IInv, TypeOK, SharedTypeOK
<1>3. returning' = [returning EXCEPT ![r] = Returning(Tail(gameOutput[r]))]
  BY <1>2, OtherSeats
<1>4. /\ change.newState = "IDLE" =>
            /\ Returning(gameOutput[r]) = {change.client1, change.client2} \ {Nobody}
            /\ Returning(Tail(gameOutput[r])) = {}
      /\ change.newState # "IDLE" => Returning(Tail(gameOutput[r])) = Returning(gameOutput[r])
  <2>1. gameOutput[r] # <<>>
    BY DEF OnGameStateChange
  <2> QED
    BY <2>1, ReportReturns
<1>5. CASE change.newState = "IDLE"
  <2>1. clientsMap' = clientsMap \cup ({change.client1, change.client2} \ {Nobody})
    BY <1>5 DEF OnGameStateChange
  <2>2. /\ Returning(gameOutput[r]) = {change.client1, change.client2} \ {Nobody}
        /\ Returning(Tail(gameOutput[r])) = {}
    BY <1>4, <1>5
  <2>3. clientsMap' = clientsMap \cup returning[r] /\ returning' = [returning EXCEPT ![r] = {}]
    BY <1>3, <2>1, <2>2 DEF returning
  <2> QED
    BY <1>1, <2>3 DEF Places!ComeBack, returning
<1>6. CASE change.newState # "IDLE"
  <2>1. UNCHANGED clientsMap
    BY <1>6 DEF OnGameStateChange
  <2>2. returning' = returning
    BY <1>4, <1>3, <1>6 DEF returning
  <2> QED
    BY <1>1, <2>1, <2>2 DEF Places!placeVars, returning
<1> QED
  BY <1>5, <1>6

LEMMA IdleMoves ==
    ASSUME IInv, CInv, HandOverSound, IdleNext
    PROVE  \/ UNCHANGED Places!placeVars \/ Places!Admit \/ Places!Refuse
           \/ \E c \in Client : Places!Leave(c) \/ \E r \in Room : Places!SendToGame(c, r)
           \/ \E r \in Room : Places!ComeBack(r)
<1>0. clientsMap \subseteq Client
  BY HeldAreClients
<1>1. ASSUME NEW c \in Client, IdleOnClientWrite(c) PROVE UNCHANGED Places!placeVars
  BY <1>1, NobodyMoves DEF IdleOnClientWrite, sharedVars
<1>2. ASSUME NEW c \in Client, IdleOnClientWriteFails(c)
      PROVE  UNCHANGED Places!placeVars \/ Places!Leave(c)
  BY <1>2, StaysOrLeavesMoves DEF IdleOnClientWriteFails, StaysOrLeaves
<1>3. ASSUME NEW c \in Client, IdleProcessMessage(c)
      PROVE  UNCHANGED Places!placeVars \/ Places!Leave(c)
  <2>1. CASE c \in clientsMap
    BY <1>3, <2>1, MessageMoves, StaysOrLeavesMoves DEF IdleProcessMessage
  <2>2. CASE c \notin clientsMap
    BY <1>3, <2>2, NobodyMoves DEF IdleProcessMessage, clientVars
  <2> QED
    BY <2>1, <2>2
<1>4. ASSUME NEW c \in Client, IdleOnHangup(c)
      PROVE  UNCHANGED Places!placeVars \/ Places!Leave(c)
  <2>1. CASE c \in clientsMap
    BY <1>4, <2>1, StaysOrLeavesMoves DEF IdleOnHangup, Monitored, StaysOrLeaves
  <2>2. CASE c \notin clientsMap
    BY <1>4, <2>2, NobodyMoves DEF IdleOnHangup, Monitored, clientVars
  <2> QED
    BY <2>1, <2>2
<1> QED
  BY <1>1, <1>2, <1>3, <1>4, ConnectMoves, SendMoves, ReportMoves DEF IdleNext

LEMMA NextMoves ==
    IInv /\ CInv /\ HandOverSound /\ [Next]_vars => [Places!PlacesNext]_Places!placeVars
<1> SUFFICES ASSUME IInv, CInv, HandOverSound, [Next]_vars
             PROVE  Places!PlacesNext \/ UNCHANGED Places!placeVars
  OBVIOUS
<1>1. CASE AcceptNext
  BY <1>1, AcceptMoves DEF AcceptNext, Places!PlacesNext
<1>2. CASE IdleNext
  BY <1>2, IdleMoves DEF Places!PlacesNext
<1>3. CASE GamesNext
  BY <1>3, GameMoves DEF GamesNext, Places!PlacesNext
<1>4. CASE UNCHANGED vars
  BY <1>4, NobodyMoves DEF vars, sharedVars, idleVars
<1> QED
  BY <1>1, <1>2, <1>3, <1>4 DEF Next

LEMMA InitMoves == Init => Places!PlacesInit
<1> SUFFICES ASSUME Init PROVE Places!PlacesInit
  OBVIOUS
<1>1. /\ newClientsQueue = <<>> /\ clientsMap = {} /\ gameInput = [r \in Room |-> <<>>]
      /\ \A c \in Client : conn[c] = "new"
      /\ \A r \in Room : game[r] = NoGame /\ gameOutput[r] = <<>>
  BY DEF Init, SharedInit, GameInit, IdleInit
<1>2. Seated(NoGame) = {} /\ Returning(<<>>) = {}
  BY DEF Seated, NoGame, NewGame, Slot, Returning
<1>3. /\ seated = [r \in Room |-> {}] /\ returning = [r \in Room |-> {}] /\ closed = {}
  BY <1>1, <1>2 DEF seated, returning, closed
<1> QED
  BY <1>1, <1>3 DEF Places!PlacesInit, seated, returning, closed

\* However the threads interleave, a client is accepted, admitted, sent to a game,
\* seated and brought back in this order, in the order of the queues, at most two
\* to a game, and who is not in the next place has been disconnected for good.
THEOREM ClientsKeepToTheirPlaces == Spec => ClientsFollowLifecycle
<1>1. Init => CInv /\ HandOverSound
  BY InitCInv
<1>2. IInv /\ WaitingListSound /\ HandOverSound /\ CInv /\ [Next]_vars => CInv' /\ HandOverSound'
  BY NextKeepsCInv
<1>3. Init => Places!PlacesInit
  BY InitMoves
<1>4. IInv /\ CInv /\ HandOverSound /\ [Next]_vars => [Places!PlacesNext]_Places!placeVars
  BY NextMoves
<1> QED
  BY Invariance, WaitingListIsSound, <1>1, <1>2, <1>3, <1>4, PTL
     DEF Spec, ClientsFollowLifecycle, Places!PlacesSpec
=============================================================================
