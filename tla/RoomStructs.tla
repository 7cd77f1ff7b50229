---------------------------- MODULE RoomStructs ----------------------------
(***************************************************************************)
(* The structures the threads of the server share: the client objects      *)
(* (ProtocolClient) that are handed from thread to thread, and the queues  *)
(* they travel through: the accept thread's queue of new connections and   *)
(* the input and output queue of every GameRoom.                           *)
(*                                                                         *)
(* An EventfdQueue is a sequence here: push appends, pop takes the head,   *)
(* isEmpty compares with <<>>; each runs under the queue's mutex, so each  *)
(* is one atomic step of the thread that makes it.                         *)
(***************************************************************************)
EXTENDS Naturals, Sequences, FiniteSets

CONSTANTS
    Client,        \* connections; one stands for a socket and its ProtocolClient
    Name,          \* usernames
    Room,          \* ids of the game rooms
    Nobody,        \* the null client pointer
    NoName,        \* the empty username
    MaxReqDenied,  \* MAX_REQ_DENIED_CNT, 5 in both rooms
    MaxBatch       \* bound: complete messages one read of a socket yields

ASSUME RoomStructsAssumption ==
    /\ Nobody \notin Client
    /\ NoName \notin Name
    /\ MaxReqDenied \in Nat
    /\ MaxBatch \in Nat

VARIABLES
    process,          \* "up", "undefined" once a null or dangling client was used, or
                      \* "terminated" once an exception has left the idle thread
    conn,             \* per client: "new" (not connected), "open" or "closed" socket
    clientName,       \* ProtocolClient::clientName
    reqDeniedCnt,     \* ProtocolClient::reqDeniedCnt
    newClientsQueue,  \* TcpGameServer::_newClientsQueue
    gameInput,        \* per room: clients on their way to the game thread
    gameOutput        \* per room: state changes on their way to the idle thread

sharedVars == <<process, conn, clientName, reqDeniedCnt,
                newClientsQueue, gameInput, gameOutput>>

GameState == {"IDLE", "RUNNING", "PAUSED"}

ClientOrNobody == Client \cup {Nobody}

\* What a game thread reports. Clients that go back travel with the report.
GameStateChange ==
    [newState : GameState, client1 : ClientOrNobody, client2 : ClientOrNobody]

Change(state, c1, c2) == [newState |-> state, client1 |-> c1, client2 |-> c2]

\* GameStateChange{PAUSED}: the constructor without clients.
PausedChange == Change("PAUSED", Nobody, Nobody)

SharedTypeOK ==
    /\ process \in {"up", "undefined", "terminated"}
    /\ conn \in [Client -> {"new", "open", "closed"}]
    /\ clientName \in [Client -> Name \cup {NoName}]
    /\ reqDeniedCnt \in [Client -> 0 .. MaxReqDenied]
    /\ newClientsQueue \in Seq(Client)
    /\ gameInput \in [Room -> Seq(Client)]
    /\ gameOutput \in [Room -> Seq(GameStateChange)]

SharedInit ==
    /\ process = "up"
    /\ conn = [c \in Client |-> "new"]
    /\ clientName = [c \in Client |-> NoName]
    /\ reqDeniedCnt = [c \in Client |-> 0]
    /\ newClientsQueue = <<>>
    /\ gameInput = [r \in Room |-> <<>>]
    /\ gameOutput = [r \in Room |-> <<>>]

\* Mutant: one request more is denied before the client is disconnected.
TooManyDenialsLate(count) == count > MaxReqDenied

\* The test _denyRequest makes in either room.
TooManyDenials(count) == count >= MaxReqDenied

HasName(c) == clientName[c] # NoName
=============================================================================
