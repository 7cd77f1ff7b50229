# UpsServer in TLA+

UpsServer is a TCP server for the game *Sim*: two players take turns drawing
edges between six nodes, and whoever completes a triangle of his own edges
loses. This directory specifies the server's threads and the way clients move
between them, the event loop and the queues they run on, the parser of their
connections and the start of the process. TLC checks the specifications on small
instances; TLAPS proves every safety property they check for every instance. Paths
below are relative to the repository; file names without a path are unique in it.

## Inventory

| part | state | operations | interacts through |
|---|---|---|---|
| `main`, `ServerController` | the server object, the idle room | read the configuration, construct both, wait for their threads | constructors, threads |
| accept thread (`ServerSocketBase`, `TcpGameServer`) | the server socket | accept | pushes descriptors to `_newClientsQueue` |
| idle thread (`IdleUsersRoom`) | `_clientsMap`, `_waitingToJoinGame`, the `GameRoom` table, `_pausedGameRooms` | new client, message (`ENTER_USERNAME`, `JOIN_GAME`, `GET_ROOM_LIST`, `TERMINATE_CONNECTION`), failed read, hang-up, state change of a room | pops `_newClientsQueue` and each room's `gameOutput`; pushes to `gameInput`; starts game threads |
| game thread (`Game`, one per running room) | two `Player`s (client, last seen, graph), `isRunning`, `_isPaused`, `_isPlayerOneTurn` | new player, message (`GAME_COMMAND`, `GAME_LEAVE`, `GAME_PING`), failed read, hang-up, time-out, exception, destruction | pops `gameInput`; pushes `PAUSED` and, with the remaining clients, `IDLE` to `gameOutput` |
| `GameRoom`, `GameStateChange`, `ProtocolClient` | the usernames and the state of a room; name, denial counter, parser and socket of a client | accessors | owned by one thread at a time, handed over in queues |
| `GameGraph` | adjacency matrix of one player | `isValidEdge`, `addUndirectedEdge`, `hasCycleOfLength3`, `clear` | called by `Game` |
| `EventfdQueue` | queue, mutex, event descriptor | `push`, `pop`, `isEmpty` | wakes the receiver's epoll |
| `Epoll` | monitored descriptors with their handlers | `waitForEvents`, add and remove | runs all handlers of a thread |
| `BufferedParser`, `ProtocolData` | the partial message of a connection | `parse`, serialise | turns a read into messages or throws |
| `SocketBase`, `ClientSocket` | the descriptor | recv, send, close | |
| `ServerConfig`, `LoggerConfig` | read once | | |

What is hard in this code:

* **Ownership without locks.** A `ProtocolClient` has no lock. It may be used by
  whoever holds its `unique_ptr`: a queue, the idle room's map, a player's slot or
  a report. It must never be lost (its socket would leak) nor be in two places.
* **The room table is a delayed image.** The idle thread decides from the table
  whether a room can be joined, and starts a new thread on the same two queues
  without joining the old one. The table learns what a game thread has done only
  when it reads the reports.
* **Both ends of a hand-over can fail.** A game can end while its second player
  is still in a queue.
* **Batches.** One read yields several messages and one `epoll_wait` several
  events; each can destroy the client that the next one is about.
* **Edge-triggered epoll.** An event that is dropped is not reported again, a push
  is two steps, and a descriptor can leave the epoll and return in one batch.
* **Streams.** TCP cuts a message anywhere; the parser keeps the rest of each read.
* **Start.** The accept thread runs before the object whose handler it calls is
  constructed, and every failure in a thread ends the process.
* **Time** is the system clock in unsigned arithmetic.
* **The search for a triangle** is a search for a shortest cycle from node 0.

`PROJECT.json` lists each hazard at its line with the properties aimed at it, and
the reason where no property is.

## Modules

| module | models | code |
|---|---|---|
| `RoomStructs` | client objects, queues, reports | `RoomStructs.*`, `ProtocolClient.*` |
| `Game` (extends `RoomStructs`) | the game thread of every room | `Game.*` |
| `IdleUsersRoom` (extends `Game`) | the idle thread and the room table | `IdleUsersRoom.*` |
| `UpsServer` (extends `IdleUsersRoom`) | the accept thread, the composition, the properties | `ServerSocketBase.cpp`, `TcpGameServer.cpp`, `ServerController.cpp` |
| `RoomLifecycle` | abstract: what a room goes through | |
| `ClientLifecycle` | abstract: where a client can be, and how it gets from one place to the next | |
| `Sim` | abstract: the game that a game thread promises its players | |
| `GameGraph`, `PlayerGraph` | the search for a cycle; the graph of one player through its games | `GameGraph.*` |
| `Epoll` | the event loop of either thread with its queues and sockets | `Epoll.*`, `EventfdQueue.h`, `SocketBase.cpp`, the handlers as far as they touch descriptors |
| `BufferedParser` | the parser of a connection | `BufferedParser.*`, `ProtocolData.*`, `ProtocolClient.cpp` |
| `ServerStart` | main and accept thread while the server starts | `main.cpp`, `ServerController.cpp`, `ServerSocketBase.cpp`, `TcpGameServer.*` |
| `Inactivity` | the inactivity check with its clock | `Game.cpp` |
| `MCUpsServer`, `MCBufferedParser`, `MCInactivity` | instances and bounds for TLC | |
| `UpsServerProofs` | theorems: types, the room table, `RoomLifecycle` | |
| `ClientProofs` (extends `UpsServerProofs`) | theorems: the waiting list, owners; places of a client, hand-overs, `ClientLifecycle` | |
| `PlayerProofs` (extends `ClientProofs`) | theorems: `Sim`, turns, reported pauses; names, pauses of missing players | |
| `GraphProofs` | theorem: what the search finds | |
| `ParserProofs` | theorems: what the parser keeps, returns and throws | |
| `EpollProofs`, `ServerStartProofs`, `InactivityProofs` | theorems about those three modules | |

`UpsServer` composes the three kinds of threads. `Epoll`, `BufferedParser`,
`ServerStart` and `Inactivity` are what `UpsServer` abstracts from, each on its own:
there a queue is a sequence and an event may come at any moment, a read yields any
messages, the server has started, and a time stamp may expire at any moment.

### State of the server

| variable | code |
|---|---|
| `conn`, `clientName`, `reqDeniedCnt` | a connection and its `ProtocolClient` |
| `newClientsQueue`, `gameInput`, `gameOutput` | the three kinds of `EventfdQueue` |
| `game[r]` | the `Game` object of room `r`: `client`, `lastSeen`, `graph` per slot, the flags, and where its thread is (`thread`, the undispatched `events` of the batch, the `task` in hand) |
| `clientsMap`, `waitingToJoinGame`, `gameState`, `roomUsers`, `pausedGameRooms` | the idle thread's fields and the `GameRoom` table |
| `idleTask`, `handOver` | where the idle thread is: messages left of a read, calls of `_sendClientToGameThread` left |
| `process` | `"up"`; `"terminated"` when an exception leaves the idle thread; `"undefined"` when a null or destroyed client is used. In the last two no step follows |

### Steps and atomicity

A handler runs on one thread, and other threads see it only through the queues. A
step is therefore a handler, except where a push or pop of another thread can
come between two parts of it that matter: the messages of one read are steps of
their own (`GameProcessMessage`, `IdleProcessMessage`), so are the clients a
handler takes from a queue (`GameOnNewClientConnect`, `IdleOnNewClientConnect`,
`OnGameStateChange`), and so is each push of a hand-over (`SendClientToGameThread`).

A game handler calls functions that change the same fields one after the other
(`_processClientMessage`, `_denyRequest`, `_onClientDisconnect`,
`_updateClientLastSeen`, ...). They are operators from a record of what a game
thread can change (a *world*) to the next; the step commits the last one. An
exception is `Throw`, which leads to `GameExit`; the use of a null client is
`Undefined`.

A game thread's `epoll_wait` returns any set of ready descriptors and the loop
condition is only tested between batches. Hang-up handlers can be called twice
for one event (`EPOLLRDHUP` and `EPOLLHUP`). A read fails or yields 0 to
`MaxBatch` messages of any method and argument. Time is `lastSeen`: "never" (0),
"recent" or "expired", and a recent time may expire at any moment.

In `UpsServer` the idle thread's events come one at a time in any order, and its
rule for a removed descriptor is applied to the hang-up of the same event
(`IdleOnHangup`). A dropped event is an event that does not occur; dropping events
is what `Epoll` is about.

The rejoin branch of `_enterUsername` is translated (`RejoinPausedGame`) although
no behaviour of the code reaches it: its guard needs a name that the checks before it
deny.

In `Epoll` a push is two steps, the item and the write to the event descriptor, both
under the mutex; the handler of a queue reads the counter and then pops until the
queue is empty, one item per step. An edge puts a descriptor into `ready`, and
`epoll_wait` takes it out again. `thread` says whose loop the behaviour is of: a
handler of the idle thread takes a leaving client out of the epoll and
`waitForEvents` then returns; a handler of a game only closes the socket. `epoch`
numbers the registrations of a descriptor, so that an event of an earlier one can be
told from a later one's. The queues of a room outlive its games: `Restart` is the next
game thread on the queues of one that is over, with an epoll of its own and whatever is
left in the queues. If the handler of the input queue threw because a game had two
players already (`Game.cpp:215`), it has reset the counter (line 204) and left items;
`abandoned`, a history variable, remembers that until the next push.

In `BufferedParser` a text is a sequence of characters, of which only those the
parser looks at have names; the peer sends a sequence of texts, each of them a
message as `serializeProtocolData` makes it or lines of which one is malformed
(`Junk`), and a step is one read of any length. The table of method names is a constant
that may hold anything; the one in the code has names for `UNINITIALIZED`, which the
parser accepts and which counts as a message here, and for `PARSING_FAILED`, which it
throws on and which counts as junk. The loops of the parser are
recursive functions, so that they can be proved about. `ServerStart` has one step per
constructor, thread start and system call, and each that can fail may fail.
There `event` is whether the idle thread will still be told of what is in
`_newClientsQueue`; `DropEvent` takes it away, as `Epoll` shows that its loop can.
`Inactivity` has time, the offset of the system clock and unsigned stamps. Players
leave and others take their slots, with the stamps that are in them; `expired` remembers
whom the last step has found inactive, and `defined` ends the behaviour where the game
has used the client of an empty slot (`Game.cpp:229`).

## Runs

| run | instance | shows |
|---|---|---|
| `TwoRooms` | 3 clients, 3 names, 2 rooms, 2 messages per read, 1 denial | `TypeOK`; `SingleCustody`: an open connection is in exactly one place and a closed one in none; `OwnerOnly`: only the thread that holds a client changes it; `WaitingListSound`: the raw pointers of the waiting list never dangle and no two clients wait for one room; `HandOverSound`: nor do those of a hand-over; `RoomAgreement` (below); `NeverTerminated`: `addUser` never throws (its exception is the only one of the idle thread in this model; `ServerStart` has another); `RoomsFollowLifecycle`, `ClientsFollowLifecycle`: `RoomLifecycle` and `ClientLifecycle` are implemented; `NamesGivenOnce`: no name is given away that another open client has |
| `Play` | 2 clients on the real game, on a board of four nodes | `GamesPlaySim`: every game thread implements `Sim`; `TurnsAlternate`: no edge has two owners, no loser's graph stays and the turn goes back and forth; `PauseReported`: every pause reaches the idle thread; `PausedWhileMissing`: a game that goes on without one of its players is paused |
| `Progress` | 3 clients, 1 room, fairness | `InputServed`: a client handed to a game is taken in or the game ends; `NoEmptyGame`: no game stays without players; `OverGamesReport`: a game that is over hands its players back and ends |
| `EventLoop` | both threads, 2 queues, 2 sockets, fairness | `NoLostWakeup`: in a game thread, also in the next game on the same queue, a queue with items always has an event, an edge or its handler; `DroppedItemsRemain`: in both threads the event descriptor still counts the items whose event was dropped or whose game has ended, so that the next push or the next loop reports them (both but for what a handler that threw has left, until the next push); `UnreadIsReported`: in a game thread a socket with unread data has an event or an edge, too, except what a read that filled the buffer has left; `ClientsTaken`: a client pushed to a game is taken, by that game or the next, or, if the handler threw over him, after the next push; `NoStaleEvents`: no thread dispatches an event of an earlier registration |
| `Parser` | up to 3 texts, cut at every place | `OutputExact`: `parse` returns the messages received completely, once, in order and unchanged; `ThrowsOnlyOnJunk`: it throws on malformed texts and cut end sequences, and on nothing else |
| `ServerStart` | 3 clients, fairness | `ClientsReachIdleThread`: who connects while the server starts reaches the idle thread, or its loop has dropped the event of the queue, or the process has failed; `ClientsGoForward`: no step loses a client or sends him back; `FailuresTellProgress`: how the process ends tells how far the start has got |
| `Inactivity` | 12 ticks, stamps below 32, a limit of 3 | `ActivePlayersStay`: while nobody sets the clock, of the players seated only silent ones are disconnected, also while others come and go; `SilentPlayersGo`: a silent player goes with the other's next message, also after the clock has been set forward |

Five more runs expect a violation; each states what a comment or document of the
repository says and finds a behaviour of the code that contradicts it.

| run | what the code does |
|---|---|
| `Stranded` | the first player leaves before the second is seated: the second stays in the input queue of an idle room (against `Game.cpp:44`) |
| `Triangle` | a triangle no path leads to from node 0 does not lose, because the search starts there (against `Game.cpp:144`; the theorem `SearchIsExact` says what the search does find) |
| `CutEnd` | a read that ends within an end sequence makes `parse` throw (against `BufferedParser.h:14`; `ThrowsOnlyOnJunk` says when it throws) |
| `Newcomer` | a client seated in the slot of one who left long ago is disconnected as inactive by the handler that seats him, which then uses the null client (against `Game.cpp:68`; `ActivePlayersStay` says who is safe) |
| `DroppedEvents` | a client that leaves the idle thread makes `waitForEvents` drop the rest of the batch, and the items of a queue wait for the next push (against `Epoll.h:73`) |

`CHECK_DEADLOCK` is off in every run but `Triangle`, because the modelled systems do
stop: when every client of the finite set has connected and closed, when the process
has failed, when the peer has sent everything, or at the last tick. The runs of
`MCUpsServer` without fairness use symmetry over clients, names and rooms, which the
model never tells apart; runs with liveness use none.

### Other differences between the text and the code

Met while modelling, visible in the definitions, and not made into runs:

* a returning player's name is denied because his room still holds it
  (`IdleUsersRoom.cpp:95`), so the branch under "Check if user is rejoining a paused
  game" (`IdleUsersRoom.cpp:111`) is never reached, against "he'll instantly after
  providing his name be put into the game session"
  (`src/doc/server_architecture_v1.1.drawio:70`);
* a message denied too often destroys the player before `_updateClientLastSeen` uses
  him, and the loop over the messages of the read goes on with him (`Game.cpp:187`,
  `:260`), against "needs to be called as the last in this function, because it can
  disconnect the socket" (`Game.cpp:69`); the model ends there (`process =
  "undefined"`);
* an exception of the accept or the idle thread, or of main once the accept thread runs,
  ends the process unprinted, against "Global exception handler - will print exception
  before exiting program" (`main.cpp:12`); `ServerStart` has it as the ends "uncaught"
  and "unwound";
* a value with a colon in it is cut behind that colon (`BufferedParser.cpp:89`); the
  messages of the model have none;
* an end sequence alone is returned as a message without a method
  (`BufferedParser.cpp:29`);
* the accept thread is started by the base class's constructor, so a very early client
  meets a pure virtual handler (`ServerSocketBase.cpp:38`);
* a handler that throws over a third client leaves him in the queue with the counter
  reset (`Game.cpp:204`, `:215`), and the next game on that queue is not told of him
  before something else is pushed;
* after the clock has been set back every player seen before is found inactive
  (`Game.cpp:171`);
* clients who come back from games are not compared with the player limit
  (`IdleUsersRoom.cpp:278`);
* a client stranded in the queue of an idle room is invisible to the checks of a new
  name (`IdleUsersRoom.cpp:83`, `:93`); `NamesGivenOnce` leaves him out
  (`KnownAtRoom`);
* a player who waits alone in a new game is not in a paused game, and his
  `GAME_COMMAND` uses a null client (`Game.cpp:90`); `PausedWhileMissing` begins with
  the second player.

### Bounds

* *Clients.* Two make a game; a third waits for, or takes over, a room whose game
  ends, or is handed to a room while its game ends. `TwoRooms` has three, in two
  rooms; its constraint `OneDenied` lets only one client at a time be denied and
  stay, which keeps the counters from multiplying the states. `Progress` lets the
  third connect only after one of the others has been disconnected
  (`ThirdComesLater`): it is the client that comes into a game already begun or
  over. Invariants of these runs have proofs without bounds.
* *Names.* As many as clients where names matter. With fewer, as in `Progress`, a name
  is wanted twice.
* *`MaxReqDenied`* (5 in the code) is 1 in `TwoRooms`, where the counter is checked,
  and 0 elsewhere: the first denial then disconnects, the case that matters.
* *`MaxBatch`* is 2 where what one message does to the next matters, else 1.
* *Board.* `Edge` and `Losing` are parameters of `Game`. `Play` gives them the values
  `GameGraph` computes for four nodes: 6 edges, with triangles through and away from
  node 0. `Triangle` uses the real six nodes and graphs of up to 8 of the 15 edges,
  which is all a player can get. The other runs leave the play out (`NoEdge`).
* *Event loop.* Four descriptors, and batches of three, so that a batch can be full;
  three pushes, which is what it takes to register a client, take it out in a batch
  that still has its event, and register it again. Three units of data against a
  buffer of two leave something unread.
* *Parser.* Letters enough for two method names, of which the longer begins with a
  character that is none, two fields and values of two lengths; texts that break each
  rule, among them a name and a line one longer than the limit.
* *Inactivity.* Three ticks are allowed, the clock is set once, by -1, 1 or 2, and 12
  ticks see both players silent and back. Stamps below 32 do not overflow in that
  time, as those of 64 bits do not; differences wrap.

### Fairness

* *Game threads* (`GameProgress`). The scheduler runs them: a thread gets on with
  what it has dispatched, and `epoll_wait` returns while its input queue has clients,
  which `NoLostWakeup` shows for the epoll and the queue, with one exception: what a game
  that threw has left in its queue. The next game is started for two clients who are
  pushed to that queue right after, so a push comes. Nobody has to send
  anything, hang up or fall silent.
* *Idle thread* (`IdleProgress`). It gets on with the handler it is in. Nothing is
  assumed of its next event, because its loop can drop events (`Epoll.cpp:58`), and
  edges are not reported again. For this reason nothing is claimed about the reading
  of reports.
* *`Epoll`*: weak fairness of the loop and of a push that has begun; no push, message
  or new game has to come.
* *`ServerStart`*: weak fairness of each thread's steps; failures need not occur. The
  idle thread empties the queue only while it will be told of it (`event`); a dropped
  event leaves the client where he is, which the property says.

All liveness properties allow for a process that has failed, and for a loop that has
ended.

## Proofs

For every set of clients, names and rooms, every board, every limit, every number
of descriptors and items, and streams of any texts (the assumptions on the constants
only say that special values are not elements of these sets and that limits are
numbers; `BufferedParser` says besides what a message is, a method that has a name and
fields without delimiters that keep to the limits, and that every other text has a
malformed line; nothing is assumed of what the table of methods holds; `Inactivity`
assumes that the clock shows neither 0 nor overflows, wherever it is set:
it counts milliseconds since 1970 in 64 bits):

| theorem | states |
|---|---|
| `UpsServerProofs!TypeCorrect` | `Spec => []TypeOK` |
| `UpsServerProofs!RoomTableAgrees` | `Spec => []RoomAgreement` |
| `UpsServerProofs!ServerNeverTerminates` | `Spec => []NeverTerminated` |
| `UpsServerProofs!ServerFollowsLifecycle` | `Spec => RoomsFollowLifecycle` |
| `PlayerProofs!ServerPlaysSim` | `Spec => GamesPlaySim` |
| `PlayerProofs!PlayersTakeTurns` | `Spec => []TurnsAlternate` |
| `PlayerProofs!PausesReported` | `Spec => []PauseReported` |
| `PlayerProofs!MissingPlayersPauseGames` | `Spec => []PausedWhileMissing` |
| `ClientProofs!WaitingListIsSound` | `Spec => []WaitingListSound` |
| `ClientProofs!ClientsHaveOneOwner` | `Spec => OwnerOnly` |
| `ClientProofs!ClientsHaveOnePlace` | `Spec => []SingleCustody` |
| `ClientProofs!HandOversAreSound` | `Spec => []HandOverSound` |
| `ClientProofs!ClientsKeepToTheirPlaces` | `Spec => ClientsFollowLifecycle` |
| `PlayerProofs!NamesAreGivenOnce` | `Spec => NamesGivenOnce` |
| `GraphProofs!SearchIsExact` | `PlayerGraphSpec => []SearchExact` |
| `ParserProofs!ParserTypes` | `Spec => []TypeOK` |
| `ParserProofs!ParserOutput` | `Spec => []OutputExact` |
| `ParserProofs!ParserThrows` | `Spec => []ThrowsOnlyOnJunk` |
| `EpollProofs!EpollTypes` | `Spec => []TypeOK` |
| `EpollProofs!WakeupsNotLost` | `Spec => []NoLostWakeup` |
| `EpollProofs!ItemsRemain` | `Spec => []DroppedItemsRemain` |
| `EpollProofs!UnreadReported` | `Spec => []UnreadIsReported` |
| `EpollProofs!EventsNotStale` | `Spec => []NoStaleEvents` |
| `ServerStartProofs!StartTypes` | `Spec => []TypeOK` |
| `ServerStartProofs!FailuresAreTelling` | `Spec => []FailuresTellProgress` |
| `ServerStartProofs!ClientsAreNotLost` | `Spec => ClientsGoForward` |
| `InactivityProofs!InactivityTypes` | `Spec => []TypeOK` |
| `InactivityProofs!ActivePlayersAreKept` | `Spec => ActivePlayersStay` |
| `InactivityProofs!SilentPlayersAreGone` | `Spec => []SilentPlayersGo` |

With them every safety property of `TwoRooms`, `Play`, `EventLoop`, `Parser`,
`ServerStart` and `Inactivity` is proved. The bounds of these runs are bounds of the
runs only.

**The room table.** `RoomAgreement` is the reason a game thread can be started
without a lock. For every room: if the table says IDLE there is no thread, no unread
report and no user; while there is a thread, no report in the queue says IDLE; once
the thread is gone and the table does not know it yet, the last report, and no other,
says IDLE; and the paused rooms are those whose state is PAUSED. The inductive
invariant is `IInv == TypeOK /\ RoomAgreement /\ WaitingNamed`. The last conjunct, a
waiting client has a name, makes the users of a new game names and not empty strings:
without it `TypeOK` is not preserved by `NewGameThread`. The argument about the game
threads goes through worlds: every function of a handler keeps a world typed, with a
thread and without an IDLE report (`LiveWorld`), so a step that commits a world keeps
the invariant of its room. `GameExit` is the only step that pushes IDLE and it ends
the thread; `NewGameThread` is the only one that starts a thread, and its guard IDLE
gives an empty queue. `ServerNeverTerminates` follows because a room that is IDLE in
the table has no users, so `addUser` finds it empty.

**The lifecycle.** A room is mapped to "playing" while it has a thread, to "over"
until the report is read, and to "free"; `NewGameThread`, `GameExit` and the reading
of an IDLE report are the three steps of the abstract room, and every other step of
the server stutters.

**The game.** Every function of a handler but `AddEdge` is quiet: it leaves the
board alone and pauses the game only by reporting it. `AddEdge` is reached only for
the player on turn and an edge nobody has, and is `Draw`. `GameExit` and a new
thread are `NewBoard`. `PlayersTakeTurns` then follows from `Sim` alone, where
`FairPlay` is inductive.

**The search.** The depth-first search is a recursive function on ways, the node of
the next call at the end. Before the last node a way has none twice, so no way is
longer than the number of nodes plus one; that is why the function exists, and what
is claimed of its answer is proved from the longest ways to the shortest. An answer
is the length of a closed trail the search has walked, which is at least 3, and 3
only for a triangle in the component of node 0. For the other direction, a path leads
from node 0 to every connected triangle with only its last node in it; the search
that follows it closes the triangle, and no answer grows on the way back.

**Pauses.** `PauseReported` is inductive with "a room without a thread is not
paused". `PausedWhileMissing` needs to know that whoever is in the second slot has
been seen there (`SecondSeen`): whoever goes, `_onClientDisconnect` ends the game or
pauses it; and when a player is seated and the pause ends, both are there or the
time-out found in the same handler pauses the game again. That the new player is not
the one already seated comes from the proof of `SingleCustody`.

**The clients.** `WaitingListSound` is inductive with `IInv`: each way out of the idle
room clears the waiting list, and of a room that is no longer IDLE only the clients in
`handOver` may still wait. For `OwnerOnly`, `Touches` says of the functions of a
handler that they change counters only of clients in a slot, and close exactly those
they take out of one. `SingleCustody` is proved through places as sets (`CInv`): each
place holds a client at most once, no two places hold the same client (`Apart`), what
they hold is what is open (`OpenIsHeld`), and who is being handed over is still in the
idle room, once (`HandOverSound`); each step moves a client from one place to the next
or closes it. The cardinality in `SingleCustody` follows at the end.

**The life of a client.** `ClientsFollowLifecycle` maps the queues, the map, the slots
and the reports to the places of `ClientLifecycle`. `Touches` describes the worlds of
a handler: a player it takes out of a slot is closed and no other is, so the handlers
of a game are `LosePlayers`, or `TakeIn` when they pop the queue first. A free
seat follows from `_onNewClientConnect`, which throws when both are taken
(`SeatFree`). Only a
report of an end holds clients (`ReportsSound` in `CInv`), and `RoomAgreement` allows one
of these in a room's queue, as the last: so nobody is returning when a game ends
(`EndGame`), and reading that report brings back all its players (`ComeBack`).
The abstract queues keep their order because
each step of the server appends to a queue or takes its head, never both.

**Names.** `NamesGivenOnce` needs one more fact: who has not been in the idle room has
no name (`NewNameless`); then every open client with a name is where one of the two
searches looks, or with a room that has forgotten him.

**The event loop.** `WakeupInv` adds that the queues of the loop are in the kernel's
list once it has started, and that a game's loop reads no reports (`Registered`). The
next game on a queue is why `DroppedItemsRemain` is part of it (`CountedInv`): when its
loop registers the queue, an item that is counted raises an edge, and one that is not
has been abandoned. Each step that could take a wake-up away leaves another: the counter
is reset by the handler that then runs, a handler ends only with an empty queue and no
push under way, a batch is only taken together with its events. `UnreadInv` does the same
for sockets; a hang-up the event in the batch does not know of has raised a new edge.
`FreshInv` says why an event is never stale: a client comes back only through a queue, a
queued client is registered nowhere, and in the idle thread its leaving has emptied the
batch. `DroppedItemsRemain` is inductive with the types alone: a pop that leaves items
is followed by another, the counter is reset only by the handler that then pops, and
if that handler throws before anything else is pushed the queue is abandoned.

**The parser.** The loops over a read are recursive functions, first shown to exist.
`Split` cuts a string right behind each first delimiter and loses nothing (`Cuts`). A
text is lines that end with LF and two more that are a CR each; no other line has a
CR, so an end sequence is found only at the end of a text, and the cuts of a part of a
text are cuts of the text. `AtOffset` says what a parser that has read `r` characters
of a text has saved: the method and the fields of the lines before, the beginning of
the line it is in. Parsing a part of a text takes it from one offset to the other, or
throws if a line that began there is malformed. The inductive invariant `Reading` puts
the texts together: as long as `parse` has not thrown, the first `k - 1` texts were
messages and have been returned, the parser is at its offset in the `k`-th, and a read
has ended within an end sequence only if that was the last one. Such a cut makes the
next read throw, because the piece no longer ends with an end sequence and its CR is
parsed as a line that is no field.

**The start.** What the main thread has done determines how much of the server there
is and which threads run (`StartInv`): the accept thread runs from "derive" on, the
idle thread only at the end, and the queue is empty until the server is complete.
That tells which failures are possible where, and why no client can be lost between
the constructors.

**Inactivity.** `StampInv` says that a stamp is the time of the message plus the offset
the clock had then, which is the first one or the present one, since the clock is set
once. While it has not been set the unsigned difference is the time that has
passed; if it has been set forward it is that or more, so a silent player is still
found. After it has been set back nothing is claimed. The stamp of an empty slot is
that of whoever was there last, so it says something of a player only from the step
after he is seated: that is the limit of `ActivePlayersStay`, and `Newcomer` shows what
is beyond it.

**Recursion.** The library's induction theorems take an operator as a parameter, which
the provers cannot instantiate. `GraphProofs` and `ParserProofs` use induction over sets
of numbers instead (`NumberInduction`), from the well-foundedness of the natural
numbers, and show of each recursive function that it exists before they unfold it.

Only proved: `SearchExact`, which is a statement about every graph; the run `Triangle` on
the same module shows the triangle it leaves out.

Only model-checked: all liveness (`InputServed`, `NoEmptyGame`, `OverGamesReport`,
`ClientsTaken`, `ClientsReachIdleThread`), which with `ENABLED` is out of the prover's
reach.

## Not modelled

* Replies: their text, `serializeObjectList`, `newProtocolMessage`,
  `serializeUndirectedEdges`, and `send`, whose result the code ignores.
* Configuration and logging, which happen once and in sequence; that the
  configuration cannot be read is a step of `ServerStart`.
* `GameRoom::removeUser`, `Game::getPlayer(username)`, `Epoll::removeEventHandler` and
  the getters, which have no caller in the server; the constructor of `ClientSocket`
  that connects, which only the tests use.
* What follows after a null or destroyed client has been used (`process =
  "undefined"`), and the idle thread's use of a client it has just destroyed or handed
  over (`IdleUsersRoom.cpp:319`), which ends there.
* The start of a game thread can fail; the model starts it always.
* The logging library, the tests and the build files.
