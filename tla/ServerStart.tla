----------------------------- MODULE ServerStart -----------------------------
(***************************************************************************)
(* The start of the server and its accept thread. The main thread reads    *)
(* the configuration, constructs the TCP server, whose base class starts   *)
(* the accept thread from its constructor, and then the idle room; from    *)
(* then on it only waits for the two threads, which never end. Clients can *)
(* connect as soon as the socket listens.                                  *)
(*                                                                         *)
(* Every system call that can fail may fail here.                          *)
(***************************************************************************)
EXTENDS Naturals, Sequences, FiniteSets

CONSTANTS
    Client,    \* the clients that may connect
    NoClient   \* accept has failed

ASSUME StartAssumption ==
    /\ NoClient \notin Client
    /\ Client \cap {"none", "waiting"} = {}

VARIABLES
    main,        \* the next thing the main thread does
    server,      \* how much of TcpGameServer is constructed
    accept,      \* what the accept thread does, or the client it has accepted
    idle,        \* whether the idle thread runs
    backlog,     \* kernel: connections not yet accepted
    newClients,  \* _newClientsQueue
    event,       \* whether the idle thread will still be told of what is in it
    taken,       \* the clients the idle thread has taken over
    process      \* whether the process is up, or how it has ended

vars == <<main, server, accept, idle, backlog, newClients, event, taken, process>>

MainStep == {"config", "listen", "thread", "derive", "queue", "room", "idle", "join"}
Construction == {"none", "base", "derived", "complete"}

\* "exited": an exception reached main, which printed it. "unwound": an exception
\* on its way to main destroyed a thread that runs. "uncaught": an exception left
\* another thread. "pureVirtual" and "undefined": a method was called too early.
End == {"exited", "unwound", "uncaught", "pureVirtual", "undefined"}

TypeOK ==
    /\ main \in MainStep
    /\ server \in Construction
    /\ accept \in {"none", "waiting"} \cup Client
    /\ idle \in BOOLEAN
    /\ backlog \subseteq Client
    /\ newClients \in Seq(Client)
    /\ event \in BOOLEAN
    /\ taken \subseteq Client
    /\ process \in {"up"} \cup End

Init ==
    /\ main = "config"
    /\ server = "none"
    /\ accept = "none"
    /\ idle = FALSE
    /\ backlog = {}
    /\ newClients = <<>> /\ event = FALSE
    /\ taken = {}
    /\ process = "up"

-----------------------------------------------------------------------------
(* The main thread *)

\* Mutant: the accept thread is left to itself, and main catches the exception.
ThrowToMain ==
    /\ process' = "exited"
    /\ UNCHANGED <<main, server, accept, idle, backlog, newClients, event, taken>>

\* An exception in the main thread. The destructor of a std::thread that has not
\* been joined ends the process before main can catch anything.
Throw ==
    /\ process' = IF accept = "none" THEN "exited" ELSE "unwound"
    /\ UNCHANGED <<main, server, accept, idle, backlog, newClients, event, taken>>

ParseServerConfig ==
    /\ main = "config"
    /\ \/ Throw
       \/ main' = "listen"
          /\ UNCHANGED <<server, accept, idle, backlog, newClients, event, taken, process>>

\* ServerSocketBase: socket, bind and listen, any of which can fail ...
Listen ==
    /\ main = "listen"
    /\ \/ Throw
       \/ main' = "thread" /\ server' = "base"
          /\ UNCHANGED <<accept, idle, backlog, newClients, event, taken, process>>

\* ... and the accept thread.
StartAcceptThread ==
    /\ main = "thread"
    /\ \/ Throw
       \/ main' = "derive" /\ accept' = "waiting"
          /\ UNCHANGED <<server, idle, backlog, newClients, event, taken, process>>

\* The object becomes a TcpGameServer, and only then its queue is constructed.
Derive ==
    /\ main = "derive"
    /\ main' = "queue" /\ server' = "derived"
    /\ UNCHANGED <<accept, idle, backlog, newClients, event, taken, process>>

ConstructQueue ==
    /\ main = "queue"
    /\ \/ Throw
       \/ main' = "room" /\ server' = "complete"
          /\ UNCHANGED <<accept, idle, backlog, newClients, event, taken, process>>

\* IdleUsersRoom: an epoll, and two queues for each room.
ConstructIdleRoom ==
    /\ main = "room"
    /\ \/ Throw
       \/ main' = "idle"
          /\ UNCHANGED <<server, accept, idle, backlog, newClients, event, taken, process>>

StartIdleThread ==
    /\ main = "idle"
    /\ \/ Throw
       \/ main' = "join" /\ idle' = TRUE
          /\ UNCHANGED <<server, accept, backlog, newClients, event, taken, process>>

Main ==
    \/ ParseServerConfig \/ Listen \/ StartAcceptThread \/ Derive
    \/ ConstructQueue \/ ConstructIdleRoom \/ StartIdleThread

-----------------------------------------------------------------------------
(* The accept thread *)

\* Mutant: what accept returns is not looked at.
AcceptAnything(c) == TRUE

Accepted(c) == c # NoClient

\* accept has returned c. A failed accept throws, and nothing catches that in this
\* thread.
TcpAcceptLoop(c) ==
    /\ accept = "waiting"
    /\ backlog' = backlog \ {c}
    /\ IF Accepted(c) THEN accept' = c /\ UNCHANGED process
       ELSE process' = "uncaught" /\ UNCHANGED accept
    /\ UNCHANGED <<main, server, idle, newClients, event, taken>>

\* Mutant: a client is passed on only if the idle thread runs.
PushIfIdleRuns(c) == IF idle THEN Append(newClients, c) ELSE newClients

Push(c) == Append(newClients, c)

\* Until the object is a TcpGameServer, the handler is pure virtual; until its queue
\* is constructed, there is nothing to push into.
NewClientConnectedHandler ==
    /\ accept \notin {"none", "waiting"}
    /\ CASE server = "complete" ->
              /\ newClients' = Push(accept) /\ event' = TRUE
              /\ accept' = "waiting" /\ UNCHANGED process
         [] server = "derived" ->
              process' = "undefined" /\ UNCHANGED <<newClients, event, accept>>
         [] OTHER ->
              process' = "pureVirtual" /\ UNCHANGED <<newClients, event, accept>>
    /\ UNCHANGED <<main, server, idle, backlog, taken>>

Accept == NewClientConnectedHandler \/ \E c \in backlog : TcpAcceptLoop(c)

AcceptFails == TcpAcceptLoop(NoClient)

-----------------------------------------------------------------------------
(* The idle thread and the clients *)

\* The idle thread, told of the queue, empties it; what it does with a client is
\* modelled in IdleUsersRoom. What was pushed before there was an idle thread is
\* reported when it registers the queue.
TakeClients ==
    /\ idle /\ event
    /\ taken' = taken \cup {newClients[k] : k \in DOMAIN newClients}
    /\ newClients' = <<>> /\ event' = FALSE
    /\ UNCHANGED <<main, server, accept, idle, backlog, process>>

\* A client the idle thread has leaves it, and the event of the queue was in the rest
\* of the same batch: it is dropped (see Epoll), until the next push raises another.
DropEvent ==
    /\ idle /\ event /\ taken # {}
    /\ event' = FALSE
    /\ UNCHANGED <<main, server, accept, idle, backlog, newClients, taken, process>>

\* An exception in the idle thread: a descriptor that epoll refuses.
IdleThrows ==
    /\ idle
    /\ process' = "uncaught"
    /\ UNCHANGED <<main, server, accept, idle, backlog, newClients, event, taken>>

Queued == {newClients[k] : k \in DOMAIN newClients}

Connected == backlog \cup Queued \cup taken \cup ({accept} \cap Client)

\* A client connects once the socket listens.
Connect(c) ==
    /\ server # "none" /\ c \notin Connected
    /\ backlog' = backlog \cup {c}
    /\ UNCHANGED <<main, server, accept, idle, newClients, event, taken, process>>

Next ==
    /\ process = "up"
    /\ \/ Main \/ Accept \/ AcceptFails \/ TakeClients \/ DropEvent \/ IdleThrows
       \/ \E c \in Client : Connect(c)

Spec == Init /\ [][Next]_vars

Up(A) == process = "up" /\ A

\* The three threads are scheduled: accept returns while there is a connection, and
\* the handler of the queue is called unless the event is dropped. Nothing has to fail.
Fairness ==
    /\ WF_vars(Up(Main)) /\ WF_vars(Up(Accept)) /\ WF_vars(Up(TakeClients))

FairSpec == Spec /\ Fairness

-----------------------------------------------------------------------------
(* Properties *)

\* How the process ends tells how far it got. An exception is printed only while no
\* client can have been accepted. A call that is too early happens only between the
\* start of the accept thread and the end of the server's constructor: once its
\* queue is there, no client that connects can bring the process down.
FailuresTellProgress ==
    /\ process = "exited" =>
           /\ main \in {"config", "listen", "thread"}
           /\ accept = "none" /\ newClients = <<>> /\ taken = {}
    /\ process \in {"pureVirtual", "undefined"} => main \in {"derive", "queue"}
    /\ idle \/ newClients # <<>> => server = "complete"

\* How far client c has come on his way to the idle thread.
Progress(c) ==
    IF c \in taken THEN 4 ELSE IF c \in Queued THEN 3
    ELSE IF accept = c THEN 2 ELSE IF c \in backlog THEN 1 ELSE 0

\* No step of any thread loses a client or sends him back, whatever is constructed
\* when he comes and whoever waits for what; only the end of the process can.
ClientsGoForward ==
    [][process' = "up" => \A c \in Client : Progress(c) <= Progress(c)']_vars

\* A client who connects while the server starts, before there is an idle thread to
\* take him over, is taken over in the end, unless the process ends or another client
\* has left the idle thread at the wrong moment: then he waits for the next to connect.
ClientsReachIdleThread ==
    \A c \in Client :
        c \in Connected ~> \/ c \in taken \/ process # "up"
                           \/ taken # {} /\ c \in Queued /\ ~event
=============================================================================
