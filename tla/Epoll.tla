------------------------------- MODULE Epoll -------------------------------
(***************************************************************************)
(* The event loop of one thread: an edge-triggered Epoll with the event    *)
(* descriptors of the queues the thread reads (EventfdQueue) and the       *)
(* sockets of the clients it has.  Other threads push clients into the     *)
(* queues, the peers send and hang up, and the loop waits, dispatches the  *)
(* events of a batch one by one and waits again.                           *)
(*                                                                         *)
(* Both threads of the server run this loop.  They differ in what their    *)
(* handlers do when a client leaves them: the idle thread takes its        *)
(* descriptor out of the epoll first, a game thread only closes the        *)
(* socket.  The variable thread says which of the two the behaviour is of. *)
(*                                                                         *)
(* The queues of a room outlive its games: after a game thread has ended,  *)
(* another one may start on what the first has left in them.               *)
(***************************************************************************)
EXTENDS Naturals, Sequences, FiniteSets

CONSTANTS
    Queue,      \* event descriptors of the queues a thread reads
    Output,     \* those of them a game reports to: read by the idle thread only
    Socket,     \* descriptors of client sockets
    Report,     \* an item of a queue that is not a client
    NoFd,       \* no descriptor
    MaxEvents,  \* _maxEventsNum, 10 in the code
    Buffer,     \* MAX_BUF_LENGTH, in units of data: what one recv takes
    MaxUnread,  \* bound: units of data unread in a socket
    MaxPushes   \* bound: items ever pushed

ASSUME EpollAssumption ==
    /\ Queue \cap Socket = {}
    /\ Output \subseteq Queue /\ Queue \ Output # {}
    /\ Report \notin Socket
    /\ NoFd \notin Queue \cup Socket
    /\ MaxEvents \in Nat \ {0}
    /\ Buffer \in Nat \ {0}
    /\ MaxUnread \in Nat /\ MaxPushes \in Nat

VARIABLES
    thread,     \* whose loop this is: "idle" or "game"
    data,       \* per queue: EventfdQueue::data
    lock,       \* per queue: whether a push holds dataMutex
    counter,    \* per queue: the counter of evfd
    pushes,     \* the number of items pushed so far
    abandoned,  \* history: the queues a handler has left by an exception with the
                \* counter at 0, and into which nothing has been pushed since
    unread,     \* per socket: units of data received and not read
    hup,        \* per socket: whether the peer has hung up
    interest,   \* kernel: the descriptors in the epoll
    ready,      \* kernel: those with an edge not yet reported
    monitored,  \* _monitoredFds
    epoch,      \* per socket: how often it has been registered
    batch,      \* the events of this epoll_wait that are not yet dispatched
    popping,    \* the queue whose handler is running, or NoFd
    running,    \* FALSE once the loop has ended
    full,       \* per socket: whether the last read filled the buffer
    gone        \* the sockets this thread has closed

queueVars == <<data, lock, counter, pushes, abandoned>>
socketVars == <<unread, hup>>
loopVars == <<thread, monitored, epoch, batch, popping, running, full, gone>>
vars == <<queueVars, socketVars, interest, ready, loopVars>>

Fd == Queue \cup Socket
Item == Socket \cup {Report}
Event == [fd : Fd, hup : BOOLEAN, epoch : Nat]

TypeOK ==
    /\ thread \in {"idle", "game"}
    /\ data \in [Queue -> Seq(Item)]
    /\ lock \in [Queue -> BOOLEAN]
    /\ counter \in [Queue -> Nat]
    /\ pushes \in Nat
    /\ abandoned \subseteq Queue
    /\ unread \in [Socket -> Nat]
    /\ hup \in [Socket -> BOOLEAN]
    /\ monitored \subseteq Fd
    /\ interest \subseteq monitored
    /\ ready \subseteq interest
    /\ epoch \in [Socket -> Nat]
    /\ batch \subseteq Event
    /\ popping \in Queue \cup {NoFd}
    /\ running \in BOOLEAN
    /\ full \in [Socket -> BOOLEAN]
    /\ gone \subseteq Socket

\* Nothing is registered, and no client is there yet.
Init ==
    /\ thread \in {"idle", "game"}
    /\ data = [q \in Queue |-> <<>>]
    /\ lock = [q \in Queue |-> FALSE]
    /\ counter = [q \in Queue |-> 0]
    /\ pushes = 0
    /\ abandoned = {}
    /\ unread = [s \in Socket |-> 0]
    /\ hup = [s \in Socket |-> FALSE]
    /\ interest = {}
    /\ ready = {}
    /\ monitored = {}
    /\ epoch = [s \in Socket |-> 0]
    /\ batch = {}
    /\ popping = NoFd
    /\ running = TRUE
    /\ full = [s \in Socket |-> FALSE]
    /\ gone = {}

-----------------------------------------------------------------------------
(* The kernel *)

\* What a poll of the descriptor says. A socket whose peer has hung up can be
\* read: the read returns nothing.
Readable(f) ==
    \/ f \in Queue /\ counter[f] > 0
    \/ f \in Socket /\ (unread[f] > 0 \/ hup[f])

\* Something has happened at f: an edge, if f is in the epoll.
Edge(f) == ready' = ready \cup ({f} \cap interest)

Receive(s) ==
    /\ unread[s] < MaxUnread /\ ~hup[s] /\ s \notin gone
    /\ unread' = [unread EXCEPT ![s] = @ + 1]
    /\ Edge(s)
    /\ UNCHANGED <<queueVars, hup, interest, loopVars>>

HangUp(s) ==
    /\ ~hup[s] /\ s \notin gone
    /\ hup' = [hup EXCEPT ![s] = TRUE]
    /\ Edge(s)
    /\ UNCHANGED <<queueVars, unread, interest, loopVars>>

-----------------------------------------------------------------------------
(* EventfdQueue::push, by another thread: the item and then the event, both *)
(* under the mutex                                                          *)

\* A socket another thread can hand over: open, and in nobody else's hands.
Elsewhere(s) ==
    /\ s \notin interest \cup gone
    /\ \A q \in Queue : \A k \in DOMAIN data[q] : data[q][k] # s

\* A game has been started, and its output queue registered, before it pushes.
PushItem(q, item) ==
    /\ pushes < MaxPushes /\ ~lock[q]
    /\ q \in Output => q \in interest
    /\ item # Report => Elsewhere(item)
    /\ data' = [data EXCEPT ![q] = Append(@, item)]
    /\ lock' = [lock EXCEPT ![q] = TRUE]
    /\ pushes' = pushes + 1
    /\ abandoned' = abandoned \ {q}
    /\ UNCHANGED <<counter, socketVars, interest, ready, loopVars>>

PushEvent(q) ==
    /\ lock[q]
    /\ counter' = [counter EXCEPT ![q] = @ + 1]
    /\ lock' = [lock EXCEPT ![q] = FALSE]
    /\ Edge(q)
    /\ UNCHANGED <<data, pushes, abandoned, socketVars, interest, loopVars>>

-----------------------------------------------------------------------------
(* Steps of the loop *)

\* The queues of a thread are registered before it starts to wait. A queue is
\* reported at once if its event descriptor counts something by then; items alone,
\* left by a game that threw after its handler had set the counter back, are not.
Start ==
    /\ running /\ monitored = {}
    /\ monitored' = Queue \ Output
    /\ interest' = Queue \ Output
    /\ ready' = {q \in Queue \ Output : Readable(q)}
    /\ UNCHANGED <<thread, queueVars, socketVars, epoch, batch, popping, running, full, gone>>

Idle == popping = NoFd /\ batch = {}

EventOf(f) ==
    [fd |-> f,
     hup |-> IF f \in Socket THEN hup[f] ELSE FALSE,
     epoch |-> IF f \in Socket THEN epoch[f] ELSE 0]

\* epoll_wait reports at most MaxEvents descriptors that are ready, in an order
\* that is not known here, and takes their edges away.
WaitForEvents ==
    /\ running /\ monitored # {} /\ Idle
    /\ LET live == {f \in ready : Readable(f)}
       IN  \E taken \in SUBSET live :
              /\ taken # {}
              /\ IF Cardinality(live) <= MaxEvents THEN taken = live
                 ELSE Cardinality(taken) = MaxEvents
              /\ batch' = {EventOf(f) : f \in taken}
              /\ ready' = live \ taken
    /\ UNCHANGED <<thread, queueVars, socketVars, interest,
                   monitored, epoch, popping, running, full, gone>>

\* Mutant: the dispatch goes on with the rest of the batch.
GoOn(rest) == rest

\* A handler has removed the descriptor whose event is dispatched: waitForEvents
\* returns, and the rest of the batch is dropped.
Return(rest) == {}

\* Mutant: waitForEvents returns after a hang-up.
ReturnAfterHangup(e) == IF e.hup THEN {} ELSE batch \ {e}

\* waitForEvents itself removes a descriptor after a hang-up, and goes on.
RestOfBatch(e) == batch \ {e}

\* A handler of a queue starts: eventfd_read sets the counter back.
DispatchQueue(e) ==
    /\ popping = NoFd /\ e \in batch /\ e.fd \in Queue
    /\ counter' = [counter EXCEPT ![e.fd] = 0]
    /\ popping' = e.fd
    /\ batch' = batch \ {e}
    /\ UNCHANGED <<thread, data, lock, pushes, abandoned, socketVars, interest, ready,
                   monitored, epoch, running, full, gone>>

\* Mutant: the kernel is told of the client, _monitoredFds is not.
RegisterUnmonitored(s) ==
    /\ interest' = interest \cup {s}
    /\ epoch' = [epoch EXCEPT ![s] = @ + 1]
    /\ full' = [full EXCEPT ![s] = FALSE]
    /\ ready' = IF Readable(s) THEN ready \cup {s} ELSE ready
    /\ UNCHANGED monitored

\* A client is registered: the kernel reports what is already there to read.
Register(s) ==
    /\ monitored' = monitored \cup {s}
    /\ interest' = interest \cup {s}
    /\ epoch' = [epoch EXCEPT ![s] = @ + 1]
    /\ full' = [full EXCEPT ![s] = FALSE]
    /\ ready' = IF Readable(s) THEN ready \cup {s} ELSE ready

\* Mutant: the handler takes one item and returns.
HandlerEnds(q) == NoFd

\* The handler of queue q goes on until the queue is empty.
HandlerGoesOn(q) == q

\* while (!isEmpty()) pop(). The idle thread may refuse a client.
Pop(q) ==
    /\ popping = q /\ ~lock[q]
    /\ IF data[q] = <<>>
       THEN popping' = NoFd /\ UNCHANGED <<data, interest, ready, monitored, epoch, full>>
       ELSE LET item == Head(data[q])
            IN  /\ data' = [data EXCEPT ![q] = Tail(@)]
                /\ popping' = HandlerGoesOn(q)
                /\ \/ item # Report /\ Register(item)
                   \/ /\ item = Report \/ thread = "idle"
                      /\ UNCHANGED <<interest, ready, monitored, epoch, full>>
    /\ UNCHANGED <<thread, lock, counter, pushes, abandoned, socketVars, batch,
                   running, gone>>

\* A game has two players already: the handler throws, and the items stay in the
\* queue, whose counter it has set back.
PopThrows(q) ==
    /\ thread = "game"
    /\ popping = q /\ ~lock[q] /\ data[q] # <<>>
    /\ running' = FALSE /\ popping' = NoFd /\ batch' = {}
    /\ abandoned' = IF counter[q] = 0 THEN abandoned \cup {q} ELSE abandoned
    /\ UNCHANGED <<thread, data, lock, counter, pushes, socketVars, interest, ready,
                   monitored, epoch, full, gone>>

\* One read takes what fits into the buffer.
Read(s) ==
    /\ unread' = [unread EXCEPT ![s] = IF @ > Buffer THEN @ - Buffer ELSE 0]
    /\ full' = [full EXCEPT ![s] = unread[s] >= Buffer]

\* The descriptors a handler of s may take out: in the idle thread s itself, and
\* with it the client that has waited for s; in a game either player.
Leaving(s) ==
    {out \in SUBSET (interest \cap Socket) :
        out = {} \/ thread = "game" \/ (s \in out /\ Cardinality(out) <= 2)}

\* The output queue that is registered by a handler which takes out two clients:
\* they start a game. If it has been registered before, its events are modified.
OutputOf(out) == IF Cardinality(out) = 2 THEN {{q} : q \in Output} ELSE {{}}

\* The handlers of a socket's event in the idle thread. EPOLLIN comes first, then
\* a hang-up; after either has removed the descriptor, waitForEvents returns.
DispatchIdleClient(e) ==
    LET s == e.fd
        rest == batch \ {e}
    IN  /\ thread = "idle"
        /\ popping = NoFd /\ e \in batch /\ s \in Socket \cap monitored
        /\ Read(s)
        /\ \E out \in Leaving(s) : \E added \in OutputOf(out) :
              LET removed == IF out = {} /\ e.hup THEN {s} ELSE out
              IN  /\ monitored' = (monitored \ removed) \cup added
                  /\ interest' = (interest \ removed) \cup added
                  /\ ready' = (ready \ removed) \cup {q \in added : Readable(q)}
                  /\ batch' = IF removed = {} THEN rest ELSE Return(rest)
        /\ UNCHANGED <<thread, queueVars, hup, epoch, popping, running, gone>>

\* The handlers of a socket's event in a game thread. A player's socket is only
\* closed, which the kernel sees and _monitoredFds does not; waitForEvents itself
\* removes the descriptor after a hang-up. The game may be over then.
DispatchPlayer(e) ==
    LET s == e.fd
    IN  /\ thread = "game"
        /\ popping = NoFd /\ e \in batch /\ s \in monitored \cap interest \cap Socket
        /\ Read(s)
        /\ \E out \in Leaving(s), over \in BOOLEAN :
              LET closed == IF e.hup THEN out \cup {s} ELSE out
              IN  /\ interest' = interest \ closed
                  /\ ready' = ready \ closed
                  /\ gone' = gone \cup closed
                  /\ running' = (running /\ ~over)
        /\ monitored' = IF e.hup THEN monitored \ {s} ELSE monitored
        /\ batch' = RestOfBatch(e)
        /\ UNCHANGED <<thread, queueVars, hup, epoch, popping>>

\* An event of a player that an earlier event of the batch has disconnected:
\* getPlayer throws, and the loop ends.
DispatchGonePlayer(e) ==
    /\ thread = "game"
    /\ popping = NoFd /\ e \in batch /\ e.fd \in (monitored \cap Socket) \ interest
    /\ running' = FALSE /\ batch' = {}
    /\ UNCHANGED <<thread, queueVars, socketVars, interest, ready,
                   monitored, epoch, popping, full, gone>>

\* The idle thread starts another game on the queues of one that is over. The new
\* loop has an epoll of its own; the clients the old one still had are back with
\* the idle thread. It is inside no push meanwhile.
Restart ==
    /\ thread = "game" /\ ~running /\ Idle
    /\ \A q \in Queue : ~lock[q]
    /\ interest' = {} /\ ready' = {} /\ monitored' = {}
    /\ running' = TRUE
    /\ UNCHANGED <<thread, queueVars, socketVars, epoch, batch, popping, full, gone>>

Loop ==
    \/ Start
    \/ WaitForEvents
    \/ \E e \in batch : \/ DispatchQueue(e)
                        \/ DispatchIdleClient(e)
                        \/ DispatchPlayer(e)
                        \/ DispatchGonePlayer(e)
    \/ \E q \in Queue : Pop(q) \/ PopThrows(q)

Others ==
    \/ \E s \in Socket : Receive(s) \/ HangUp(s)
    \/ \E q \in Queue : PushEvent(q) \/ \E item \in Item : PushItem(q, item)
    \/ Restart

Next == Loop \/ Others

Spec == Init /\ [][Next]_vars

\* The thread of the loop and a thread inside push are scheduled; nobody has to
\* push, to send, to hang up or to start another game.
Fairness == WF_vars(Loop) /\ \A q \in Queue : WF_vars(PushEvent(q))

FairSpec == Spec /\ Fairness

-----------------------------------------------------------------------------
(* Properties *)

InBatch(f) == \E e \in batch : e.fd = f

\* A queue with items has a wake-up: its push is still under way, or its handler
\* is running, or its event is in the batch, or an edge will report it.
HasWakeup(q) ==
    \/ lock[q]
    \/ popping = q
    \/ InBatch(q)
    \/ q \in ready /\ counter[q] > 0


\* In a game thread an item pushed into its queue is never forgotten, also not by the
\* next game on that queue. Only what a handler that threw has left behind waits for
\* another push, which then has the whole queue emptied.
NoLostWakeup ==
    thread = "game" /\ running /\ monitored # {} =>
        \A q \in Queue : data[q] # <<>> => HasWakeup(q) \/ q \in abandoned

\* The same for the sockets of a game thread, with one gap: what a read that filled
\* the buffer has left over is reported by nobody until more arrives.
UnreadIsReported ==
    thread = "game" /\ running => \A s \in interest \cap Socket :
        unread[s] > 0 \/ hup[s] => \/ InBatch(s)
                                   \/ s \in ready
                                   \/ full[s] /\ ~hup[s]

\* In both threads an item is never beyond recall, also when the loop has dropped the
\* event of its queue or a game has ended over it: the event descriptor still counts
\* it, so that registering it anew reports what was left there. The one exception is
\* a queue whose handler threw, until something else is pushed into it.
DroppedItemsRemain ==
    \A q \in Queue :
        data[q] # <<>> => lock[q] \/ popping = q \/ counter[q] > 0 \/ q \in abandoned

\* In both threads an event is dispatched to the registration it was raised for,
\* although a descriptor can leave the epoll and come back (or its number be used
\* again) while the batch is dispatched.
NoStaleEvents ==
    \A e \in batch : e.fd \in monitored \cap Socket => e.epoch = epoch[e.fd]

Queued(q, s) == \E k \in DOMAIN data[q] : data[q][k] = s

\* Every client pushed into the queue of a game is taken out while a loop of that
\* queue runs, by the game he was pushed to or by the next one. If the handler threw
\* over him, that is promised from the next push on.
ClientsTaken ==
    \A q \in Queue \ Output, s \in Socket :
        thread = "game" /\ Queued(q, s) /\ q \notin abandoned
            ~> ~Queued(q, s) \/ ~running
=============================================================================
