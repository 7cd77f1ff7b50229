---------------------------- MODULE EpollProofs ----------------------------
(***************************************************************************)
(* Theorems about the event loop.                                          *)
(*                                                                         *)
(* The type invariant, NoStaleEvents and DroppedItemsRemain are about both *)
(* threads, the other two properties about a game thread only: the run     *)
(* DroppedEvents shows how the idle thread breaks the first of them.  What *)
(* a game leaves in its queues, DroppedItemsRemain, is what the wake-ups   *)
(* of the next game on them start from.                                    *)
(***************************************************************************)
EXTENDS Epoll, TLAPS

\* The steps of Next, one conjunct per action.
LEMMA NextSteps ==
    ASSUME [Next]_vars, NEW P,
           Start => P, WaitForEvents => P,
           \A e \in batch : DispatchQueue(e) => P,
           \A e \in batch : DispatchIdleClient(e) => P,
           \A e \in batch : DispatchPlayer(e) => P,
           \A e \in batch : DispatchGonePlayer(e) => P,
           \A q \in Queue : Pop(q) => P,
           \A q \in Queue : PopThrows(q) => P,
           \A s \in Socket : Receive(s) => P,
           \A s \in Socket : HangUp(s) => P,
           \A q \in Queue : PushEvent(q) => P,
           \A q \in Queue, item \in Item : PushItem(q, item) => P,
           Restart => P,
           UNCHANGED vars => P
    PROVE  P
  BY DEF Next, Loop, Others

-----------------------------------------------------------------------------
(* Types *)

LEMMA TypeInit == ASSUME Init PROVE TypeOK
  BY EpollAssumption DEF Init, TypeOK, Item

\* A client that is taken out of a queue, or a report.
LEMMA HeadIsItem ==
    ASSUME NEW q \in Queue, data \in [Queue -> Seq(Item)], data[q] # <<>>
    PROVE  Head(data[q]) \in Item /\ Tail(data[q]) \in Seq(Item)
  OBVIOUS

LEMMA TypeStart == ASSUME TypeOK, Start PROVE TypeOK'
  BY DEF TypeOK, Start, Fd, queueVars, socketVars, Event

LEMMA TypeRestart == ASSUME TypeOK, Restart PROVE TypeOK'
  BY DEF TypeOK, Restart, Fd, queueVars, socketVars, Event

LEMMA TypeWait == ASSUME TypeOK, WaitForEvents PROVE TypeOK'
  <1>1. PICK taken \in SUBSET {f \in ready : Readable(f)} :
            /\ batch' = {EventOf(f) : f \in taken}
            /\ ready' = {f \in ready : Readable(f)} \ taken
    BY DEF WaitForEvents
  <1>2. \A f \in taken : EventOf(f) \in Event
    BY <1>1 DEF TypeOK, EventOf, Event, Fd
  <1>3. batch' \subseteq Event /\ ready' \subseteq interest
    BY <1>1, <1>2 DEF TypeOK
  <1> QED BY <1>3 DEF TypeOK, WaitForEvents, queueVars, socketVars, Event, Fd

LEMMA TypeDispatchQueue ==
    ASSUME TypeOK, NEW e \in batch, DispatchQueue(e) PROVE TypeOK'
  BY DEF TypeOK, DispatchQueue, socketVars, Event, Fd

LEMMA TypeRegister ==
    ASSUME TypeOK, NEW s \in Socket, Register(s)
    PROVE  /\ monitored' \subseteq Fd /\ interest' \subseteq monitored'
           /\ ready' \subseteq interest'
           /\ epoch' \in [Socket -> Nat] /\ full' \in [Socket -> BOOLEAN]
  BY DEF TypeOK, Register, Fd

LEMMA TypePop == ASSUME TypeOK, NEW q \in Queue, Pop(q) PROVE TypeOK'
  <1>1. /\ lock' = lock /\ counter' = counter /\ pushes' = pushes /\ abandoned' = abandoned
        /\ unread' = unread /\ hup' = hup
        /\ batch' = batch /\ running' = running /\ gone' = gone /\ thread' = thread
    BY DEF Pop, socketVars
  <1>2. data' \in [Queue -> Seq(Item)] /\ popping' \in Queue \cup {NoFd}
    BY HeadIsItem DEF Pop, TypeOK, HandlerGoesOn
  <1>3. \/ UNCHANGED <<interest, ready, monitored, epoch, full>>
        \/ \E s \in Socket : Register(s)
    BY HeadIsItem DEF Pop, TypeOK, Item
  <1>4. /\ monitored' \subseteq Fd /\ interest' \subseteq monitored'
        /\ ready' \subseteq interest'
        /\ epoch' \in [Socket -> Nat] /\ full' \in [Socket -> BOOLEAN]
    BY <1>3, TypeRegister DEF TypeOK
  <1> QED BY <1>1, <1>2, <1>4 DEF TypeOK, Event, Fd

LEMMA TypePopThrows == ASSUME TypeOK, NEW q \in Queue, PopThrows(q) PROVE TypeOK'
  BY DEF TypeOK, PopThrows, queueVars, socketVars, Event, Fd

LEMMA TypeRead ==
    ASSUME TypeOK, NEW s \in Socket, Read(s)
    PROVE  unread' \in [Socket -> Nat] /\ full' \in [Socket -> BOOLEAN]
  BY EpollAssumption DEF TypeOK, Read

LEMMA TypeDispatchIdleClient ==
    ASSUME TypeOK, NEW e \in batch, DispatchIdleClient(e) PROVE TypeOK'
  <1> DEFINE s == e.fd
  <1>1. s \in Socket /\ Read(s)
    BY DEF DispatchIdleClient
  <1>2. PICK out \in Leaving(s) : \E added \in OutputOf(out) :
          LET removed == IF out = {} /\ e.hup THEN {s} ELSE out
          IN  /\ monitored' = (monitored \ removed) \cup added
              /\ interest' = (interest \ removed) \cup added
              /\ ready' = (ready \ removed) \cup {q \in added : Readable(q)}
              /\ batch' = IF removed = {} THEN batch \ {e} ELSE Return(batch \ {e})
    BY DEF DispatchIdleClient
  <1> DEFINE removed == IF out = {} /\ e.hup THEN {s} ELSE out
  <1>5. PICK added \in OutputOf(out) :
          /\ monitored' = (monitored \ removed) \cup added
          /\ interest' = (interest \ removed) \cup added
          /\ ready' = (ready \ removed) \cup {q \in added : Readable(q)}
          /\ batch' = IF removed = {} THEN batch \ {e} ELSE Return(batch \ {e})
    BY <1>2
  <1>3. added \subseteq Fd
    BY <1>5, EpollAssumption DEF OutputOf, Fd
  <1>4. /\ monitored' \subseteq Fd /\ interest' \subseteq monitored'
        /\ ready' \subseteq interest' /\ batch' \subseteq batch
    BY <1>5, <1>3 DEF TypeOK, Return
  <1> QED BY <1>1, <1>4, TypeRead DEF TypeOK, DispatchIdleClient, queueVars, Event, Fd

LEMMA TypeDispatchPlayer ==
    ASSUME TypeOK, NEW e \in batch, DispatchPlayer(e) PROVE TypeOK'
  <1> DEFINE s == e.fd
  <1>1. s \in Socket /\ Read(s)
    BY DEF DispatchPlayer
  <1>2. PICK out \in Leaving(s), over \in BOOLEAN :
          LET closed == IF e.hup THEN out \cup {s} ELSE out
          IN  /\ interest' = interest \ closed
              /\ ready' = ready \ closed
              /\ gone' = gone \cup closed
              /\ running' = (running /\ ~over)
    BY DEF DispatchPlayer
  <1>3. out \subseteq Socket
    BY <1>2 DEF Leaving
  <1>4. /\ monitored' \subseteq Fd /\ interest' \subseteq monitored'
        /\ ready' \subseteq interest' /\ batch' \subseteq batch
        /\ gone' \subseteq Socket /\ running' \in BOOLEAN
    BY <1>1, <1>2, <1>3 DEF TypeOK, DispatchPlayer, RestOfBatch
  <1> QED BY <1>1, <1>4, TypeRead DEF TypeOK, DispatchPlayer, queueVars, Event, Fd

LEMMA TypeDispatchGonePlayer ==
    ASSUME TypeOK, NEW e \in batch, DispatchGonePlayer(e) PROVE TypeOK'
  BY DEF TypeOK, DispatchGonePlayer, queueVars, socketVars, Event, Fd

LEMMA TypeReceive == ASSUME TypeOK, NEW s \in Socket, Receive(s) PROVE TypeOK'
  BY DEF TypeOK, Receive, Edge, queueVars, loopVars, Event, Fd

LEMMA TypeHangUp == ASSUME TypeOK, NEW s \in Socket, HangUp(s) PROVE TypeOK'
  BY DEF TypeOK, HangUp, Edge, queueVars, loopVars, Event, Fd

LEMMA TypePushItem ==
    ASSUME TypeOK, NEW q \in Queue, NEW item \in Item, PushItem(q, item) PROVE TypeOK'
  <1>1. data' \in [Queue -> Seq(Item)]
    BY DEF TypeOK, PushItem
  <1> QED BY <1>1 DEF TypeOK, PushItem, socketVars, loopVars, Event, Fd

LEMMA TypePushEvent == ASSUME TypeOK, NEW q \in Queue, PushEvent(q) PROVE TypeOK'
  BY DEF TypeOK, PushEvent, Edge, socketVars, loopVars, Event, Fd

LEMMA TypeNext == ASSUME TypeOK, [Next]_vars PROVE TypeOK'
  <1>1. UNCHANGED vars => TypeOK'
    BY DEF TypeOK, vars, queueVars, socketVars, loopVars, Event, Fd
  <1> QED
    BY <1>1, NextSteps, TypeStart, TypeRestart, TypeWait, TypeDispatchQueue, TypePop, TypePopThrows,
       TypeDispatchIdleClient, TypeDispatchPlayer, TypeDispatchGonePlayer,
       TypeReceive, TypeHangUp, TypePushItem, TypePushEvent

\* Every variable has its type, the kernel knows only descriptors that are
\* monitored, and only what it knows is ready.
THEOREM EpollTypes == Spec => []TypeOK
  BY TypeInit, TypeNext, PTL DEF Spec
-----------------------------------------------------------------------------
(* The items of both threads.  The counter of a queue is only set back when *)
(* its handler starts, and the handler only ends with an empty queue.       *)

CountedInv == TypeOK /\ DroppedItemsRemain

LEMMA CountedPop == ASSUME CountedInv, NEW q \in Queue, Pop(q) PROVE DroppedItemsRemain'
  <1>1. /\ UNCHANGED <<lock, counter, abandoned>> /\ popping = q
        /\ \A p \in Queue \ {q} : data'[p] = data[p] /\ q # p
        /\ data[q] = <<>> => data' = data /\ popping' = NoFd
        /\ data[q] # <<>> => popping' = q
    BY DEF Pop, CountedInv, TypeOK, HandlerGoesOn
  <1> QED BY <1>1 DEF CountedInv, DroppedItemsRemain

LEMMA CountedDispatchQueue ==
    ASSUME CountedInv, NEW e \in batch, DispatchQueue(e) PROVE DroppedItemsRemain'
  <1>1. /\ popping = NoFd /\ popping' = e.fd /\ UNCHANGED <<data, lock, abandoned>>
        /\ \A q \in Queue : q # NoFd /\ (q # e.fd => counter'[q] = counter[q])
    BY EpollAssumption DEF DispatchQueue, CountedInv, TypeOK
  <1> QED BY <1>1 DEF CountedInv, DroppedItemsRemain

LEMMA CountedPush ==
    ASSUME CountedInv, NEW q \in Queue, PushEvent(q) \/ \E item \in Item : PushItem(q, item)
    PROVE  DroppedItemsRemain'
  <1>1. /\ lock'[q] \/ counter'[q] > 0
        /\ \A p \in Queue \ {q} : /\ lock'[p] = lock[p] /\ counter'[p] = counter[p]
                                  /\ data'[p] = data[p]
                                  /\ p \in abandoned => p \in abandoned'
        /\ UNCHANGED popping
    BY DEF PushEvent, PushItem, CountedInv, TypeOK, loopVars
  <1> QED BY <1>1 DEF CountedInv, DroppedItemsRemain

LEMMA CountedPopThrows ==
    ASSUME CountedInv, NEW q \in Queue, PopThrows(q) PROVE DroppedItemsRemain'
  <1>1. /\ popping = q /\ UNCHANGED <<data, lock, counter>>
        /\ abandoned \subseteq abandoned'
        /\ counter[q] > 0 \/ q \in abandoned'
    BY DEF PopThrows, CountedInv, TypeOK
  <1> QED BY <1>1 DEF CountedInv, DroppedItemsRemain

LEMMA CountedNext == ASSUME CountedInv, [Next]_vars PROVE DroppedItemsRemain'
  <1>1. ASSUME UNCHANGED <<queueVars, popping>> PROVE DroppedItemsRemain'
    BY <1>1 DEF CountedInv, DroppedItemsRemain, queueVars
  <1>2. UNCHANGED vars \/ Start \/ WaitForEvents \/ Restart => DroppedItemsRemain'
    BY <1>1 DEF vars, loopVars, Start, WaitForEvents, Restart
  <1>3. \A e \in batch : DispatchIdleClient(e) \/ DispatchPlayer(e) \/ DispatchGonePlayer(e)
            => DroppedItemsRemain'
    BY <1>1 DEF DispatchIdleClient, DispatchPlayer, DispatchGonePlayer
  <1>4. \A s \in Socket : Receive(s) \/ HangUp(s) => DroppedItemsRemain'
    BY <1>1 DEF Receive, HangUp, loopVars
  <1> QED
    BY <1>2, <1>3, <1>4, NextSteps, CountedDispatchQueue, CountedPop, CountedPush,
       CountedPopThrows

\* In either thread, whatever is dropped of a batch and however many games a queue
\* outlives, a queue with items is being pushed into or emptied, or its event
\* descriptor still counts what is there, or its handler has thrown since the last push.
THEOREM ItemsRemain == Spec => []DroppedItemsRemain
  <1>1. Init => CountedInv
    BY TypeInit DEF CountedInv, Init, DroppedItemsRemain
  <1>2. CountedInv /\ [Next]_vars => CountedInv'
    BY TypeNext, CountedNext DEF CountedInv
  <1> QED BY <1>1, <1>2, PTL DEF Spec, CountedInv
-----------------------------------------------------------------------------
(* Wake-ups of a game thread                                                *)

\* The thread is a game's.
GameThread == thread = "game"

\* Before a loop starts the kernel knows nothing; from then on it knows the queue.
\* Nothing is ever reported to a game.
Registered ==
    /\ \A q \in Output : data[q] = <<>> /\ q \notin interest
    /\ IF monitored = {}
       THEN interest = {} /\ ready = {} /\ batch = {} /\ popping = NoFd
       ELSE Queue \ Output \subseteq interest

\* The queues with items have wake-ups while the loop runs. What is left of them when
\* it ends is DroppedItemsRemain's, and the next loop starts from that.
Awake ==
    running /\ monitored # {} =>
        \A q \in Queue : data[q] # <<>> => HasWakeup(q) \/ q \in abandoned

WakeupInv == CountedInv /\ Registered /\ Awake

\* A loop stays the loop of its thread.
LEMMA GameThreadStays == ASSUME [Next]_vars PROVE GameThread' = GameThread
  <1>1. UNCHANGED vars => thread' = thread
    BY DEF vars, loopVars
  <1>2. \A e \in batch : DispatchQueue(e) \/ DispatchIdleClient(e)
            \/ DispatchPlayer(e) \/ DispatchGonePlayer(e) => thread' = thread
    BY DEF DispatchQueue, DispatchIdleClient, DispatchPlayer, DispatchGonePlayer
  <1>3. \A q \in Queue : Pop(q) \/ PopThrows(q) => thread' = thread
    BY DEF Pop, PopThrows
  <1>5. Start \/ WaitForEvents \/ Restart => thread' = thread
    BY DEF Start, WaitForEvents, Restart
  <1>4. Others => thread' = thread
    BY <1>5 DEF Others, Receive, HangUp, PushEvent, PushItem, loopVars
  <1> QED BY <1>1, <1>2, <1>3, <1>4, <1>5 DEF Next, Loop, GameThread

LEMMA WakeupInit == ASSUME Init PROVE WakeupInv
  BY TypeInit, EpollAssumption
  DEF Init, WakeupInv, CountedInv, DroppedItemsRemain, Registered, Awake

LEMMA WakeupStart == ASSUME GameThread, WakeupInv, Start PROVE Registered' /\ Awake'
  <1>1. Registered'
    BY DEF GameThread, WakeupInv, Registered, Start, queueVars
  <1>2. ASSUME NEW q \in Queue, data'[q] # <<>>
        PROVE  HasWakeup(q)' \/ q \in abandoned'
    <2>1. /\ UNCHANGED <<data, lock, counter, abandoned>>
          /\ popping = NoFd /\ q \notin Output
          /\ ready' = {p \in Queue \ Output : Readable(p)}
      BY <1>2 DEF Start, queueVars, WakeupInv, Registered
    <2>2. lock[q] \/ counter[q] > 0 \/ q \in abandoned
      BY <1>2, <2>1, EpollAssumption DEF WakeupInv, CountedInv, DroppedItemsRemain
    <2> QED BY <2>1, <2>2 DEF HasWakeup, Readable
  <1> QED BY <1>1, <1>2 DEF Awake

LEMMA WakeupWait == ASSUME WakeupInv, WaitForEvents PROVE Registered' /\ Awake'
  <1>1. PICK taken \in SUBSET {f \in ready : Readable(f)} :
            /\ batch' = {EventOf(f) : f \in taken}
            /\ ready' = {f \in ready : Readable(f)} \ taken
    BY DEF WaitForEvents
  <1>2. Registered'
    BY DEF WakeupInv, Registered, WaitForEvents, queueVars
  <1>3. ASSUME NEW q \in Queue, data'[q] # <<>>
        PROVE  HasWakeup(q)' \/ q \in abandoned'
    <2>1. /\ UNCHANGED <<data, lock, counter, abandoned>>
          /\ running /\ monitored # {} /\ popping # q /\ ~InBatch(q)
      BY EpollAssumption DEF WaitForEvents, queueVars, Idle, InBatch
    <2>2. lock[q] \/ (q \in ready /\ counter[q] > 0) \/ q \in abandoned
      BY <1>3, <2>1 DEF WakeupInv, Awake, HasWakeup
    <2>3. CASE q \in taken
      <3>1. EventOf(q) \in batch' /\ EventOf(q).fd = q
        BY <2>3, <1>1 DEF EventOf
      <3> QED BY <3>1 DEF InBatch, HasWakeup
    <2>4. CASE q \notin taken
      BY <2>1, <2>2, <2>4, <1>1 DEF Readable, HasWakeup
    <2> QED BY <2>3, <2>4
  <1> QED BY <1>2, <1>3 DEF Awake

LEMMA WakeupDispatchQueue ==
    ASSUME WakeupInv, NEW e \in batch, DispatchQueue(e) PROVE Registered' /\ Awake'
  <1>1. /\ popping = NoFd /\ popping' = e.fd
        /\ UNCHANGED <<data, lock, abandoned, interest, ready, monitored, running>>
        /\ \A q \in Queue \ {e.fd} : counter'[q] = counter[q]
        /\ batch' = batch \ {e}
    BY DEF DispatchQueue, WakeupInv, CountedInv, TypeOK
  <1>2. monitored # {}
    BY DEF WakeupInv, Registered
  <1>3. Registered'
    BY <1>1, <1>2 DEF WakeupInv, Registered
  <1>4. ASSUME running', NEW q \in Queue, data'[q] # <<>>
        PROVE  HasWakeup(q)' \/ q \in abandoned'
    <2>1. InBatch(q) /\ q # e.fd => InBatch(q)'
      BY <1>1 DEF InBatch
    <2> QED BY <1>1, <1>2, <1>4, <2>1, EpollAssumption DEF WakeupInv, Awake, HasWakeup
  <1> QED BY <1>3, <1>4 DEF Awake

LEMMA WakeupPop == ASSUME WakeupInv, NEW q \in Queue, Pop(q) PROVE Registered' /\ Awake'
  <1>1. /\ UNCHANGED <<lock, counter, abandoned, batch, running>>
        /\ popping = q /\ q # NoFd
        /\ data[q] # <<>> => popping' = q
        /\ data[q] = <<>> => data' = data
        /\ \A r \in Queue \ {q} : data'[r] = data[r]
    BY EpollAssumption DEF Pop, WakeupInv, CountedInv, TypeOK, HandlerGoesOn
  <1>2. /\ monitored # {} /\ Queue \ Output \subseteq interest
        /\ \A r \in Output : r # q => data[r] = <<>> /\ r \notin interest
        /\ q \in Output => data[q] = <<>> /\ q \notin interest
    BY <1>1 DEF WakeupInv, Registered
  <1>4. \A r \in Queue : InBatch(r)' = InBatch(r)
    BY <1>1 DEF InBatch
  <1>5. \/ UNCHANGED <<interest, ready, monitored>>
        \/ \E c \in Socket : Register(c)
    BY HeadIsItem DEF Pop, WakeupInv, CountedInv, TypeOK, Item
  <1>3. /\ monitored' # {} /\ ready \subseteq ready' /\ interest \subseteq interest'
        /\ interest' \cap Queue \subseteq interest
    BY <1>2, <1>5, EpollAssumption DEF Register
  <1>6. Registered'
    BY <1>1, <1>2, <1>3, EpollAssumption DEF Registered
  <1>7. ASSUME running', NEW r \in Queue, data'[r] # <<>>
        PROVE  HasWakeup(r)' \/ r \in abandoned'
    BY <1>1, <1>2, <1>3, <1>4, <1>7 DEF WakeupInv, Awake, HasWakeup
  <1> QED BY <1>6, <1>7 DEF Awake

LEMMA WakeupDispatchPlayer ==
    ASSUME WakeupInv, NEW e \in batch, DispatchPlayer(e) PROVE Registered' /\ Awake'
  <1>1. /\ e.fd \in Socket
        /\ UNCHANGED queueVars /\ popping' = popping
        /\ running' => running
        /\ \A q \in Queue : q \in interest <=> q \in interest'
        /\ \A q \in Queue : q \in ready => q \in ready'
        /\ batch' = batch \ {e}
    BY EpollAssumption DEF DispatchPlayer, Leaving, RestOfBatch
  <1>2. monitored # {} /\ Queue \ Output \subseteq interest
    BY DEF WakeupInv, Registered
  <1>3. monitored' # {} /\ Queue \ Output \subseteq interest'
    BY <1>1, <1>2, TypeDispatchPlayer, EpollAssumption DEF WakeupInv, CountedInv, TypeOK
  <1>4. \A q \in Queue : InBatch(q) => InBatch(q)'
    BY <1>1, EpollAssumption DEF InBatch
  <1>5. Registered'
    BY <1>1, <1>3, EpollAssumption DEF WakeupInv, Registered, queueVars
  <1>6. Awake'
    BY <1>1, <1>2, <1>4 DEF WakeupInv, Awake, HasWakeup, queueVars
  <1> QED BY <1>5, <1>6

LEMMA WakeupPushItem ==
    ASSUME WakeupInv, NEW q \in Queue, NEW item \in Item, PushItem(q, item)
    PROVE  Registered' /\ Awake'
  <1>1. /\ lock'[q] /\ \A r \in Queue \ {q} : /\ lock'[r] = lock[r] /\ data'[r] = data[r]
                                              /\ r \in abandoned => r \in abandoned'
        /\ UNCHANGED <<counter, interest, ready, loopVars>>
    BY DEF PushItem, WakeupInv, CountedInv, TypeOK
  <1>2. \A r \in Queue : InBatch(r)' = InBatch(r)
    BY <1>1 DEF InBatch, loopVars
  <1>3. q \notin Output
    BY DEF PushItem, WakeupInv, Registered
  <1>4. Registered'
    BY <1>1, <1>3, EpollAssumption DEF WakeupInv, Registered, loopVars
  <1>5. Awake'
    BY <1>1, <1>2 DEF WakeupInv, Awake, HasWakeup, loopVars
  <1> QED BY <1>4, <1>5

LEMMA WakeupPushEvent ==
    ASSUME WakeupInv, NEW q \in Queue, PushEvent(q) PROVE Registered' /\ Awake'
  <1>1. /\ counter'[q] > 0
        /\ \A r \in Queue \ {q} : counter'[r] = counter[r] /\ lock'[r] = lock[r]
        /\ ready' = ready \cup ({q} \cap interest)
        /\ UNCHANGED <<data, abandoned, interest, loopVars>>
    BY DEF PushEvent, Edge, WakeupInv, CountedInv, TypeOK
  <1>2. \A r \in Queue : InBatch(r)' = InBatch(r)
    BY <1>1 DEF InBatch, loopVars
  <1> QED BY <1>1, <1>2 DEF WakeupInv, Registered, Awake, HasWakeup, loopVars

\* Nothing the peers do disturbs the queues.
LEMMA WakeupPeer ==
    ASSUME WakeupInv, NEW s \in Socket, Receive(s) \/ HangUp(s) PROVE Registered' /\ Awake'
  <1>1. ready' = ready \cup ({s} \cap interest)
        /\ UNCHANGED <<queueVars, interest, loopVars>>
    BY DEF Receive, HangUp, Edge
  <1>2. \A r \in Queue : InBatch(r)' = InBatch(r)
    BY <1>1 DEF InBatch, loopVars
  <1> QED BY <1>1, <1>2 DEF WakeupInv, Registered, Awake, HasWakeup, loopVars, queueVars

\* A loop that has been ended by an exception waits for nothing.
LEMMA WakeupEnd ==
    ASSUME WakeupInv,
           \/ \E q \in Queue : PopThrows(q)
           \/ \E e \in batch : DispatchGonePlayer(e)
    PROVE  Registered' /\ Awake'
  <1>1. ~running' /\ UNCHANGED <<data, interest, monitored>>
    BY DEF PopThrows, DispatchGonePlayer, queueVars
  <1>2. monitored # {}
    BY EpollAssumption
    DEF PopThrows, DispatchGonePlayer, WakeupInv, CountedInv, Registered, TypeOK
  <1>3. Registered'
    BY <1>1, <1>2 DEF WakeupInv, Registered
  <1> QED BY <1>1, <1>3 DEF Awake

\* The next game has registered nothing yet.
LEMMA WakeupRestart == ASSUME WakeupInv, Restart PROVE Registered' /\ Awake'
  BY DEF WakeupInv, Registered, Awake, Restart, Idle, queueVars

LEMMA WakeupNext == ASSUME GameThread, WakeupInv, [Next]_vars PROVE WakeupInv'
  <1>1. ASSUME UNCHANGED vars PROVE Registered' /\ Awake'
    BY <1>1 DEF WakeupInv, Registered, Awake, HasWakeup, InBatch,
                vars, queueVars, socketVars, loopVars
  <1>2. \A e \in batch : ~DispatchIdleClient(e)
    BY DEF GameThread, DispatchIdleClient
  <1>3. Registered' /\ Awake'
    BY <1>1, <1>2, NextSteps, WakeupStart, WakeupWait, WakeupDispatchQueue, WakeupPop,
       WakeupDispatchPlayer, WakeupPushItem, WakeupPushEvent, WakeupPeer, WakeupEnd,
       WakeupRestart
  <1>4. CountedInv'
    BY TypeNext, CountedNext DEF WakeupInv, CountedInv
  <1> QED BY <1>3, <1>4 DEF WakeupInv

\* In a game thread an item pushed into the queue is never left without a wake-up,
\* however the push, the event and the handler interleave and whichever game on that
\* queue it is, but for a queue whose handler has thrown since the last push.
THEOREM WakeupsNotLost == Spec => []NoLostWakeup
  <1> DEFINE Inv == GameThread => WakeupInv
  <1>1. Init => Inv
    BY WakeupInit
  <1>2. Inv /\ [Next]_vars => Inv'
    BY WakeupNext, GameThreadStays
  <1>3. Inv => NoLostWakeup
    BY DEF WakeupInv, Awake, GameThread, NoLostWakeup
  <1> QED BY <1>1, <1>2, <1>3, PTL DEF Spec

-----------------------------------------------------------------------------
(* The sockets of a game thread                                             *)

\* A hang-up the event of the batch does not know of has raised an edge.
HangupsReported ==
    \A e \in batch : e.fd \in interest \cap Socket /\ hup[e.fd] => e.hup \/ e.fd \in ready

Reported(s) ==
    unread[s] > 0 \/ hup[s] => \/ InBatch(s)
                               \/ s \in ready
                               \/ full[s] /\ ~hup[s]

UnreadInv ==
    /\ TypeOK /\ HangupsReported
    /\ running => \A s \in interest \cap Socket : Reported(s)

LEMMA UnreadInit == ASSUME Init PROVE UnreadInv
  BY TypeInit DEF Init, UnreadInv, HangupsReported

LEMMA UnreadStart == ASSUME UnreadInv, Start PROVE UnreadInv'
  <1>1. interest' \cap Socket = {}
    BY EpollAssumption DEF Start
  <1> QED BY <1>1, TypeStart DEF UnreadInv, HangupsReported

LEMMA UnreadWait == ASSUME UnreadInv, WaitForEvents PROVE UnreadInv'
  <1>1. PICK taken \in SUBSET {f \in ready : Readable(f)} :
            /\ batch' = {EventOf(f) : f \in taken}
            /\ ready' = {f \in ready : Readable(f)} \ taken
    BY DEF WaitForEvents
  <1>2. /\ running /\ batch = {}
        /\ UNCHANGED <<socketVars, interest, full>>
    BY DEF WaitForEvents, Idle
  <1>3. ASSUME NEW e \in batch', e.fd \in Socket PROVE e.hup = hup[e.fd]
    <2>1. PICK f \in taken : e = EventOf(f)
      BY <1>1
    <2> QED BY <2>1, <1>3 DEF EventOf
  <1>4. HangupsReported'
    BY <1>2, <1>3 DEF HangupsReported, UnreadInv, socketVars
  <1>5. ASSUME NEW s \in interest \cap Socket PROVE Reported(s)'
    <2>1. CASE s \in taken
      <3>1. EventOf(s) \in batch' /\ EventOf(s).fd = s
        BY <2>1, <1>1 DEF EventOf
      <3> QED BY <3>1 DEF Reported, InBatch
    <2>2. CASE s \notin taken
      <3>1. Reported(s) /\ ~InBatch(s)
        BY <1>2 DEF UnreadInv, InBatch
      <3> QED BY <3>1, <2>2, <1>1, <1>2 DEF Reported, Readable, socketVars
    <2> QED BY <2>1, <2>2
  <1> QED BY <1>2, <1>4, <1>5, TypeWait DEF UnreadInv

LEMMA UnreadDispatchQueue ==
    ASSUME UnreadInv, NEW e \in batch, DispatchQueue(e) PROVE UnreadInv'
  <1>1. /\ e.fd \in Queue /\ batch' = batch \ {e}
        /\ UNCHANGED <<socketVars, interest, ready, full, running>>
    BY DEF DispatchQueue
  <1>2. \A s \in Socket : InBatch(s) => InBatch(s)'
    BY <1>1, EpollAssumption DEF InBatch
  <1> QED BY <1>1, <1>2, TypeDispatchQueue
          DEF UnreadInv, HangupsReported, Reported, socketVars

LEMMA UnreadPop == ASSUME UnreadInv, NEW q \in Queue, Pop(q) PROVE UnreadInv'
  <1>1. UNCHANGED <<socketVars, batch, running>>
    BY DEF Pop
  <1>2. \A s \in Socket : InBatch(s)' = InBatch(s)
    BY <1>1 DEF InBatch
  <1>3. CASE UNCHANGED <<interest, ready, monitored, epoch, full>>
    BY <1>1, <1>2, <1>3, TypePop DEF UnreadInv, HangupsReported, Reported, socketVars
  <1>4. ASSUME NEW c \in Socket, Register(c) PROVE UnreadInv'
    <2>1. /\ interest' = interest \cup {c} /\ ready \subseteq ready'
          /\ unread[c] > 0 \/ hup[c] => c \in ready'
          /\ \A s \in Socket \ {c} : full'[s] = full[s]
      BY <1>4 DEF Register, Readable, UnreadInv, TypeOK
    <2> QED BY <1>1, <1>2, <2>1, TypePop
            DEF UnreadInv, HangupsReported, Reported, socketVars
  <1> QED BY <1>3, <1>4, HeadIsItem DEF Pop, UnreadInv, TypeOK, Item

LEMMA UnreadDispatchPlayer ==
    ASSUME UnreadInv, NEW e \in batch, DispatchPlayer(e) PROVE UnreadInv'
  <1> DEFINE p == e.fd
  <1>1. /\ p \in Socket /\ p \in interest /\ Read(p) /\ hup' = hup /\ batch' = batch \ {e}
        /\ running' => running
    BY DEF DispatchPlayer, RestOfBatch
  <1>2. PICK closed \in SUBSET Socket :
            /\ interest' = interest \ closed
            /\ ready' = ready \ closed
            /\ e.hup => p \in closed
    BY <1>1, ZenonT(30) DEF DispatchPlayer, Leaving
  <1>3. HangupsReported'
    BY <1>1, <1>2 DEF UnreadInv, HangupsReported
  <1>4. ASSUME running', NEW s \in interest' \cap Socket, s # p PROVE Reported(s)'
    <2>1. Reported(s) /\ unread'[s] = unread[s] /\ full'[s] = full[s]
      BY <1>1, <1>2, <1>4 DEF UnreadInv, TypeOK, Read
    <2>2. InBatch(s) => InBatch(s)'
      BY <1>1, <1>4 DEF InBatch
    <2> QED BY <2>1, <2>2, <1>1, <1>2, <1>4 DEF Reported
  <1>5. ASSUME running', p \in interest' PROVE Reported(p)'
    <2>1. hup[p] => p \in ready'
      BY <1>1, <1>2, <1>5 DEF UnreadInv, HangupsReported
    <2>2. unread'[p] > 0 => full'[p]
      <3>1. /\ unread[p] \in Nat
            /\ unread'[p] = IF unread[p] > Buffer THEN unread[p] - Buffer ELSE 0
            /\ full'[p] = (unread[p] >= Buffer)
        BY <1>1 DEF UnreadInv, TypeOK, Read
      <3>2. unread'[p] > 0 => unread[p] >= Buffer
        BY <3>1, EpollAssumption
      <3> QED BY <3>1, <3>2
    <2> QED BY <2>1, <2>2, <1>1 DEF Reported
  <1> QED BY <1>3, <1>4, <1>5, TypeDispatchPlayer DEF UnreadInv

LEMMA UnreadPeer ==
    ASSUME UnreadInv, NEW s \in Socket, Receive(s) \/ HangUp(s) PROVE UnreadInv'
  <1>1. /\ ready' = ready \cup ({s} \cap interest)
        /\ UNCHANGED <<queueVars, interest, loopVars>>
        /\ \A t \in Socket \ {s} : unread'[t] = unread[t] /\ hup'[t] = hup[t]
    BY DEF Receive, HangUp, Edge, UnreadInv, TypeOK
  <1>2. \A t \in Socket : InBatch(t)' = InBatch(t)
    BY <1>1 DEF InBatch, loopVars
  <1> QED BY <1>1, <1>2, TypeReceive, TypeHangUp
          DEF UnreadInv, HangupsReported, Reported, loopVars

\* A push adds at most the edge of a queue.
LEMMA UnreadPush ==
    ASSUME UnreadInv, NEW q \in Queue,
           PushEvent(q) \/ \E item \in Item : PushItem(q, item)
    PROVE  UnreadInv'
  <1>1. ready \subseteq ready' /\ UNCHANGED <<socketVars, interest, loopVars>>
    BY DEF PushEvent, PushItem, Edge
  <1>2. \A t \in Socket : InBatch(t)' = InBatch(t)
    BY <1>1 DEF InBatch, loopVars
  <1> QED BY <1>1, <1>2, TypePushEvent, TypePushItem
          DEF UnreadInv, HangupsReported, Reported, loopVars, socketVars

LEMMA UnreadEnd ==
    ASSUME UnreadInv,
           \/ \E q \in Queue : PopThrows(q)
           \/ \E e \in batch : DispatchGonePlayer(e)
    PROVE  UnreadInv'
  <1>1. ~running' /\ batch' = {}
    BY DEF PopThrows, DispatchGonePlayer
  <1> QED BY <1>1, TypePopThrows, TypeDispatchGonePlayer DEF UnreadInv, HangupsReported

\* The next game has no client yet.
LEMMA UnreadRestart == ASSUME UnreadInv, Restart PROVE UnreadInv'
  BY TypeRestart DEF UnreadInv, HangupsReported, Restart

LEMMA UnreadNext == ASSUME GameThread, UnreadInv, [Next]_vars PROVE UnreadInv'
  <1>1. ASSUME UNCHANGED vars PROVE UnreadInv'
    <2>1. TypeOK'
      BY <1>1, TypeNext DEF UnreadInv
    <2> QED BY <1>1, <2>1 DEF UnreadInv, HangupsReported, Reported, InBatch,
                              vars, queueVars, socketVars, loopVars
  <1>2. \A e \in batch : ~DispatchIdleClient(e)
    BY DEF GameThread, DispatchIdleClient
  <1> QED
    BY <1>1, <1>2, NextSteps, UnreadStart, UnreadWait, UnreadDispatchQueue, UnreadPop,
       UnreadDispatchPlayer, UnreadPeer, UnreadPush, UnreadEnd, UnreadRestart

\* In a game thread what a player has sent, and that he has hung up, is always
\* reported, but for what a read that filled the buffer has left in the socket.
THEOREM UnreadReported == Spec => []UnreadIsReported
  <1> DEFINE Inv == GameThread => UnreadInv
  <1>1. Init => Inv
    BY UnreadInit
  <1>2. Inv /\ [Next]_vars => Inv'
    BY UnreadNext, GameThreadStays
  <1>3. Inv => UnreadIsReported
    BY DEF UnreadInv, UnreadIsReported, Reported, GameThread
  <1> QED BY <1>1, <1>2, <1>3, PTL DEF Spec

-----------------------------------------------------------------------------
(* Registrations, in both threads                                           *)

\* A client in a queue is registered nowhere, and is there once.
QueuedOnce ==
    \A q \in Queue : \A k \in DOMAIN data[q] :
        data[q][k] \in Socket =>
            /\ data[q][k] \notin interest \cup gone
            /\ \A r \in Queue : \A l \in DOMAIN data[r] :
                  data[q][k] = data[r][l] => q = r /\ k = l

\* A socket with an event in the batch is registered, or closed.
Batched == \A e \in batch : e.fd \in Socket => e.fd \in interest \cup gone

FreshInv == TypeOK /\ QueuedOnce /\ Batched /\ NoStaleEvents

LEMMA FreshInit == ASSUME Init PROVE FreshInv
  BY TypeInit DEF Init, FreshInv, QueuedOnce, Batched, NoStaleEvents

LEMMA FreshStart == ASSUME FreshInv, Start PROVE FreshInv'
  <1>1. interest = {} /\ interest' \cap Socket = {} /\ monitored' \cap Socket = {}
        /\ UNCHANGED <<data, gone, batch>>
    BY EpollAssumption DEF FreshInv, TypeOK, Start, queueVars
  <1> QED BY <1>1, TypeStart DEF FreshInv, QueuedOnce, Batched, NoStaleEvents

LEMMA FreshWait == ASSUME FreshInv, WaitForEvents PROVE FreshInv'
  <1>1. PICK taken \in SUBSET ready : batch' = {EventOf(f) : f \in taken}
    BY DEF WaitForEvents
  <1>2. UNCHANGED <<data, interest, monitored, epoch, gone>>
    BY DEF WaitForEvents, queueVars
  <1>3. ASSUME NEW e \in batch', e.fd \in Socket
        PROVE  e.fd \in interest /\ e.epoch = epoch[e.fd]
    <2>1. PICK f \in taken : e = EventOf(f)
      BY <1>1
    <2> QED BY <2>1, <1>3 DEF EventOf, FreshInv, TypeOK
  <1> QED BY <1>2, <1>3, TypeWait DEF FreshInv, QueuedOnce, Batched, NoStaleEvents

\* A step that registers nobody, queues nobody and dispatches a part of the batch.
LEMMA FreshShrinks ==
    ASSUME FreshInv, TypeOK',
           batch' \subseteq batch, UNCHANGED <<data, epoch>>,
           monitored' \cap Socket \subseteq monitored,
           (interest' \cup gone') \cap Socket \subseteq interest \cup gone,
           batch' = {} \/ interest \cup gone \subseteq interest' \cup gone'
    PROVE  FreshInv'
  <1>1. QueuedOnce'
    BY DEF FreshInv, QueuedOnce
  <1>2. Batched' /\ NoStaleEvents'
    BY DEF FreshInv, Batched, NoStaleEvents
  <1> QED BY <1>1, <1>2 DEF FreshInv

LEMMA FreshDispatchIdleClient ==
    ASSUME FreshInv, NEW e \in batch, DispatchIdleClient(e) PROVE FreshInv'
  <1>1. PICK out \in Leaving(e.fd) : \E added \in OutputOf(out) :
          LET removed == IF out = {} /\ e.hup THEN {e.fd} ELSE out
          IN  /\ monitored' = (monitored \ removed) \cup added
              /\ interest' = (interest \ removed) \cup added
              /\ batch' = IF removed = {} THEN batch \ {e} ELSE Return(batch \ {e})
    BY DEF DispatchIdleClient
  <1> DEFINE removed == IF out = {} /\ e.hup THEN {e.fd} ELSE out
  <1>2. PICK added \in OutputOf(out) :
          /\ monitored' = (monitored \ removed) \cup added
          /\ interest' = (interest \ removed) \cup added
          /\ batch' = IF removed = {} THEN batch \ {e} ELSE Return(batch \ {e})
    BY <1>1
  <1>3. added \cap Socket = {}
    BY <1>2, EpollAssumption DEF OutputOf
  <1>4. UNCHANGED <<data, epoch, gone>>
    BY DEF DispatchIdleClient, queueVars
  <1>5. batch' \subseteq batch /\ (batch' = {} \/ removed = {})
    BY <1>2 DEF Return
  <1>6. TypeOK'
    BY TypeDispatchIdleClient DEF FreshInv
  <1> QED BY <1>2, <1>3, <1>4, <1>5, <1>6, FreshShrinks

LEMMA FreshDispatchPlayer ==
    ASSUME FreshInv, NEW e \in batch, DispatchPlayer(e) PROVE FreshInv'
  <1>1. PICK closed \in SUBSET interest :
            interest' = interest \ closed /\ gone' = gone \cup closed
    BY DEF DispatchPlayer, Leaving
  <1>2. /\ batch' \subseteq batch /\ monitored' \subseteq monitored
        /\ UNCHANGED <<data, epoch>>
    BY DEF DispatchPlayer, RestOfBatch, queueVars
  <1>3. TypeOK'
    BY TypeDispatchPlayer DEF FreshInv
  <1> QED BY <1>1, <1>2, <1>3, FreshShrinks

LEMMA FreshPop == ASSUME FreshInv, NEW q \in Queue, Pop(q) PROVE FreshInv'
  <1>1. UNCHANGED <<batch, gone>> /\ TypeOK'
    BY TypePop DEF Pop, FreshInv
  <1>2. CASE UNCHANGED <<data, interest, monitored, epoch>>
    BY <1>1, <1>2, FreshShrinks
  <1>3. ASSUME data[q] # <<>>, data' = [data EXCEPT ![q] = Tail(@)]
        PROVE  \A r \in Queue : \A k \in DOMAIN data'[r] :
                  \E l \in DOMAIN data[r] :
                      /\ data'[r][k] = data[r][l]
                      /\ l = (IF r = q THEN k + 1 ELSE k)
    <2>1. data \in [Queue -> Seq(Item)]
      BY DEF FreshInv, TypeOK
    <2>2. ASSUME NEW k \in DOMAIN Tail(data[q])
          PROVE  k + 1 \in DOMAIN data[q] /\ Tail(data[q])[k] = data[q][k + 1]
      BY <1>3, <2>1
    <2> QED BY <1>3, <2>1, <2>2
  <1>4. CASE data[q] # <<>> /\ data' = [data EXCEPT ![q] = Tail(@)]
             /\ UNCHANGED <<interest, ready, monitored, epoch, full>>
    <2>1. QueuedOnce'
      BY <1>1, <1>3, <1>4 DEF FreshInv, QueuedOnce
    <2> QED BY <1>1, <1>4, <2>1 DEF FreshInv, Batched, NoStaleEvents
  <1>5. ASSUME data[q] # <<>>, data' = [data EXCEPT ![q] = Tail(@)],
               NEW c \in Socket, c = Head(data[q]), Register(c)
        PROVE  FreshInv'
    <2>1. 1 \in DOMAIN data[q] /\ c = data[q][1]
      BY <1>5 DEF FreshInv, TypeOK
    <2>2. c \notin interest \cup gone
      BY <2>1 DEF FreshInv, QueuedOnce
    <2>3. /\ interest' = interest \cup {c} /\ monitored' = monitored \cup {c}
          /\ \A s \in Socket \ {c} : epoch'[s] = epoch[s]
      BY <1>5 DEF Register, FreshInv, TypeOK
    <2>4. \A e \in batch : e.fd # c
      BY <2>2 DEF FreshInv, Batched
    <2>5. Batched' /\ NoStaleEvents'
      BY <1>1, <2>3, <2>4 DEF FreshInv, Batched, NoStaleEvents
    <2>7. ASSUME NEW r \in Queue, NEW k \in DOMAIN data'[r] PROVE k \in Nat \ {0}
      <3>1. data'[r] \in Seq(Item)
        BY <1>1 DEF TypeOK
      <3> QED BY <3>1
    <2>6. \A r \in Queue : \A k \in DOMAIN data'[r] : data'[r][k] # c
      <3> SUFFICES ASSUME NEW r \in Queue, NEW k \in DOMAIN data'[r], data'[r][k] = c
                   PROVE  FALSE
        OBVIOUS
      <3>1. PICK l \in DOMAIN data[r] : c = data[r][l] /\ l = (IF r = q THEN k + 1 ELSE k)
        BY <1>3, <1>5
      <3>2. r = q /\ l = 1
        <4>1. data[q][1] \in Socket /\ data[q][1] = data[r][l]
          BY <2>1, <3>1, <1>5
        <4> QED BY <4>1, <2>1, <3>1 DEF FreshInv, QueuedOnce
      <3>3. k \in Nat \ {0}
        BY <2>7
      <3>4. k + 1 = 1
        BY <3>1, <3>2
      <3> QED BY <3>3, <3>4
    <2>8. QueuedOnce'
      <3> SUFFICES ASSUME NEW r \in Queue, NEW k \in DOMAIN data'[r], data'[r][k] \in Socket
                   PROVE  /\ data'[r][k] \notin interest' \cup gone'
                          /\ \A t \in Queue : \A l \in DOMAIN data'[t] :
                                data'[r][k] = data'[t][l] => r = t /\ k = l
        BY DEF QueuedOnce
      <3>1. data'[r][k] \notin interest' \cup gone'
        BY <1>1, <1>3, <1>5, <2>3, <2>6 DEF FreshInv, QueuedOnce
      <3>2. ASSUME NEW t \in Queue, NEW l \in DOMAIN data'[t], data'[r][k] = data'[t][l]
            PROVE  r = t /\ k = l
        <4>1. PICK i \in DOMAIN data[r] :
                  data'[r][k] = data[r][i] /\ i = (IF r = q THEN k + 1 ELSE k)
          BY <1>3, <1>5
        <4>2. PICK j \in DOMAIN data[t] :
                  data'[t][l] = data[t][j] /\ j = (IF t = q THEN l + 1 ELSE l)
          BY <1>3, <1>5
        <4>3. r = t /\ i = j
          <5>1. data[r][i] \in Socket /\ data[r][i] = data[t][j]
            BY <3>2, <4>1, <4>2
          <5> QED BY <4>1, <4>2, <5>1 DEF FreshInv, QueuedOnce
        <4>4. k \in Nat /\ l \in Nat
          BY <2>7
        <4>5. k = l \/ k + 1 = l + 1
          BY <4>1, <4>2, <4>3
        <4> QED BY <4>3, <4>4, <4>5
      <3> QED BY <3>1, <3>2
    <2> QED BY <1>1, <2>5, <2>8 DEF FreshInv
  <1> QED
    BY <1>1, <1>2, <1>4, <1>5, HeadIsItem DEF Pop, FreshInv, TypeOK, Item

LEMMA FreshPushItem ==
    ASSUME FreshInv, NEW q \in Queue, NEW item \in Item, PushItem(q, item)
    PROVE  FreshInv'
  <1>1. /\ data' = [data EXCEPT ![q] = Append(@, item)]
        /\ item # Report => Elsewhere(item)
        /\ UNCHANGED <<interest, monitored, epoch, batch, gone>>
    BY DEF PushItem, loopVars
  <1>2. TypeOK' /\ data \in [Queue -> Seq(Item)]
    BY TypePushItem DEF FreshInv, TypeOK
  <1>3. ASSUME NEW r \in Queue, NEW k \in DOMAIN data'[r]
        PROVE  \/ k \in DOMAIN data[r] /\ data'[r][k] = data[r][k]
               \/ r = q /\ k = Len(data[q]) + 1 /\ data'[r][k] = item
    BY <1>1, <1>2
  <1>4. item \in Socket =>
            /\ item \notin interest \cup gone
            /\ \A r \in Queue : \A k \in DOMAIN data[r] : data[r][k] # item
    BY <1>1, EpollAssumption DEF Elsewhere
  <1>5. QueuedOnce'
    BY <1>1, <1>3, <1>4 DEF FreshInv, QueuedOnce
  <1> QED BY <1>1, <1>2, <1>5 DEF FreshInv, Batched, NoStaleEvents

LEMMA FreshNext == ASSUME FreshInv, [Next]_vars PROVE FreshInv'
  <1>1. TypeOK'
    BY TypeNext DEF FreshInv
  <1>2. ASSUME UNCHANGED vars PROVE FreshInv'
    BY <1>1, <1>2, FreshShrinks DEF vars, queueVars, loopVars
  <1>3. ASSUME NEW e \in batch, DispatchQueue(e) PROVE FreshInv'
    BY <1>1, <1>3, FreshShrinks DEF DispatchQueue
  <1>4. ASSUME NEW e \in batch, DispatchGonePlayer(e) PROVE FreshInv'
    BY <1>1, <1>4, FreshShrinks DEF DispatchGonePlayer, queueVars
  <1>5. ASSUME NEW q \in Queue, PopThrows(q) PROVE FreshInv'
    BY <1>1, <1>5, FreshShrinks DEF PopThrows
  <1>6. ASSUME NEW s \in Socket, Receive(s) PROVE FreshInv'
    BY <1>1, <1>6, FreshShrinks DEF Receive, queueVars, loopVars
  <1>7. ASSUME NEW s \in Socket, HangUp(s) PROVE FreshInv'
    BY <1>1, <1>7, FreshShrinks DEF HangUp, queueVars, loopVars
  <1>8. ASSUME NEW q \in Queue, PushEvent(q) PROVE FreshInv'
    BY <1>1, <1>8, FreshShrinks DEF PushEvent, loopVars
  <1>9. ASSUME Restart PROVE FreshInv'
    BY <1>1, <1>9, FreshShrinks DEF Restart, Idle, queueVars
  <1> QED
    BY <1>2, <1>3, <1>4, <1>5, <1>6, <1>7, <1>8, <1>9, NextSteps, FreshStart, FreshWait,
       FreshDispatchIdleClient, FreshDispatchPlayer, FreshPop, FreshPushItem

\* In both threads an event is dispatched to the registration it was raised for.
THEOREM EventsNotStale == Spec => []NoStaleEvents
  <1>1. FreshInv => NoStaleEvents
    BY DEF FreshInv
  <1> QED BY <1>1, FreshInit, FreshNext, PTL DEF Spec
=============================================================================
