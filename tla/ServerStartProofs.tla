------------------------- MODULE ServerStartProofs -------------------------
(***************************************************************************)
(* What is proved of the start of the server: until the idle thread runs,  *)
(* clients wait where nothing loses them, and a failure tells how far the  *)
(* start has got.                                                          *)
(***************************************************************************)
EXTENDS ServerStart, TLAPS

\* How much of the server there is, and which threads run, follows from what the
\* main thread has done. Without a complete server no client is in the queue.
StartInv ==
    /\ main \in {"config", "listen"} => server = "none"
    /\ main \in {"thread", "derive"} => server = "base"
    /\ main = "queue" => server = "derived"
    /\ main \in {"room", "idle", "join"} => server = "complete"
    /\ accept = "none" <=> main \in {"config", "listen", "thread"}
    /\ idle <=> main = "join"
    /\ server # "complete" => newClients = <<>>
    /\ ~idle => taken = {}

IInv == TypeOK /\ StartInv /\ FailuresTellProgress

LEMMA InitInv == Init => IInv
<1> SUFFICES ASSUME Init PROVE IInv
  OBVIOUS
<1>1. /\ main = "config" /\ server = "none" /\ accept = "none" /\ ~idle /\ idle \in BOOLEAN
      /\ backlog = {} /\ newClients = <<>> /\ event \in BOOLEAN
      /\ taken = {} /\ process = "up"
  BY DEF Init
<1>2. TypeOK
  BY <1>1 DEF TypeOK, MainStep, Construction
<1>3. StartInv
  BY <1>1 DEF StartInv
<1>4. FailuresTellProgress
  BY <1>1 DEF FailuresTellProgress
<1> QED
  BY <1>2, <1>3, <1>4 DEF IInv

LEMMA QueueGrows ==
    ASSUME NEW s \in Seq(Client), NEW c \in Client
    PROVE  /\ Append(s, c) \in Seq(Client) /\ Append(s, c) # <<>>
           /\ {Append(s, c)[k] : k \in DOMAIN Append(s, c)} = {s[k] : k \in DOMAIN s} \cup {c}
<1>1. /\ Len(s) \in Nat /\ DOMAIN s = 1 .. Len(s)
      /\ Append(s, c) \in Seq(Client) /\ Append(s, c) # <<>>
      /\ DOMAIN Append(s, c) = 1 .. Len(s) + 1
      /\ \A k \in 1 .. Len(s) : Append(s, c)[k] = s[k]
      /\ Append(s, c)[Len(s) + 1] = c
  OBVIOUS
<1> QED
  BY <1>1

LEMMA MainKeepsInv == IInv /\ process = "up" /\ Main => IInv'
<1> SUFFICES ASSUME IInv, process = "up", Main PROVE IInv'
  OBVIOUS
<1>0. CASE Throw
  BY <1>0 DEF Throw, IInv, TypeOK, StartInv, FailuresTellProgress, MainStep, End
<1>1. CASE ParseServerConfig /\ ~Throw
  <2>1. /\ main = "config" /\ main' = "listen"
        /\ UNCHANGED <<server, accept, idle, backlog, newClients, event, taken, process>>
    BY <1>1 DEF ParseServerConfig
  <2> QED
    BY <2>1 DEF IInv, TypeOK, StartInv, FailuresTellProgress, MainStep, Construction
<1>2. CASE Listen /\ ~Throw
  <2>1. /\ main = "listen" /\ main' = "thread" /\ server' = "base"
        /\ UNCHANGED <<accept, idle, backlog, newClients, event, taken, process>>
    BY <1>2 DEF Listen
  <2> QED
    BY <2>1 DEF IInv, TypeOK, StartInv, FailuresTellProgress, MainStep, Construction
<1>3. CASE StartAcceptThread /\ ~Throw
  <2>1. /\ main = "thread" /\ main' = "derive" /\ accept' = "waiting"
        /\ UNCHANGED <<server, idle, backlog, newClients, event, taken, process>>
    BY <1>3 DEF StartAcceptThread
  <2> QED
    BY <2>1 DEF IInv, TypeOK, StartInv, FailuresTellProgress, MainStep, Construction
<1>4. CASE Derive
  <2>1. /\ main = "derive" /\ main' = "queue" /\ server' = "derived"
        /\ UNCHANGED <<accept, idle, backlog, newClients, event, taken, process>>
    BY <1>4 DEF Derive
  <2> QED
    BY <2>1 DEF IInv, TypeOK, StartInv, FailuresTellProgress, MainStep, Construction
<1>5. CASE ConstructQueue /\ ~Throw
  <2>1. /\ main = "queue" /\ main' = "room" /\ server' = "complete"
        /\ UNCHANGED <<accept, idle, backlog, newClients, event, taken, process>>
    BY <1>5 DEF ConstructQueue
  <2> QED
    BY <2>1 DEF IInv, TypeOK, StartInv, FailuresTellProgress, MainStep, Construction
<1>6. CASE ConstructIdleRoom /\ ~Throw
  <2>1. /\ main = "room" /\ main' = "idle"
        /\ UNCHANGED <<server, accept, idle, backlog, newClients, event, taken, process>>
    BY <1>6 DEF ConstructIdleRoom
  <2> QED
    BY <2>1 DEF IInv, TypeOK, StartInv, FailuresTellProgress, MainStep, Construction
<1>7. CASE StartIdleThread /\ ~Throw
  <2>1. /\ main = "idle" /\ main' = "join" /\ idle' = TRUE
        /\ UNCHANGED <<server, accept, backlog, newClients, event, taken, process>>
    BY <1>7 DEF StartIdleThread
  <2> QED
    BY <2>1 DEF IInv, TypeOK, StartInv, FailuresTellProgress, MainStep, Construction
<1> QED
  BY <1>0, <1>1, <1>2, <1>3, <1>4, <1>5, <1>6, <1>7 DEF Main

LEMMA AcceptKeepsInv ==
    ASSUME IInv, process = "up", NEW c \in Client \cup {NoClient}, TcpAcceptLoop(c) PROVE IInv'
BY StartAssumption
   DEF TcpAcceptLoop, Accepted, IInv, TypeOK, StartInv, FailuresTellProgress, End

LEMMA HandlerKeepsInv == IInv /\ process = "up" /\ NewClientConnectedHandler => IInv'
<1> SUFFICES ASSUME IInv, process = "up", NewClientConnectedHandler PROVE IInv'
  OBVIOUS
<1> USE DEF IInv, TypeOK, StartInv, FailuresTellProgress, MainStep, Construction, End
<1>0. accept \in Client
  BY DEF NewClientConnectedHandler
<1>1. CASE server = "complete"
  <2>1. newClients' = Append(newClients, accept) /\ newClients' \in Seq(Client)
    BY <1>0, <1>1, QueueGrows DEF NewClientConnectedHandler, Push
  <2> QED
    BY <1>0, <1>1, <2>1, StartAssumption DEF NewClientConnectedHandler
<1>2. CASE server # "complete"
  BY <1>0, <1>2, StartAssumption DEF NewClientConnectedHandler
<1> QED
  BY <1>1, <1>2

LEMMA NextInv == IInv /\ [Next]_vars => IInv'
<1> SUFFICES ASSUME IInv, [Next]_vars PROVE IInv'
  OBVIOUS
<1>1. CASE process = "up" /\ Main
  BY <1>1, MainKeepsInv
<1>2. ASSUME NEW c \in backlog, process = "up", TcpAcceptLoop(c) PROVE IInv'
  BY <1>2, AcceptKeepsInv DEF IInv, TypeOK
<1>3. CASE process = "up" /\ AcceptFails
  BY <1>3, AcceptKeepsInv DEF AcceptFails
<1>4. CASE process = "up" /\ NewClientConnectedHandler
  BY <1>4, HandlerKeepsInv
<1>5. CASE process = "up" /\ TakeClients
  <2>1. Queued \subseteq Client
    BY DEF IInv, TypeOK, Queued
  <2>2. /\ taken' = taken \cup Queued /\ newClients' = <<>> /\ event' = FALSE /\ idle
        /\ UNCHANGED <<main, server, accept, idle, backlog, process>>
    BY <1>5 DEF TakeClients, Queued
  <2>3. event' \in BOOLEAN
    BY <2>2, Zenon
  <2>4. newClients' \in Seq(Client)
    BY <2>2
  <2>5. TypeOK'
    BY <2>1, <2>2, <2>3, <2>4 DEF IInv, TypeOK
  <2>6. StartInv' /\ FailuresTellProgress'
    BY <1>5, <2>2 DEF IInv, StartInv, FailuresTellProgress
  <2> QED
    BY <2>5, <2>6 DEF IInv
<1>6. CASE process = "up" /\ IdleThrows
  BY <1>6 DEF IdleThrows, IInv, TypeOK, StartInv, FailuresTellProgress, End
<1>7. CASE process = "up" /\ DropEvent
  BY <1>7 DEF DropEvent, IInv, TypeOK, StartInv, FailuresTellProgress
<1>8. ASSUME NEW c \in Client, process = "up", Connect(c) PROVE IInv'
  BY <1>8 DEF Connect, IInv, TypeOK, StartInv, FailuresTellProgress
<1>9. CASE UNCHANGED vars
  BY <1>9 DEF vars, IInv, TypeOK, StartInv, FailuresTellProgress
<1> QED
  BY <1>1, <1>2, <1>3, <1>4, <1>5, <1>6, <1>7, <1>8, <1>9 DEF Next, Accept

LEMMA NextGoesForward ==
    ASSUME IInv, [Next]_vars, process' = "up", NEW c \in Client
    PROVE  Progress(c) <= Progress(c)'
<1>0. /\ newClients \in Seq(Client) /\ Progress(c) \in 0 .. 4
      /\ c # "waiting" /\ c # "none"
  BY StartAssumption DEF IInv, TypeOK, Progress
<1>1. CASE UNCHANGED <<accept, backlog, newClients, taken>>
  BY <1>0, <1>1 DEF Progress, Queued
<1>2. ASSUME NEW d \in backlog, TcpAcceptLoop(d) PROVE Progress(c) <= Progress(c)'
  <2>1. accept = "waiting" /\ accept' = d /\ backlog' = backlog \ {d}
    BY <1>2, StartAssumption DEF TcpAcceptLoop, Accepted, IInv, TypeOK
  <2>2. UNCHANGED <<newClients, taken>> /\ Queued' = Queued
    BY <1>2 DEF TcpAcceptLoop, Queued
  <2> QED
    BY <1>0, <2>1, <2>2 DEF Progress
<1>3. CASE NewClientConnectedHandler
  <2>1. accept \in Client
    BY <1>3 DEF NewClientConnectedHandler, IInv, TypeOK
  <2>2. CASE server = "complete"
    <3>1. newClients' = Append(newClients, accept) /\ UNCHANGED <<backlog, taken>>
      BY <1>3, <2>2 DEF NewClientConnectedHandler, Push
    <3>2. Queued' = Queued \cup {accept}
      BY <1>0, <2>1, <3>1, QueueGrows DEF Queued
    <3> QED
      BY <1>0, <3>1, <3>2 DEF Progress
  <2>3. CASE server # "complete"
    BY <1>1, <1>3, <2>3 DEF NewClientConnectedHandler
  <2> QED
    BY <2>2, <2>3
<1>4. CASE TakeClients
  <2>1. taken' = taken \cup Queued /\ UNCHANGED <<accept, backlog>>
    BY <1>4 DEF TakeClients, Queued
  <2> QED
    BY <1>0, <2>1 DEF Progress
<1>5. CASE AcceptFails
  BY <1>5, StartAssumption DEF AcceptFails, TcpAcceptLoop, Accepted
<1>6. CASE StartAcceptThread
  <2>1. UNCHANGED <<backlog, newClients, taken>> /\ accept = "none"
    BY <1>6 DEF StartAcceptThread, Throw, IInv, StartInv
  <2> QED
    BY <1>0, <2>1 DEF Progress, Queued
<1>7. ASSUME NEW d \in Client, Connect(d) PROVE Progress(c) <= Progress(c)'
  BY <1>0, <1>7 DEF Connect, Progress, Queued
<1> QED
  BY <1>1, <1>2, <1>3, <1>4, <1>5, <1>6, <1>7
     DEF Next, vars, Main, Accept, ParseServerConfig, Listen, Derive, ConstructQueue,
         ConstructIdleRoom, StartIdleThread, Throw, DropEvent, IdleThrows

\* Every variable has its type; the accept thread holds a client or waits for one.
THEOREM StartTypes == Spec => []TypeOK
<1>1. IInv => TypeOK
  BY DEF IInv
<1> QED
  BY InitInv, NextInv, <1>1, PTL DEF Spec

\* How the process ends tells how far it got, for any number of clients: nobody who
\* connects to a server with its queue can end it.
THEOREM FailuresAreTelling == Spec => []FailuresTellProgress
<1>1. IInv => FailuresTellProgress
  BY DEF IInv
<1> QED
  BY InitInv, NextInv, <1>1, PTL DEF Spec

\* Whenever he comes, a client is never lost and never sent back on his way to the
\* idle thread while the process is up.
THEOREM ClientsAreNotLost == Spec => ClientsGoForward
<1>1. IInv /\ [Next]_vars =>
        [process' = "up" => \A c \in Client : Progress(c) <= Progress(c)']_vars
  BY NextGoesForward
<1> QED
  BY InitInv, NextInv, <1>1, PTL DEF Spec, ClientsGoForward
=============================================================================
