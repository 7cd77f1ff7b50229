-------------------------- MODULE ClientLifecycle --------------------------
(***************************************************************************)
(* What the server promises about a client, without threads, names or      *)
(* rooms that fill: where a client can be, and how it gets from one place  *)
(* to the next.                                                            *)
(*                                                                         *)
(* A client connects and is accepted. It is admitted to the idle room or   *)
(* refused. From there it leaves, or it is handed over to the game of a    *)
(* room, which takes its clients in the order they come and seats two at   *)
(* the most. A player leaves, or he comes back to the idle room with those *)
(* he has played with when the game is over. Who has left never returns.   *)
(***************************************************************************)
EXTENDS Naturals, Sequences

CONSTANTS Client, Room

VARIABLES
    accepted,   \* the clients that have connected, in that order
    idle,       \* the clients in the idle room
    joining,    \* per room: the clients on their way to its game, in their order
    playing,    \* per room: the clients seated in its game
    returning,  \* per room: the clients on their way back
    gone        \* the clients that have left

placeVars == <<accepted, idle, joining, playing, returning, gone>>

Members(s) == {s[k] : k \in DOMAIN s}

Known ==
    Members(accepted) \cup idle \cup gone
    \cup UNION {Members(joining[r]) \cup playing[r] \cup returning[r] : r \in Room}

PlacesInit ==
    /\ accepted = <<>>
    /\ idle = {}
    /\ joining = [r \in Room |-> <<>>]
    /\ playing = [r \in Room |-> {}]
    /\ returning = [r \in Room |-> {}]
    /\ gone = {}

Connect(c) ==
    /\ c \notin Known
    /\ accepted' = Append(accepted, c)
    /\ UNCHANGED <<idle, joining, playing, returning, gone>>

Admit ==
    /\ accepted # <<>>
    /\ accepted' = Tail(accepted)
    /\ idle' = idle \cup {Head(accepted)}
    /\ UNCHANGED <<joining, playing, returning, gone>>

Refuse ==
    /\ accepted # <<>>
    /\ accepted' = Tail(accepted)
    /\ gone' = gone \cup {Head(accepted)}
    /\ UNCHANGED <<idle, joining, playing, returning>>

Leave(c) ==
    /\ c \in idle
    /\ idle' = idle \ {c}
    /\ gone' = gone \cup {c}
    /\ UNCHANGED <<accepted, joining, playing, returning>>

SendToGame(c, r) ==
    /\ c \in idle
    /\ idle' = idle \ {c}
    /\ joining' = [joining EXCEPT ![r] = Append(@, c)]
    /\ UNCHANGED <<accepted, playing, returning, gone>>

\* Of the players at the table of room r some stay and the others leave.
Stay(r, players) ==
    \E staying \in SUBSET players :
        /\ playing' = [playing EXCEPT ![r] = staying]
        /\ gone' = gone \cup (players \ staying)

\* The game of room r has two seats, and at least one is free.
SeatFree(r) == \A c, d \in playing[r] : c = d

TakeIn(r) ==
    /\ joining[r] # <<>>
    /\ SeatFree(r)
    /\ joining' = [joining EXCEPT ![r] = Tail(@)]
    /\ Stay(r, playing[r] \cup {Head(joining[r])})
    /\ UNCHANGED <<accepted, idle, returning>>

LosePlayers(r) ==
    /\ UNCHANGED <<accepted, idle, joining, returning>>
    /\ Stay(r, playing[r])

EndGame(r) ==
    /\ returning[r] = {}
    /\ returning' = [returning EXCEPT ![r] = playing[r]]
    /\ playing' = [playing EXCEPT ![r] = {}]
    /\ UNCHANGED <<accepted, idle, joining, gone>>

ComeBack(r) ==
    /\ idle' = idle \cup returning[r]
    /\ returning' = [returning EXCEPT ![r] = {}]
    /\ UNCHANGED <<accepted, joining, playing, gone>>

PlacesNext ==
    \/ \E r \in Room : TakeIn(r) \/ LosePlayers(r) \/ EndGame(r) \/ ComeBack(r)
    \/ Admit \/ Refuse
    \/ \E c \in Client : Leave(c) \/ (\E r \in Room : SendToGame(c, r)) \/ Connect(c)

PlacesSpec == PlacesInit /\ [][PlacesNext]_placeVars
=============================================================================
