--------------------------- MODULE RoomLifecycle ---------------------------
(***************************************************************************)
(* What the server promises about a game room, without threads or queues:  *)
(* a free room is taken by two users, they play, the game is over, and the *)
(* room is free again; the users of a room are the same from the start of  *)
(* its game until it is free.                                              *)
(***************************************************************************)
EXTENDS Sequences

CONSTANTS Room, Name

VARIABLES
    phase,  \* per room: "free", "playing" or "over"
    users   \* per room: the names of its users

lifecycleVars == <<phase, users>>

LifecycleInit ==
    /\ phase = [r \in Room |-> "free"]
    /\ users = [r \in Room |-> <<>>]

StartGame(r) ==
    /\ phase[r] = "free"
    /\ phase' = [phase EXCEPT ![r] = "playing"]
    /\ \E n, m \in Name : users' = [users EXCEPT ![r] = <<n, m>>]

FinishGame(r) ==
    /\ phase[r] = "playing"
    /\ phase' = [phase EXCEPT ![r] = "over"]
    /\ UNCHANGED users

FreeRoom(r) ==
    /\ phase[r] = "over"
    /\ phase' = [phase EXCEPT ![r] = "free"]
    /\ users' = [users EXCEPT ![r] = <<>>]

LifecycleNext == \E r \in Room : StartGame(r) \/ FinishGame(r) \/ FreeRoom(r)

LifecycleSpec == LifecycleInit /\ [][LifecycleNext]_lifecycleVars
=============================================================================
