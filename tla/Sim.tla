-------------------------------- MODULE Sim --------------------------------
(***************************************************************************)
(* What a game thread promises to the two players of its room: the game of *)
(* Sim.  They take turns drawing an edge that nobody has drawn, and a      *)
(* player whose edges form a lost graph ends the round: the board is       *)
(* cleared and the opponent begins the next one.  Threads, clients, pauses *)
(* and denied requests do not exist here.                                  *)
(***************************************************************************)
EXTENDS Naturals, FiniteSets

CONSTANTS Room, Edge, Losing

VARIABLES
    graph,  \* per room and player: the edges the player has drawn
    turn    \* per room: the player on turn

simVars == <<graph, turn>>

Player == {1, 2}
Opponent(i) == IF i = 1 THEN 2 ELSE 1

EmptyBoard == [i \in Player |-> {}]

SimInit ==
    /\ graph = [r \in Room |-> EmptyBoard]
    /\ turn = [r \in Room |-> 1]

\* The player on turn draws edge e.
Draw(r, e) ==
    LET i == turn[r]
        drawn == graph[r][i] \cup {e}
    IN  /\ \A j \in Player : e \notin graph[r][j]
        /\ turn' = [turn EXCEPT ![r] = Opponent(i)]
        /\ graph' = [graph EXCEPT ![r] = IF drawn \in Losing THEN EmptyBoard
                                         ELSE [@ EXCEPT ![i] = drawn]]

\* The players leave, or others begin: the board is that of a new game.
NewBoard(r) ==
    /\ graph' = [graph EXCEPT ![r] = EmptyBoard]
    /\ turn' = [turn EXCEPT ![r] = 1]

SimNext ==
    \E r \in Room : \/ \E e \in Edge : Draw(r, e)
                    \/ NewBoard(r)

SimSpec == SimInit /\ [][SimNext]_simVars

FairBoard(board, i) ==
    LET j == Opponent(i)
    IN  /\ board[1] \cap board[2] = {}
        /\ \A p \in Player : board[p] \notin Losing
        /\ Cardinality(board[j]) \in {Cardinality(board[i]), Cardinality(board[i]) + 1}

\* No edge is drawn twice, nobody's graph is a lost one, and whoever has drawn
\* an edge more is not on turn.
FairPlay == \A r \in Room : FairBoard(graph[r], turn[r])
=============================================================================
