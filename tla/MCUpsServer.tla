---------------------------- MODULE MCUpsServer ----------------------------
(***************************************************************************)
(* Small instances of the server for TLC.                                  *)
(***************************************************************************)
EXTENDS UpsServer, GameGraph, TLC

CONSTANTS c1, c2, c3

\* Nothing in the model tells clients or names apart.
Symmetry == Permutations(Client) \cup Permutations(Name) \cup Permutations(Room)

\* The real game: the edges of the board, and the graphs that lose.
RealBoard == BoardEdge
RealLosing == {graph \in SUBSET BoardEdge : HasCycleOfLength3(graph)}

\* A board that leaves the play out.
NoEdge == {}
OneLosing == {}

\* Bound for three clients in two rooms: one of them is ever denied a request and
\* stays.
OneDenied == Cardinality({c \in Client : reqDeniedCnt[c] > 0}) <= 1

\* Bound for a client that comes back: the third connects once one of the other
\* two has got a name and has been disconnected.
ThirdComesLater ==
    conn[c3] # "new" => \E c \in {c1, c2} : conn[c] = "closed" /\ HasName(c)
=============================================================================
