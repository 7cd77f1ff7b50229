---------------------------- MODULE PlayerGraph ----------------------------
(***************************************************************************)
(* The graph of one player through the games of a room: it grows by one    *)
(* edge at a time and is cleared when either player has lost.              *)
(***************************************************************************)
EXTENDS GameGraph

VARIABLE myGraph

PlayerGraphInit == myGraph = {}

\* A move after which the player has not lost yet can be followed by another.
\* Of the edges of the board a player gets at most half, rounded up.
AddUndirectedEdge(source, destination) ==
    /\ ~HasCycleOfLength3(myGraph)
    /\ 2 * Cardinality(myGraph) < Cardinality(BoardEdge)
    /\ IsValidEdge(source, destination)
    /\ ~HasUndirectedEdge(myGraph, source, destination)
    /\ myGraph' = myGraph \cup {{source, destination}}

Clear == myGraph' = {}

PlayerGraphNext ==
    \/ \E source, destination \in Node : AddUndirectedEdge(source, destination)
    \/ Clear

PlayerGraphSpec == PlayerGraphInit /\ [][PlayerGraphNext]_myGraph

-----------------------------------------------------------------------------

Triangles ==
    {t \in SUBSET Node : Cardinality(t) = 3 /\ {e \in BoardEdge : e \subseteq t} \subseteq myGraph}

\* Whoever has a triangle loses. This is false of a triangle apart from node 0.
TriangleLoses == Triangles # {} => HasCycleOfLength3(myGraph)

\* A set of nodes no edge leads out of.
Closed(nodes) == \A e \in myGraph : e \cap nodes # {} => e \subseteq nodes

Connected(t) == \A nodes \in SUBSET Node : 0 \in nodes /\ Closed(nodes) => t \subseteq nodes

\* The search finds a cycle of three exactly when the player has a triangle in
\* the component of node 0; in particular no longer cycle met first hides it.
SearchExact == HasCycleOfLength3(myGraph) <=> \E t \in Triangles : Connected(t)
=============================================================================
