----------------------------- MODULE GameGraph -----------------------------
(***************************************************************************)
(* A player's graph on the board of Sim: the nodes are 0 to                *)
(* GAME_NODE_NUM - 1, and a graph is the set of its undirected edges, each *)
(* the set of its two ends (the adjacency matrix of the code is symmetric, *)
(* because addUndirectedEdge writes both halves).                          *)
(***************************************************************************)
EXTENDS Naturals, Sequences, FiniteSets, FiniteSetsExt

CONSTANT GAME_NODE_NUM  \* 6 in the code

ASSUME GameGraphAssumption == GAME_NODE_NUM \in Nat \ {0}

Node == 0 .. GAME_NODE_NUM - 1

IsValidEdge(source, destination) ==
    source # destination /\ source \in Node /\ destination \in Node

BoardEdge == {{p[1], p[2]} : p \in {p \in Node \X Node : IsValidEdge(p[1], p[2])}}

HasUndirectedEdge(graph, source, destination) == {source, destination} \in graph

INT_MAX == 2147483647

\* Where the search goes on at the end of path: not back to where it came from.
NextNodes(graph, path) ==
    {v \in Node : /\ HasUndirectedEdge(graph, path[Len(path)], v)
                  /\ Len(path) > 1 => v # path[Len(path) - 1]}

\* The ways a search can take: no node comes twice, but for the last.
Way == {path \in Seq(Node) : /\ path # <<>>
                             /\ \A j, k \in 1 .. Len(path) - 1 : path[j] = path[k] => j = k}

\* The depth-first search at the end of path, with the answers further on in found.
\* The depth of a node is its position in path; the search copies its array of
\* depths, so it goes along every way from its start.
ShortestFrom(graph, found, path) ==
    LET met == {k \in 1 .. Len(path) - 1 : path[k] = path[Len(path)]}
        answers == {found[Append(path, v)] : v \in NextNodes(graph, path)} \cup {INT_MAX}
    IN  IF met # {} THEN Len(path) - (CHOOSE k \in met : TRUE)
        ELSE Min(answers)

FindShortestCycle(graph) ==
    LET search[path \in Way] == ShortestFrom(graph, search, path)
    IN  search[<<0>>]

HasCycleOfLength3(graph) == FindShortestCycle(graph) = 3
=============================================================================
