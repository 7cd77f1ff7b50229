----------------------------- MODULE GraphProofs -----------------------------
(***************************************************************************)
(* The search for a cycle of three is exact, on a board of any size: it    *)
(* finds one if and only if there is a triangle in the component of node 0.*)
(*                                                                         *)
(* The search is a recursive function. Along a way no node but the last    *)
(* comes twice, so ways are not longer than the board allows, and what is  *)
(* claimed of the answer at the end of a way is proved from the longest    *)
(* ways to the shortest.                                                   *)
(***************************************************************************)
EXTENDS PlayerGraph, FiniteSetTheorems, SequenceTheorems, WellFoundedInduction, TLAPS

-----------------------------------------------------------------------------
(* Induction, stated for sets of numbers *)

LEMMA LeastNumber ==
    ASSUME NEW T \in SUBSET Nat, T # {} PROVE \E n \in T : \A m \in T : n <= m
<1>1. PICK n \in T : \A m \in T : ~ (<<m, n>> \in OpToRel(<, Nat))
  <2>1. IsWellFoundedOn(OpToRel(<, Nat), Nat)
    BY NatLessThanWellFounded
  <2> QED BY <2>1, WFMin
<1>2. \A m \in T : ~ (m < n)
  BY <1>1 DEF OpToRel
<1> QED BY <1>2

LEMMA NumberInduction ==
    ASSUME NEW T, 0 \in T, \A n \in Nat : n \in T => n + 1 \in T
    PROVE  \A n \in Nat : n \in T
<1> SUFFICES ASSUME Nat \ T # {} PROVE FALSE
  OBVIOUS
<1>1. PICK n \in Nat \ T : \A m \in Nat \ T : n <= m
  BY LeastNumber
<1>2. n # 0 /\ n - 1 \in Nat /\ n - 1 \notin Nat \ T
  BY <1>1
<1> QED BY <1>1, <1>2

-----------------------------------------------------------------------------
(* Ways *)

\* The search goes on from a way on which no node has come twice.
OpenWay(path) ==
    /\ path \in Seq(Node) /\ path # <<>>
    /\ \A j, k \in 1 .. Len(path) : path[j] = path[k] => j = k

LEMMA OpenWayGoesOn ==
    ASSUME NEW path, OpenWay(path), NEW v \in Node
    PROVE  /\ Append(path, v) \in Way
           /\ Len(Append(path, v)) = Len(path) + 1
           /\ \A k \in 1 .. Len(path) : Append(path, v)[k] = path[k]
           /\ Append(path, v)[Len(path) + 1] = v
<1>1. path \in Seq(Node) /\ Len(path) \in Nat
  BY DEF OpenWay
<1>2. /\ Append(path, v) \in Seq(Node) /\ Append(path, v) # <<>>
      /\ Len(Append(path, v)) = Len(path) + 1
      /\ \A k \in 1 .. Len(path) : Append(path, v)[k] = path[k]
      /\ Append(path, v)[Len(path) + 1] = v
  BY <1>1
<1>3. \A j, k \in 1 .. Len(path) : path[j] = path[k] => j = k
  BY DEF OpenWay
<1> DEFINE w == Append(path, v)
<1>4. w \in Way
  <2> HIDE DEF w
  <2>1. 1 .. Len(w) - 1 = 1 .. Len(path)
    BY <1>1, <1>2 DEF w
  <2>2. \A j, k \in 1 .. Len(w) - 1 : w[j] = w[k] => j = k
    BY <1>2, <1>3, <2>1 DEF w
  <2> QED BY <1>2, <2>2 DEF Way, w
<1> QED BY <1>2, <1>4

\* The number of the nodes bounds the length of a way.
LEMMA WayIsShort ==
    ASSUME NEW path \in Way PROVE Len(path) \in 1 .. GAME_NODE_NUM + 1
<1> DEFINE first == 1 .. Len(path) - 1
           f == [k \in first |-> path[k]]
<1>0. path \in Seq(Node) /\ Len(path) \in Nat /\ Len(path) >= 1
  BY DEF Way
<1>1. f \in [first -> Node] /\ \A j, k \in first : f[j] = f[k] => j = k
  BY <1>0 DEF Way
<1>2. /\ IsFiniteSet(first) /\ Cardinality(first) = Len(path) - 1
      /\ IsFiniteSet(Node) /\ Cardinality(Node) = GAME_NODE_NUM
  <2>1. /\ GAME_NODE_NUM \in Nat /\ 0 \in Int /\ GAME_NODE_NUM - 1 \in Int /\ GAME_NODE_NUM >= 1
        /\ 1 \in Int /\ Len(path) - 1 \in Int
    BY <1>0, GameGraphAssumption
  <2>2. /\ IsFiniteSet(first)
        /\ Cardinality(first) = IF 1 > Len(path) - 1 THEN 0 ELSE Len(path) - 1 - 1 + 1
    BY <2>1, FS_Interval
  <2>3. /\ IsFiniteSet(Node)
        /\ Cardinality(Node) = IF 0 > GAME_NODE_NUM - 1 THEN 0 ELSE GAME_NODE_NUM - 1 - 0 + 1
    BY <2>1, FS_Interval DEF Node
  <2> QED BY <1>0, <2>1, <2>2, <2>3
<1>3. ~ (Cardinality(Node) < Cardinality(first))
  <2> HIDE DEF f, first
  <2> QED BY <1>1, <1>2, FS_PigeonHole
<1> QED BY <1>0, <1>2, <1>3, GameGraphAssumption

-----------------------------------------------------------------------------
(* The search is defined: there is a function that answers as it should *)

LEMMA AnswerDepends ==
    ASSUME NEW graph, NEW f, NEW g, NEW path \in Way,
           OpenWay(path) => \A v \in Node : f[Append(path, v)] = g[Append(path, v)]
    PROVE  ShortestFrom(graph, f, path) = ShortestFrom(graph, g, path)
<1> DEFINE met == {k \in 1 .. Len(path) - 1 : path[k] = path[Len(path)]}
<1>1. CASE met # {}
  BY <1>1 DEF ShortestFrom
<1>2. CASE met = {}
  <2>1. OpenWay(path)
    BY <1>2 DEF OpenWay, Way
  <2>2. {f[Append(path, v)] : v \in NextNodes(graph, path)}
            = {g[Append(path, v)] : v \in NextNodes(graph, path)}
    BY <2>1 DEF NextNodes
  <2>3. \A h : ShortestFrom(graph, h, path)
                  = Min({h[Append(path, v)] : v \in NextNodes(graph, path)} \cup {INT_MAX})
    BY <1>2 DEF ShortestFrom
  <2> QED BY <2>2, <2>3
<1> QED BY <1>1, <1>2

Answers(graph, f) == f = [path \in Way |-> ShortestFrom(graph, f, path)]

LEMMA SearchIsDefined == ASSUME NEW graph PROVE \E f : Answers(graph, f)
<1> DEFINE M == GAME_NODE_NUM + 2
           Upto(n, f) == [path \in Way |->
                            IF Len(path) + n >= M THEN ShortestFrom(graph, f, path) ELSE 0]
           T == {n \in Nat : \E f : f = Upto(n, f)}
<1>0. M \in Nat /\ \A path \in Way : Len(path) \in Nat /\ 1 <= Len(path) /\ Len(path) < M
  BY WayIsShort, GameGraphAssumption
<1> HIDE DEF M
<1>1. 0 \in T
  <2> DEFINE f == [path \in Way |-> 0]
  <2>1. f = Upto(0, f)
    BY <1>0
  <2> QED BY <2>1
<1>2. ASSUME NEW n \in Nat, n \in T PROVE n + 1 \in T
  <2>1. PICK f : f = Upto(n, f)
    BY <1>2
  <2> DEFINE g == Upto(n + 1, f)
  <2>2. ASSUME NEW path \in Way, Len(path) + (n + 1) >= M
        PROVE  ShortestFrom(graph, f, path) = ShortestFrom(graph, g, path)
    <3>1. ASSUME OpenWay(path), NEW v \in Node PROVE f[Append(path, v)] = g[Append(path, v)]
      <4>1. Append(path, v) \in Way /\ Len(Append(path, v)) = Len(path) + 1
        BY <3>1, OpenWayGoesOn
      <4>2. Len(path) + 1 + n >= M /\ Len(path) + 1 + (n + 1) >= M
        BY <1>0, <2>2
      <4>3. f[Append(path, v)] = ShortestFrom(graph, f, Append(path, v))
        BY <2>1, <4>1, <4>2
      <4>4. g[Append(path, v)] = ShortestFrom(graph, f, Append(path, v))
        BY <4>1, <4>2
      <4> QED BY <4>3, <4>4
    <3> HIDE DEF g
    <3> QED BY <3>1, AnswerDepends
  <2>3. g = Upto(n + 1, g)
    <3> HIDE DEF g
    <3>1. Upto(n + 1, f) = Upto(n + 1, g)
      BY <2>2
    <3> QED BY <3>1 DEF g
  <2>4. \E h : h = Upto(n + 1, h)
    <3> HIDE DEF g, Upto
    <3> QED BY <2>3
  <2> QED BY <2>4
<1>3. M \in T
  <2> HIDE DEF T
  <2> QED BY <1>0, <1>1, <1>2, NumberInduction
<1>4. PICK f : f = Upto(M, f)
  BY <1>3
<1>5. \A path \in Way : Len(path) + M >= M
  BY <1>0
<1> QED BY <1>4, <1>5 DEF Answers

LEMMA SearchAnswers ==
    ASSUME NEW graph
    PROVE  \E f : Answers(graph, f) /\ FindShortestCycle(graph) = f[<<0>>]
<1> DEFINE f == CHOOSE f : f = [path \in Way |-> ShortestFrom(graph, f, path)]
<1>1. FindShortestCycle(graph) = f[<<0>>]
  BY DEF FindShortestCycle
<1>2. f = [path \in Way |-> ShortestFrom(graph, f, path)]
  BY SearchIsDefined DEF Answers
<1> HIDE DEF f
<1> QED BY <1>1, <1>2 DEF Answers

-----------------------------------------------------------------------------
(* What the answer at the end of a way is *)

\* Where a node has come again, the answer is the length of the way around.
LEMMA AnswerAround ==
    ASSUME NEW graph, NEW f, Answers(graph, f), NEW path \in Way, ~OpenWay(path)
    PROVE  \E k \in 1 .. Len(path) - 1 :
              path[k] = path[Len(path)] /\ f[path] = Len(path) - k
<1> DEFINE met == {k \in 1 .. Len(path) - 1 : path[k] = path[Len(path)]}
<1>1. met # {}
  <2>1. path \in Seq(Node) /\ path # <<>> /\ Len(path) \in Nat /\ Len(path) >= 1
    BY DEF Way
  <2>2. PICK j \in 1 .. Len(path), k \in 1 .. Len(path) : path[j] = path[k] /\ j # k
    BY <2>1 DEF OpenWay
  <2>3. j = Len(path) \/ k = Len(path)
    BY <2>1, <2>2 DEF Way
  <2> QED BY <2>1, <2>2, <2>3
<1>2. f[path] = ShortestFrom(graph, f, path)
  BY DEF Answers
<1>3. f[path] = Len(path) - (CHOOSE k \in met : TRUE)
  BY <1>1, <1>2 DEF ShortestFrom
<1>4. (CHOOSE k \in met : TRUE) \in met
  BY <1>1
<1> QED BY <1>3, <1>4

\* Elsewhere it is the least of the answers further on, and of INT_MAX.
LEMMA AnswerFurther ==
    ASSUME NEW graph, NEW f, Answers(graph, f), NEW path, OpenWay(path),
           \A v \in NextNodes(graph, path) : f[Append(path, v)] \in Nat
    PROVE  /\ f[path] = INT_MAX \/ \E v \in NextNodes(graph, path) : f[path] = f[Append(path, v)]
           /\ \A v \in NextNodes(graph, path) : f[path] <= f[Append(path, v)]
           /\ f[path] \in Nat
<1> DEFINE answers == {f[Append(path, v)] : v \in NextNodes(graph, path)} \cup {INT_MAX}
<1>1. path \in Way /\ {k \in 1 .. Len(path) - 1 : path[k] = path[Len(path)]} = {}
  BY DEF OpenWay, Way
<1>2. f[path] = ShortestFrom(graph, f, path)
  BY <1>1 DEF Answers
<1>3. f[path] = Min(answers)
  BY <1>1, <1>2 DEF ShortestFrom
<1>4. answers \in SUBSET Nat /\ answers # {}
  BY DEF INT_MAX
<1>5. f[path] \in answers /\ \A l \in answers : f[path] <= l
  <2> HIDE DEF answers
  <2> QED BY <1>3, <1>4, LeastNumber DEF Min
<1> QED BY <1>4, <1>5

\* A way along the edges of the graph that does not turn back on the spot.
Trail(graph, path) ==
    /\ path \in Way /\ path[1] = 0
    /\ \A k \in 1 .. Len(path) - 1 : {path[k], path[k + 1]} \in graph
    /\ \A k \in 1 .. Len(path) - 2 : path[k] # path[k + 2]

LEMMA TrailGoesOn ==
    ASSUME NEW graph, NEW path, Trail(graph, path), OpenWay(path),
           NEW v \in NextNodes(graph, path)
    PROVE  Trail(graph, Append(path, v))
<1>1. path \in Seq(Node) /\ Len(path) \in Nat /\ Len(path) >= 1 /\ v \in Node
  BY DEF OpenWay, NextNodes
<1>2. /\ Append(path, v) \in Way
      /\ Len(Append(path, v)) = Len(path) + 1
      /\ \A k \in 1 .. Len(path) : Append(path, v)[k] = path[k]
      /\ Append(path, v)[Len(path) + 1] = v
  BY <1>1, OpenWayGoesOn
<1>3. {path[Len(path)], v} \in graph /\ (Len(path) > 1 => v # path[Len(path) - 1])
  BY DEF NextNodes, HasUndirectedEdge
<1> DEFINE w == Append(path, v)
<1> HIDE DEF w
<1>4. ASSUME NEW k \in 1 .. Len(path) PROVE {w[k], w[k + 1]} \in graph
  <2>1. CASE k = Len(path)
    BY <1>1, <1>2, <1>3, <2>1 DEF w
  <2>2. CASE k # Len(path)
    BY <1>1, <1>2, <2>2 DEF w, Trail
  <2> QED BY <2>1, <2>2
<1>5. ASSUME NEW k \in 1 .. Len(path) - 1 PROVE w[k] # w[k + 2]
  <2>1. CASE k = Len(path) - 1
    BY <1>1, <1>2, <1>3, <2>1 DEF w
  <2>2. CASE k # Len(path) - 1
    <3>1. k \in 1 .. Len(path) - 2 /\ k \in 1 .. Len(path) /\ k + 2 \in 1 .. Len(path)
      BY <1>1, <2>2
    <3> QED BY <1>2, <3>1 DEF w, Trail
  <2> QED BY <2>1, <2>2
<1>6. w \in Way /\ w[1] = 0 /\ Len(w) = Len(path) + 1
  BY <1>1, <1>2 DEF w, Trail
<1>7. Trail(graph, w)
  BY <1>1, <1>4, <1>5, <1>6 DEF Trail
<1> QED BY <1>7 DEF w

\* The last three edges of a trail close a triangle.
Around(path) == Len(path) >= 4 /\ path[Len(path)] = path[Len(path) - 3]

\* Along a trail no answer is below 3, and the answer 3 is given for a triangle.
AnswerFits(graph, f, path) ==
    /\ f[path] \in Nat
    /\ Trail(graph, path) =>
          /\ f[path] >= 3
          /\ f[path] = 3 => \E w : Trail(graph, w) /\ Around(w)

LEMMA AroundFits ==
    ASSUME NEW graph \in SUBSET BoardEdge, NEW f, Answers(graph, f),
           NEW path \in Way, ~OpenWay(path)
    PROVE  AnswerFits(graph, f, path)
<1>1. path \in Seq(Node) /\ Len(path) \in Nat
  BY DEF Way
<1>2. PICK k \in 1 .. Len(path) - 1 : path[k] = path[Len(path)] /\ f[path] = Len(path) - k
  BY AnswerAround
<1>3. f[path] \in Nat
  BY <1>1, <1>2
<1>4. ASSUME Trail(graph, path) PROVE f[path] >= 3 /\ (f[path] = 3 => Around(path))
  <2>1. k # Len(path) - 2
    BY <1>1, <1>2, <1>4 DEF Trail
  <2>2. k # Len(path) - 1
    <3> SUFFICES ASSUME k = Len(path) - 1 PROVE FALSE
      OBVIOUS
    <3>1. {path[k], path[k]} \in BoardEdge
      BY <1>1, <1>2, <1>4 DEF Trail
    <3> QED BY <3>1 DEF BoardEdge, IsValidEdge
  <2> QED BY <1>1, <1>2, <2>1, <2>2 DEF Around
<1> QED BY <1>3, <1>4 DEF AnswerFits

LEMMA FurtherFits ==
    ASSUME NEW graph \in SUBSET BoardEdge, NEW f, Answers(graph, f),
           NEW path, OpenWay(path),
           \A v \in Node : AnswerFits(graph, f, Append(path, v))
    PROVE  AnswerFits(graph, f, path)
<1>1. \A v \in NextNodes(graph, path) : AnswerFits(graph, f, Append(path, v))
  BY DEF NextNodes
<1>2. /\ f[path] = INT_MAX \/ \E v \in NextNodes(graph, path) : f[path] = f[Append(path, v)]
      /\ f[path] \in Nat
  BY <1>1, AnswerFurther DEF AnswerFits
<1>3. ASSUME Trail(graph, path)
      PROVE  f[path] >= 3 /\ (f[path] = 3 => \E w : Trail(graph, w) /\ Around(w))
  <2>1. CASE f[path] = INT_MAX
    BY <2>1 DEF INT_MAX
  <2>2. ASSUME NEW v \in NextNodes(graph, path), f[path] = f[Append(path, v)]
        PROVE  f[path] >= 3 /\ (f[path] = 3 => \E w : Trail(graph, w) /\ Around(w))
    BY <1>1, <1>3, <2>2, TrailGoesOn DEF AnswerFits
  <2> QED BY <1>2, <2>1, <2>2
<1> QED BY <1>2, <1>3 DEF AnswerFits

LEMMA AnswersFit ==
    ASSUME NEW graph \in SUBSET BoardEdge, NEW f, Answers(graph, f)
    PROVE  \A path \in Way : AnswerFits(graph, f, path)
<1> DEFINE M == GAME_NODE_NUM + 2
           T == {n \in Nat : \A path \in Way : Len(path) + n >= M => AnswerFits(graph, f, path)}
<1>0. M \in Nat /\ \A path \in Way : Len(path) \in Nat /\ Len(path) < M
  BY WayIsShort, GameGraphAssumption
<1> HIDE DEF M
<1>1. 0 \in T
  BY <1>0
<1>2. ASSUME NEW n \in Nat, n \in T PROVE n + 1 \in T
  <2> SUFFICES ASSUME NEW path \in Way, Len(path) + (n + 1) >= M
               PROVE  AnswerFits(graph, f, path)
    OBVIOUS
  <2>1. CASE OpenWay(path)
    <3>1. ASSUME NEW v \in Node PROVE AnswerFits(graph, f, Append(path, v))
      <4>1. Append(path, v) \in Way /\ Len(Append(path, v)) = Len(path) + 1
        BY <2>1, OpenWayGoesOn
      <4>2. Len(Append(path, v)) + n >= M
        BY <1>0, <4>1
      <4> QED BY <1>2, <4>1, <4>2
    <3> HIDE DEF T
    <3> QED BY <2>1, <3>1, FurtherFits
  <2>2. CASE ~OpenWay(path)
    BY <2>2, AroundFits
  <2> QED BY <2>1, <2>2
<1>3. M \in T
  <2> HIDE DEF T
  <2> QED BY <1>0, <1>1, <1>2, NumberInduction
<1> QED BY <1>0, <1>3

-----------------------------------------------------------------------------
(* What is found is a triangle in the component of node 0 *)

LEMMA TrailIsConnected ==
    ASSUME NEW nodes, 0 \in nodes, Closed(nodes), NEW w, Trail(myGraph, w)
    PROVE  \A k \in 1 .. Len(w) : w[k] \in nodes
<1> DEFINE T == {n \in Nat : n + 1 <= Len(w) => w[n + 1] \in nodes}
<1>0. w \in Seq(Node) /\ Len(w) \in Nat
  BY DEF Trail, Way
<1>1. 0 \in T
  BY DEF Trail
<1>2. ASSUME NEW n \in Nat, n \in T PROVE n + 1 \in T
  <2> SUFFICES ASSUME n + 2 <= Len(w) PROVE w[n + 2] \in nodes
    BY <1>0
  <2>1. w[n + 1] \in nodes
    BY <1>0, <1>2
  <2>2. {w[n + 1], w[n + 1 + 1]} \in myGraph /\ n + 1 + 1 = n + 2
    BY <1>0 DEF Trail
  <2> QED BY <2>1, <2>2 DEF Closed
<1>3. \A n \in Nat : n \in T
  <2> HIDE DEF T
  <2> QED BY <1>1, <1>2, NumberInduction
<1> SUFFICES ASSUME NEW k \in 1 .. Len(w) PROVE w[k] \in nodes
  OBVIOUS
<1>4. k - 1 \in T /\ k - 1 + 1 = k
  BY <1>0, <1>3
<1> QED BY <1>0, <1>4

LEMMA ThreeNodes ==
    ASSUME NEW a, NEW b, NEW c, a # b, b # c, a # c
    PROVE  IsFiniteSet({a, b, c}) /\ Cardinality({a, b, c}) = 3
<1>1. IsFiniteSet({a}) /\ Cardinality({a}) = 1
  BY FS_Singleton
<1>2. IsFiniteSet({a} \cup {b}) /\ Cardinality({a} \cup {b}) = 2
  BY <1>1, FS_AddElement
<1>3. IsFiniteSet(({a} \cup {b}) \cup {c}) /\ Cardinality(({a} \cup {b}) \cup {c}) = 3
  BY <1>2, FS_AddElement
<1>4. ({a} \cup {b}) \cup {c} = {a, b, c}
  OBVIOUS
<1> QED BY <1>3, <1>4

LEMMA AroundTriangle ==
    ASSUME NEW w, Trail(myGraph, w), Around(w) PROVE \E t \in Triangles : Connected(t)
<1> DEFINE n == Len(w)
           a == w[n - 3]
           b == w[n - 2]
           c == w[n - 1]
<1>0. w \in Seq(Node) /\ n \in Nat /\ n >= 4 /\ w[n] = a
  BY DEF Trail, Way, Around
<1>1. a \in Node /\ b \in Node /\ c \in Node /\ a # b /\ b # c /\ a # c
  BY <1>0 DEF Trail, Way
<1>2. {a, b} \in myGraph /\ {b, c} \in myGraph /\ {c, a} \in myGraph
  <2>1. /\ n - 3 \in 1 .. n - 1 /\ n - 3 + 1 = n - 2
        /\ n - 2 \in 1 .. n - 1 /\ n - 2 + 1 = n - 1
        /\ n - 1 \in 1 .. n - 1 /\ n - 1 + 1 = n
    BY <1>0
  <2> QED BY <1>0, <2>1 DEF Trail
<1>3. \A nodes \in SUBSET Node : 0 \in nodes /\ Closed(nodes) => {a, b, c} \subseteq nodes
  <2>1. n - 3 \in 1 .. n /\ n - 2 \in 1 .. n /\ n - 1 \in 1 .. n
    BY <1>0
  <2> QED BY <2>1, TrailIsConnected
<1>4. Cardinality({a, b, c}) = 3
  <2> HIDE DEF a, b, c
  <2> QED BY <1>1, ThreeNodes
<1>5. \A e \in BoardEdge : e \subseteq {a, b, c} => e \in myGraph
  <2> HIDE DEF a, b, c
  <2> SUFFICES ASSUME NEW e \in BoardEdge, e \subseteq {a, b, c} PROVE e \in myGraph
    OBVIOUS
  <2>1. PICK p \in Node, q \in Node : e = {p, q} /\ p # q
    BY DEF BoardEdge, IsValidEdge
  <2>2. p \in {a, b, c} /\ q \in {a, b, c}
    BY <2>1
  <2>3. e = {a, b} \/ e = {b, c} \/ e = {c, a}
    BY <2>1, <2>2
  <2> QED BY <1>2, <2>3
<1> HIDE DEF a, b, c
<1>6. {a, b, c} \in Triangles
  BY <1>1, <1>4, <1>5 DEF Triangles
<1> QED BY <1>3, <1>6 DEF Connected

-----------------------------------------------------------------------------
(* Every triangle in the component of node 0 is found *)

\* A trail on which no node comes twice.
Path(w) ==
    /\ OpenWay(w) /\ w[1] = 0
    /\ \A k \in 1 .. Len(w) - 1 : {w[k], w[k + 1]} \in myGraph

LEMMA PathBegins == ASSUME NEW w, Path(w), NEW n \in 1 .. Len(w)
                    PROVE  /\ Path(SubSeq(w, 1, n)) /\ Len(SubSeq(w, 1, n)) = n
                           /\ \A k \in 1 .. n : SubSeq(w, 1, n)[k] = w[k]
<1>1. w \in Seq(Node) /\ Len(w) \in Nat /\ n \in Nat /\ n >= 1 /\ n <= Len(w)
  BY DEF Path, OpenWay
<1> DEFINE u == SubSeq(w, 1, n)
<1>2. u \in Seq(Node) /\ Len(u) = n /\ \A k \in 1 .. n : u[k] = w[k]
  BY <1>1
<1>3. u # <<>>
  BY <1>1, <1>2
<1> HIDE DEF u
<1>4. OpenWay(u)
  BY <1>1, <1>2, <1>3 DEF Path, OpenWay
<1>5. ASSUME NEW k \in 1 .. n - 1 PROVE {u[k], u[k + 1]} \in myGraph
  <2>1. k \in 1 .. n /\ k + 1 \in 1 .. n /\ k \in 1 .. Len(w) - 1
    BY <1>1
  <2> QED BY <1>2, <2>1 DEF Path
<1>6. u[1] = 0
  BY <1>1, <1>2 DEF Path
<1> QED BY <1>2, <1>4, <1>5, <1>6 DEF Path, u

LEMMA PathGoesOn ==
    ASSUME NEW w, Path(w), NEW v \in Node, {w[Len(w)], v} \in myGraph,
           \A k \in 1 .. Len(w) : w[k] # v
    PROVE  Path(Append(w, v))
<1>1. /\ w \in Seq(Node) /\ Len(w) \in Nat /\ Len(w) >= 1
      /\ \A j, k \in 1 .. Len(w) : w[j] = w[k] => j = k
      /\ \A k \in 1 .. Len(w) - 1 : {w[k], w[k + 1]} \in myGraph
      /\ w[1] = 0
  BY DEF Path, OpenWay
<1> DEFINE u == Append(w, v)
<1>2. /\ u \in Seq(Node) /\ u # <<>> /\ Len(u) = Len(w) + 1
      /\ \A k \in 1 .. Len(w) : u[k] = w[k]
      /\ u[Len(w) + 1] = v
  BY <1>1
<1> HIDE DEF u
<1>3. ASSUME NEW j \in 1 .. Len(u), NEW k \in 1 .. Len(u), u[j] = u[k] PROVE j = k
  <2>1. CASE j = Len(w) + 1 /\ k # Len(w) + 1
    BY <1>1, <1>2, <1>3, <2>1
  <2>2. CASE j # Len(w) + 1 /\ k = Len(w) + 1
    BY <1>1, <1>2, <1>3, <2>2
  <2>3. CASE j # Len(w) + 1 /\ k # Len(w) + 1
    BY <1>1, <1>2, <1>3, <2>3
  <2> QED BY <2>1, <2>2, <2>3
<1>4. ASSUME NEW k \in 1 .. Len(u) - 1 PROVE {u[k], u[k + 1]} \in myGraph
  <2>1. CASE k = Len(w)
    <3>1. u[k] = w[Len(w)] /\ u[k + 1] = v
      BY <1>1, <1>2, <2>1
    <3> QED BY <3>1
  <2>2. CASE k # Len(w)
    <3>1. k \in 1 .. Len(w) - 1 /\ k \in 1 .. Len(w) /\ k + 1 \in 1 .. Len(w)
      BY <1>1, <1>2, <2>2
    <3> QED BY <1>1, <1>2, <3>1
  <2> QED BY <2>1, <2>2
<1> QED BY <1>1, <1>2, <1>3, <1>4 DEF Path, OpenWay, u

\* The nodes paths lead to are closed, so they include every triangle connected.
LEMMA PathsLeadTo ==
    ASSUME NEW t, Connected(t), myGraph \subseteq BoardEdge, NEW a \in t
    PROVE  \E w : Path(w) /\ w[Len(w)] = a
<1> DEFINE ends == {v \in Node : \E w : Path(w) /\ w[Len(w)] = v}
<1>1. 0 \in ends
  <2>1. 0 \in Node
    BY GameGraphAssumption DEF Node
  <2>2. Path(<<0>>) /\ <<0>>[Len(<<0>>)] = 0
    BY <2>1 DEF Path, OpenWay
  <2> QED BY <2>1, <2>2
<1>2. ASSUME NEW v \in ends, NEW u \in Node, {v, u} \in myGraph PROVE u \in ends
  <2>1. PICK w : Path(w) /\ w[Len(w)] = v
    BY <1>2
  <2>2. CASE \E k \in 1 .. Len(w) : w[k] = u
    <3>1. PICK k \in 1 .. Len(w) : w[k] = u
      BY <2>2
    <3>2. Len(w) \in Nat /\ k \in 1 .. k
      BY <2>1 DEF Path, OpenWay
    <3>3. Path(SubSeq(w, 1, k)) /\ SubSeq(w, 1, k)[Len(SubSeq(w, 1, k))] = u
      BY <2>1, <3>1, <3>2, PathBegins
    <3> QED BY <3>3
  <2>3. CASE \A k \in 1 .. Len(w) : w[k] # u
    <3>1. Path(Append(w, u))
      BY <1>2, <2>1, <2>3, PathGoesOn
    <3>2. w \in Seq(Node)
      BY <2>1 DEF Path, OpenWay
    <3>3. Append(w, u)[Len(Append(w, u))] = u
      BY <3>2
    <3> QED BY <3>1, <3>3
  <2> QED BY <2>2, <2>3
<1>3. Closed(ends)
  <2> SUFFICES ASSUME NEW e \in myGraph, e \cap ends # {} PROVE e \subseteq ends
    BY DEF Closed
  <2>1. PICK p \in Node, q \in Node : e = {p, q}
    BY DEF BoardEdge
  <2> HIDE DEF ends
  <2> QED BY <1>2, <2>1
<1>4. t \subseteq ends
  <2>1. ends \in SUBSET Node
    OBVIOUS
  <2> HIDE DEF ends
  <2> QED BY <1>1, <1>3, <2>1 DEF Connected
<1> QED BY <1>4

\* A path that reaches a triangle can go once around it.
LEMMA TriangleReached ==
    ASSUME NEW t \in Triangles, Connected(t), myGraph \subseteq BoardEdge
    PROVE  \E w : Trail(myGraph, w) /\ Around(w)
<1>0. t \subseteq Node /\ IsFiniteSet(t) /\ Cardinality(t) = 3
  <2>1. IsFiniteSet(Node)
    BY GameGraphAssumption, FS_Interval DEF Node
  <2>2. t \subseteq Node /\ Cardinality(t) = 3
    BY DEF Triangles
  <2> QED BY <2>1, <2>2, FS_Subset
<1>1. PICK start \in t : TRUE
  BY <1>0, FS_EmptySet
<1>2. PICK way : Path(way) /\ way[Len(way)] = start
  BY <1>1, PathsLeadTo
<1>3. way \in Seq(Node) /\ Len(way) \in Nat /\ Len(way) >= 1
  BY <1>2 DEF Path, OpenWay
<1>4. PICK n \in 1 .. Len(way) : way[n] \in t /\ \A k \in 1 .. n - 1 : way[k] \notin t
  <2> DEFINE T == {k \in 1 .. Len(way) : way[k] \in t}
  <2>1. T \in SUBSET Nat /\ Len(way) \in T
    BY <1>2, <1>3
  <2>2. PICK n \in T : \A m \in T : n <= m
    BY <2>1, LeastNumber
  <2> QED BY <1>3, <2>2
<1> DEFINE u == SubSeq(way, 1, n)
           a == way[n]
<1>5. /\ Path(u) /\ Len(u) = n /\ u[n] = a /\ \A k \in 1 .. n - 1 : u[k] \notin t
      /\ n \in Nat /\ n >= 1
  <2>1. Path(u) /\ Len(u) = n /\ \A k \in 1 .. n : u[k] = way[k]
    BY <1>2, PathBegins
  <2> QED BY <1>3, <1>4, <2>1
<1> HIDE DEF u
<1>6. a \in t
  BY <1>4
<1> HIDE DEF a
<1>7. PICK b \in t, c \in t : a # b /\ b # c /\ a # c
  <2>1. IsFiniteSet(t \ {a}) /\ Cardinality(t \ {a}) = 2
    BY <1>0, <1>6, FS_RemoveElement
  <2>2. PICK b \in t \ {a} : TRUE
    BY <2>1, FS_EmptySet
  <2>3. IsFiniteSet((t \ {a}) \ {b}) /\ Cardinality((t \ {a}) \ {b}) = 1
    <3> DEFINE rest == t \ {a}
    <3>1. IsFiniteSet(rest) /\ Cardinality(rest) = 2 /\ b \in rest
      BY <2>1, <2>2
    <3> HIDE DEF rest
    <3>2. IsFiniteSet(rest \ {b}) /\ Cardinality(rest \ {b}) = 1
      BY <3>1, FS_RemoveElement
    <3> QED BY <3>2 DEF rest
  <2>4. PICK c \in (t \ {a}) \ {b} : TRUE
    BY <2>3, FS_EmptySet
  <2> QED BY <2>2, <2>4
<1>8. \A p, q \in t : p # q => {p, q} \in myGraph
  <2> SUFFICES ASSUME NEW p \in t, NEW q \in t, p # q PROVE {p, q} \in myGraph
    OBVIOUS
  <2>1. p \in Node /\ q \in Node
    BY <1>0
  <2>2. <<p, q>> \in Node \X Node /\ IsValidEdge(p, q)
    BY <2>1 DEF IsValidEdge
  <2>3. {p, q} \in BoardEdge
    BY <2>2 DEF BoardEdge
  <2> QED BY <2>3 DEF Triangles
<1> DEFINE v == Append(u, b)
           w == Append(v, c)
           around == Append(w, a)
<1>9. /\ Path(v) /\ Len(v) = n + 1 /\ v[n + 1] = b /\ v[n] = a
      /\ \A k \in 1 .. n - 1 : v[k] \notin t
  <2>1. u \in Seq(Node)
    BY <1>5 DEF Path, OpenWay
  <2>2. \A k \in 1 .. n : u[k] # b
    <3> SUFFICES ASSUME NEW k \in 1 .. n PROVE u[k] # b
      OBVIOUS
    <3>1. k = n \/ k \in 1 .. n - 1
      BY <1>5
    <3> QED BY <1>5, <1>7, <3>1
  <2>3. Path(v)
    BY <1>0, <1>5, <1>6, <1>7, <1>8, <2>2, PathGoesOn
  <2> QED BY <1>5, <2>1, <2>3
<1> HIDE DEF v
<1>10. /\ Path(w) /\ Len(w) = n + 2 /\ w[n + 2] = c /\ w[n + 1] = b /\ w[n] = a
  <2>1. v \in Seq(Node)
    BY <1>9 DEF Path, OpenWay
  <2>2. \A k \in 1 .. n + 1 : v[k] # c
    <3> SUFFICES ASSUME NEW k \in 1 .. n + 1 PROVE v[k] # c
      OBVIOUS
    <3>1. k = n + 1 \/ k = n \/ k \in 1 .. n - 1
      BY <1>5
    <3> QED BY <1>7, <1>9, <3>1
  <2>3. Path(w)
    BY <1>0, <1>7, <1>8, <1>9, <2>2, PathGoesOn
  <2> QED BY <1>5, <1>9, <2>1, <2>3
<1> HIDE DEF w
<1>11. Trail(myGraph, w)
  <2>1. w \in Way
    BY <1>10 DEF Path, OpenWay, Way
  <2>2. \A k \in 1 .. Len(w) - 2 : w[k] # w[k + 2]
    <3> SUFFICES ASSUME NEW k \in 1 .. Len(w) - 2, w[k] = w[k + 2] PROVE FALSE
      OBVIOUS
    <3>1. k \in 1 .. Len(w) /\ k + 2 \in 1 .. Len(w) /\ k # k + 2
      BY <1>5, <1>10
    <3> QED BY <1>10, <3>1 DEF Path, OpenWay
  <2> QED BY <1>10, <2>1, <2>2 DEF Trail, Path
<1>12. Trail(myGraph, around)
  <2>1. a \in NextNodes(myGraph, w)
    <3>1. {w[Len(w)], a} \in myGraph
      BY <1>6, <1>7, <1>8, <1>10
    <3>2. Len(w) > 1 => a # w[Len(w) - 1]
      <4>1. Len(w) - 1 = n + 1
        BY <1>5, <1>10
      <4> QED BY <1>7, <1>10, <4>1
    <3> QED BY <1>0, <1>6, <3>1, <3>2 DEF NextNodes, HasUndirectedEdge
  <2>2. OpenWay(w)
    BY <1>10 DEF Path
  <2> QED BY <1>11, <2>1, <2>2, TrailGoesOn
<1>13. Around(around)
  <2>1. w \in Seq(Node) /\ Len(w) = n + 2 /\ w[n] = a /\ n \in Nat /\ n >= 1
    BY <1>5, <1>10 DEF Path, OpenWay
  <2>2. Len(around) = n + 3 /\ around[n + 3] = a /\ around[n] = a
    BY <2>1
  <2>3. Len(around) - 3 = n /\ Len(around) >= 4
    BY <2>1, <2>2
  <2> HIDE DEF around
  <2> QED BY <2>2, <2>3 DEF Around
<1> QED BY <1>12, <1>13

LEMMA AnswerThree ==
    ASSUME NEW f, Answers(myGraph, f), NEW w, Trail(myGraph, w), Around(w) PROVE f[w] = 3
<1>1. w \in Way /\ w \in Seq(Node) /\ Len(w) \in Nat /\ Len(w) >= 4 /\ w[Len(w)] = w[Len(w) - 3]
  BY DEF Trail, Way, Around
<1>2. ~OpenWay(w)
  BY <1>1 DEF OpenWay
<1>3. PICK k \in 1 .. Len(w) - 1 : w[k] = w[Len(w)] /\ f[w] = Len(w) - k
  BY <1>1, <1>2, AnswerAround
<1>4. k = Len(w) - 3
  <2>1. Len(w) - 3 \in 1 .. Len(w) - 1
    BY <1>1
  <2> QED BY <1>1, <1>3, <2>1 DEF Way
<1> QED BY <1>1, <1>3, <1>4

\* The answers do not grow on the way back to node 0.
LEMMA AnswersComeBack ==
    ASSUME NEW f, Answers(myGraph, f), myGraph \subseteq BoardEdge, NEW w, Trail(myGraph, w)
    PROVE  f[<<0>>] <= f[w]
<1>0. /\ w \in Way /\ w \in Seq(Node) /\ Len(w) \in Nat /\ Len(w) >= 1
      /\ w[1] = 0 /\ 0 \in Node
  BY DEF Trail, Way
<1> DEFINE First(m) == SubSeq(w, 1, m)
           T == {n \in Nat : n < Len(w) => f[First(Len(w) - n)] <= f[w]}
<1>1. \A path \in Way : f[path] \in Nat
  BY AnswersFit DEF AnswerFits
<1>2. First(Len(w)) = w /\ First(1) = <<0>>
  <2>1. First(Len(w)) = w
    BY <1>0, SubSeqFull
  <2>2. First(1) \in Seq(Node) /\ Len(First(1)) = 1 /\ First(1)[1] = 0
    BY <1>0
  <2>3. <<0>> \in Seq(Node) /\ Len(<<0>>) = 1 /\ <<0>>[1] = 0
    BY <1>0
  <2>4. First(1) = <<0>>
    <3> HIDE DEF First
    <3> QED BY <2>2, <2>3, SeqEqual
  <2> QED BY <2>1, <2>4
<1>3. 0 \in T
  <2>1. Len(w) - 0 = Len(w) /\ f[w] \in Nat
    BY <1>0, <1>1
  <2> HIDE DEF First
  <2> QED BY <1>2, <2>1
<1>4. ASSUME NEW n \in Nat, n \in T PROVE n + 1 \in T
  <2> SUFFICES ASSUME n + 1 < Len(w) PROVE f[First(Len(w) - (n + 1))] <= f[w]
    BY <1>0
  <2> DEFINE m == Len(w) - (n + 1)
             u == First(m)
  <2>1. m \in Nat /\ m >= 1 /\ m + 1 = Len(w) - n /\ m + 1 <= Len(w)
    BY <1>0
  <2>2. u \in Seq(Node) /\ Len(u) = m /\ \A k \in 1 .. m : u[k] = w[k]
    BY <1>0, <2>1
  <2>3. First(m + 1) = Append(u, w[m + 1])
    BY <1>0, <2>1
  <2> HIDE DEF m, u
  <2>4. OpenWay(u)
    <3>1. u # <<>> /\ 1 .. m \subseteq 1 .. Len(w) - 1
      BY <1>0, <2>1, <2>2
    <3>2. \A j, k \in 1 .. m : u[j] = u[k] => j = k
      BY <1>0, <2>2, <3>1 DEF Way
    <3> QED BY <2>2, <3>1, <3>2 DEF OpenWay
  <2>5. w[m + 1] \in NextNodes(myGraph, u)
    <3>1. w[m + 1] \in Node
      BY <1>0, <2>1
    <3>2. {u[m], w[m + 1]} \in myGraph
      <4>1. m \in 1 .. Len(w) - 1 /\ m \in 1 .. m
        BY <1>0, <2>1
      <4> QED BY <2>2, <4>1 DEF Trail
    <3>3. m > 1 => w[m + 1] # u[m - 1]
      <4> SUFFICES ASSUME m > 1 PROVE w[m + 1] # u[m - 1]
        OBVIOUS
      <4>1. m - 1 \in 1 .. Len(w) - 2 /\ m - 1 \in 1 .. m /\ m - 1 + 2 = m + 1
        BY <1>0, <2>1
      <4> QED BY <2>2, <4>1 DEF Trail
    <3> QED BY <2>2, <3>1, <3>2, <3>3 DEF NextNodes, HasUndirectedEdge
  <2>6. \A x \in NextNodes(myGraph, u) : f[Append(u, x)] \in Nat
    BY <1>1, <2>4, OpenWayGoesOn DEF NextNodes
  <2>7. f[u] <= f[Append(u, w[m + 1])] /\ f[u] \in Nat
    BY <2>4, <2>5, <2>6, AnswerFurther
  <2>8. f[First(m + 1)] <= f[w]
    BY <1>0, <1>4, <2>1
  <2>9. f[First(m + 1)] \in Nat /\ f[w] \in Nat
    BY <1>0, <1>1, <2>3, <2>5, <2>6
  <2>10. f[u] <= f[w]
    <3> DEFINE next == First(m + 1)
    <3>1. f[u] <= f[next] /\ f[next] <= f[w] /\ f[u] \in Nat /\ f[next] \in Nat /\ f[w] \in Nat
      BY <2>3, <2>7, <2>8, <2>9
    <3> HIDE DEF next
    <3> QED BY <3>1
  <2> QED BY <2>10 DEF u, m
<1>5. Len(w) - 1 \in T
  <2>1. \A n \in Nat : n \in T
    <3> HIDE DEF T
    <3> QED BY <1>3, <1>4, NumberInduction
  <2>2. Len(w) - 1 \in Nat
    BY <1>0
  <2> QED BY <2>1, <2>2
<1>6. Len(w) - (Len(w) - 1) = 1
  BY <1>0
<1>7. f[First(1)] <= f[w]
  <2>1. Len(w) - 1 < Len(w)
    BY <1>0
  <2> HIDE DEF First
  <2> QED BY <1>5, <1>6, <2>1
<1> HIDE DEF First
<1> QED BY <1>2, <1>7

-----------------------------------------------------------------------------
(* The theorem *)

LEMMA Exact == ASSUME myGraph \subseteq BoardEdge PROVE SearchExact
<1>1. PICK f : Answers(myGraph, f) /\ FindShortestCycle(myGraph) = f[<<0>>]
  BY SearchAnswers
<1>2. Trail(myGraph, <<0>>) /\ AnswerFits(myGraph, f, <<0>>)
  <2>1. 0 \in Node
    BY GameGraphAssumption DEF Node
  <2>2. Trail(myGraph, <<0>>)
    BY <2>1 DEF Trail, Way
  <2> QED BY <1>1, <2>2, AnswersFit DEF Trail
<1>3. ASSUME HasCycleOfLength3(myGraph) PROVE \E t \in Triangles : Connected(t)
  BY <1>1, <1>2, <1>3, AroundTriangle DEF AnswerFits, HasCycleOfLength3
<1>4. ASSUME NEW t \in Triangles, Connected(t) PROVE HasCycleOfLength3(myGraph)
  <2>1. PICK w : Trail(myGraph, w) /\ Around(w)
    BY <1>4, TriangleReached
  <2>2. f[<<0>>] <= 3
    BY <1>1, <2>1, AnswerThree, AnswersComeBack
  <2> QED BY <1>1, <1>2, <2>2 DEF AnswerFits, HasCycleOfLength3
<1> QED BY <1>3, <1>4 DEF SearchExact

\* The edges a player draws are edges of the board.
LEMMA EdgesOfTheBoard == PlayerGraphSpec => [](myGraph \subseteq BoardEdge)
<1>1. PlayerGraphInit => myGraph \subseteq BoardEdge
  BY DEF PlayerGraphInit
<1>2. myGraph \subseteq BoardEdge /\ [PlayerGraphNext]_myGraph => (myGraph \subseteq BoardEdge)'
  <2> SUFFICES ASSUME myGraph \subseteq BoardEdge, [PlayerGraphNext]_myGraph
               PROVE  (myGraph \subseteq BoardEdge)'
    OBVIOUS
  <2>1. ASSUME NEW source \in Node, NEW destination \in Node,
               AddUndirectedEdge(source, destination)
        PROVE  myGraph' \subseteq BoardEdge
    <3>1. <<source, destination>> \in Node \X Node /\ IsValidEdge(source, destination)
      BY <2>1 DEF AddUndirectedEdge
    <3>2. {source, destination} \in BoardEdge
      BY <3>1 DEF BoardEdge
    <3> QED BY <2>1, <3>2 DEF AddUndirectedEdge
  <2>2. CASE Clear
    BY <2>2 DEF Clear
  <2>3. (myGraph \subseteq BoardEdge)' <=> myGraph' \subseteq BoardEdge
    BY DEF BoardEdge, IsValidEdge, Node
  <2> QED BY <2>1, <2>2, <2>3 DEF PlayerGraphNext
<1> QED BY <1>1, <1>2, PTL DEF PlayerGraphSpec

\* Whatever edges a player has drawn and whatever the size of the board, the search
\* answers 3 exactly if three of his edges form a triangle that node 0 is connected
\* with; a triangle elsewhere does not lose, and a longer cycle does not hide one.
THEOREM SearchIsExact == PlayerGraphSpec => []SearchExact
  BY EdgesOfTheBoard, Exact, PTL
=============================================================================
