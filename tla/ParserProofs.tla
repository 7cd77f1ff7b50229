---------------------------- MODULE ParserProofs ----------------------------
(***************************************************************************)
(* What the parser makes of a connection, for messages of any length, any  *)
(* number of them, and fragments of any length: it returns every message   *)
(* that is complete, once and as it was sent, and throws on nothing but    *)
(* junk and an end sequence that a read has cut.                           *)
(*                                                                         *)
(* The recursive functions of the parser are shown to exist; Split cuts    *)
(* right behind each delimiter. A text is lines of which the last two are  *)
(* a CR each, and no other line has one. So the position in the stream     *)
(* determines what a parser has saved (AtOffset), a piece of a read is a   *)
(* part of one text, and a read takes the parser from its                  *)
(* position in one text to its position in another (Reading).              *)
(***************************************************************************)
EXTENDS BufferedParser, FiniteSetTheorems, SequenceTheorems, WellFoundedInduction, TLAPS

-----------------------------------------------------------------------------
(* Induction, stated for sets of numbers *)

LEMMA LeastNumber ==
    ASSUME NEW T \in SUBSET Nat, T # {} PROVE \E n \in T : \A m \in T : n <= m
<1>1. PICK n \in T : \A m \in T : ~ (<<m, n>> \in OpToRel(<, Nat))
  <2>1. IsWellFoundedOn(OpToRel(<, Nat), Nat)
    BY NatLessThanWellFounded
  <2> QED BY <2>1, WFMin
<1>2. \A m \in T : ~ (m < n)
  BY <1>1 DEF OpToRel
<1> QED BY <1>2

LEMMA NumberInduction ==
    ASSUME NEW T, 0 \in T, \A n \in Nat : n \in T => n + 1 \in T
    PROVE  \A n \in Nat : n \in T
<1> SUFFICES ASSUME Nat \ T # {} PROVE FALSE
  OBVIOUS
<1>1. PICK n \in Nat \ T : \A m \in Nat \ T : n <= m
  BY LeastNumber
<1>2. n # 0 /\ n - 1 \in Nat /\ n - 1 \notin Nat \ T
  BY <1>1
<1> QED BY <1>1, <1>2

\* The same up to a bound.
LEMMA InductionUpTo ==
    ASSUME NEW N \in Nat, NEW T, 0 \in T, \A n \in 1 .. N : n - 1 \in T => n \in T
    PROVE  \A n \in 0 .. N : n \in T
<1> DEFINE U == {n \in Nat : n <= N => n \in T}
<1>1. \A n \in Nat : n \in U
  <2>1. 0 \in U
    OBVIOUS
  <2>2. \A n \in Nat : n \in U => n + 1 \in U
    OBVIOUS
  <2> HIDE DEF U
  <2> QED BY <2>1, <2>2, NumberInduction
<1> QED BY <1>1

-----------------------------------------------------------------------------
(* The recursive functions exist *)

\* From the left: each value from the one before.
LEMMA ParseMsgLinesSteps ==
    ASSUME NEW p, NEW lines, Len(lines) \in Nat
    PROVE  \E f : /\ f[0] = p
                  /\ \A i \in 1 .. Len(lines) : f[i] = ParseLine(f[i - 1], lines[i])
                  /\ ParseMsgLines(p, lines) = f[Len(lines)]
<1> DEFINE N == Len(lines)
           Step(f, i) == IF i = 0 THEN p ELSE ParseLine(f[i - 1], lines[i])
           Upto(n, f) == [i \in 0 .. N |-> IF i <= n THEN Step(f, i) ELSE 0]
           T == {n \in Nat : \E f : f = Upto(n, f)}
<1>1. 0 \in T
  <2> DEFINE f == [i \in 0 .. N |-> IF i = 0 THEN p ELSE 0]
  <2>1. f = Upto(0, f)
    OBVIOUS
  <2> QED BY <2>1
<1>2. ASSUME NEW n \in Nat, n \in T PROVE n + 1 \in T
  <2>1. PICK f : f = Upto(n, f)
    BY <1>2
  <2> DEFINE g == Upto(n + 1, f)
  <2>2. \A i \in 0 .. N : i <= n + 1 => Step(f, i) = Step(g, i)
    <3> SUFFICES ASSUME NEW i \in 1 .. N, i <= n + 1 PROVE f[i - 1] = g[i - 1]
      OBVIOUS
    <3>1. i - 1 \in 0 .. N /\ i - 1 <= n
      OBVIOUS
    <3>2. f[i - 1] = Step(f, i - 1)
      BY <2>1, <3>1
    <3>3. g[i - 1] = Step(f, i - 1)
      BY <3>1
    <3> QED BY <3>2, <3>3
  <2>3. g = Upto(n + 1, g)
    <3> HIDE DEF g
    <3>1. Upto(n + 1, f) = Upto(n + 1, g)
      BY <2>2
    <3> QED BY <3>1 DEF g
  <2>4. \E h : h = Upto(n + 1, h)
    <3> HIDE DEF g, Upto
    <3> QED BY <2>3
  <2> QED BY <2>4
<1>3. N \in T
  <2> HIDE DEF T
  <2> QED BY <1>1, <1>2, NumberInduction
<1> DEFINE after == CHOOSE f : f = [i \in 0 .. N |-> Step(f, i)]
<1>4. after = [i \in 0 .. N |-> Step(after, i)]
  <2>1. PICK f : f = Upto(N, f)
    BY <1>3
  <2>2. f = [i \in 0 .. N |-> Step(f, i)]
    BY <2>1
  <2> QED BY <2>2
<1>5. ParseMsgLines(p, lines) = after[N]
  BY DEF ParseMsgLines
<1> HIDE DEF after
<1> QED BY <1>4, <1>5

-----------------------------------------------------------------------------
(* Split *)

\* The pieces ss of s from a position on, and where each of them ends: with the
\* first delimiter in it, but for the last, which may have none.
PieceOf(s) == {SubSeq(s, i, j) : i \in 1 .. Len(s), j \in 1 .. Len(s)}

Cuts(s, delimiter, from, ss, b) ==
    /\ ss \in Seq(PieceOf(s))
    /\ b \in [0 .. Len(ss) -> 0 .. Len(s)]
    /\ b[0] = from - 1 /\ b[Len(ss)] = Len(s)
    /\ \A i \in 1 .. Len(ss) :
          /\ b[i - 1] < b[i]
          /\ ss[i] = SubSeq(s, b[i - 1] + 1, b[i])
          /\ i < Len(ss) => b[i] - Len(delimiter) + 1 \in Found(s, delimiter, b[i - 1] + 1)
          /\ \A j \in Found(s, delimiter, b[i - 1] + 1) : b[i] <= j + Len(delimiter) - 1

Pieces(s, delimiter, f, from) ==
    LET found == Found(s, delimiter, from)
        next == Min(found) + Len(delimiter)
    IN  IF from > Len(s) THEN <<>>
        ELSE IF found = {} THEN <<SubSeq(s, from, Len(s))>>
        ELSE <<SubSeq(s, from, next - 1)>> \o f[next]

LEMMA FoundFirst ==
    ASSUME NEW s, Len(s) \in Nat, NEW delimiter, Len(delimiter) \in Nat \ {0},
           NEW from \in 1 .. Len(s) + 1, Found(s, delimiter, from) # {}
    PROVE  /\ Min(Found(s, delimiter, from)) \in Found(s, delimiter, from)
           /\ \A j \in Found(s, delimiter, from) : Min(Found(s, delimiter, from)) <= j
           /\ Min(Found(s, delimiter, from)) + Len(delimiter) \in from + 1 .. Len(s) + 1
<1> DEFINE found == Found(s, delimiter, from)
<1>1. found \in SUBSET Nat /\ found # {}
  <2>1. \A j \in found : j \in Nat
    <3> SUFFICES ASSUME NEW j \in from .. Len(s) - Len(delimiter) + 1 PROVE j \in Nat
      BY DEF Found
    <3> QED OBVIOUS
  <2> QED BY <2>1
<1>2. Min(found) \in found /\ \A j \in found : Min(found) <= j
  <2> HIDE DEF found
  <2> QED BY <1>1, LeastNumber DEF Min
<1>3. Min(found) + Len(delimiter) \in from + 1 .. Len(s) + 1
  <2>1. \A j \in found : j + Len(delimiter) \in from + 1 .. Len(s) + 1
    BY DEF Found
  <2> QED BY <1>2, <2>1
<1> QED BY <1>2, <1>3

\* From the right: the pieces from a position on from those further right.
LEMMA SplitIsDefined ==
    ASSUME NEW s, Len(s) \in Nat, NEW delimiter, Len(delimiter) \in Nat \ {0}
    PROVE  \E f : /\ \A from \in 1 .. Len(s) + 1 : f[from] = Pieces(s, delimiter, f, from)
                  /\ Split(s, delimiter) = f[1]
<1> DEFINE M == Len(s) + 1
           Upto(n, f) == [from \in 1 .. M |->
                            IF from + n > M THEN Pieces(s, delimiter, f, from) ELSE 0]
           T == {n \in Nat : \E f : f = Upto(n, f)}
<1>1. 0 \in T
  <2> DEFINE f == [from \in 1 .. M |-> 0]
  <2>1. f = Upto(0, f)
    OBVIOUS
  <2> QED BY <2>1
<1>2. ASSUME NEW n \in Nat, n \in T PROVE n + 1 \in T
  <2>1. PICK f : f = Upto(n, f)
    BY <1>2
  <2> DEFINE g == Upto(n + 1, f)
  <2>2. ASSUME NEW from \in 1 .. M, from + (n + 1) > M
        PROVE  Pieces(s, delimiter, f, from) = Pieces(s, delimiter, g, from)
    <3>1. ASSUME from <= Len(s), Found(s, delimiter, from) # {}
          PROVE  LET next == Min(Found(s, delimiter, from)) + Len(delimiter)
                 IN  f[next] = g[next]
      <4> DEFINE next == Min(Found(s, delimiter, from)) + Len(delimiter)
      <4>1. next \in from + 1 .. M
        BY <3>1, FoundFirst
      <4> HIDE DEF next
      <4>2. next \in 1 .. M /\ next + n > M /\ next + (n + 1) > M
        BY <2>2, <4>1
      <4>3. f[next] = Pieces(s, delimiter, f, next)
        BY <2>1, <4>2
      <4>4. g[next] = Pieces(s, delimiter, f, next)
        BY <4>2
      <4> QED BY <4>3, <4>4 DEF next
    <3> HIDE DEF g
    <3> QED BY <3>1 DEF Pieces
  <2>3. g = Upto(n + 1, g)
    <3> HIDE DEF g
    <3>1. Upto(n + 1, f) = Upto(n + 1, g)
      BY <2>2
    <3> QED BY <3>1 DEF g
  <2>4. \E h : h = Upto(n + 1, h)
    <3> HIDE DEF g, Upto
    <3> QED BY <2>3
  <2> QED BY <2>4
<1>3. M \in T
  <2> HIDE DEF T
  <2> QED BY <1>1, <1>2, NumberInduction
<1> DEFINE pieces == CHOOSE f : f = [from \in 1 .. M |-> Pieces(s, delimiter, f, from)]
<1>4. pieces = [from \in 1 .. M |-> Pieces(s, delimiter, pieces, from)]
  <2>1. PICK f : f = Upto(M, f)
    BY <1>3
  <2>2. f = [from \in 1 .. M |-> Pieces(s, delimiter, f, from)]
    BY <2>1
  <2> QED BY <2>2
<1>5. Split(s, delimiter) = pieces[1]
  BY DEF Split, Pieces
<1> HIDE DEF pieces
<1> QED BY <1>4, <1>5
LEMMA CutsGrow ==
    ASSUME NEW s, Len(s) \in Nat, NEW delimiter, Len(delimiter) \in Nat \ {0},
           NEW from \in 1 .. Len(s), NEW next \in from + 1 .. Len(s) + 1,
           next - Len(delimiter) \in Found(s, delimiter, from),
           \A j \in Found(s, delimiter, from) : next - Len(delimiter) <= j,
           NEW ss, NEW c, Cuts(s, delimiter, next, ss, c)
    PROVE  \E b : Cuts(s, delimiter, from, <<SubSeq(s, from, next - 1)>> \o ss, b)
<1> DEFINE L == Len(s)
           piece == SubSeq(s, from, next - 1)
           all == <<piece>> \o ss
           b == [i \in 0 .. Len(ss) + 1 |-> IF i = 0 THEN from - 1 ELSE c[i - 1]]
<1>1. /\ ss \in Seq(PieceOf(s)) /\ Len(ss) \in Nat
      /\ c \in [0 .. Len(ss) -> 0 .. L]
      /\ c[0] = next - 1 /\ c[Len(ss)] = L
  BY DEF Cuts
<1>2. piece \in PieceOf(s)
  <2>1. from \in 1 .. Len(s) /\ next - 1 \in 1 .. Len(s)
    OBVIOUS
  <2> QED BY <2>1 DEF PieceOf
<1>3. /\ all \in Seq(PieceOf(s)) /\ Len(all) = Len(ss) + 1 /\ all[1] = piece
      /\ \A i \in 2 .. Len(ss) + 1 : all[i] = ss[i - 1]
  <2> HIDE DEF piece
  <2> QED BY <1>1, <1>2
<1> HIDE DEF all
<1>4. /\ b \in [0 .. Len(ss) + 1 -> 0 .. L]
      /\ b[0] = from - 1 /\ b[1] = next - 1 /\ b[Len(ss) + 1] = L
      /\ \A i \in 2 .. Len(ss) + 1 : b[i] = c[i - 1] /\ b[i - 1] = c[(i - 1) - 1]
  BY <1>1
<1> HIDE DEF b
<1>5. ASSUME NEW i \in 1 .. Len(ss) + 1
      PROVE  /\ b[i - 1] < b[i]
             /\ all[i] = SubSeq(s, b[i - 1] + 1, b[i])
             /\ i < Len(ss) + 1
                   => b[i] - Len(delimiter) + 1 \in Found(s, delimiter, b[i - 1] + 1)
             /\ \A j \in Found(s, delimiter, b[i - 1] + 1) : b[i] <= j + Len(delimiter) - 1
  <2>1. CASE i = 1
    <3>1. b[i - 1] = from - 1 /\ b[i] = next - 1 /\ b[i - 1] + 1 = from
      BY <1>4, <2>1
    <3>2. b[i] - Len(delimiter) + 1 = next - Len(delimiter)
      BY <3>1
    <3>3. \A j \in Found(s, delimiter, from) : b[i] <= j + Len(delimiter) - 1
      <4> SUFFICES ASSUME NEW j \in Found(s, delimiter, from)
                   PROVE  b[i] <= j + Len(delimiter) - 1
        OBVIOUS
      <4>1. next - Len(delimiter) <= j /\ j \in Int
        BY DEF Found
      <4> QED BY <3>1, <4>1
    <3>4. all[i] = SubSeq(s, b[i - 1] + 1, b[i])
      BY <1>3, <2>1, <3>1
    <3> QED BY <3>1, <3>2, <3>3, <3>4
  <2>2. CASE i # 1
    <3>1. i - 1 \in 1 .. Len(ss) /\ i \in 2 .. Len(ss) + 1
      BY <1>1, <2>2
    <3>2. b[i] = c[i - 1] /\ b[i - 1] = c[(i - 1) - 1] /\ all[i] = ss[i - 1]
      BY <1>3, <1>4, <3>1
    <3>3. /\ c[(i - 1) - 1] < c[i - 1]
          /\ ss[i - 1] = SubSeq(s, c[(i - 1) - 1] + 1, c[i - 1])
          /\ i - 1 < Len(ss)
                => c[i - 1] - Len(delimiter) + 1 \in Found(s, delimiter, c[(i - 1) - 1] + 1)
          /\ \A j \in Found(s, delimiter, c[(i - 1) - 1] + 1) :
                c[i - 1] <= j + Len(delimiter) - 1
      BY <3>1 DEF Cuts
    <3>4. i < Len(ss) + 1 => i - 1 < Len(ss)
      BY <1>1
    <3> QED BY <3>2, <3>3, <3>4
  <2> QED BY <2>1, <2>2
<1> QED BY <1>1, <1>3, <1>4, <1>5 DEF Cuts, all

LEMMA SplitCuts ==
    ASSUME NEW A, NEW s \in Seq(A), NEW delimiter, Len(delimiter) \in Nat \ {0}
    PROVE  \E b : Cuts(s, delimiter, 1, Split(s, delimiter), b)
<1> DEFINE L == Len(s)
<1>0. L \in Nat
  OBVIOUS
<1>1. PICK f : /\ \A from \in 1 .. L + 1 : f[from] = Pieces(s, delimiter, f, from)
               /\ Split(s, delimiter) = f[1]
  BY SplitIsDefined
<1> DEFINE T == {n \in Nat : \A from \in 1 .. L + 1 :
                    from + n > L => \E b : Cuts(s, delimiter, from, f[from], b)}
<1>2. 0 \in T
  <2> SUFFICES \E b : Cuts(s, delimiter, L + 1, f[L + 1], b)
    OBVIOUS
  <2>1. f[L + 1] = <<>>
    <3>1. f[L + 1] = Pieces(s, delimiter, f, L + 1) /\ L + 1 > L
      BY <1>0, <1>1
    <3> QED BY <3>1 DEF Pieces
  <2>2. Cuts(s, delimiter, L + 1, <<>>, [i \in 0 .. 0 |-> L])
    BY DEF Cuts
  <2> QED BY <2>1, <2>2
<1>3. ASSUME NEW n \in Nat, n \in T PROVE n + 1 \in T
  <2> SUFFICES ASSUME NEW from \in 1 .. L + 1, from + (n + 1) > L
               PROVE  \E b : Cuts(s, delimiter, from, f[from], b)
    OBVIOUS
  <2> DEFINE found == Found(s, delimiter, from)
             next == Min(found) + Len(delimiter)
  <2>1. CASE from > L
    BY <1>3, <2>1
  <2>2. CASE from <= L /\ found = {}
    <3>1. f[from] = <<SubSeq(s, from, L)>>
      <4>1. f[from] = Pieces(s, delimiter, f, from) /\ ~(from > L)
        BY <1>0, <1>1, <2>2
      <4> QED BY <2>2, <4>1 DEF Pieces
    <3> DEFINE b == [i \in 0 .. 1 |-> IF i = 0 THEN from - 1 ELSE L]
    <3>2. Cuts(s, delimiter, from, <<SubSeq(s, from, L)>>, b)
      <4>1. from - 1 \in 0 .. L /\ from \in 1 .. L /\ L \in 1 .. L
        BY <2>2
      <4>2. SubSeq(s, from, L) \in PieceOf(s)
        BY <4>1 DEF PieceOf
      <4>3. \A x \in PieceOf(s) : <<x>> \in Seq(PieceOf(s)) /\ Len(<<x>>) = 1 /\ <<x>>[1] = x
        OBVIOUS
      <4> HIDE DEF found
      <4>4. \A j \in Found(s, delimiter, from) : L <= j + Len(delimiter) - 1
        BY <2>2 DEF found
      <4>5. b \in [0 .. 1 -> 0 .. L] /\ b[0] = from - 1 /\ b[1] = L
        BY <1>0, <4>1
      <4> DEFINE ss == <<SubSeq(s, from, L)>>
      <4>6. ss \in Seq(PieceOf(s)) /\ Len(ss) = 1 /\ ss[1] = SubSeq(s, from, L)
        BY <4>2, <4>3
      <4> HIDE DEF b, ss
      <4>7. b[0] + 1 = from /\ b[0] < b[1]
        BY <1>0, <4>1, <4>5
      <4>8. \A i \in 1 .. Len(ss) : i = 1 /\ i - 1 = 0 /\ ~(i < Len(ss))
        BY <4>6
      <4>9. \A i \in 1 .. Len(ss) : b[i - 1] = from - 1 /\ b[i] = L /\ b[i - 1] + 1 = from
                                   /\ b[i - 1] < b[i] /\ ss[i] = SubSeq(s, from, L)
        BY <4>5, <4>6, <4>7, <4>8
      <4>10. \A i \in 1 .. Len(ss) :
                \A j \in Found(s, delimiter, b[i - 1] + 1) : b[i] <= j + Len(delimiter) - 1
        BY <4>4, <4>9
      <4>11. ss \in Seq(PieceOf(s)) /\ b \in [0 .. Len(ss) -> 0 .. Len(s)]
             /\ b[0] = from - 1 /\ b[Len(ss)] = Len(s)
        BY <4>5, <4>6
      <4>12. Cuts(s, delimiter, from, ss, b)
        BY <4>8, <4>9, <4>10, <4>11 DEF Cuts
      <4> QED BY <4>12 DEF ss
    <3> QED BY <3>1, <3>2
  <2>3. CASE from <= L /\ found # {}
    <3>1. f[from] = <<SubSeq(s, from, next - 1)>> \o f[next]
      <4>1. f[from] = Pieces(s, delimiter, f, from) /\ ~(from > L)
        BY <1>0, <1>1, <2>3
      <4> QED BY <2>3, <4>1 DEF Pieces
    <3>2. /\ Min(found) \in found
          /\ \A j \in found : Min(found) <= j
          /\ next \in from + 1 .. L + 1
      BY <2>3, FoundFirst
    <3> HIDE DEF found, next
    <3>3. PICK c : Cuts(s, delimiter, next, f[next], c)
      BY <1>3, <3>2
    <3>4. Min(found) = next - Len(delimiter)
      BY <3>2 DEF next, found, Found
    <3>5. \E b : Cuts(s, delimiter, from, <<SubSeq(s, from, next - 1)>> \o f[next], b)
      BY <1>0, <2>3, <3>2, <3>3, <3>4, CutsGrow DEF found
    <3> QED BY <3>1, <3>5
  <2> QED BY <1>0, <2>1, <2>2, <2>3
<1>4. L \in T
  <2> HIDE DEF T
  <2> QED BY <1>0, <1>2, <1>3, NumberInduction
<1> QED BY <1>1, <1>4
-----------------------------------------------------------------------------
(* FlattenSeq *)

LEMMA FlattenIsDefined ==
    ASSUME NEW seqs, Len(seqs) \in Nat
    PROVE  \E f : /\ \A i \in 1 .. Len(seqs) :
                        f[i] = IF i = 1 THEN seqs[i] ELSE f[i - 1] \o seqs[i]
                  /\ FlattenSeq(seqs) = IF Len(seqs) = 0 THEN seqs ELSE f[Len(seqs)]
<1> DEFINE N == Len(seqs)
           Step(f, i) == IF i = 1 THEN seqs[i] ELSE f[i - 1] \o seqs[i]
           Upto(n, f) == [i \in 1 .. N |-> IF i <= n THEN Step(f, i) ELSE 0]
           T == {n \in Nat : \E f : f = Upto(n, f)}
<1>0. \A f, g : \A i \in 1 .. N :
        (i # 1 => f[i - 1] = g[i - 1]) => Step(f, i) = Step(g, i)
  OBVIOUS
<1> HIDE DEF Step
<1>1. 0 \in T
  <2> DEFINE f == [i \in 1 .. N |-> 0]
  <2>1. \A i \in 1 .. N : ~(i <= 0)
    OBVIOUS
  <2>2. f = Upto(0, f)
    BY <2>1
  <2> HIDE DEF f, Upto
  <2> QED BY <2>2
<1>2. ASSUME NEW n \in Nat, n \in T PROVE n + 1 \in T
  <2>1. PICK f : f = Upto(n, f)
    BY <1>2
  <2> DEFINE g == Upto(n + 1, f)
  <2>2. \A i \in 1 .. N : i <= n + 1 => Step(f, i) = Step(g, i)
    <3> SUFFICES ASSUME NEW i \in 1 .. N, i <= n + 1, i # 1 PROVE f[i - 1] = g[i - 1]
      <4> HIDE DEF g
      <4> QED BY <1>0
    <3>1. i - 1 \in 1 .. N /\ i - 1 <= n /\ i - 1 <= n + 1
      OBVIOUS
    <3>2. f[i - 1] = Step(f, i - 1)
      BY <2>1, <3>1
    <3>3. g[i - 1] = Step(f, i - 1)
      BY <3>1
    <3> QED BY <3>2, <3>3
  <2>3. g = Upto(n + 1, g)
    <3> HIDE DEF g
    <3>1. Upto(n + 1, f) = Upto(n + 1, g)
      BY <2>2
    <3> QED BY <3>1 DEF g
  <2>4. \E h : h = Upto(n + 1, h)
    <3> HIDE DEF g, Upto
    <3> QED BY <2>3
  <2> HIDE DEF Upto
  <2> QED BY <2>4
<1>3. N \in T
  <2> HIDE DEF T
  <2> QED BY <1>1, <1>2, NumberInduction
<1> DEFINE flatten == CHOOSE f : f = [i \in 1 .. N |-> Step(f, i)]
<1>4. flatten = [i \in 1 .. N |-> Step(flatten, i)]
  <2>1. PICK f : f = Upto(N, f)
    BY <1>3
  <2>2. \A i \in 1 .. N : i <= N
    OBVIOUS
  <2>3. f = [i \in 1 .. N |-> Step(f, i)]
    BY <2>1, <2>2
  <2> QED BY <2>3
<1>5. FlattenSeq(seqs) = IF N = 0 THEN seqs ELSE flatten[N]
  BY DEF FlattenSeq, Step
<1> HIDE DEF flatten
<1> QED BY <1>4, <1>5 DEF Step

LEMMA FlattenSteps ==
    ASSUME NEW A, NEW seqs \in Seq(Seq(A))
    PROVE  \E f : /\ f[0] = <<>>
                  /\ \A i \in 1 .. Len(seqs) : f[i] = f[i - 1] \o seqs[i]
                  /\ FlattenSeq(seqs) = f[Len(seqs)]
<1> DEFINE N == Len(seqs)
<1>0. N \in Nat
  OBVIOUS
<1>4. PICK flatten :
         /\ \A i \in 1 .. N : flatten[i] = IF i = 1 THEN seqs[i] ELSE flatten[i - 1] \o seqs[i]
         /\ FlattenSeq(seqs) = IF N = 0 THEN seqs ELSE flatten[N]
  BY <1>0, FlattenIsDefined
<1> DEFINE f == [i \in 0 .. N |-> IF i = 0 THEN <<>> ELSE flatten[i]]
<1>6. f[0] = <<>> /\ \A i \in 1 .. N : f[i] = flatten[i]
  BY <1>0
<1>7. ASSUME NEW i \in 1 .. N PROVE f[i] = f[i - 1] \o seqs[i]
  <2>1. CASE i = 1
    <3>1. f[i] = seqs[1] /\ f[i - 1] = <<>> /\ seqs[1] \in Seq(A)
      BY <1>0, <1>4, <1>6, <2>1
    <3>2. \A s \in Seq(A) : s = <<>> \o s
      OBVIOUS
    <3> HIDE DEF f
    <3> QED BY <2>1, <3>1, <3>2
  <2>2. CASE i # 1
    <3>1. i - 1 \in 1 .. N
      BY <2>2
    <3>2. flatten[i] = flatten[i - 1] \o seqs[i]
      BY <1>4, <2>2
    <3> QED BY <1>6, <3>1, <3>2
  <2> QED BY <2>1, <2>2
<1>8. FlattenSeq(seqs) = f[N]
  BY <1>0, <1>4, <1>6
<1> HIDE DEF f
<1> QED BY <1>6, <1>7, <1>8

FlattenFirst(k, seqs) == FlattenSeq([i \in 1 .. k |-> seqs[i]])

\* The prefixes of a sequence flatten to the prefixes of the whole.
LEMMA Flattening ==
    ASSUME NEW A, NEW seqs \in Seq(Seq(A))
    PROVE  \E f : /\ f \in [0 .. Len(seqs) -> Seq(A)]
                  /\ f[0] = <<>>
                  /\ \A i \in 1 .. Len(seqs) : f[i] = f[i - 1] \o seqs[i]
                  /\ \A k \in 0 .. Len(seqs) : FlattenFirst(k, seqs) = f[k]
<1>1. PICK h : /\ h[0] = <<>>
               /\ \A i \in 1 .. Len(seqs) : h[i] = h[i - 1] \o seqs[i]
  BY FlattenSteps
<1> DEFINE N == Len(seqs)
           f == [i \in 0 .. N |-> h[i]]
<1>2. N \in Nat /\ \A i \in 1 .. N : seqs[i] \in Seq(A)
  OBVIOUS
<1>3. f[0] = <<>> /\ \A i \in 1 .. N : f[i] = f[i - 1] \o seqs[i]
  <2>1. 0 \in 0 .. N /\ \A i \in 1 .. N : i \in 0 .. N /\ i - 1 \in 0 .. N
    BY <1>2
  <2> QED BY <1>1, <2>1
<1>f. f = [i \in 0 .. N |-> f[i]]
  OBVIOUS
<1> HIDE DEF f
<1>4. \A i \in 0 .. N : f[i] \in Seq(A)
  <2> DEFINE T == {i \in Nat : f[i] \in Seq(A)}
  <2>1. 0 \in T
    BY <1>3, EmptySeq
  <2>2. ASSUME NEW i \in 1 .. N, i - 1 \in T PROVE i \in T
    <3>1. f[i - 1] \in Seq(A)
      BY <2>2
    <3> HIDE DEF T
    <3>3. i \in Nat /\ seqs[i] \in Seq(A)
      BY <1>2
    <3>4. f[i] = f[i - 1] \o seqs[i]
      BY <1>3
    <3>2. f[i] \in Seq(A)
      BY <3>1, <3>3, <3>4, ConcatProperties
    <3> QED BY <3>2, <3>3 DEF T
  <2>3. \A i \in 0 .. N : i \in T
    <3> HIDE DEF T
    <3> QED BY <1>2, <2>1, <2>2, InductionUpTo
  <2> QED BY <2>3
<1>5. ASSUME NEW k \in 0 .. N PROVE FlattenFirst(k, seqs) = f[k]
  <2> DEFINE part == [i \in 1 .. k |-> seqs[i]]
  <2>1. part \in Seq(Seq(A)) /\ Len(part) = k /\ \A i \in 1 .. k : part[i] = seqs[i]
    BY <1>2
  <2> HIDE DEF part
  <2>2. PICK g : /\ g[0] = <<>>
                 /\ \A i \in 1 .. k : g[i] = g[i - 1] \o part[i]
                 /\ FlattenSeq(part) = g[k]
    BY <2>1, FlattenSteps
  <2> DEFINE T == {i \in Nat : g[i] = f[i]}
  <2>3. 0 \in T
    BY <1>3, <2>2
  <2>4. ASSUME NEW i \in 1 .. k, i - 1 \in T PROVE i \in T
    <3>1. i \in Nat /\ i \in 1 .. N /\ g[i - 1] = f[i - 1]
      BY <1>2, <2>4
    <3>2. g[i] = f[i - 1] \o seqs[i] /\ f[i] = f[i - 1] \o seqs[i]
      BY <1>3, <2>1, <2>2, <3>1
    <3> QED BY <3>1, <3>2
  <2>5. \A i \in 0 .. k : i \in T
    <3>1. k \in Nat
      BY <1>2
    <3> HIDE DEF T
    <3> QED BY <2>3, <2>4, <3>1, InductionUpTo
  <2>6. g[k] = f[k]
    BY <1>2, <2>5
  <2> QED BY <2>2, <2>6 DEF part, FlattenFirst
<1> QED BY <1>2, <1>3, <1>4, <1>5, <1>f

-----------------------------------------------------------------------------
(* Types *)

Fields == UNION {[S -> Text] : S \in SUBSET Text}

Parser ==
    [method : Method, data : Fields, line : Text, first : BOOLEAN,
     out : Seq([method : Method, data : Fields]), threw : BOOLEAN]

\* A parser never keeps more than a line may have.
ParserOK(p) == p \in Parser /\ Len(p.line) <= MaxLineLength

LEMMA SplitType ==
    ASSUME NEW A, NEW s \in Seq(A), NEW delimiter, Len(delimiter) \in Nat \ {0}
    PROVE  /\ Split(s, delimiter) \in Seq(Seq(A))
           /\ \A i \in 1 .. Len(Split(s, delimiter)) : Split(s, delimiter)[i] # <<>>
<1> DEFINE ss == Split(s, delimiter)
<1>1. PICK b : Cuts(s, delimiter, 1, ss, b)
  BY SplitCuts
<1>2. ss \in Seq(PieceOf(s)) /\ Len(ss) \in Nat
  BY <1>1 DEF Cuts
<1>3. PieceOf(s) \subseteq Seq(A)
  <2> SUFFICES ASSUME NEW x \in PieceOf(s) PROVE x \in Seq(A)
    OBVIOUS
  <2>1. PICK i \in 1 .. Len(s), j \in 1 .. Len(s) : x = SubSeq(s, i, j)
    BY DEF PieceOf
  <2>2. Len(s) \in Nat /\ \A k \in i .. j : s[k] \in A
    BY <2>1
  <2> QED BY <2>1, <2>2, SubSeqProperties
<1>4. ASSUME NEW i \in 1 .. Len(ss) PROVE ss[i] # <<>>
  <2>1. /\ b \in [0 .. Len(ss) -> 0 .. Len(s)] /\ Len(s) \in Nat
        /\ b[i - 1] < b[i] /\ ss[i] = SubSeq(s, b[i - 1] + 1, b[i])
    BY <1>1 DEF Cuts
  <2>2. i - 1 \in 0 .. Len(ss) /\ i \in 0 .. Len(ss)
    BY <1>2
  <2>3. b[i - 1] \in 0 .. Len(s) /\ b[i] \in 0 .. Len(s)
    BY <2>1, <2>2
  <2> HIDE DEF ss
  <2>4. \A k \in b[i - 1] + 1 .. b[i] : s[k] \in A
    BY <2>1, <2>3
  <2>5. Len(ss[i]) = b[i] - (b[i - 1] + 1) + 1
    BY <2>1, <2>3, <2>4, SubSeqProperties
  <2>6. Len(ss[i]) # 0
    BY <2>1, <2>3, <2>5
  <2> QED BY <2>6, EmptySeq
<1> HIDE DEF ss
<1>5. ss \in Seq(Seq(A))
  BY <1>2, <1>3, SeqMonotonic
<1> QED BY <1>4, <1>5 DEF ss

LEMMA DelimitersType ==
    /\ END_SEQUENCE \in Text /\ END_OF_LINE \in Text /\ LINE_DELIMITER \in Text
    /\ Len(END_SEQUENCE) = 4 /\ Len(END_OF_LINE) = 1 /\ Len(LINE_DELIMITER) = 1
BY DEF END_SEQUENCE, END_OF_LINE, LINE_DELIMITER, Text, CR, LF, Colon

\* The methods are those of the table.
LEMMA MethodType ==
    /\ Uninitialized \in Method
    /\ \A name : ParseMethodName(name) # ParsingFailed => ParseMethodName(name) \in Method
BY DEF Method, ParseMethodName

LEMMA NewParserOK == ParserOK(NewParser)
<1>1. <<>> \in Text /\ Len(<<>>) = 0 /\ <<>> \in Seq([method : Method, data : Fields])
  BY EmptySeq DEF Text
<1>2. <<>> \in Fields
  <2>1. <<>> \in [{} -> Text]
    OBVIOUS
  <2> QED BY <2>1 DEF Fields
<1>3. 0 <= MaxLineLength
  BY ParserAssumption
<1> QED BY <1>1, <1>2, <1>3, MethodType DEF NewParser, ParserOK, Parser

LEMMA SetFieldType ==
    ASSUME NEW data \in Fields, NEW attr \in Text, NEW value \in Text
    PROVE  SetField(data, attr, value) \in Fields
<1>1. PICK S \in SUBSET Text : data \in [S -> Text]
  BY DEF Fields
<1>2. SetField(data, attr, value) \in [S \cup {attr} -> Text]
  BY <1>1 DEF SetField
<1>3. S \cup {attr} \in SUBSET Text
  BY <1>1
<1> QED BY <1>2, <1>3 DEF Fields

LEMMA ParseFullLineType ==
    ASSUME NEW p, ParserOK(p), NEW line \in Text
    PROVE  /\ ParserOK(ParseFullLine(p, line))
           /\ ParseFullLine(p, line).line = p.line
           /\ ParseFullLine(p, line).out = p.out
<1> DEFINE fields == Split(line, LINE_DELIMITER)
<1>1. p \in Parser /\ p.line \in Text
  BY DEF ParserOK, Parser
<1>2. ParserOK(Throw(p)) /\ Throw(p).line = p.line /\ Throw(p).out = p.out
  BY <1>1 DEF ParserOK, Parser, Throw
<1>3. CASE p.first
  <2>1. ASSUME ParseMethodName(line) # ParsingFailed
        PROVE  LET q == [p EXCEPT !.method = ParseMethodName(line), !.first = FALSE]
               IN  ParserOK(q) /\ q.line = p.line /\ q.out = p.out
    <3>1. ParseMethodName(line) \in Method
      BY <2>1, MethodType
    <3> QED BY <1>1, <3>1 DEF ParserOK, Parser
  <2> QED BY <1>2, <1>3, <2>1 DEF ParseFullLine
<1>4. CASE ~p.first
  <2>1. fields \in Seq(Text) /\ \A i \in 1 .. Len(fields) : fields[i] # <<>>
    <3>1. Len(LINE_DELIMITER) \in Nat \ {0}
      BY DelimitersType
    <3> QED BY <3>1, SplitType DEF Text
  <2> HIDE DEF fields
  <2>2. ASSUME ~(Len(fields) < 2)
        PROVE  LET q == ParseField(p, fields)
               IN  ParserOK(q) /\ q.line = p.line /\ q.out = p.out
    <3>1. Len(fields) \in Nat /\ fields[1] \in Text /\ fields[2] \in Text /\ fields[1] # <<>>
      BY <2>1, <2>2
    <3>2. Front(fields[1]) \in Text
      BY <3>1 DEF Front, Text
    <3>3. SetField(p.data, Front(fields[1]), fields[2]) \in Fields
      BY <1>1, <3>1, <3>2, SetFieldType DEF Parser
    <3> QED BY <1>1, <3>3 DEF ParserOK, Parser, ParseField
  <2> QED BY <1>2, <1>4, <2>2 DEF ParseFullLine, fields
<1> QED BY <1>1, <1>3, <1>4 DEF Parser

LEMMA ParseLineType ==
    ASSUME NEW p, ParserOK(p), NEW line \in Text, line # <<>>
    PROVE  ParserOK(ParseLine(p, line)) /\ ParseLine(p, line).out = p.out
<1> DEFINE length == Len(p.line) + Len(line)
<1>1. p \in Parser /\ p.line \in Text /\ Len(p.line) \in Nat /\ Len(line) \in Nat \ {0}
  BY DEF ParserOK, Parser, Text
<1>2. CASE p.threw
  BY <1>2 DEF ParseLine
<1>3. CASE ~p.threw /\ TooLong(p, length)
  BY <1>1, <1>3 DEF ParseLine, Throw, ParserOK, Parser
<1>4. CASE ~p.threw /\ ~TooLong(p, length) /\ Last(line) # LF
  <2>1. p.line \o line \in Text /\ Len(p.line \o line) = length
    BY <1>1 DEF Text
  <2>2. length <= MaxLineLength
    BY <1>1, <1>4, ParserAssumption DEF TooLong
  <2> HIDE DEF length
  <2> QED BY <1>1, <1>4, <2>1, <2>2 DEF ParseLine, ParserOK, Parser, length
<1>5. CASE ~p.threw /\ ~TooLong(p, length) /\ Last(line) = LF
  <2> DEFINE q == [p EXCEPT !.line = <<>>]
  <2>1. ParserOK(q) /\ q.out = p.out
    BY <1>1, NewParserOK DEF ParserOK, Parser, NewParser
  <2>2. p.line \o Front(line) \in Text
    BY <1>1 DEF Front, Text
  <2> HIDE DEF q
  <2>3. ParserOK(ParseFullLine(q, p.line \o Front(line)))
        /\ ParseFullLine(q, p.line \o Front(line)).out = q.out
    BY <2>1, <2>2, ParseFullLineType
  <2> QED BY <1>5, <2>1, <2>3 DEF ParseLine, q
<1> QED BY <1>1, <1>2, <1>3, <1>4, <1>5 DEF Parser
LEMMA ParseMsgLinesType ==
    ASSUME NEW p, ParserOK(p), NEW lines \in Seq(Text),
           \A i \in 1 .. Len(lines) : lines[i] # <<>>
    PROVE  ParserOK(ParseMsgLines(p, lines)) /\ ParseMsgLines(p, lines).out = p.out
<1> DEFINE N == Len(lines)
<1>1. N \in Nat /\ \A i \in 1 .. N : lines[i] \in Text
  OBVIOUS
<1>2. PICK f : /\ f[0] = p
               /\ \A i \in 1 .. N : f[i] = ParseLine(f[i - 1], lines[i])
               /\ ParseMsgLines(p, lines) = f[N]
  BY <1>1, ParseMsgLinesSteps
<1> DEFINE T == {i \in Nat : ParserOK(f[i]) /\ f[i].out = p.out}
<1>3. 0 \in T
  BY <1>2
<1>4. ASSUME NEW i \in 1 .. N, i - 1 \in T PROVE i \in T
  <2>1. ParserOK(f[i - 1]) /\ f[i - 1].out = p.out /\ lines[i] \in Text /\ lines[i] # <<>>
    BY <1>1, <1>4
  <2>2. f[i] = ParseLine(f[i - 1], lines[i])
    BY <1>2
  <2> QED BY <2>1, <2>2, ParseLineType
<1>5. \A i \in 0 .. N : i \in T
  <2> HIDE DEF T
  <2> QED BY <1>1, <1>3, <1>4, InductionUpTo
<1> QED BY <1>1, <1>2, <1>5

\* What parse does with a piece, without its LET.
LineSplit(s) == Split(s, END_OF_LINE)
TextOf(piece) == SubSeq(piece, 1, Len(piece) - Len(END_SEQUENCE))
EndsMessage(piece) == piece = TextOf(piece) \o END_SEQUENCE
Complete1(q) == ClearCache([q EXCEPT !.out = Append(@, [method |-> q.method, data |-> q.data])])

LEMMA LineSplitType ==
    ASSUME NEW s \in Text
    PROVE  LineSplit(s) \in Seq(Text) /\ \A i \in 1 .. Len(LineSplit(s)) : LineSplit(s)[i] # <<>>
<1>1. Len(END_OF_LINE) \in Nat \ {0}
  BY DelimitersType
<1> QED BY <1>1, SplitType DEF LineSplit, Text

LEMMA TextOfType ==
    ASSUME NEW piece \in Text
    PROVE  TextOf(piece) \in Text
<1>1. Len(piece) \in Nat /\ Len(END_SEQUENCE) = 4
  BY DelimitersType DEF Text
<1>2. \A k \in 1 .. Len(piece) - 4 : piece[k] \in Char \cup {CR, LF, Colon}
  BY DEF Text
<1>3. piece \in Seq(Char \cup {CR, LF, Colon})
  BY DEF Text
<1> QED BY <1>1, <1>2, <1>3, SubSeqProperties DEF TextOf, Text

LEMMA ParsePieceType ==
    ASSUME NEW p, ParserOK(p), NEW piece \in Text
    PROVE  ParserOK(ParsePiece(p, piece))
<1> DEFINE q == ParseMsgLines(p, LineSplit(TextOf(piece)))
<1>1. ParserOK(ParseMsgLines(p, LineSplit(piece)))
  BY LineSplitType, ParseMsgLinesType
<1>2. ParserOK(q)
  BY LineSplitType, TextOfType, ParseMsgLinesType
<1>3. ParsePiece(p, piece) =
        IF ~EndsMessage(piece) THEN ParseMsgLines(p, LineSplit(piece))
        ELSE IF q.threw THEN q ELSE Complete1(q)
  BY DEF ParsePiece, LineSplit, TextOf, EndsMessage, Complete1
<1>4. ParserOK(Complete1(q))
  <2> HIDE DEF q
  <2>1. [method |-> q.method, data |-> q.data] \in [method : Method, data : Fields]
    BY <1>2 DEF ParserOK, Parser
  <2>2. Append(q.out, [method |-> q.method, data |-> q.data])
          \in Seq([method : Method, data : Fields])
    BY <1>2, <2>1 DEF ParserOK, Parser
  <2> QED BY <1>2, <2>2, NewParserOK
       DEF Complete1, ClearCache, ParserOK, Parser, NewParser
<1> QED BY <1>1, <1>2, <1>3, <1>4

LEMMA ParseSteps ==
    ASSUME NEW p, NEW data, Len(Split(data, END_SEQUENCE)) \in Nat
    PROVE  LET messages == Split(data, END_SEQUENCE)
           IN  \E f : /\ f[0] = [p EXCEPT !.out = <<>>]
                      /\ \A i \in 1 .. Len(messages) : f[i] = ParsePiece(f[i - 1], messages[i])
                      /\ Parse(p, data) = f[Len(messages)]
<1> DEFINE pieces == Split(data, END_SEQUENCE)
           N == Len(pieces)
           Step(f, i) == IF i = 0 THEN [p EXCEPT !.out = <<>>]
                         ELSE ParsePiece(f[i - 1], pieces[i])
           Upto(n, f) == [i \in 0 .. N |-> IF i <= n THEN Step(f, i) ELSE 0]
           T == {n \in Nat : \E f : f = Upto(n, f)}
<1>a. Parse(p, data) = (CHOOSE f : f = [i \in 0 .. N |-> Step(f, i)])[N]
  BY DEF Parse
<1>0. N \in Nat
  OBVIOUS
<1>b. \A f, g : \A i \in 0 .. N :
        (i # 0 => f[i - 1] = g[i - 1]) => Step(f, i) = Step(g, i)
  OBVIOUS
<1>c. \A f : \A i \in 1 .. N : Step(f, i) = ParsePiece(f[i - 1], pieces[i])
  BY <1>0
<1>d. \A f : Step(f, 0) = [p EXCEPT !.out = <<>>]
  OBVIOUS
<1> HIDE DEF Step, pieces
<1>1. 0 \in T
  <2> DEFINE f == [i \in 0 .. N |-> IF i = 0 THEN Step(0, 0) ELSE 0]
  <2>1. f = Upto(0, f)
    BY <1>0, <1>d
  <2> HIDE DEF f, Upto
  <2> QED BY <2>1
<1>2. ASSUME NEW n \in Nat, n \in T PROVE n + 1 \in T
  <2>1. PICK f : f = Upto(n, f)
    BY <1>2
  <2> DEFINE g == Upto(n + 1, f)
  <2>2. \A i \in 0 .. N : i <= n + 1 => Step(f, i) = Step(g, i)
    <3> SUFFICES ASSUME NEW i \in 1 .. N, i <= n + 1 PROVE f[i - 1] = g[i - 1]
      <4> HIDE DEF g
      <4> QED BY <1>0, <1>b
    <3>1. i - 1 \in 0 .. N /\ i - 1 <= n /\ i - 1 <= n + 1
      BY <1>0
    <3>2. f[i - 1] = Step(f, i - 1)
      BY <2>1, <3>1
    <3>3. g[i - 1] = Step(f, i - 1)
      BY <3>1
    <3> QED BY <3>2, <3>3
  <2>3. g = Upto(n + 1, g)
    <3> HIDE DEF g
    <3>1. Upto(n + 1, f) = Upto(n + 1, g)
      BY <2>2
    <3> QED BY <3>1 DEF g
  <2>4. \E h : h = Upto(n + 1, h)
    <3> HIDE DEF g, Upto
    <3> QED BY <2>3
  <2> HIDE DEF Upto
  <2> QED BY <2>4
<1>3. N \in T
  <2> HIDE DEF T
  <2> QED BY <1>0, <1>1, <1>2, NumberInduction
<1> DEFINE after == CHOOSE f : f = [i \in 0 .. N |-> Step(f, i)]
<1>4. after = [i \in 0 .. N |-> Step(after, i)]
  <2>1. PICK f : f = Upto(N, f)
    BY <1>3
  <2>2. f = [i \in 0 .. N |-> Step(f, i)]
    BY <1>0, <2>1
  <2> QED BY <2>2
<1>5. Parse(p, data) = after[N]
  BY <1>a
<1> HIDE DEF after
<1>6. after[0] = [p EXCEPT !.out = <<>>]
  BY <1>0, <1>4, <1>d
<1>7. \A i \in 1 .. N : after[i] = ParsePiece(after[i - 1], pieces[i])
  BY <1>0, <1>4, <1>c
<1> QED BY <1>5, <1>6, <1>7 DEF pieces

-----------------------------------------------------------------------------
(* Where the sequences are in what they flatten to *)

ArePrefixes(A, N, seqs, f) ==
    /\ N \in Nat
    /\ \A i \in 1 .. N : seqs[i] \in Seq(A)
    /\ \A i \in 0 .. N : f[i] \in Seq(A)
    /\ \A i \in 1 .. N : f[i] = f[i - 1] \o seqs[i]

EachAt(N, seqs, f) ==
    \A k \in 1 .. N :
        /\ Len(f[k]) = Len(f[k - 1]) + Len(seqs[k])
        /\ \A j \in 1 .. Len(seqs[k]) : f[N][Len(f[k - 1]) + j] = seqs[k][j]

LEMMA PrefixesAt ==
    ASSUME NEW A, NEW N, NEW seqs, NEW f, ArePrefixes(A, N, seqs, f)
    PROVE  EachAt(N, seqs, f)
<1> DEFINE e == [k \in 0 .. N |-> Len(f[k])]
           l == [k \in 1 .. N |-> Len(seqs[k])]
<1> USE DEF ArePrefixes
<1>1. /\ \A k \in 0 .. N : e[k] = Len(f[k]) /\ e[k] \in Nat
      /\ \A k \in 1 .. N : l[k] = Len(seqs[k]) /\ l[k] \in Nat
  OBVIOUS
<1> HIDE DEF e, l
<1>2. ASSUME NEW k \in 1 .. N
      PROVE  /\ e[k] = e[k - 1] + l[k]
             /\ \A i \in 1 .. e[k - 1] + l[k] :
                   f[k][i] = IF i <= e[k - 1] THEN f[k - 1][i] ELSE seqs[k][i - e[k - 1]]
  <2>1. k \in 0 .. N /\ k - 1 \in 0 .. N
    OBVIOUS
  <2>2. f[k - 1] \in Seq(A) /\ seqs[k] \in Seq(A) /\ f[k] = f[k - 1] \o seqs[k]
    BY <2>1
  <2> DEFINE s1 == f[k - 1]
             s2 == seqs[k]
  <2>a. s1 \in Seq(A) /\ s2 \in Seq(A) /\ f[k] = s1 \o s2
    BY <2>2
  <2> HIDE DEF s1, s2
  <2>b. /\ Len(s1 \o s2) = Len(s1) + Len(s2)
        /\ \A i \in 1 .. Len(s1) + Len(s2) :
              (s1 \o s2)[i] = IF i <= Len(s1) THEN s1[i] ELSE s2[i - Len(s1)]
    BY <2>a, ConcatProperties, Zenon
  <2>3. /\ Len(f[k]) = Len(f[k - 1]) + Len(seqs[k])
        /\ \A i \in 1 .. Len(f[k - 1]) + Len(seqs[k]) :
              f[k][i] = IF i <= Len(f[k - 1]) THEN f[k - 1][i] ELSE seqs[k][i - Len(f[k - 1])]
    BY <2>a, <2>b, Zenon DEF s1, s2
  <2>4. Len(f[k]) = e[k] /\ Len(f[k - 1]) = e[k - 1] /\ Len(seqs[k]) = l[k]
    BY <1>1, <2>1
  <2> QED BY <2>3, <2>4
<1> DEFINE T == {n \in Nat : \A k \in 1 .. n : \A j \in 1 .. l[k] :
                    e[k - 1] + j <= e[n] /\ f[n][e[k - 1] + j] = seqs[k][j]}
<1>3. 0 \in T
  OBVIOUS
<1>4. ASSUME NEW n \in 1 .. N, n - 1 \in T PROVE n \in T
  <2>1. n \in 1 .. N /\ n - 1 \in 0 .. N /\ n \in Nat
    OBVIOUS
  <2>2. e[n] = e[n - 1] + l[n] /\ e[n - 1] \in Nat /\ l[n] \in Nat
    BY <1>1, <1>2, <2>1
  <2> SUFFICES ASSUME NEW k \in 1 .. n, NEW j \in 1 .. l[k]
               PROVE  e[k - 1] + j <= e[n] /\ f[n][e[k - 1] + j] = seqs[k][j]
    BY <2>1
  <2>3. CASE k = n
    <3>1. e[n - 1] + j \in 1 .. e[n - 1] + l[n] /\ ~(e[n - 1] + j <= e[n - 1])
          /\ (e[n - 1] + j) - e[n - 1] = j /\ e[n - 1] + j <= e[n]
      BY <2>2, <2>3
    <3>2. f[n][e[n - 1] + j] = seqs[n][j]
      BY <1>2, <3>1
    <3> QED BY <2>3, <3>1, <3>2
  <2>4. CASE k # n
    <3>1. k \in 1 .. n - 1 /\ k - 1 \in 0 .. N
      BY <2>1, <2>4
    <3>2. e[k - 1] + j <= e[n - 1] /\ f[n - 1][e[k - 1] + j] = seqs[k][j]
      BY <1>4, <3>1
    <3>3. e[k - 1] \in Nat
      BY <1>1, <3>1
    <3>4. e[k - 1] + j \in 1 .. e[n - 1] + l[n] /\ e[k - 1] + j <= e[n]
      BY <2>2, <3>2, <3>3, SMTT(30)
    <3>5. f[n][e[k - 1] + j] = f[n - 1][e[k - 1] + j]
      BY <1>2, <3>2, <3>4
    <3> QED BY <3>2, <3>4, <3>5
  <2> QED BY <2>3, <2>4
<1>5. \A n \in 0 .. N : n \in T
  <2> HIDE DEF T
  <2> QED BY <1>3, <1>4, InductionUpTo
<1>6. N \in T
  BY <1>5
<1>7. ASSUME NEW k \in 1 .. N
      PROVE  /\ Len(f[k]) = Len(f[k - 1]) + Len(seqs[k])
             /\ \A j \in 1 .. Len(seqs[k]) : f[N][Len(f[k - 1]) + j] = seqs[k][j]
  <2>1. k \in 0 .. N /\ k - 1 \in 0 .. N
    OBVIOUS
  <2>2. Len(f[k]) = e[k] /\ Len(f[k - 1]) = e[k - 1] /\ Len(seqs[k]) = l[k]
    BY <1>1, <2>1
  <2> QED BY <1>2, <1>6, <2>2
<1> QED BY <1>7 DEF EachAt

\* FlattenSeq(seqs) has its k-th part behind the position e[k - 1].
FlattensAt(A, seqs, e) ==
    /\ e \in [0 .. Len(seqs) -> Nat]
    /\ e[0] = 0 /\ e[Len(seqs)] = Len(FlattenSeq(seqs))
    /\ FlattenSeq(seqs) \in Seq(A)
    /\ \A k \in 0 .. Len(seqs) : e[k] = Len(FlattenFirst(k, seqs))
    /\ \A k \in 1 .. Len(seqs) :
          /\ e[k] = e[k - 1] + Len(seqs[k])
          /\ \A j \in 1 .. Len(seqs[k]) : FlattenSeq(seqs)[e[k - 1] + j] = seqs[k][j]

LEMMA FlattenAt ==
    ASSUME NEW A, NEW seqs \in Seq(Seq(A))
    PROVE  \E e : FlattensAt(A, seqs, e)
<1> DEFINE N == Len(seqs)
<1>1. N \in Nat /\ \A i \in 1 .. N : seqs[i] \in Seq(A)
  OBVIOUS
<1>2. PICK f : /\ f \in [0 .. N -> Seq(A)]
               /\ f[0] = <<>>
               /\ \A i \in 1 .. N : f[i] = f[i - 1] \o seqs[i]
               /\ \A k \in 0 .. N : FlattenFirst(k, seqs) = f[k]
  BY Flattening, Zenon
<1> DEFINE e == [k \in 0 .. N |-> Len(f[k])]
<1>3. \A k \in 0 .. N : f[k] \in Seq(A)
  BY <1>2
<1>4. e \in [0 .. N -> Nat] /\ e[0] = 0 /\ \A k \in 0 .. N : e[k] = Len(f[k])
  <2>1. \A k \in 0 .. N : Len(f[k]) \in Nat
    BY <1>3
  <2> QED BY <1>1, <1>2, <2>1
<1>5. [i \in 1 .. N |-> seqs[i]] = seqs
  OBVIOUS
<1>6. FlattenSeq(seqs) = f[N]
  BY <1>1, <1>2, <1>5 DEF FlattenFirst
<1> HIDE DEF e, N
<1>7. EachAt(N, seqs, f)
  <2>1. ArePrefixes(A, N, seqs, f)
    BY <1>1, <1>2, <1>3, Zenon DEF ArePrefixes
  <2> QED BY <2>1, PrefixesAt
<1>8. \A k \in 1 .. N : /\ e[k] = e[k - 1] + Len(seqs[k])
                        /\ \A j \in 1 .. Len(seqs[k]) :
                              FlattenSeq(seqs)[e[k - 1] + j] = seqs[k][j]
  <2> SUFFICES ASSUME NEW k \in 1 .. N
               PROVE  /\ e[k] = e[k - 1] + Len(seqs[k])
                      /\ \A j \in 1 .. Len(seqs[k]) :
                            FlattenSeq(seqs)[e[k - 1] + j] = seqs[k][j]
    OBVIOUS
  <2>1. k \in 0 .. N /\ k - 1 \in 0 .. N
    BY <1>1
  <2>2. e[k] = Len(f[k]) /\ e[k - 1] = Len(f[k - 1])
    BY <1>4, <2>1
  <2> QED BY <1>6, <1>7, <2>2 DEF EachAt
<1>9. e[N] = Len(FlattenSeq(seqs)) /\ FlattenSeq(seqs) \in Seq(A)
  BY <1>1, <1>3, <1>4, <1>6
<1>10. \A k \in 0 .. N : e[k] = Len(FlattenFirst(k, seqs))
  BY <1>2, <1>4
<1>11. FlattensAt(A, seqs, e)
  BY <1>4, <1>8, <1>9, <1>10, ZenonT(30) DEF N, FlattensAt
<1> QED BY <1>11

\* A text is lines of which the last two, the end sequence, are a CR each: e says
\* where they end.
Shape(t, n, L, e) ==
    /\ t \in Text /\ n \in Nat \ {0}
    /\ e \in [0 .. n + 2 -> Nat] /\ e[0] = 0 /\ e[n + 2] = Len(t)
    /\ L[n + 1] = <<CR>> /\ L[n + 2] = <<CR>>
    /\ \A i \in 1 .. n : L[i] \in Line
    /\ \A i \in 1 .. n + 2 :
          /\ L[i] \in Seq(Char \cup {Colon, CR})
          /\ e[i] = e[i - 1] + Len(L[i]) + 1
          /\ t[e[i]] = LF
          /\ \A c \in 1 .. Len(L[i]) : t[e[i - 1] + c] = L[i][c]

LEMMA TextShape ==
    ASSUME NEW lines \in Seq(Line), lines # <<>>
    PROVE  \E L, e : /\ Shape(SerializeProtocolData(lines), Len(lines), L, e)
                     /\ \A i \in 1 .. Len(lines) : L[i] = lines[i]
<1> DEFINE n == Len(lines)
           C == Char \cup {CR, LF, Colon}
           full == [i \in DOMAIN lines |-> lines[i] \o END_OF_LINE]
           flat == FlattenSeq(full)
           t == SerializeProtocolData(lines)
<1>1. n \in Nat \ {0} /\ DOMAIN lines = 1 .. n
      /\ \A i \in 1 .. n : lines[i] \in Line /\ Len(lines[i]) \in Nat
  <2>1. n \in Nat \ {0} /\ DOMAIN lines = 1 .. n /\ \A i \in 1 .. n : lines[i] \in Line
    OBVIOUS
  <2> QED BY <2>1 DEF Line
<1> HIDE DEF n
<1>2. ASSUME NEW i \in 1 .. n
      PROVE  /\ lines[i] \o END_OF_LINE \in Seq(C)
             /\ Len(lines[i] \o END_OF_LINE) = Len(lines[i]) + 1
             /\ \A c \in 1 .. Len(lines[i]) : (lines[i] \o END_OF_LINE)[c] = lines[i][c]
             /\ (lines[i] \o END_OF_LINE)[Len(lines[i]) + 1] = LF
  <2>1. lines[i] \in Seq(C) /\ Len(lines[i]) \in Nat
    BY <1>1 DEF Line
  <2>2. END_OF_LINE \in Seq(C) /\ Len(END_OF_LINE) = 1 /\ END_OF_LINE[1] = LF
    BY DEF END_OF_LINE
  <2> DEFINE s == lines[i]
  <2>3. s \in Seq(C) /\ Len(s) \in Nat
    BY <2>1
  <2> HIDE DEF s, C
  <2>a. /\ s \o END_OF_LINE \in Seq(C)
        /\ Len(s \o END_OF_LINE) = Len(s) + Len(END_OF_LINE)
        /\ \A c \in 1 .. Len(s) + Len(END_OF_LINE) :
              (s \o END_OF_LINE)[c] = IF c <= Len(s) THEN s[c] ELSE END_OF_LINE[c - Len(s)]
    BY <2>2, <2>3, ConcatProperties, Zenon
  <2>4. /\ s \o END_OF_LINE \in Seq(C) /\ Len(s \o END_OF_LINE) = Len(s) + 1
        /\ \A c \in 1 .. Len(s) + 1 :
              (s \o END_OF_LINE)[c] = IF c <= Len(s) THEN s[c] ELSE END_OF_LINE[c - Len(s)]
    BY <2>2, <2>a
  <2>5. \A c \in 1 .. Len(s) : (s \o END_OF_LINE)[c] = s[c]
    BY <2>3, <2>4
  <2>6. Len(s) + 1 \in 1 .. Len(s) + 1 /\ ~(Len(s) + 1 <= Len(s)) /\ Len(s) + 1 - Len(s) = 1
    BY <2>3
  <2>7. (s \o END_OF_LINE)[Len(s) + 1] = LF
    BY <2>2, <2>4, <2>6
  <2> QED BY <2>4, <2>5, <2>7 DEF s
<1>3. /\ full \in Seq(Seq(C)) /\ Len(full) = n
      /\ \A i \in 1 .. n : full[i] = lines[i] \o END_OF_LINE
  BY <1>1, <1>2
<1> HIDE DEF full, C
<1>4. PICK d : /\ d \in [0 .. n -> Nat]
               /\ d[0] = 0 /\ d[n] = Len(flat)
               /\ flat \in Seq(C)
               /\ \A k \in 1 .. n :
                     /\ d[k] = d[k - 1] + Len(full[k])
                     /\ \A j \in 1 .. Len(full[k]) : flat[d[k - 1] + j] = full[k][j]
  <2> HIDE DEF flat
  <2>0. full \in Seq(Seq(C))
    BY <1>3
  <2>1. PICK d : FlattensAt(C, full, d)
    BY <2>0, FlattenAt
  <2>2. /\ d \in [0 .. n -> Nat]
        /\ d[0] = 0 /\ d[n] = Len(flat)
        /\ flat \in Seq(C)
        /\ \A k \in 1 .. n :
              /\ d[k] = d[k - 1] + Len(full[k])
              /\ \A j \in 1 .. Len(full[k]) : flat[d[k - 1] + j] = full[k][j]
    <3>1. Len(full) = n
      BY <1>3
    <3> QED BY <2>1, <3>1, Zenon DEF flat, FlattensAt
  <2> QED BY <2>2, Zenon
<1>5. t = flat \o END_SEQUENCE
  BY DEF SerializeProtocolData, full
<1>6. /\ t \in Seq(C) /\ Len(t) = d[n] + 4 /\ d[n] \in Nat
      /\ \A i \in 1 .. d[n] : t[i] = flat[i]
      /\ t[d[n] + 1] = CR /\ t[d[n] + 2] = LF /\ t[d[n] + 3] = CR /\ t[d[n] + 4] = LF
  <2>1. /\ END_SEQUENCE \in Seq(C) /\ Len(END_SEQUENCE) = 4
        /\ END_SEQUENCE[1] = CR /\ END_SEQUENCE[2] = LF
        /\ END_SEQUENCE[3] = CR /\ END_SEQUENCE[4] = LF
    BY DEF END_SEQUENCE, C
  <2>2. d[n] \in Nat
    BY <1>1, <1>4
  <2> HIDE DEF t, flat
  <2>a. flat \in Seq(C) /\ END_SEQUENCE \in Seq(C) /\ d[n] = Len(flat)
    BY <1>4, <2>1
  <2>b. /\ t \in Seq(C) /\ Len(t) = Len(flat) + Len(END_SEQUENCE)
        /\ \A i \in 1 .. Len(flat) + Len(END_SEQUENCE) :
              t[i] = IF i <= Len(flat) THEN flat[i] ELSE END_SEQUENCE[i - Len(flat)]
    BY <1>5, <2>a, ConcatProperties
  <2>3. /\ t \in Seq(C) /\ Len(t) = d[n] + 4
        /\ \A i \in 1 .. d[n] + 4 : t[i] = IF i <= d[n] THEN flat[i] ELSE END_SEQUENCE[i - d[n]]
    BY <2>1, <2>a, <2>b
  <2>4. ASSUME NEW c \in 1 .. 4 PROVE t[d[n] + c] = END_SEQUENCE[c]
    <3> DEFINE i == d[n] + c
    <3>1. i \in 1 .. d[n] + 4 /\ ~(i <= d[n]) /\ i - d[n] = c
      BY <2>2
    <3> HIDE DEF i
    <3>2. t[i] = END_SEQUENCE[c]
      BY <2>3, <3>1
    <3> QED BY <3>2 DEF i
  <2>5. 1 \in 1 .. 4 /\ 2 \in 1 .. 4 /\ 3 \in 1 .. 4 /\ 4 \in 1 .. 4
    OBVIOUS
  <2>6. /\ t[d[n] + 1] = CR /\ t[d[n] + 2] = LF /\ t[d[n] + 3] = CR /\ t[d[n] + 4] = LF
    BY <2>1, <2>4, <2>5
  <2>7. \A i \in 1 .. d[n] : t[i] = flat[i]
    <3>1. \A i \in 1 .. d[n] : i \in 1 .. d[n] + 4 /\ i <= d[n]
      BY <2>2
    <3> QED BY <2>3, <3>1
  <2> QED BY <2>2, <2>3, <2>6, <2>7
<1> HIDE DEF t, flat
<1> DEFINE L == [i \in 1 .. n + 2 |-> IF i <= n THEN lines[i] ELSE <<CR>>]
           e == [i \in 0 .. n + 2 |-> IF i <= n THEN d[i]
                                      ELSE IF i = n + 1 THEN d[n] + 2 ELSE d[n] + 4]
<1>7. /\ \A i \in 1 .. n : L[i] = lines[i]
      /\ L[n + 1] = <<CR>> /\ L[n + 2] = <<CR>>
      /\ \A i \in 0 .. n : e[i] = d[i]
      /\ e[n + 1] = d[n] + 2 /\ e[n + 2] = d[n] + 4
      /\ e \in [0 .. n + 2 -> Nat]
  <2>1. \A i \in 0 .. n : d[i] \in Nat
    BY <1>4
  <2>2. n \in Nat /\ d[n] \in Nat
    BY <1>1, <1>6
  <2>3. /\ \A i \in 1 .. n : L[i] = lines[i]
        /\ L[n + 1] = <<CR>> /\ L[n + 2] = <<CR>>
    BY <2>2
  <2>4. /\ \A i \in 0 .. n : e[i] = d[i]
        /\ e[n + 1] = d[n] + 2 /\ e[n + 2] = d[n] + 4
    BY <2>2
  <2>5. e \in [0 .. n + 2 -> Nat]
    BY <2>1, <2>2
  <2> QED BY <2>3, <2>4, <2>5
<1> HIDE DEF L, e
<1>8. \A i \in 1 .. n : L[i] \in Seq(Char \cup {Colon, CR})
  <2> SUFFICES ASSUME NEW i \in 1 .. n PROVE lines[i] \in Seq(Char \cup {Colon, CR})
    BY <1>7
  <2>1. lines[i] \in Seq(Char \cup {Colon})
    BY <1>1 DEF Line
  <2> QED BY <2>1
<1>9. ASSUME NEW i \in 1 .. n
      PROVE  /\ e[i] = e[i - 1] + Len(L[i]) + 1
             /\ t[e[i]] = LF
             /\ \A c \in 1 .. Len(L[i]) : t[e[i - 1] + c] = L[i][c]
  <2>1. i \in 0 .. n /\ i - 1 \in 0 .. n /\ L[i] = lines[i] /\ Len(lines[i]) \in Nat
    BY <1>1, <1>7
  <2>2. e[i] = d[i] /\ e[i - 1] = d[i - 1] /\ d[i] \in Nat /\ d[i - 1] \in Nat
    BY <1>4, <1>7, <2>1
  <2>3. d[i] = d[i - 1] + (Len(lines[i]) + 1)
    <3>1. d[i] = d[i - 1] + Len(full[i]) /\ full[i] = lines[i] \o END_OF_LINE
      BY <1>3, <1>4
    <3>2. Len(lines[i] \o END_OF_LINE) = Len(lines[i]) + 1
      BY <1>2
    <3> QED BY <3>1, <3>2
  <2>4. \A j \in 1 .. Len(lines[i]) + 1 : flat[d[i - 1] + j] = (lines[i] \o END_OF_LINE)[j]
    <3>1. full[i] = lines[i] \o END_OF_LINE /\ Len(full[i]) = Len(lines[i]) + 1
      BY <1>2, <1>3
    <3>2. \A j \in 1 .. Len(full[i]) : flat[d[i - 1] + j] = full[i][j]
      BY <1>4
    <3> QED BY <3>1, <3>2
  <2>5. d[i] <= d[n]
    <3> DEFINE T == {k \in Nat : \A j \in 0 .. k : d[j] <= d[k]}
    <3>1. 0 \in T
      BY <1>4
    <3>2. ASSUME NEW k \in 1 .. n, k - 1 \in T PROVE k \in T
      <4>1. k - 1 \in 0 .. n /\ d[k - 1] \in Nat /\ d[k] = d[k - 1] + (Len(lines[k]) + 1)
            /\ Len(lines[k]) \in Nat
        <5>1. k - 1 \in 0 .. n /\ Len(lines[k]) \in Nat
          BY <1>1
        <5>2. d[k - 1] \in Nat
          BY <1>4, <5>1
        <5>3. d[k] = d[k - 1] + Len(full[k]) /\ full[k] = lines[k] \o END_OF_LINE
          BY <1>3, <1>4
        <5>4. Len(lines[k] \o END_OF_LINE) = Len(lines[k]) + 1
          BY <1>2
        <5> QED BY <5>1, <5>2, <5>3, <5>4
      <4>2. \A j \in 0 .. k - 1 : d[j] <= d[k - 1] /\ d[j] \in Nat
        <5>1. \A j \in 0 .. k - 1 : j \in 0 .. n
          BY <1>1
        <5>2. \A j \in 0 .. k - 1 : d[j] <= d[k - 1]
          BY <3>2
        <5> QED BY <1>4, <5>1, <5>2
      <4>3. \A j \in 0 .. k : j = k \/ j \in 0 .. k - 1
        OBVIOUS
      <4> QED BY <4>1, <4>2, <4>3
    <3>3. \A k \in 0 .. n : k \in T
      <4> HIDE DEF T
      <4> QED BY <1>1, <3>1, <3>2, InductionUpTo
    <3>4. n \in T
      BY <1>1, <3>3
    <3> QED BY <2>1, <3>4
  <2>6. ASSUME NEW j \in 1 .. Len(lines[i]) + 1
        PROVE  t[d[i - 1] + j] = (lines[i] \o END_OF_LINE)[j]
    <3>1. d[i - 1] + j \in 1 .. d[n]
      <4>1. d[i - 1] + j <= d[i] /\ d[i - 1] + j \in Nat \ {0}
        BY <2>1, <2>2, <2>3
      <4>2. d[n] \in Nat
        BY <1>6
      <4>3. d[i - 1] + j <= d[n]
        BY <2>2, <2>5, <4>1, <4>2
      <4> QED BY <4>1, <4>2, <4>3
    <3> QED BY <1>6, <2>4, <3>1
  <2>7. t[e[i]] = LF
    <3>1. Len(lines[i]) + 1 \in 1 .. Len(lines[i]) + 1 /\ e[i] = d[i - 1] + (Len(lines[i]) + 1)
      BY <2>1, <2>2, <2>3
    <3> QED BY <1>2, <2>6, <3>1
  <2>8. \A c \in 1 .. Len(L[i]) : t[e[i - 1] + c] = L[i][c]
    <3> SUFFICES ASSUME NEW c \in 1 .. Len(lines[i]) PROVE t[d[i - 1] + c] = lines[i][c]
      BY <2>1, <2>2
    <3>1. c \in 1 .. Len(lines[i]) + 1
      BY <2>1
    <3> QED BY <1>2, <2>6, <3>1
  <2> QED BY <2>1, <2>2, <2>3, <2>7, <2>8
<1>10. ASSUME NEW i \in {n + 1, n + 2}
       PROVE  /\ L[i] \in Seq(Char \cup {Colon, CR})
              /\ e[i] = e[i - 1] + Len(L[i]) + 1
              /\ t[e[i]] = LF
              /\ \A c \in 1 .. Len(L[i]) : t[e[i - 1] + c] = L[i][c]
  <2>1. L[i] = <<CR>> /\ Len(L[i]) = 1 /\ L[i][1] = CR
    <3>1. L[i] = <<CR>>
      BY <1>7
    <3> QED BY <3>1
  <2>2. n \in 0 .. n /\ (n + 1) - 1 = n /\ (n + 2) - 1 = n + 1
    BY <1>1
  <2>3. e[n] = d[n] /\ d[n] \in Nat
    BY <1>6, <1>7, <2>2
  <2>4. e[i] = e[i - 1] + 1 + 1 /\ t[e[i]] = LF /\ t[e[i - 1] + 1] = CR
    <3>1. CASE i = n + 1
      <4>1. e[i] = d[n] + 2 /\ e[i - 1] = d[n]
        BY <1>7, <2>2, <2>3, <3>1
      <4>2. d[n] \in Nat /\ t[d[n] + 1] = CR /\ t[d[n] + 2] = LF
        BY <1>6
      <4> QED BY <4>1, <4>2
    <3>2. CASE i = n + 2
      <4>1. e[i] = d[n] + 4 /\ e[i - 1] = d[n] + 2
        BY <1>7, <2>2, <2>3, <3>2
      <4>2. d[n] \in Nat /\ t[d[n] + 3] = CR /\ t[d[n] + 4] = LF /\ d[n] + 3 = (d[n] + 2) + 1
        BY <1>6
      <4> QED BY <4>1, <4>2
    <3> QED BY <3>1, <3>2
  <2>5. L[i] \in Seq(Char \cup {Colon, CR})
    BY <2>1
  <2> QED BY <2>1, <2>4, <2>5
<1>11. \A i \in 1 .. n + 2 : i \in 1 .. n \/ i \in {n + 1, n + 2}
  BY <1>1
<1>12. e[0] = 0 /\ e[n + 2] = Len(t) /\ t \in Text
  BY <1>1, <1>4, <1>6, <1>7 DEF Text, C
<1>13. ASSUME NEW i \in 1 .. n + 2
       PROVE  /\ L[i] \in Seq(Char \cup {Colon, CR})
              /\ e[i] = e[i - 1] + Len(L[i]) + 1
              /\ t[e[i]] = LF
              /\ \A c \in 1 .. Len(L[i]) : t[e[i - 1] + c] = L[i][c]
  BY <1>8, <1>9, <1>10, <1>11
<1>14. \A i \in 1 .. n : L[i] \in Line
  BY <1>1, <1>7
<1>15. Shape(t, n, L, e)
  BY <1>1, <1>7, <1>12, <1>13, <1>14 DEF Shape
<1>16. Shape(SerializeProtocolData(lines), Len(lines), L, e)
       /\ \A i \in 1 .. Len(lines) : L[i] = lines[i]
  BY <1>7, <1>15 DEF t, n
<1> QED BY <1>16, Zenon
-----------------------------------------------------------------------------
(* Splits at a single character *)

LEMMA FoundOne ==
    ASSUME NEW A, NEW s \in Seq(A), NEW d, NEW from \in Nat \ {0}, NEW i \in from .. Len(s)
    PROVE  i \in Found(s, <<d>>, from) <=> s[i] = d
<1>1. Len(<<d>>) = 1 /\ <<d>>[1] = d
  OBVIOUS
<1>2. i \in from .. Len(s) - 1 + 1 /\ i + 1 - 1 = i /\ i \in 1 .. Len(s)
  OBVIOUS
<1>3. SubSeq(s, i, i) = <<s[i]>>
  <2>1. SubSeq(s, i, i) \in Seq(A) /\ Len(SubSeq(s, i, i)) = 1 /\ SubSeq(s, i, i)[1] = s[i]
    BY <1>2
  <2>2. \A u \in Seq(A) : Len(u) = 1 => u = <<u[1]>>
    OBVIOUS
  <2>3. SubSeq(s, i, i) = <<SubSeq(s, i, i)[1]>>
    BY <2>1, <2>2
  <2> QED BY <2>1, <2>3
<1>4. SubSeq(s, i, i + Len(<<d>>) - 1) = <<s[i]>>
  BY <1>1, <1>2, <1>3
<1>5. <<s[i]>> = <<d>> <=> s[i] = d
  OBVIOUS
<1>6. i \in Found(s, <<d>>, from) <=> SubSeq(s, i, i + Len(<<d>>) - 1) = <<d>>
  BY <1>1, <1>2 DEF Found
<1> QED BY <1>4, <1>5, <1>6

\* The first piece is what reaches to the first d, or everything.
IsFirst(s, d, from, to) ==
    /\ from < to /\ to <= Len(s)
    /\ \A i \in from + 1 .. Len(s) : s[i] = d => to <= i
    /\ to < Len(s) => s[to] = d

\* The pieces lie one after the other.
OneCuts(s, d, ss, b) ==
    /\ Len(ss) \in Nat
    /\ b \in [0 .. Len(ss) -> 0 .. Len(s)]
    /\ b[0] = 0 /\ b[Len(ss)] = Len(s)
    /\ \A i \in 1 .. Len(ss) :
          IsFirst(s, d, b[i - 1], b[i]) /\ ss[i] = SubSeq(s, b[i - 1] + 1, b[i])

LEMMA OneSplit ==
    ASSUME NEW A, NEW s \in Seq(A), NEW d
    PROVE  \E b : OneCuts(s, d, Split(s, <<d>>), b)
<1> DEFINE ss == Split(s, <<d>>)
<1>1. Len(<<d>>) = 1 /\ Len(<<d>>) \in Nat \ {0} /\ Len(s) \in Nat
  OBVIOUS
<1>2. PICK b : Cuts(s, <<d>>, 1, ss, b)
  BY <1>1, SplitCuts
<1> HIDE DEF ss
<1>3. /\ ss \in Seq(PieceOf(s)) /\ b \in [0 .. Len(ss) -> 0 .. Len(s)]
      /\ b[0] = 1 - 1 /\ b[Len(ss)] = Len(s)
  BY <1>2 DEF Cuts
<1>4. Len(ss) \in Nat
  BY <1>3
<1>5. ASSUME NEW i \in 1 .. Len(ss)
      PROVE  IsFirst(s, d, b[i - 1], b[i]) /\ ss[i] = SubSeq(s, b[i - 1] + 1, b[i])
  <2> DEFINE x == b[i - 1]
             y == b[i]
  <2>1. /\ x < y
        /\ ss[i] = SubSeq(s, x + 1, y)
        /\ i < Len(ss) => y - Len(<<d>>) + 1 \in Found(s, <<d>>, x + 1)
        /\ \A j \in Found(s, <<d>>, x + 1) : y <= j + Len(<<d>>) - 1
    BY <1>2 DEF Cuts
  <2>2. i - 1 \in 0 .. Len(ss) /\ i \in 0 .. Len(ss)
    BY <1>4
  <2>3. x \in 0 .. Len(s) /\ y \in 0 .. Len(s)
    BY <1>3, <2>2
  <2>4. i = Len(ss) => y = Len(s)
    BY <1>3
  <2> HIDE DEF x, y
  <2>5. ASSUME NEW j \in x + 1 .. Len(s), s[j] = d PROVE y <= j
    <3>1. j \in Found(s, <<d>>, x + 1)
      BY <1>1, <2>3, <2>5, FoundOne
    <3>2. y <= j + 1 - 1
      BY <1>1, <2>1, <3>1
    <3> QED BY <2>3, <3>2
  <2>6. ASSUME y < Len(s) PROVE s[y] = d
    <3>1. i < Len(ss)
      BY <1>1, <1>4, <2>3, <2>4, <2>6
    <3>2. y \in Found(s, <<d>>, x + 1)
      <4>1. y - 1 + 1 \in Found(s, <<d>>, x + 1)
        BY <1>1, <2>1, <3>1
      <4> QED BY <2>3, <4>1
    <3>3. y \in x + 1 .. Len(s) /\ x + 1 \in Nat \ {0}
      BY <1>1, <2>1, <2>3
    <3> QED BY <3>2, <3>3, FoundOne
  <2> QED BY <1>1, <2>1, <2>3, <2>5, <2>6 DEF IsFirst, x, y
<1>6. OneCuts(s, d, ss, b)
  BY <1>3, <1>4, <1>5 DEF OneCuts
<1> QED BY <1>6 DEF ss

\* A line has two pieces when a colon has something behind it.
LEMMA FieldPieces ==
    ASSUME NEW A, NEW line \in Seq(A)
    PROVE  Len(Split(line, LINE_DELIMITER)) < 2
              <=> \A k \in 1 .. Len(line) - 1 : line[k] # Colon
<1> DEFINE ss == Split(line, LINE_DELIMITER)
<1>0. LINE_DELIMITER = <<Colon>> /\ Len(line) \in Nat
  BY DEF LINE_DELIMITER
<1>1. PICK b : OneCuts(line, Colon, ss, b)
  BY <1>0, OneSplit
<1> HIDE DEF ss
<1>2. /\ Len(ss) \in Nat /\ b \in [0 .. Len(ss) -> 0 .. Len(line)]
      /\ b[0] = 0 /\ b[Len(ss)] = Len(line)
  BY <1>1 DEF OneCuts
<1>3. ASSUME ~(Len(ss) < 2) PROVE \E k \in 1 .. Len(line) - 1 : line[k] = Colon
  <2>1. 1 \in 1 .. Len(ss) /\ 2 \in 1 .. Len(ss) /\ 1 - 1 = 0 /\ 2 - 1 = 1
    BY <1>2, <1>3
  <2>2. IsFirst(line, Colon, b[0], b[1]) /\ IsFirst(line, Colon, b[1], b[2])
    BY <1>1, <2>1 DEF OneCuts
  <2>3. b[1] \in 0 .. Len(line) /\ b[2] \in 0 .. Len(line)
    BY <1>2, <2>1
  <2>4. b[1] \in 1 .. Len(line) - 1 /\ line[b[1]] = Colon
    BY <1>0, <1>2, <2>2, <2>3 DEF IsFirst
  <2> QED BY <2>4
<1>4. ASSUME NEW k \in 1 .. Len(line) - 1, line[k] = Colon PROVE ~(Len(ss) < 2)
  <2>1. Len(ss) # 0
    BY <1>0, <1>2
  <2>2. 1 \in 1 .. Len(ss) /\ 1 - 1 = 0
    BY <1>2, <2>1
  <2>3. IsFirst(line, Colon, b[0], b[1]) /\ b[1] \in 0 .. Len(line)
    BY <1>1, <1>2, <2>2 DEF OneCuts
  <2>4. b[1] <= k
    BY <1>0, <1>2, <1>4, <2>3 DEF IsFirst
  <2>5. Len(ss) # 1
    <3>1. k < Len(line)
      BY <1>0
    <3>2. b[1] # Len(line)
      BY <1>0, <2>3, <2>4, <3>1
    <3> QED BY <1>2, <3>2
  <2>6. Len(ss) \in Nat
    BY <1>2
  <2>7. \A n \in Nat : n # 0 /\ n # 1 => ~(n < 2)
    OBVIOUS
  <2> QED BY <2>1, <2>5, <2>6, <2>7, Zenon
<1> QED BY <1>3, <1>4 DEF ss

\* A field with one colon: the name with the colon and the value.
LEMMA FieldSplit ==
    ASSUME NEW A, NEW line \in Seq(A), NEW c \in 1 .. Len(line) - 1, line[c] = Colon,
           \A k \in 1 .. Len(line) : line[k] = Colon => k = c
    PROVE  /\ Split(line, LINE_DELIMITER)[1] = SubSeq(line, 1, c)
           /\ Split(line, LINE_DELIMITER)[2] = SubSeq(line, c + 1, Len(line))
<1> DEFINE ss == Split(line, LINE_DELIMITER)
<1>0. LINE_DELIMITER = <<Colon>> /\ Len(line) \in Nat
  BY DEF LINE_DELIMITER
<1>1. PICK b : OneCuts(line, Colon, ss, b)
  BY <1>0, OneSplit
<1>2. ~(Len(ss) < 2)
  BY FieldPieces
<1> HIDE DEF ss
<1>3. /\ Len(ss) \in Nat /\ b \in [0 .. Len(ss) -> 0 .. Len(line)] /\ b[0] = 0
  BY <1>1 DEF OneCuts
<1>4. 1 \in 1 .. Len(ss) /\ 2 \in 1 .. Len(ss) /\ 1 - 1 = 0 /\ 2 - 1 = 1
  BY <1>2, <1>3
<1>5. /\ IsFirst(line, Colon, b[0], b[1]) /\ ss[1] = SubSeq(line, b[0] + 1, b[1])
      /\ IsFirst(line, Colon, b[1], b[2]) /\ ss[2] = SubSeq(line, b[1] + 1, b[2])
  BY <1>1, <1>4 DEF OneCuts
<1>6. b[1] \in 0 .. Len(line) /\ b[2] \in 0 .. Len(line)
  BY <1>3, <1>4
<1>7. b[1] = c
  <2>1. b[1] <= c
    BY <1>0, <1>3, <1>5 DEF IsFirst
  <2>2. line[b[1]] = Colon /\ b[1] \in 1 .. Len(line)
    BY <1>0, <1>3, <1>5, <1>6, <2>1 DEF IsFirst
  <2> QED BY <2>2
<1>8. b[2] = Len(line)
  <2>1. b[2] < Len(line) => line[b[2]] = Colon /\ b[2] \in 1 .. Len(line) /\ b[2] > c
    BY <1>0, <1>5, <1>6, <1>7 DEF IsFirst
  <2>2. b[2] <= Len(line)
    BY <1>0, <1>6
  <2>3. b[2] > c => b[2] # c
    BY <1>6
  <2> QED BY <1>0, <1>6, <2>1, <2>2, <2>3
<1>9. b[0] + 1 = 1
  BY <1>3
<1> QED BY <1>5, <1>7, <1>8, <1>9 DEF ss
-----------------------------------------------------------------------------
(* Texts *)

\* Where the characters of a sequence of three parts are.
LEMMA ThreeParts ==
    ASSUME NEW A, NEW s1 \in Seq(A), NEW s2 \in Seq(A), NEW d \in A
    PROVE  LET s == s1 \o <<d>> \o s2
           IN  /\ s \in Seq(A) /\ Len(s) = Len(s1) + 1 + Len(s2)
               /\ \A i \in 1 .. Len(s1) : s[i] = s1[i]
               /\ s[Len(s1) + 1] = d
               /\ \A i \in 1 .. Len(s2) : s[Len(s1) + 1 + i] = s2[i]
<1> DEFINE u == s1 \o <<d>>
           s == u \o s2
<1>1. <<d>> \in Seq(A) /\ Len(<<d>>) = 1 /\ <<d>>[1] = d
  OBVIOUS
<1>2. /\ u \in Seq(A) /\ Len(u) = Len(s1) + Len(<<d>>)
      /\ \A i \in 1 .. Len(s1) + Len(<<d>>) :
            u[i] = IF i <= Len(s1) THEN s1[i] ELSE <<d>>[i - Len(s1)]
  BY <1>1, ConcatProperties, Zenon
<1> DEFINE l1 == Len(s1)
           l2 == Len(s2)
<1>3. l1 \in Nat /\ l2 \in Nat
  OBVIOUS
<1>4. /\ s \in Seq(A) /\ Len(s) = Len(u) + Len(s2)
      /\ \A i \in 1 .. Len(u) + Len(s2) : s[i] = IF i <= Len(u) THEN u[i] ELSE s2[i - Len(u)]
  <2> HIDE DEF u
  <2>1. u \in Seq(A)
    BY <1>2
  <2>2. /\ u \o s2 \in Seq(A) /\ Len(u \o s2) = Len(u) + Len(s2)
        /\ \A i \in 1 .. Len(u) + Len(s2) :
              (u \o s2)[i] = IF i <= Len(u) THEN u[i] ELSE s2[i - Len(u)]
    BY <2>1, ConcatProperties, Zenon
  <2> QED BY <2>2, Zenon
<1>5. s = s1 \o <<d>> \o s2
  OBVIOUS
<1> HIDE DEF u, s
<1>6. /\ Len(u) = l1 + 1 /\ Len(s) = l1 + 1 + l2
      /\ \A i \in 1 .. l1 + 1 : u[i] = IF i <= l1 THEN s1[i] ELSE <<d>>[i - l1]
      /\ \A i \in 1 .. l1 + 1 + l2 : s[i] = IF i <= l1 + 1 THEN u[i] ELSE s2[i - (l1 + 1)]
  BY <1>1, <1>2, <1>3, <1>4
<1> HIDE DEF l1, l2
<1>7. ASSUME NEW i \in 1 .. l1 PROVE s[i] = s1[i]
  <2>1. i \in 1 .. l1 + 1 /\ i \in 1 .. l1 + 1 + l2 /\ i <= l1 + 1 /\ i <= l1
    BY <1>3
  <2> QED BY <1>6, <2>1
<1>8. s[l1 + 1] = d
  <2>1. l1 + 1 \in 1 .. l1 + 1 /\ l1 + 1 \in 1 .. l1 + 1 + l2 /\ l1 + 1 <= l1 + 1
        /\ ~(l1 + 1 <= l1) /\ (l1 + 1) - l1 = 1
    BY <1>3
  <2>2. s[l1 + 1] = u[l1 + 1] /\ u[l1 + 1] = <<d>>[1]
    BY <1>6, <2>1
  <2> QED BY <1>1, <2>2
<1>9. ASSUME NEW i \in 1 .. l2 PROVE s[l1 + 1 + i] = s2[i]
  <2>1. l1 + 1 + i \in 1 .. l1 + 1 + l2 /\ ~(l1 + 1 + i <= l1 + 1)
        /\ (l1 + 1 + i) - (l1 + 1) = i
    BY <1>3
  <2> QED BY <1>6, <2>1
<1> QED BY <1>4, <1>5, <1>6, <1>7, <1>8, <1>9 DEF l1, l2

\* The line of a field is parsed into its name and its value.
LEMMA FieldLineParsed ==
    ASSUME NEW msg \in Messages, NEW attr \in DOMAIN msg.data
    PROVE  LET line == FieldLine(msg, attr)
           IN  /\ line \in Line
               /\ \E k \in 1 .. Len(line) - 1 : line[k] = Colon
               /\ Front(Split(line, LINE_DELIMITER)[1]) = attr
               /\ Split(line, LINE_DELIMITER)[2] = msg.data[attr]
<1> DEFINE line == FieldLine(msg, attr)
           value == msg.data[attr]
           A == Char \cup {Colon}
           c == Len(attr) + 1
<1>1. /\ attr \in Seq(Char) /\ value \in Seq(Char) /\ value # <<>>
  BY MessagesAssumption
<1>2. /\ attr \in Seq(A) /\ value \in Seq(A) /\ Colon \in A
      /\ Len(attr) \in Nat /\ Len(value) \in Nat \ {0}
  BY <1>1
<1>3. Colon \notin Char
  BY ParserAssumption
<1>4. line = attr \o <<Colon>> \o value
  BY DEF FieldLine, LINE_DELIMITER
<1>5. /\ \A i \in 1 .. Len(attr) : attr[i] # Colon
      /\ \A i \in 1 .. Len(value) : value[i] # Colon
  BY <1>1, <1>3
<1> HIDE DEF line, value, A
<1>6. /\ line \in Seq(A) /\ Len(line) = Len(attr) + 1 + Len(value)
      /\ \A i \in 1 .. Len(attr) : line[i] = attr[i]
      /\ line[c] = Colon
      /\ \A i \in 1 .. Len(value) : line[c + i] = value[i]
  BY <1>2, <1>4, ThreeParts
<1>7. c \in 1 .. Len(line) - 1
  BY <1>2, <1>6
<1>8. ASSUME NEW k \in 1 .. Len(line), line[k] = Colon PROVE k = c
  <2>1. CASE k \in 1 .. Len(attr)
    BY <1>5, <1>6, <1>8, <2>1
  <2>2. CASE k > c
    <3>1. k - c \in 1 .. Len(value) /\ c + (k - c) = k
      BY <1>2, <1>6, <2>2
    <3>2. line[k] = value[k - c]
      BY <1>6, <3>1
    <3> QED BY <1>5, <1>8, <3>1, <3>2
  <2>3. k \in 1 .. Len(attr) \/ k = c \/ k > c
    BY <1>2, <1>6
  <2> QED BY <2>1, <2>2, <2>3
<1>9. /\ Split(line, LINE_DELIMITER)[1] = SubSeq(line, 1, c)
      /\ Split(line, LINE_DELIMITER)[2] = SubSeq(line, c + 1, Len(line))
  BY <1>6, <1>7, <1>8, FieldSplit
<1>10. SubSeq(line, c + 1, Len(line)) = value
  <2>1. /\ SubSeq(line, c + 1, Len(line)) \in Seq(A)
        /\ Len(SubSeq(line, c + 1, Len(line))) = Len(value)
        /\ \A i \in 1 .. Len(value) : SubSeq(line, c + 1, Len(line))[i] = line[(c + 1) + i - 1]
    <3>1. c + 1 \in Int /\ Len(line) \in Int /\ c + 1 <= Len(line)
          /\ Len(line) - (c + 1) + 1 = Len(value)
      BY <1>2, <1>6
    <3>2. \A i \in c + 1 .. Len(line) : line[i] \in A
      BY <1>2, <1>6
    <3> QED BY <3>1, <3>2, SubSeqProperties
  <2>2. \A i \in 1 .. Len(value) : SubSeq(line, c + 1, Len(line))[i] = value[i]
    <3>1. \A i \in 1 .. Len(value) : (c + 1) + i - 1 = c + i
      BY <1>2
    <3> QED BY <1>6, <2>1, <3>1
  <2> QED BY <1>2, <2>1, <2>2, SeqEqual
<1>11. Front(SubSeq(line, 1, c)) = attr
  <2> DEFINE u == SubSeq(line, 1, c)
  <2>1. /\ u \in Seq(A) /\ Len(u) = c
        /\ \A i \in 1 .. c : u[i] = line[i]
    <3>1. c \in Int /\ 1 <= c /\ \A i \in 1 .. c : line[i] \in A
      BY <1>2, <1>6
    <3> QED BY <3>1, SubSeqProperties
  <2> HIDE DEF u
  <2>2. Len(u) - 1 = Len(attr) /\ \A i \in 1 .. Len(attr) : u[i] \in A /\ u[i] = attr[i]
    BY <1>2, <1>6, <2>1
  <2> DEFINE w == SubSeq(u, 1, Len(attr))
  <2>3. /\ w \in Seq(A) /\ Len(w) = Len(attr)
        /\ \A i \in 1 .. Len(attr) : w[i] = u[i]
    <3>1. Len(attr) \in Int /\ (1 <= Len(attr) \/ Len(attr) = 0)
      BY <1>2
    <3>2. \A i \in 1 .. Len(attr) - 1 + 1 : 1 + i - 1 = i
      BY <1>2
    <3> QED BY <1>2, <2>2, <3>1, <3>2, SubSeqProperties
  <2>4. w = attr
    <3> HIDE DEF w
    <3> QED BY <1>2, <2>2, <2>3, SeqEqual
  <2> QED BY <2>2, <2>4 DEF Front, u
<1> QED BY <1>6, <1>7, <1>9, <1>10, <1>11 DEF line, value, A, Line
\* How a text is made up, x.order being the order of the fields of its message.
Carries(x) ==
    /\ x.msg \in Messages
    /\ x.n = Len(x.order) + 1 /\ Len(x.order) \in Nat
    /\ x.lines[1] = SerializeMethodName(x.msg.method)
    /\ \A i \in 1 .. Len(x.order) :
          /\ x.order[i] \in DOMAIN x.msg.data
          /\ x.lines[i + 1] = FieldLine(x.msg, x.order[i])
    /\ \A attr \in DOMAIN x.msg.data : \E i \in 1 .. Len(x.order) : attr = x.order[i]

Layout(x) ==
    /\ Shape(x.text, x.n, x.lines, x.end)
    /\ x.msg # NoMessage => Carries(x)
    /\ x.msg = NoMessage => \E i \in 1 .. x.n : Malformed(i, x.lines[i])

LEMMA MethodNames ==
    ASSUME NEW msg \in Messages
    PROVE  /\ SerializeMethodName(msg.method) \in DOMAIN MethodNameTable
           /\ MethodNameTable[SerializeMethodName(msg.method)] = msg.method
           /\ SerializeMethodName(msg.method) \in Seq(Char)
           /\ msg.method # ParsingFailed
           /\ msg # NoMessage
<1>1. \E name \in DOMAIN MethodNameTable : MethodNameTable[name] = msg.method
  BY MessagesAssumption
<1>2. /\ SerializeMethodName(msg.method) \in DOMAIN MethodNameTable
      /\ MethodNameTable[SerializeMethodName(msg.method)] = msg.method
  BY <1>1 DEF SerializeMethodName
<1>3. msg.method # ParsingFailed
  BY MessagesAssumption
<1>4. SerializeMethodName(msg.method) \in Seq(Char)
  BY <1>2, ParserAssumption
<1>5. NoMessage.method = ParsingFailed
  BY DEF NoMessage
<1> QED BY <1>2, <1>3, <1>4, <1>5

LEMMA OrderOfFields ==
    ASSUME NEW S, IsFiniteSet(S), NEW order \in SetToSeqs(S)
    PROVE  /\ order \in Seq(S)
           /\ \A a \in S : \E i \in 1 .. Len(order) : a = order[i]
<1> DEFINE n == Cardinality(S)
<1>1. n \in Nat
  BY FS_CardinalityType
<1>2. order \in [1 .. n -> S] /\ \A i, j \in 1 .. n : i # j => order[i] # order[j]
  BY DEF SetToSeqs
<1>3. order \in Injection(1 .. n, S)
  BY <1>2 DEF Injection, IsInjective
<1>4. Cardinality(1 .. n) = n
  <2>1. 1 \in Int /\ n \in Int
    BY <1>1
  <2> QED BY <1>1, <2>1, FS_Interval
<1>5. order \in Surjection(1 .. n, S)
  BY <1>3, <1>4, FS_Injection
<1>6. \A a \in S : \E i \in 1 .. n : a = order[i]
  BY <1>5 DEF Surjection
<1> HIDE DEF n
<1>7. order \in Seq(S) /\ Len(order) = n
  BY <1>1, <1>2
<1> QED BY <1>6, <1>7

LEMMA MessageLayout ==
    ASSUME NEW msg \in Messages, NEW order \in SetToSeqs(DOMAIN msg.data)
    PROVE  \E x : /\ Layout(x)
                  /\ x.text = SerializeProtocolData(MessageLines(msg, order)) /\ x.msg = msg
<1> DEFINE name == SerializeMethodName(msg.method)
           fields == [i \in DOMAIN order |-> FieldLine(msg, order[i])]
           lines == MessageLines(msg, order)
           m == Len(order)
<1>1. IsFiniteSet(DOMAIN msg.data)
  BY MessagesAssumption
<1>2. /\ order \in Seq(DOMAIN msg.data)
      /\ \A a \in DOMAIN msg.data : \E i \in 1 .. m : a = order[i]
  BY <1>1, OrderOfFields
<1>3. m \in Nat /\ DOMAIN order = 1 .. m /\ \A i \in 1 .. m : order[i] \in DOMAIN msg.data
  BY <1>2
<1>4. \A i \in 1 .. m : FieldLine(msg, order[i]) \in Line
  BY <1>3, FieldLineParsed
<1>5. /\ fields \in Seq(Line) /\ Len(fields) = m
      /\ \A i \in 1 .. m : fields[i] = FieldLine(msg, order[i])
  BY <1>3, <1>4
<1>6. name \in Line
  BY MethodNames DEF Line
<1>7. lines = <<name>> \o fields
  BY DEF MessageLines
<1> HIDE DEF name, fields, lines, m
<1>8. /\ lines \in Seq(Line) /\ Len(lines) = m + 1 /\ lines[1] = name
      /\ \A i \in 1 .. m : lines[i + 1] = fields[i]
  <2>1. <<name>> \in Seq(Line) /\ Len(<<name>>) = 1 /\ <<name>>[1] = name
    BY <1>6
  <2> DEFINE one == <<name>>
  <2> HIDE DEF one
  <2>2. /\ one \o fields \in Seq(Line) /\ Len(one \o fields) = Len(one) + Len(fields)
        /\ \A i \in 1 .. Len(one) + Len(fields) :
              (one \o fields)[i] = IF i <= Len(one) THEN one[i] ELSE fields[i - Len(one)]
    BY <1>5, <2>1, ConcatProperties, Zenon DEF one
  <2>3. /\ lines \in Seq(Line) /\ Len(lines) = 1 + m
        /\ \A i \in 1 .. 1 + m :
              lines[i] = IF i <= 1 THEN one[i] ELSE fields[i - 1]
    BY <1>5, <1>7, <2>1, <2>2 DEF one
  <2>4. 1 \in 1 .. 1 + m /\ \A i \in 1 .. m : i + 1 \in 1 .. 1 + m /\ ~(i + 1 <= 1) /\ i + 1 - 1 = i
    BY <1>3
  <2>5. lines[1] = one[1] /\ \A i \in 1 .. m : lines[i + 1] = fields[i]
    BY <2>3, <2>4
  <2> QED BY <1>3, <2>1, <2>3, <2>5 DEF one
<1>9. lines # <<>>
  BY <1>3, <1>8
<1>10. PICK L, e : /\ Shape(SerializeProtocolData(lines), Len(lines), L, e)
                   /\ \A i \in 1 .. Len(lines) : L[i] = lines[i]
  BY <1>8, <1>9, TextShape
<1> DEFINE x == [text |-> SerializeProtocolData(lines), n |-> m + 1, lines |-> L, end |-> e,
                 msg |-> msg, order |-> order]
<1>11. /\ x.text = SerializeProtocolData(lines) /\ x.n = m + 1 /\ x.lines = L /\ x.end = e
       /\ x.msg = msg /\ x.order = order
  OBVIOUS
<1> HIDE DEF x
<1>12. L[1] = name /\ \A i \in 1 .. m : L[i + 1] = FieldLine(msg, order[i])
  <2>1. 1 \in 1 .. m + 1 /\ \A i \in 1 .. m : i + 1 \in 1 .. m + 1
    BY <1>3
  <2> QED BY <1>5, <1>8, <1>10, <2>1
<1>13. Carries(x)
  BY <1>2, <1>3, <1>11, <1>12 DEF Carries, m, name
<1>14. Layout(x)
  BY <1>8, <1>10, <1>11, <1>13, MethodNames DEF Layout
<1> QED BY <1>11, <1>14 DEF lines

LEMMA SendableLayout ==
    ASSUME NEW s \in Sendable
    PROVE  \E x : Layout(x) /\ x.text = s.text /\ x.msg = s.msg
<1>1. CASE \E msg \in Messages : \E order \in SetToSeqs(DOMAIN msg.data) :
             s = [text |-> SerializeProtocolData(MessageLines(msg, order)), msg |-> msg]
  <2>0. PICK msg \in Messages : \E order \in SetToSeqs(DOMAIN msg.data) :
           s = [text |-> SerializeProtocolData(MessageLines(msg, order)), msg |-> msg]
    BY <1>1
  <2>1. PICK order \in SetToSeqs(DOMAIN msg.data) :
           s = [text |-> SerializeProtocolData(MessageLines(msg, order)), msg |-> msg]
    BY <2>0
  <2>2. s.text = SerializeProtocolData(MessageLines(msg, order)) /\ s.msg = msg
    BY <2>1
  <2> QED BY <2>2, MessageLayout
<1>2. CASE \E lines \in Junk : s = [text |-> SerializeProtocolData(lines), msg |-> NoMessage]
  <2>1. PICK lines \in Junk : s = [text |-> SerializeProtocolData(lines), msg |-> NoMessage]
    BY <1>2
  <2>2. s.text = SerializeProtocolData(lines) /\ s.msg = NoMessage
    BY <2>1
  <2>3. lines \in Seq(Line) /\ \E i \in DOMAIN lines : Malformed(i, lines[i])
    BY JunkAssumption
  <2>4. PICK i \in 1 .. Len(lines) : Malformed(i, lines[i])
    <3>1. DOMAIN lines = 1 .. Len(lines)
      BY <2>3
    <3> QED BY <2>3, <3>1
  <2>5. lines # <<>>
    BY <2>4
  <2>6. PICK L, e : /\ Shape(SerializeProtocolData(lines), Len(lines), L, e)
                    /\ \A j \in 1 .. Len(lines) : L[j] = lines[j]
    BY <2>3, <2>5, TextShape
  <2> DEFINE x == [text |-> SerializeProtocolData(lines), n |-> Len(lines), lines |-> L,
                   end |-> e, msg |-> NoMessage, order |-> <<>>]
  <2>7. /\ x.text = SerializeProtocolData(lines) /\ x.n = Len(lines) /\ x.lines = L
        /\ x.end = e /\ x.msg = NoMessage
    OBVIOUS
  <2> HIDE DEF x
  <2>8. Malformed(i, L[i])
    BY <2>4, <2>6
  <2>9. Layout(x)
    BY <2>4, <2>6, <2>7, <2>8 DEF Layout
  <2> QED BY <2>2, <2>7, <2>9
<1>3. \/ \E msg \in Messages : \E order \in SetToSeqs(DOMAIN msg.data) :
            s = [text |-> SerializeProtocolData(MessageLines(msg, order)), msg |-> msg]
      \/ \E lines \in Junk : s = [text |-> SerializeProtocolData(lines), msg |-> NoMessage]
  <2>1. s \in UNION {MessageTexts(msg) : msg \in Messages} \/ s \in JunkTexts
    BY DEF Sendable
  <2>2. CASE s \in JunkTexts
    BY <2>2 DEF JunkTexts
  <2>3. CASE s \in UNION {MessageTexts(msg) : msg \in Messages}
    <3>1. PICK msg \in Messages : s \in MessageTexts(msg)
      BY <2>3
    <3> QED BY <3>1 DEF MessageTexts
  <2> QED BY <2>1, <2>2, <2>3
<1> QED BY <1>1, <1>2, <1>3

\* The lines of a message are not malformed.
LEMMA MessageLinesAreFine ==
    ASSUME NEW x, Layout(x), x.msg # NoMessage, NEW i \in 1 .. x.n
    PROVE  ~Malformed(i, x.lines[i])
<1>1. Carries(x)
  BY DEF Layout
<1>2. x.msg \in Messages /\ x.n = Len(x.order) + 1 /\ Len(x.order) \in Nat
  BY <1>1 DEF Carries
<1>3. CASE i = 1
  <2>1. x.lines[i] = SerializeMethodName(x.msg.method)
    BY <1>1, <1>3 DEF Carries
  <2> DEFINE name == SerializeMethodName(x.msg.method)
  <2>2. /\ Len(name) < MaxMethodName /\ Len(name) < MaxLineLength
        /\ ParseMethodName(name) # ParsingFailed /\ name \in Seq(Char)
    BY <1>2, MessagesAssumption, MethodNames DEF ParseMethodName
  <2> HIDE DEF name
  <2>3. Len(name) \in Nat
    BY <2>2
  <2>4. x.lines[i] = name
    BY <2>1 DEF name
  <2> QED BY <1>3, <2>2, <2>3, <2>4, ParserAssumption DEF Malformed
<1>4. CASE i # 1
  <2>1. i - 1 \in 1 .. Len(x.order) /\ (i - 1) + 1 = i /\ ~(i = 1)
    BY <1>2, <1>4
  <2>2. /\ x.order[i - 1] \in DOMAIN x.msg.data
        /\ x.lines[i] = FieldLine(x.msg, x.order[i - 1])
    BY <1>1, <2>1 DEF Carries
  <2> DEFINE attr == x.order[i - 1]
             msg == x.msg
             line == FieldLine(msg, attr)
  <2>3. msg \in Messages /\ attr \in DOMAIN msg.data
    BY <1>2, <2>2
  <2>4. Len(line) < MaxLineLength
    BY <2>3, MessagesAssumption
  <2>5. line \in Line /\ \E k \in 1 .. Len(line) - 1 : line[k] = Colon
    <3> HIDE DEF attr, msg
    <3> QED BY <2>3, FieldLineParsed
  <2>6. x.lines[i] = line
    BY <2>2
  <2> HIDE DEF line
  <2>7. Len(line) \in Nat
    BY <2>5 DEF Line
  <2> QED BY <2>1, <2>4, <2>5, <2>6, <2>7, ParserAssumption DEF Malformed
<1> QED BY <1>3, <1>4
-----------------------------------------------------------------------------
(* The parser in a text *)

\* The method and the fields in the first m lines of the text x.
FieldsIn(x, m) == {x.order[i] : i \in 1 .. m - 1}

HasRead(p, x, m) ==
    /\ p.method = x.msg.method
    /\ p.data = [a \in FieldsIn(x, m) |-> x.msg.data[a]]

\* The parser has read m lines of the text x and c characters of the next one.
At(p, x, m, c) ==
    /\ m \in 0 .. x.n /\ c \in 0 .. Len(x.lines[m + 1])
    /\ p.line = SubSeq(x.lines[m + 1], 1, c)
    /\ p.first = (m = 0)
    /\ \A i \in 1 .. m : ~Malformed(i, x.lines[i])
    /\ m = 0 => p.data = <<>>
    /\ m # 0 /\ x.msg # NoMessage => HasRead(p, x, m)

LEMMA LineOf ==
    ASSUME NEW x, Layout(x), NEW m \in 0 .. x.n
    PROVE  /\ x.n \in Nat \ {0} /\ x.text \in Text
           /\ x.lines[m + 1] \in Seq(Char \cup {Colon, CR})
           /\ x.end[m] \in Nat /\ x.end[m + 1] = x.end[m] + Len(x.lines[m + 1]) + 1
           /\ x.text[x.end[m + 1]] = LF /\ x.end[m + 1] <= Len(x.text)
           /\ \A c \in 1 .. Len(x.lines[m + 1]) :
                 /\ x.text[x.end[m] + c] = x.lines[m + 1][c]
                 /\ x.lines[m + 1][c] # LF
           /\ m < x.n => x.lines[m + 1] \in Line
           /\ m = x.n => x.lines[m + 1] = <<CR>>
<1> DEFINE n == x.n
           l == x.lines[m + 1]
<1>1. Shape(x.text, n, x.lines, x.end)
  BY DEF Layout
<1>2. n \in Nat \ {0} /\ x.text \in Text /\ x.end \in [0 .. n + 2 -> Nat]
      /\ x.end[n + 2] = Len(x.text) /\ x.lines[n + 1] = <<CR>>
      /\ \A i \in 1 .. n : x.lines[i] \in Line
  BY <1>1 DEF Shape
<1>3. m + 1 \in 1 .. n + 2 /\ (m + 1) - 1 = m /\ m \in 0 .. n + 2
  BY <1>2
<1>4. /\ l \in Seq(Char \cup {Colon, CR})
      /\ x.end[m + 1] = x.end[m] + Len(l) + 1
      /\ x.text[x.end[m + 1]] = LF
      /\ \A c \in 1 .. Len(l) : x.text[x.end[m] + c] = l[c]
  <2>1. /\ x.lines[m + 1] \in Seq(Char \cup {Colon, CR})
        /\ x.end[m + 1] = x.end[(m + 1) - 1] + Len(x.lines[m + 1]) + 1
        /\ x.text[x.end[m + 1]] = LF
        /\ \A c \in 1 .. Len(x.lines[m + 1]) :
              x.text[x.end[(m + 1) - 1] + c] = x.lines[m + 1][c]
    BY <1>1, <1>3 DEF Shape
  <2> QED BY <1>3, <2>1
<1>5. LF \notin Char \cup {Colon, CR}
  BY ParserAssumption DEF LF, Colon, CR
<1>6. \A c \in 1 .. Len(l) : l[c] # LF
  <2> HIDE DEF l
  <2> QED BY <1>4, <1>5
<1>7. x.end[m + 1] <= Len(x.text)
  <2> DEFINE T == {k \in Nat : \A j \in 0 .. k : x.end[j] <= x.end[k]}
  <2>1. 0 \in T
    BY <1>2
  <2>2. ASSUME NEW k \in 1 .. n + 2, k - 1 \in T PROVE k \in T
    <3>1. x.end[k] = x.end[k - 1] + Len(x.lines[k]) + 1
          /\ x.lines[k] \in Seq(Char \cup {Colon, CR})
      BY <1>1, <2>2 DEF Shape
    <3> DEFINE d == Len(x.lines[k])
    <3>2. d \in Nat
      BY <3>1
    <3>3. x.end[k] = x.end[k - 1] + d + 1
      BY <3>1
    <3> HIDE DEF d
    <3>4. k - 1 \in 0 .. n + 2 /\ k \in Nat
      BY <1>2
    <3>5. x.end[k - 1] \in Nat
      BY <1>2, <3>4
    <3>6. \A j \in 0 .. k - 1 : j \in 0 .. n + 2
      BY <1>2
    <3>7. \A j \in 0 .. k - 1 : x.end[j] <= x.end[k - 1] /\ x.end[j] \in Nat
      BY <1>2, <2>2, <3>6
    <3>8. \A j \in 0 .. k : j = k \/ j \in 0 .. k - 1
      BY <3>4
    <3> QED BY <3>2, <3>3, <3>4, <3>5, <3>7, <3>8
  <2>3. n + 2 \in T
    <3>1. n + 2 \in Nat
      BY <1>2
    <3> HIDE DEF T
    <3>2. \A k \in 0 .. n + 2 : k \in T
      BY <2>1, <2>2, <3>1, InductionUpTo
    <3> QED BY <3>1, <3>2
  <2>4. m + 1 \in 0 .. n + 2
    BY <1>2
  <2> QED BY <1>2, <2>3, <2>4
<1>8. x.end[m] \in Nat
  BY <1>2, <1>3
<1>9. m < n => m + 1 \in 1 .. n
  BY <1>2
<1> QED BY <1>2, <1>4, <1>6, <1>7, <1>8, <1>9

\* What the rest of a line is in the text, up to a character and up to its end.
LEMMA RestOfLine ==
    ASSUME NEW x, Layout(x), NEW m \in 0 .. x.n, NEW c \in 0 .. Len(x.lines[m + 1]),
           NEW d \in c + 1 .. Len(x.lines[m + 1]) + 1
    PROVE  LET l == x.lines[m + 1]
               piece == SubSeq(x.text, x.end[m] + c + 1, x.end[m] + d)
           IN  /\ piece \in Text /\ piece # <<>> /\ Len(piece) = d - c
               /\ d <= Len(l) => /\ Last(piece) # LF
                                 /\ SubSeq(l, 1, c) \o piece = SubSeq(l, 1, d)
               /\ d = Len(l) + 1 => /\ Last(piece) = LF
                                    /\ SubSeq(l, 1, c) \o Front(piece) = l
<1> DEFINE l == x.lines[m + 1]
           A == Char \cup {CR, LF, Colon}
           base == x.end[m]
           piece == SubSeq(x.text, base + c + 1, base + d)
<1>1. /\ x.text \in Seq(A) /\ l \in Seq(A) /\ Len(l) \in Nat
      /\ base \in Nat /\ base + Len(l) + 1 <= Len(x.text)
      /\ x.text[base + Len(l) + 1] = LF
      /\ \A i \in 1 .. Len(l) : x.text[base + i] = l[i] /\ l[i] # LF
  <2>1. l \in Seq(Char \cup {Colon, CR}) /\ x.text \in Text
    BY LineOf
  <2>2. l \in Seq(A) /\ Len(l) \in Nat
    <3> HIDE DEF l
    <3> QED BY <2>1
  <2>3. x.end[m + 1] = base + Len(l) + 1 /\ base \in Nat /\ x.end[m + 1] <= Len(x.text)
        /\ x.text[x.end[m + 1]] = LF
        /\ \A i \in 1 .. Len(l) : x.text[base + i] = l[i] /\ l[i] # LF
    BY LineOf
  <2> QED BY <2>1, <2>2, <2>3 DEF Text
<1>2. c \in 0 .. Len(l) /\ d \in c + 1 .. Len(l) + 1
  OBVIOUS
<1> HIDE DEF l, base, A
<1>3. /\ piece \in Seq(A) /\ Len(piece) = d - c
      /\ \A i \in 1 .. d - c : piece[i] = x.text[base + c + i]
  <2>1. base + c + 1 \in Int /\ base + d \in Int /\ base + c + 1 <= base + d
        /\ (base + d) - (base + c + 1) + 1 = d - c
    BY <1>1, <1>2
  <2>2. \A i \in base + c + 1 .. base + d : x.text[i] \in A
    <3>1. \A i \in base + c + 1 .. base + d : i \in 1 .. Len(x.text)
      BY <1>1, <1>2
    <3> QED BY <1>1, <3>1
  <2>3. /\ piece \in Seq(A) /\ Len(piece) = d - c
        /\ \A i \in 1 .. d - c : piece[i] = x.text[(base + c + 1) + i - 1]
    <3> DEFINE first == base + c + 1
               last == base + d
    <3>1. first \in Int /\ last \in Int /\ first <= last /\ last - first + 1 = d - c
          /\ \A i \in first .. last : x.text[i] \in A
      BY <2>1, <2>2
    <3> HIDE DEF first, last
    <3>2. /\ SubSeq(x.text, first, last) \in Seq(A)
          /\ Len(SubSeq(x.text, first, last)) = IF first <= last THEN last - first + 1 ELSE 0
          /\ \A i \in 1 .. last - first + 1 : SubSeq(x.text, first, last)[i] = x.text[first + i - 1]
      BY <3>1, SubSeqProperties
    <3>3. piece = SubSeq(x.text, first, last)
      BY DEF first, last
    <3> HIDE DEF piece
    <3>4. /\ piece \in Seq(A) /\ Len(piece) = d - c
          /\ \A i \in 1 .. d - c : piece[i] = x.text[first + i - 1]
      BY <3>1, <3>2, <3>3
    <3> QED BY <3>4 DEF first
  <2>4. \A i \in 1 .. d - c : (base + c + 1) + i - 1 = base + c + i
    BY <1>1, <1>2
  <2> QED BY <2>3, <2>4
<1> HIDE DEF piece
<1>4. piece # <<>>
  <2>1. d - c # 0
    BY <1>1, <1>2
  <2> QED BY <1>3, <2>1, EmptySeq
<1>5. \A i \in 1 .. d - c : i + c <= Len(l) => piece[i] = l[c + i]
  <2>1. \A i \in 1 .. d - c : i + c <= Len(l) => c + i \in 1 .. Len(l) /\ base + c + i = base + (c + i)
    BY <1>1, <1>2
  <2> QED BY <1>1, <1>3, <2>1
<1>6. ASSUME d <= Len(l)
      PROVE  Last(piece) # LF /\ SubSeq(l, 1, c) \o piece = SubSeq(l, 1, d)
  <2>1. piece[d - c] = l[d] /\ l[d] # LF
    <3>1. d - c \in 1 .. d - c /\ (d - c) + c <= Len(l) /\ c + (d - c) = d /\ d \in 1 .. Len(l)
      BY <1>1, <1>2, <1>6
    <3> QED BY <1>1, <1>5, <3>1
  <2>2. piece = SubSeq(l, c + 1, d)
    <3>1. /\ SubSeq(l, c + 1, d) \in Seq(A) /\ Len(SubSeq(l, c + 1, d)) = d - c
          /\ \A i \in 1 .. d - c : SubSeq(l, c + 1, d)[i] = l[(c + 1) + i - 1]
      <4>1. c + 1 \in Int /\ d \in Int /\ c + 1 <= d /\ d - (c + 1) + 1 = d - c
        BY <1>1, <1>2
      <4>2. \A i \in c + 1 .. d : l[i] \in A
        BY <1>1, <1>2, <1>6
      <4> QED BY <4>1, <4>2, SubSeqProperties
    <3>2. \A i \in 1 .. d - c : (c + 1) + i - 1 = c + i /\ i + c <= Len(l)
      BY <1>1, <1>2, <1>6
    <3>3. \A i \in 1 .. d - c : piece[i] = SubSeq(l, c + 1, d)[i]
      BY <1>5, <3>1, <3>2
    <3> QED BY <1>3, <3>1, <3>3, SeqEqual
  <2>3. SubSeq(l, 1, c) \o SubSeq(l, c + 1, d) = SubSeq(l, 1, d)
    <3>1. 1 \in 1 .. Len(l) + 1 /\ c \in 1 - 1 .. Len(l) /\ d \in c .. Len(l)
      BY <1>1, <1>2, <1>6
    <3> QED BY <1>1, <3>1, ConcatAdjacentSubSeq
  <2> QED BY <1>3, <2>1, <2>2, <2>3 DEF Last
<1>7. ASSUME d = Len(l) + 1
      PROVE  Last(piece) = LF /\ SubSeq(l, 1, c) \o Front(piece) = l
  <2>1. piece[d - c] = LF
    <3>1. d - c \in 1 .. d - c /\ base + c + (d - c) = base + Len(l) + 1
      BY <1>1, <1>2, <1>7
    <3> QED BY <1>1, <1>3, <3>1
  <2> DEFINE k == d - c - 1
             u == SubSeq(piece, 1, k)
  <2>2. k \in Nat /\ k = Len(l) - c
    BY <1>1, <1>2, <1>7
  <2>3. u \in Seq(A) /\ Len(u) = k /\ \A i \in 1 .. k : u[i] = piece[i]
    <3>1. \A i \in 1 .. k : piece[i] \in A
      BY <1>2, <1>3, <2>2
    <3>2. /\ u \in Seq(A) /\ Len(u) = IF 1 <= k THEN k - 1 + 1 ELSE 0
          /\ \A i \in 1 .. k - 1 + 1 : u[i] = piece[1 + i - 1]
      <4> HIDE DEF k
      <4> QED BY <2>2, <3>1, SubSeqProperties
    <3>3. \A i \in 1 .. k : i \in 1 .. k - 1 + 1 /\ 1 + i - 1 = i
      BY <2>2
    <3> HIDE DEF u, k
    <3> QED BY <2>2, <3>2, <3>3, SMTT(30)
  <2> DEFINE v == SubSeq(l, c + 1, Len(l))
  <2>4. v \in Seq(A) /\ Len(v) = k /\ \A i \in 1 .. k : v[i] = l[c + i]
    <3>1. \A i \in c + 1 .. Len(l) : l[i] \in A
      BY <1>1, <1>2
    <3>2. c + 1 \in Int /\ Len(l) \in Int
      BY <1>1, <1>2
    <3>3. /\ v \in Seq(A)
          /\ Len(v) = IF c + 1 <= Len(l) THEN Len(l) - (c + 1) + 1 ELSE 0
          /\ \A i \in 1 .. Len(l) - (c + 1) + 1 : v[i] = l[(c + 1) + i - 1]
      BY <3>1, <3>2, SubSeqProperties
    <3> HIDE DEF v
    <3>4. Len(v) = k
      BY <1>1, <1>2, <2>2, <3>3
    <3>5. \A i \in 1 .. k : i \in 1 .. Len(l) - (c + 1) + 1 /\ (c + 1) + i - 1 = c + i
      BY <1>1, <1>2, <2>2
    <3> QED BY <3>3, <3>4, <3>5
  <2>5. u = v
    <3>1. \A i \in 1 .. k : i \in 1 .. d - c /\ i + c <= Len(l)
      BY <1>1, <1>2, <2>2
    <3>2. \A i \in 1 .. k : u[i] = v[i]
      BY <1>5, <2>3, <2>4, <3>1
    <3> HIDE DEF u, v, k
    <3> QED BY <2>3, <2>4, <3>2, SeqEqual
  <2>6. SubSeq(l, 1, c) \o v = l
    <3>1. 1 \in 1 .. Len(l) + 1 /\ c \in 1 - 1 .. Len(l) /\ Len(l) \in c .. Len(l)
      BY <1>1, <1>2
    <3> QED BY <1>1, <3>1, ConcatAdjacentSubSeq, SubSeqFull
  <2>7. Front(piece) = u
    BY <1>3 DEF Front
  <2> QED BY <1>3, <2>1, <2>5, <2>6, <2>7 DEF Last
<1> QED BY <1>3, <1>4, <1>6, <1>7 DEF l, base, A, piece, Text
\* A complete line that is not too long.
LEMMA FullLine ==
    ASSUME NEW x, Layout(x), NEW p, ParserOK(p), ~p.threw, NEW m,
           At(p, x, m, Len(x.lines[m + 1])),
           ~TooLong(p, Len(x.lines[m + 1]) + 1),
           NEW q, q = ParseFullLine([p EXCEPT !.line = <<>>], x.lines[m + 1])
    PROVE  /\ q.threw => Malformed(m + 1, x.lines[m + 1])
           /\ ~q.threw => m < x.n /\ At(q, x, m + 1, 0)
<1> DEFINE l == x.lines[m + 1]
           p0 == [p EXCEPT !.line = <<>>]
           fields == Split(l, LINE_DELIMITER)
<1>1. /\ m \in 0 .. x.n /\ p.first = (m = 0)
      /\ \A i \in 1 .. m : ~Malformed(i, x.lines[i])
      /\ m = 0 => p.data = <<>>
  BY DEF At
<1>2. /\ p \in Parser /\ p0 \in Parser /\ p0.line = <<>> /\ p0.threw = FALSE
      /\ p0.first = p.first /\ p0.data = p.data /\ p0.method = p.method
  BY NewParserOK DEF ParserOK, Parser, NewParser
<1>3. /\ x.n \in Nat \ {0} /\ l \in Seq(Char \cup {Colon, CR}) /\ Len(l) \in Nat
      /\ m = x.n => l = <<CR>>
  BY <1>1, LineOf
<1>4. Len(l) < MaxLineLength /\ (m = 0 => Len(l) < MaxMethodName)
  <2>1. ~(Len(l) + 1 > MaxLineLength) /\ ~(p.first /\ Len(l) + 1 > MaxMethodName)
    BY Zenon DEF TooLong
  <2>2. m = 0 => p.first
    BY <1>1
  <2>3. MaxLineLength \in Nat /\ MaxMethodName \in Nat /\ Len(l) \in Nat
    BY <1>3, ParserAssumption
  <2> HIDE DEF l
  <2>4. ~(Len(l) + 1 > MaxLineLength) => Len(l) < MaxLineLength
    BY <2>3
  <2>5. ~(Len(l) + 1 > MaxMethodName) => Len(l) < MaxMethodName
    BY <2>3
  <2> QED BY <2>1, <2>2, <2>4, <2>5, Zenon
<1>5. ASSUME m < x.n PROVE 0 \in 0 .. Len(x.lines[m + 1 + 1]) /\ SubSeq(x.lines[m + 1 + 1], 1, 0) = <<>>
  <2>1. m + 1 \in 0 .. x.n
    BY <1>1, <1>3, <1>5
  <2>2. x.lines[m + 1 + 1] \in Seq(Char \cup {Colon, CR})
    BY <2>1, LineOf
  <2>3. Len(x.lines[m + 1 + 1]) \in Nat
    BY <2>2
  <2> QED BY <2>3, SubSeqEmpty
<1>6. CASE m = 0
  <2>1. q = IF ParseMethodName(l) = ParsingFailed THEN Throw(p0)
            ELSE [p0 EXCEPT !.method = ParseMethodName(l), !.first = FALSE]
    BY <1>1, <1>2, <1>6 DEF ParseFullLine
  <2>2. CASE ParseMethodName(l) = ParsingFailed
    <3>1. q.threw
      BY <1>2, <2>1, <2>2 DEF Throw, Parser
    <3> QED BY <1>6, <2>2, <3>1 DEF Malformed
  <2>3. CASE ParseMethodName(l) # ParsingFailed
    <3>1. l \in DOMAIN MethodNameTable /\ ParseMethodName(l) = MethodNameTable[l]
      BY <2>3 DEF ParseMethodName
    <3>2. /\ ~q.threw /\ q.line = <<>> /\ q.first = FALSE
          /\ q.method = MethodNameTable[l] /\ q.data = <<>>
      BY <1>1, <1>2, <1>6, <2>1, <2>3, <3>1 DEF Parser
    <3>3. m < x.n /\ m + 1 \in 0 .. x.n /\ m + 1 = 1 /\ m + 1 # 0
      BY <1>3, <1>6
    <3>4. ~Malformed(1, l)
      <4>1. ~(Len(l) >= MaxLineLength) /\ ~(Len(l) >= MaxMethodName)
        BY <1>3, <1>4, <1>6, ParserAssumption
      <4> QED BY <2>3, <4>1 DEF Malformed
    <3>5. ASSUME x.msg # NoMessage
          PROVE  HasRead(q, x, m + 1)
      <4>1. l = SerializeMethodName(x.msg.method) /\ x.msg \in Messages
        BY <1>6, <3>5 DEF Layout, Carries
      <4>2. q.method = x.msg.method
        BY <3>2, <4>1, MethodNames
      <4>3. FieldsIn(x, m + 1) = {}
        BY <1>6 DEF FieldsIn
      <4>4. <<>> = [a \in {} |-> x.msg.data[a]]
        OBVIOUS
      <4>5. q.data = [a \in FieldsIn(x, m + 1) |-> x.msg.data[a]]
        BY <3>2, <4>3, <4>4
      <4> QED BY <4>2, <4>5 DEF HasRead
    <3>6. At(q, x, m + 1, 0)
      <4>1. \A i \in 1 .. m + 1 : ~Malformed(i, x.lines[i])
        BY <3>3, <3>4
      <4>2. q.first = (m + 1 = 0)
        BY <3>2, <3>3
      <4>3. 0 \in 0 .. Len(x.lines[m + 1 + 1]) /\ q.line = SubSeq(x.lines[m + 1 + 1], 1, 0)
        BY <1>5, <3>2, <3>3
      <4>4. m + 1 \in 0 .. x.n /\ m + 1 # 0
        BY <3>3
      <4> QED BY <3>5, <4>1, <4>2, <4>3, <4>4 DEF At
    <3> QED BY <3>2, <3>3, <3>6
  <2> QED BY <2>2, <2>3
<1>7. CASE m # 0
  <2>1. q = IF Len(fields) < 2 THEN Throw(p0) ELSE ParseField(p0, fields)
    BY <1>1, <1>2, <1>7 DEF ParseFullLine
  <2>2. Len(fields) < 2 <=> \A k \in 1 .. Len(l) - 1 : l[k] # Colon
    BY <1>3, FieldPieces
  <2> HIDE DEF fields
  <2>3. CASE Len(fields) < 2
    <3>1. q.threw
      BY <1>2, <2>1, <2>3 DEF Throw, Parser
    <3>2. m + 1 > 1
      BY <1>1, <1>3, <1>7
    <3> QED BY <2>2, <2>3, <3>1, <3>2 DEF Malformed
  <2>4. CASE ~(Len(fields) < 2)
    <3>1. /\ ~q.threw /\ q.line = <<>> /\ q.first = p.first /\ q.method = p.method
          /\ q.data = SetField(p.data, Front(fields[1]), fields[2])
      BY <1>2, <2>1, <2>4 DEF ParseField, Parser
    <3>2. m < x.n
      <4>1. m # x.n
        <5> SUFFICES ASSUME m = x.n PROVE FALSE
          OBVIOUS
        <5>1. Len(l) = 1
          BY <1>3
        <5>2. \A k \in 1 .. Len(l) - 1 : l[k] # Colon
          <6> HIDE DEF l
          <6> QED BY <5>1
        <5> QED BY <2>2, <2>4, <5>2
      <4> QED BY <1>1, <1>3, <4>1
    <3>3. m + 1 \in 0 .. x.n /\ m + 1 # 0 /\ m + 1 > 1 /\ m + 1 # 1 /\ m \in 1 .. x.n - 1
          /\ m + 1 - 1 = m
      BY <1>1, <1>3, <1>7, <3>2
    <3>4. ~Malformed(m + 1, l)
      <4>1. ~(Len(l) >= MaxLineLength)
        BY <1>3, <1>4, ParserAssumption
      <4> QED BY <2>2, <2>4, <3>3, <4>1 DEF Malformed
    <3>5. ASSUME x.msg # NoMessage
          PROVE  HasRead(q, x, m + 1)
      <4> DEFINE attr == x.order[m]
                 msg == x.msg
                 before == FieldsIn(x, m)
      <4>1. Carries(x)
        BY <3>5 DEF Layout
      <4>2. /\ msg \in Messages /\ m \in 1 .. Len(x.order) /\ attr \in DOMAIN msg.data
            /\ l = FieldLine(msg, attr)
        BY <3>3, <4>1 DEF Carries
      <4>3. /\ p.method = msg.method
            /\ p.data = [a \in before |-> msg.data[a]]
        BY <1>7, <3>5 DEF At, HasRead
      <4>4. Front(fields[1]) = attr /\ fields[2] = msg.data[attr]
        <5> HIDE DEF attr, msg, l
        <5> QED BY <4>2, FieldLineParsed DEF fields
      <4>5. FieldsIn(x, m + 1) = before \cup {attr}
        BY <3>3 DEF FieldsIn
      <4> HIDE DEF before, attr, msg
      <4>6. SetField(p.data, attr, msg.data[attr]) = [a \in before \cup {attr} |-> msg.data[a]]
        BY <4>3 DEF SetField
      <4>7. q.method = msg.method
        BY <3>1, <4>3
      <4>8. q.data = [a \in FieldsIn(x, m + 1) |-> msg.data[a]]
        BY <3>1, <4>4, <4>5, <4>6
      <4> QED BY <4>7, <4>8 DEF msg, HasRead
    <3>6. At(q, x, m + 1, 0)
      <4>1. \A i \in 1 .. m + 1 : ~Malformed(i, x.lines[i])
        <5>1. \A i \in 1 .. m + 1 : i \in 1 .. m \/ i = m + 1
          BY <3>3
        <5> QED BY <1>1, <3>4, <5>1
      <4>2. q.first = (m + 1 = 0)
        BY <1>1, <1>7, <3>1, <3>3
      <4>3. 0 \in 0 .. Len(x.lines[m + 1 + 1]) /\ q.line = SubSeq(x.lines[m + 1 + 1], 1, 0)
        BY <1>5, <3>1, <3>2
      <4>4. m + 1 \in 0 .. x.n /\ m + 1 # 0
        BY <3>3
      <4> QED BY <3>5, <4>1, <4>2, <4>3, <4>4 DEF At
    <3> QED BY <3>1, <3>2, <3>6
  <2> QED BY <2>3, <2>4
<1> QED BY <1>6, <1>7

\* What parsing the rest of a line, or a part of the rest, does.
LEMMA LineStep ==
    ASSUME NEW x, Layout(x), NEW p, ParserOK(p), ~p.threw, NEW m, NEW c, At(p, x, m, c),
           NEW d \in c + 1 .. Len(x.lines[m + 1]) + 1,
           NEW q, q = ParseLine(p, SubSeq(x.text, x.end[m] + c + 1, x.end[m] + d))
    PROVE  /\ q.threw => Malformed(m + 1, x.lines[m + 1])
           /\ ~q.threw /\ d <= Len(x.lines[m + 1]) => At(q, x, m, d)
           /\ ~q.threw /\ d = Len(x.lines[m + 1]) + 1 => m < x.n /\ At(q, x, m + 1, 0)
<1> DEFINE l == x.lines[m + 1]
           piece == SubSeq(x.text, x.end[m] + c + 1, x.end[m] + d)
           length == Len(p.line) + Len(piece)
<1>1. m \in 0 .. x.n /\ c \in 0 .. Len(l) /\ p.line = SubSeq(l, 1, c) /\ p.first = (m = 0)
  BY DEF At
<1>2. l \in Seq(Char \cup {Colon, CR}) /\ Len(l) \in Nat /\ x.n \in Nat
  BY <1>1, LineOf, SMTT(30)
<1>3. /\ Len(piece) = d - c
      /\ d <= Len(l) => Last(piece) # LF /\ SubSeq(l, 1, c) \o piece = SubSeq(l, 1, d)
      /\ d = Len(l) + 1 => Last(piece) = LF /\ SubSeq(l, 1, c) \o Front(piece) = l
  BY <1>1, RestOfLine
<1>4. length = d
  <2>1. Len(SubSeq(l, 1, c)) = c
    <3>1. c \in Int /\ (1 <= c \/ c = 0) /\ \A i \in 1 .. c : l[i] \in Char \cup {Colon, CR}
      BY <1>1, <1>2
    <3> HIDE DEF l
    <3> QED BY <3>1, SubSeqProperties
  <2> HIDE DEF piece, l
  <2> QED BY <1>1, <1>2, <1>3, <2>1
<1>5. q = IF TooLong(p, length) THEN Throw(p)
          ELSE IF Last(piece) # LF THEN [p EXCEPT !.line = @ \o piece]
          ELSE ParseFullLine([p EXCEPT !.line = <<>>], p.line \o Front(piece))
  BY DEF ParseLine
<1>6. p \in Parser
  BY DEF ParserOK
<1> HIDE DEF piece, length
<1>7. CASE TooLong(p, d)
  <2>1. q.threw
    BY <1>4, <1>5, <1>6, <1>7 DEF Throw, Parser
  <2>2. Len(l) >= MaxLineLength \/ (m = 0 /\ Len(l) >= MaxMethodName)
    <3>1. d > MaxLineLength \/ (p.first /\ d > MaxMethodName)
      BY <1>7, Zenon DEF TooLong
    <3>2. p.first => m = 0
      BY <1>1
    <3>3. MaxLineLength \in Nat /\ MaxMethodName \in Nat /\ Len(l) \in Nat /\ d <= Len(l) + 1
          /\ d \in Nat
      BY <1>1, <1>2, ParserAssumption
    <3> HIDE DEF l
    <3>4. d > MaxLineLength => Len(l) >= MaxLineLength
      BY <3>3
    <3>5. d > MaxMethodName => Len(l) >= MaxMethodName
      BY <3>3
    <3> QED BY <3>1, <3>2, <3>4, <3>5, Zenon
  <2>3. m = 0 => m + 1 = 1
    OBVIOUS
  <2> QED BY <2>1, <2>2, <2>3 DEF Malformed
<1>8. CASE ~TooLong(p, d) /\ d <= Len(l)
  <2>1. q = [p EXCEPT !.line = @ \o piece]
    BY <1>3, <1>4, <1>5, <1>8
  <2>2. /\ ~q.threw /\ q.line = SubSeq(l, 1, d) /\ q.first = p.first
        /\ q.method = p.method /\ q.data = p.data
    BY <1>1, <1>3, <1>6, <1>8, <2>1 DEF Parser
  <2>3. d \in 0 .. Len(l) /\ d # Len(l) + 1
    BY <1>1, <1>2, <1>8
  <2>4. At(q, x, m, d)
    BY <2>2, <2>3 DEF At, HasRead
  <2> QED BY <2>2, <2>3, <2>4
<1>9. CASE ~TooLong(p, d) /\ d = Len(l) + 1
  <2>1. q = ParseFullLine([p EXCEPT !.line = <<>>], l)
    BY <1>1, <1>3, <1>4, <1>5, <1>9
  <2> DEFINE p1 == [p EXCEPT !.line = l]
             p2 == [p EXCEPT !.line = <<>>]
  <2>2. [p1 EXCEPT !.line = <<>>] = p2
    BY <1>6 DEF Parser
  <2>3. /\ ~p1.threw /\ p1.first = p.first /\ p1.method = p.method /\ p1.data = p.data
        /\ p1.line = l
    BY <1>6 DEF Parser
  <2>4. SubSeq(l, 1, Len(l)) = l
    BY <1>2, SubSeqFull
  <2>5. At(p1, x, m, Len(l))
    <3> HIDE DEF p1
    <3>1. Len(l) \in 0 .. Len(l)
      BY <1>2
    <3>2. HasRead(p, x, m) => HasRead(p1, x, m)
      BY <2>3 DEF HasRead
    <3>3. p1.line = SubSeq(x.lines[m + 1], 1, Len(l))
      BY <2>3, <2>4
    <3> HIDE DEF l
    <3> QED BY <2>3, <3>1, <3>2, <3>3 DEF At, l
  <2>6. ~TooLong(p1, Len(l) + 1)
    BY <1>9, <2>3 DEF TooLong
  <2>7. ParserOK(p1)
    <3>1. Len(l) <= MaxLineLength
      BY <1>2, <1>9, ParserAssumption DEF TooLong
    <3>2. l \in Text
      BY <1>2 DEF Text
    <3> QED BY <1>6, <3>1, <3>2 DEF ParserOK, Parser
  <2>8. q = ParseFullLine([p1 EXCEPT !.line = <<>>], l)
    BY <2>1, <2>2
  <2> HIDE DEF p1
  <2>9. /\ q.threw => Malformed(m + 1, l)
        /\ ~q.threw => m < x.n /\ At(q, x, m + 1, 0)
    BY <2>3, <2>5, <2>6, <2>7, <2>8, FullLine
  <2>10. ~(d <= Len(l))
    BY <1>2, <1>9
  <2> QED BY <2>9, <2>10
<1>10. d <= Len(l) \/ d = Len(l) + 1
  BY <1>1, <1>2, SMTT(30)
<1> QED BY <1>7, <1>8, <1>9, <1>10
AtOffset(p, x, r) ==
    \E m \in 0 .. x.n : \E c \in 0 .. Len(x.lines[m + 1]) : r = x.end[m] + c /\ At(p, x, m, c)

\* A line that is malformed begins before the character r.
MalformedBefore(x, r) == \E i \in 1 .. x.n + 1 : Malformed(i, x.lines[i]) /\ x.end[i - 1] < r

\* Cuts of a part of a text are cuts of the text.
LEMMA PartOfPart ==
    ASSUME NEW A, NEW t \in Seq(A), NEW r1 \in Nat, NEW r2 \in r1 .. Len(t),
           NEW i \in 0 .. r2 - r1, NEW j \in i + 1 .. r2 - r1
    PROVE  SubSeq(SubSeq(t, r1 + 1, r2), i + 1, j) = SubSeq(t, r1 + i + 1, r1 + j)
<1> DEFINE a == r1 + 1
           k == i + 1
<1>1. /\ a \in 1 .. Len(t) /\ r2 \in 1 .. Len(t)
      /\ k \in 1 .. r2 - a + 1 /\ j \in 1 .. r2 - a + 1
      /\ a + k - 1 = r1 + i + 1 /\ a + j - 1 = r1 + j
  OBVIOUS
<1> HIDE DEF a, k
<1>2. SubSeq(SubSeq(t, a, r2), k, j) = SubSeq(t, a + k - 1, a + j - 1)
  BY <1>1, SubSeqOfSubSeq
<1>3. SubSeq(SubSeq(t, a, r2), k, j) = SubSeq(t, r1 + i + 1, r1 + j)
  BY <1>1, <1>2
<1> QED BY <1>3 DEF a, k

LEMMA PartOf ==
    ASSUME NEW A, NEW t \in Seq(A), NEW r1 \in Nat, NEW r2 \in r1 .. Len(t)
    PROVE  /\ SubSeq(t, r1 + 1, r2) \in Seq(A)
           /\ Len(SubSeq(t, r1 + 1, r2)) = r2 - r1
           /\ \A i \in 1 .. r2 - r1 : SubSeq(t, r1 + 1, r2)[i] = t[r1 + i]
<1> DEFINE a == r1 + 1
           s == SubSeq(t, a, r2)
<1>1. a \in Int /\ r2 \in Int /\ \A i \in a .. r2 : t[i] \in A
  OBVIOUS
<1>2. r2 - a + 1 = r2 - r1 /\ (a <= r2 \/ r2 - r1 = 0)
  OBVIOUS
<1>3. \A i \in 1 .. r2 - r1 : a + i - 1 = r1 + i
  OBVIOUS
<1> HIDE DEF a
<1>4. /\ s \in Seq(A) /\ Len(s) = IF a <= r2 THEN r2 - a + 1 ELSE 0
      /\ \A i \in 1 .. r2 - a + 1 : s[i] = t[a + i - 1]
  BY <1>1, SubSeqProperties
<1> HIDE DEF s
<1>5. Len(s) = r2 - r1
  BY <1>2, <1>4
<1>6. \A i \in 1 .. r2 - r1 : s[i] = t[r1 + i]
  BY <1>2, <1>3, <1>4
<1> QED BY <1>4, <1>5, <1>6 DEF s, a

\* A piece of a part of a text, with what it does to a parser at its beginning.
LEMMA PieceStep ==
    ASSUME NEW x, Layout(x), NEW p, ParserOK(p), ~p.threw,
           NEW r1 \in Nat, NEW r2 \in r1 .. Len(x.text),
           NEW s, s = SubSeq(x.text, r1 + 1, r2),
           NEW i \in 0 .. Len(s), NEW j \in 0 .. Len(s), IsFirst(s, LF, i, j),
           AtOffset(p, x, r1 + i),
           NEW q, q = ParseLine(p, SubSeq(s, i + 1, j))
    PROVE  /\ ~q.threw => AtOffset(q, x, r1 + j)
           /\ q.threw => MalformedBefore(x, r2)
<1>1. PICK m \in 0 .. x.n : \E c \in 0 .. Len(x.lines[m + 1]) :
         r1 + i = x.end[m] + c /\ At(p, x, m, c)
  BY DEF AtOffset
<1>2. PICK c \in 0 .. Len(x.lines[m + 1]) : r1 + i = x.end[m] + c /\ At(p, x, m, c)
  BY <1>1
<1> DEFINE l == x.lines[m + 1]
           base == x.end[m]
           d == r1 + j - base
<1>3. /\ x.text \in Text /\ Len(l) \in Nat /\ base \in Nat /\ x.n \in Nat \ {0}
      /\ x.end[m + 1] = base + Len(l) + 1 /\ x.text[base + Len(l) + 1] = LF
  <2>1. /\ x.text \in Text /\ l \in Seq(Char \cup {Colon, CR}) /\ base \in Nat /\ x.n \in Nat \ {0}
        /\ x.end[m + 1] = base + Len(l) + 1 /\ x.text[x.end[m + 1]] = LF
    BY LineOf
  <2>2. Len(l) \in Nat
    <3> HIDE DEF l
    <3> QED BY <2>1
  <2> QED BY <2>1, <2>2
<1>4. /\ s \in Text /\ Len(s) = r2 - r1
      /\ \A k \in 1 .. r2 - r1 : s[k] = x.text[r1 + k]
  <2> DEFINE A == Char \cup {CR, LF, Colon}
             t == x.text
  <2>1. t \in Seq(A) /\ r2 \in r1 .. Len(t)
    BY <1>3 DEF Text
  <2>2. s = SubSeq(t, r1 + 1, r2)
    OBVIOUS
  <2> HIDE DEF A, t
  <2>3. /\ SubSeq(t, r1 + 1, r2) \in Seq(A) /\ Len(SubSeq(t, r1 + 1, r2)) = r2 - r1
        /\ \A k \in 1 .. r2 - r1 : SubSeq(t, r1 + 1, r2)[k] = t[r1 + k]
    BY <2>1, PartOf, Zenon
  <2>4. s \in Seq(A) /\ Len(s) = r2 - r1 /\ \A k \in 1 .. r2 - r1 : s[k] = t[r1 + k]
    BY <2>2, <2>3, Zenon
  <2> QED BY <2>4 DEF A, t, Text
<1>5. i < j /\ j <= Len(s) /\ \A k \in i + 1 .. Len(s) : s[k] = LF => j <= k
  BY DEF IsFirst
<1>6. c \in 0 .. Len(l) /\ r1 + i = base + c
  BY <1>2
<1> HIDE DEF l, base
<1>7. d \in c + 1 .. Len(l) + 1 /\ base + d = r1 + j /\ base < r2
  <2>1. base + Len(l) + 1 <= r2 => r1 + j <= base + Len(l) + 1
    <3> SUFFICES ASSUME base + Len(l) + 1 <= r2 PROVE r1 + j <= base + Len(l) + 1
      OBVIOUS
    <3> DEFINE k == base + Len(l) + 1 - r1
    <3>1. k \in 1 .. r2 - r1 /\ k \in i + 1 .. Len(s) /\ r1 + k = base + Len(l) + 1
      <4>1. /\ base \in Nat /\ Len(l) \in Nat /\ c \in Nat /\ c <= Len(l) /\ r1 + i = base + c
            /\ i \in Nat /\ r2 \in Nat /\ Len(s) = r2 - r1
        BY <1>3, <1>4, <1>6
      <4> QED BY <4>1
    <3> HIDE DEF k
    <3>2. s[k] = LF
      BY <1>3, <1>4, <3>1
    <3>3. j <= k
      BY <1>5, <3>1, <3>2
    <3> QED BY <3>1, <3>3
  <2> QED BY <1>3, <1>4, <1>5, <1>6, <2>1
<1>8. SubSeq(s, i + 1, j) = SubSeq(x.text, base + c + 1, base + d)
  <2>1. i \in 0 .. r2 - r1 /\ j \in i + 1 .. r2 - r1
    BY <1>4, <1>5
  <2>2. SubSeq(s, i + 1, j) = SubSeq(x.text, r1 + i + 1, r1 + j)
    BY <1>3, <2>1, PartOfPart DEF Text
  <2> QED BY <1>6, <1>7, <2>2
<1> HIDE DEF d
<1>9. /\ q.threw => Malformed(m + 1, l)
      /\ ~q.threw /\ d <= Len(l) => At(q, x, m, d)
      /\ ~q.threw /\ d = Len(l) + 1 => m < x.n /\ At(q, x, m + 1, 0)
  BY <1>2, <1>7, <1>8, LineStep DEF l, base
<1>10. ASSUME q.threw PROVE MalformedBefore(x, r2)
  <2>1. m + 1 \in 1 .. x.n + 1 /\ m + 1 - 1 = m
    BY <1>3, SMTT(30)
  <2>2. Malformed(m + 1, x.lines[m + 1])
    BY <1>9, <1>10 DEF l
  <2>3. x.end[(m + 1) - 1] < r2
    BY <1>7, <2>1 DEF base
  <2> QED BY <2>1, <2>2, <2>3 DEF MalformedBefore
<1>11. ASSUME ~q.threw PROVE AtOffset(q, x, r1 + j)
  <2>1. CASE d <= Len(l)
    <3>1. d \in 0 .. Len(l) /\ r1 + j = base + d
      BY <1>3, <1>6, <1>7, <2>1
    <3> QED BY <1>9, <1>11, <2>1, <3>1 DEF AtOffset, l, base
  <2>2. CASE d = Len(l) + 1
    <3>1. m < x.n /\ At(q, x, m + 1, 0)
      BY <1>9, <1>11, <2>2
    <3>2. m + 1 \in 0 .. x.n
      BY <1>3, <3>1, SMTT(30)
    <3>3. r1 + j = x.end[m + 1] + 0
      BY <1>3, <1>7, <2>2
    <3>4. 0 \in 0 .. Len(x.lines[m + 1 + 1])
      BY <3>1 DEF At
    <3> QED BY <3>1, <3>2, <3>3, <3>4 DEF AtOffset
  <2>3. d <= Len(l) \/ d = Len(l) + 1
    BY <1>3, <1>6, <1>7, SMTT(30)
  <2> QED BY <2>1, <2>2, <2>3
<1> QED BY <1>10, <1>11

\* A part of a text.
LEMMA TextPart ==
    ASSUME NEW x, Layout(x), NEW p, ParserOK(p), ~p.threw,
           NEW r1 \in Nat, NEW r2 \in r1 .. Len(x.text), AtOffset(p, x, r1),
           NEW q, q = ParseMsgLines(p, LineSplit(SubSeq(x.text, r1 + 1, r2)))
    PROVE  /\ ~q.threw => AtOffset(q, x, r2)
           /\ q.threw => MalformedBefore(x, r2)
<1> DEFINE s == SubSeq(x.text, r1 + 1, r2)
           ss == LineSplit(s)
           N == Len(ss)
<1>1. x.text \in Text
  BY DEF Layout, Shape
<1>2. s \in Text /\ Len(s) = r2 - r1
  BY <1>1, PartOf DEF Text
<1> HIDE DEF s
<1>3. ss = Split(s, <<LF>>)
  BY DEF LineSplit, END_OF_LINE
<1>4. PICK b : OneCuts(s, LF, ss, b)
  BY <1>2, <1>3, OneSplit DEF Text
<1>5. ss \in Seq(Text) /\ \A i \in 1 .. N : ss[i] # <<>>
  BY <1>2, LineSplitType
<1> HIDE DEF ss
<1>6. N \in Nat /\ \A i \in 1 .. N : ss[i] \in Text /\ ss[i] # <<>>
  BY <1>5
<1>7. /\ b \in [0 .. N -> 0 .. Len(s)] /\ b[0] = 0 /\ b[N] = Len(s)
      /\ \A i \in 1 .. N : IsFirst(s, LF, b[i - 1], b[i]) /\ ss[i] = SubSeq(s, b[i - 1] + 1, b[i])
  BY <1>4 DEF OneCuts
<1>8. PICK f : /\ f[0] = p
               /\ \A i \in 1 .. N : f[i] = ParseLine(f[i - 1], ss[i])
               /\ ParseMsgLines(p, ss) = f[N]
  BY <1>6, ParseMsgLinesSteps
<1> DEFINE T == {i \in Nat : /\ ParserOK(f[i])
                             /\ ~f[i].threw => AtOffset(f[i], x, r1 + b[i])
                             /\ f[i].threw => MalformedBefore(x, r2)}
<1>9. 0 \in T
  <2>1. r1 + b[0] = r1
    BY <1>7
  <2> QED BY <1>8, <2>1
<1>10. ASSUME NEW i \in 1 .. N, i - 1 \in T PROVE i \in T
  <2>1. /\ ParserOK(f[i - 1])
        /\ ~f[i - 1].threw => AtOffset(f[i - 1], x, r1 + b[i - 1])
        /\ f[i - 1].threw => MalformedBefore(x, r2)
    BY <1>10
  <2>2. f[i] = ParseLine(f[i - 1], ss[i]) /\ ss[i] \in Text /\ ss[i] # <<>>
    BY <1>6, <1>8
  <2>3. ParserOK(f[i]) /\ i \in Nat
    BY <2>1, <2>2, ParseLineType
  <2>4. CASE f[i - 1].threw
    <3>1. f[i] = f[i - 1]
      BY <2>2, <2>4 DEF ParseLine
    <3> QED BY <2>1, <2>3, <2>4, <3>1
  <2>5. CASE ~f[i - 1].threw
    <3>1. i - 1 \in 0 .. N /\ i \in 0 .. N
      BY <1>6
    <3>2. b[i - 1] \in 0 .. Len(s) /\ b[i] \in 0 .. Len(s)
      BY <1>7, <3>1
    <3>3. IsFirst(s, LF, b[i - 1], b[i]) /\ f[i] = ParseLine(f[i - 1], SubSeq(s, b[i - 1] + 1, b[i]))
      BY <1>7, <2>2
    <3> DEFINE u == b[i - 1]
               v == b[i]
               pp == f[i - 1]
               qq == f[i]
    <3>4. /\ u \in 0 .. Len(s) /\ v \in 0 .. Len(s) /\ IsFirst(s, LF, u, v)
          /\ AtOffset(pp, x, r1 + u) /\ ParserOK(pp) /\ ~pp.threw
          /\ qq = ParseLine(pp, SubSeq(s, u + 1, v))
      BY <2>1, <2>5, <3>2, <3>3
    <3> HIDE DEF u, v, pp, qq
    <3>5. s = SubSeq(x.text, r1 + 1, r2)
      BY DEF s
    <3>6. /\ ~qq.threw => AtOffset(qq, x, r1 + v)
          /\ qq.threw => MalformedBefore(x, r2)
      BY <3>4, <3>5, PieceStep
    <3> QED BY <2>3, <3>6 DEF qq, v
  <2> QED BY <2>4, <2>5
<1>11. N \in T
  <2> HIDE DEF T
  <2>1. \A i \in 0 .. N : i \in T
    BY <1>6, <1>9, <1>10, InductionUpTo
  <2> QED BY <1>6, <2>1
<1>12. r1 + b[N] = r2
  BY <1>2, <1>7
<1>13. q = f[N]
  BY <1>8 DEF ss, s
<1> QED BY <1>11, <1>12, <1>13

-----------------------------------------------------------------------------
(* The stream of the texts *)

\* Where marks grow, they are in order, and a position lies between two of them.
Marks(N, e) ==
    /\ N \in Nat /\ e \in [0 .. N -> Nat] /\ e[0] = 0
    /\ \A i \in 1 .. N : e[i - 1] < e[i]

LEMMA MarksGrow ==
    ASSUME NEW N, NEW e, Marks(N, e), NEW i \in 0 .. N
    PROVE  \A j \in i .. N : e[i] <= e[j]
<1>1. N \in Nat /\ e \in [0 .. N -> Nat] /\ \A k \in 1 .. N : e[k - 1] < e[k]
  BY DEF Marks
<1> DEFINE T == {j \in Nat : i <= j => e[i] <= e[j]}
<1>2. 0 \in T
  BY <1>1
<1>3. ASSUME NEW j \in 1 .. N, j - 1 \in T PROVE j \in T
  <2>1. j \in Nat /\ j - 1 \in 0 .. N /\ j \in 0 .. N /\ e[j - 1] < e[j]
    BY <1>1
  <2>2. e[j] \in Nat /\ e[j - 1] \in Nat /\ e[i] \in Nat
    BY <1>1, <2>1
  <2>3. i <= j => i <= j - 1 \/ i = j
    BY <1>1
  <2>4. i <= j - 1 => e[i] <= e[j - 1]
    BY <1>3
  <2> QED BY <2>1, <2>2, <2>3, <2>4
<1>4. \A j \in 0 .. N : j \in T
  <2> HIDE DEF T
  <2> QED BY <1>1, <1>2, <1>3, InductionUpTo
<1> QED BY <1>1, <1>4

LEMMA BetweenMarks ==
    ASSUME NEW N, NEW e, Marks(N, e), NEW p \in 1 .. e[N]
    PROVE  \E i \in 1 .. N : e[i - 1] < p /\ p <= e[i]
<1>1. N \in Nat /\ e \in [0 .. N -> Nat] /\ e[0] = 0
  BY DEF Marks
<1> DEFINE T == {i \in 0 .. N : p <= e[i]}
<1>2. e[N] \in Nat
  BY <1>1
<1>3. T \in SUBSET Nat /\ N \in T
  BY <1>1, <1>2
<1>4. PICK i \in T : \A j \in T : i <= j
  <2> HIDE DEF T
  <2> QED BY <1>3, LeastNumber
<1>5. i \in 0 .. N /\ p <= e[i] /\ i # 0
  BY <1>1, <1>4
<1>6. i \in 1 .. N /\ i - 1 \in 0 .. N /\ i - 1 \notin T
  BY <1>1, <1>4, <1>5
<1>7. e[i - 1] \in Nat
  BY <1>1, <1>6
<1>8. ~(p <= e[i - 1])
  BY <1>6
<1>9. e[i - 1] < p
  BY <1>2, <1>7, <1>8
<1> QED BY <1>5, <1>6, <1>9

\* The last four characters of a text are its only end sequence: no CR comes before.
Tail4(t, b) ==
    /\ t \in Text /\ b \in Nat \ {0} /\ Len(t) = b + 4
    /\ \A j \in 1 .. b : t[j] # CR
    /\ t[b + 1] = CR /\ t[b + 2] = LF /\ t[b + 3] = CR /\ t[b + 4] = LF

LEMMA LineMarks ==
    ASSUME NEW x, Layout(x)
    PROVE  Marks(x.n, [i \in 0 .. x.n |-> x.end[i]])
<1>1. x.n \in Nat \ {0} /\ x.end \in [0 .. x.n + 2 -> Nat] /\ x.end[0] = 0
  BY DEF Layout, Shape
<1> DEFINE e == [i \in 0 .. x.n |-> x.end[i]]
<1>2. e \in [0 .. x.n -> Nat] /\ e[0] = 0
  BY <1>1
<1>3. ASSUME NEW i \in 1 .. x.n PROVE e[i - 1] < e[i]
  <2>1. i - 1 \in 0 .. x.n /\ (i - 1) + 1 = i /\ i \in 0 .. x.n
    BY <1>1
  <2>2. /\ x.lines[(i - 1) + 1] \in Seq(Char \cup {Colon, CR}) /\ x.end[i - 1] \in Nat
        /\ x.end[(i - 1) + 1] = x.end[i - 1] + Len(x.lines[(i - 1) + 1]) + 1
    BY <2>1, LineOf
  <2>3. Len(x.lines[(i - 1) + 1]) \in Nat
    BY <2>2, LenProperties
  <2>4. x.end[i - 1] < x.end[(i - 1) + 1]
    BY <2>2, <2>3
  <2> QED BY <2>1, <2>4
<1> HIDE DEF e
<1> QED BY <1>1, <1>2, <1>3 DEF Marks, e

LEMMA TextTail ==
    ASSUME NEW x, Layout(x)
    PROVE  Tail4(x.text, x.end[x.n])
<1> DEFINE n == x.n
           b == x.end[n]
           e == [i \in 0 .. n |-> x.end[i]]
<1>1. /\ x.text \in Text /\ n \in Nat \ {0} /\ x.end \in [0 .. n + 2 -> Nat]
      /\ x.end[n + 2] = Len(x.text) /\ x.lines[n + 1] = <<CR>> /\ x.lines[n + 2] = <<CR>>
      /\ \A i \in 1 .. n : x.lines[i] \in Line
      /\ \A i \in 1 .. n + 2 :
            /\ x.end[i] = x.end[i - 1] + Len(x.lines[i]) + 1
            /\ x.text[x.end[i]] = LF
            /\ \A c \in 1 .. Len(x.lines[i]) : x.text[x.end[i - 1] + c] = x.lines[i][c]
  BY DEF Layout, Shape
<1>2. b \in Nat /\ x.end[n + 1] = b + 2 /\ x.text[b + 1] = CR /\ x.text[b + 2] = LF
  <2>1. n + 1 \in 1 .. n + 2 /\ (n + 1) - 1 = n /\ n \in 0 .. n + 2
    BY <1>1
  <2>2. Len(<<CR>>) = 1 /\ <<CR>>[1] = CR /\ 1 \in 1 .. 1
    OBVIOUS
  <2>3. b \in Nat
    BY <1>1, <2>1
  <2>4. /\ x.end[n + 1] = b + Len(x.lines[n + 1]) + 1 /\ x.text[x.end[n + 1]] = LF
        /\ \A c \in 1 .. Len(x.lines[n + 1]) : x.text[b + c] = x.lines[n + 1][c]
    BY <1>1, <2>1, ZenonT(30)
  <2> HIDE DEF n, b
  <2>5. x.end[n + 1] = b + 1 + 1 /\ x.text[b + 1] = CR
    BY <1>1, <2>2, <2>4
  <2>6. b + 1 + 1 = b + 2
    BY <2>3
  <2> QED BY <2>3, <2>4, <2>5, <2>6
<1>3. Len(x.text) = b + 4 /\ x.text[b + 3] = CR /\ x.text[b + 4] = LF
  <2>1. n + 2 \in 1 .. n + 2 /\ (n + 2) - 1 = n + 1
    BY <1>1
  <2>2. Len(<<CR>>) = 1 /\ <<CR>>[1] = CR /\ 1 \in 1 .. 1
    OBVIOUS
  <2>4. /\ x.end[n + 2] = x.end[n + 1] + Len(x.lines[n + 2]) + 1 /\ x.text[x.end[n + 2]] = LF
        /\ \A c \in 1 .. Len(x.lines[n + 2]) : x.text[x.end[n + 1] + c] = x.lines[n + 2][c]
    BY <1>1, <2>1
  <2> HIDE DEF n, b
  <2>5. x.end[n + 2] = b + 2 + 1 + 1 /\ x.text[b + 2 + 1] = CR
    BY <1>1, <1>2, <2>2, <2>4
  <2>6. b + 2 + 1 = b + 3 /\ b + 2 + 1 + 1 = b + 4
    BY <1>2
  <2> QED BY <1>1, <2>4, <2>5, <2>6
<1>4. Marks(n, e)
  BY LineMarks
<1>5. e[n] = b /\ \A i \in 0 .. n : e[i] = x.end[i]
  BY <1>1
<1>6. b # 0
  <2>2. 1 \in 0 .. n /\ n \in 1 .. n /\ 1 \in 1 .. n /\ 1 - 1 = 0 /\ n \in 0 .. n
    BY <1>1
  <2> HIDE DEF e, n
  <2>0. e \in [0 .. n -> Nat] /\ e[0] = 0 /\ \A i \in 1 .. n : e[i - 1] < e[i]
    BY <1>4 DEF Marks
  <2>1. e[0] = 0 /\ e[0] < e[1] /\ e[1] \in Nat /\ e[n] \in Nat
    BY <2>0, <2>2
  <2>3. e[1] <= e[n]
    BY <1>4, <2>2, MarksGrow
  <2> QED BY <1>2, <1>5, <2>1, <2>3
<1>7. ASSUME NEW j \in 1 .. b PROVE x.text[j] # CR
  <2> HIDE DEF e
  <2>1. j \in 1 .. e[n]
    BY <1>5
  <2> HIDE DEF n, b
  <2>2. PICK i \in 1 .. n : e[i - 1] < j /\ j <= e[i]
    BY <1>4, <2>1, BetweenMarks
  <2>3. i \in 0 .. n /\ i - 1 \in 0 .. n /\ i \in 1 .. n + 2
    BY <1>1
  <2> DEFINE l == x.lines[i]
             base == x.end[i - 1]
             c == j - base
  <2>4. /\ base < j /\ j <= x.end[i] /\ base \in Nat
        /\ x.end[i] = base + Len(l) + 1 /\ x.text[x.end[i]] = LF
        /\ \A d \in 1 .. Len(l) : x.text[base + d] = l[d]
    <3>1. base \in Nat
      BY <1>1, <2>3
    <3> QED BY <1>1, <1>5, <2>2, <2>3, <3>1
  <2>5. l \in Seq(Char \cup {Colon}) /\ Len(l) \in Nat
    <3>1. l \in Seq(Char \cup {Colon})
      BY <1>1 DEF Line
    <3> HIDE DEF l
    <3> QED BY <3>1
  <2> HIDE DEF l, base
  <2>6. CASE j = x.end[i]
    BY <2>4, <2>6 DEF CR, LF
  <2>7. CASE j # x.end[i]
    <3>1. j \in Nat
      BY <1>2
    <3>2. c \in 1 .. Len(l) /\ base + c = j
      BY <2>4, <2>5, <2>7, <3>1, SMTT(30)
    <3> HIDE DEF c
    <3>3. x.text[j] = l[c] /\ l[c] \in Char \cup {Colon}
      BY <2>4, <2>5, <3>2
    <3> QED BY <3>3, ParserAssumption DEF CR, Colon
  <2> QED BY <2>6, <2>7
<1> QED BY <1>1, <1>2, <1>3, <1>6, <1>7 DEF Tail4
\* The stream is made up of texts: X[k] says how the k-th is, e[k] where it ends.
Laid(X, e) ==
    /\ Stream \in Text
    /\ Marks(Len(sent), e) /\ e[Len(sent)] = Len(Stream)
    /\ \A k \in 0 .. Len(sent) : e[k] = EndOf(k)
    /\ \A k \in 1 .. Len(sent) :
          /\ Layout(X[k]) /\ X[k].msg = sent[k].msg
          /\ e[k] = e[k - 1] + Len(X[k].text)
          /\ \A j \in 1 .. Len(X[k].text) : Stream[e[k - 1] + j] = X[k].text[j]

LEMMA StreamLaid ==
    ASSUME sent \in Seq(Sendable)
    PROVE  \E X, e : Laid(X, e)
<1> DEFINE N == Len(sent)
           X == [k \in 1 .. N |-> CHOOSE x : Layout(x) /\ x.text = sent[k].text
                                                        /\ x.msg = sent[k].msg]
           seqs == [k \in DOMAIN sent |-> sent[k].text]
           A == Char \cup {CR, LF, Colon}
<1>1. N \in Nat /\ DOMAIN sent = 1 .. N /\ \A k \in 1 .. N : sent[k] \in Sendable
  OBVIOUS
<1>2. ASSUME NEW k \in 1 .. N
      PROVE  Layout(X[k]) /\ X[k].text = sent[k].text /\ X[k].msg = sent[k].msg
  <2>1. \E x : Layout(x) /\ x.text = sent[k].text /\ x.msg = sent[k].msg
    BY <1>1, SendableLayout
  <2>2. X[k] = CHOOSE x : Layout(x) /\ x.text = sent[k].text /\ x.msg = sent[k].msg
    OBVIOUS
  <2> QED BY <2>1, <2>2, Zenon
<1> HIDE DEF X
<1>3. ASSUME NEW k \in 1 .. N
      PROVE  /\ seqs[k] = X[k].text /\ seqs[k] \in Seq(A) /\ Len(seqs[k]) \in Nat \ {0}
  <2>1. Tail4(X[k].text, X[k].end[X[k].n])
    BY <1>2, TextTail
  <2>2. seqs[k] = X[k].text
    BY <1>1, <1>2
  <2> HIDE DEF seqs
  <2> QED BY <2>1, <2>2, SMTT(30) DEF Tail4, Text
<1>4. Len(seqs) = N /\ DOMAIN seqs = 1 .. N
  BY <1>1
<1>5. seqs \in Seq(Seq(A))
  <2>1. \A k \in 1 .. N : seqs[k] \in Seq(A)
    BY <1>3
  <2>2. seqs = [k \in 1 .. N |-> seqs[k]]
    BY <1>1
  <2> HIDE DEF seqs, A
  <2>3. \A k \in 1 .. N : seqs[k] \in Seq(A)
    BY <2>1
  <2> QED BY <1>1, <2>2, <2>3, IsASeq
<1>6. Stream = FlattenSeq(seqs)
  BY DEF Stream
<1>7. ASSUME NEW k \in 0 .. N PROVE FlattenFirst(k, seqs) = FlattenSeq([i \in 1 .. k |-> sent[i].text])
  <2>1. \A i \in 1 .. k : i \in DOMAIN sent
    BY <1>1
  <2>2. [i \in 1 .. k |-> seqs[i]] = [i \in 1 .. k |-> sent[i].text]
    BY <2>1
  <2> QED BY <2>2 DEF FlattenFirst
<1> HIDE DEF seqs, A
<1>8. PICK e : FlattensAt(A, seqs, e)
  BY <1>5, FlattenAt
<1>9. Stream \in Text
  BY <1>6, <1>8 DEF A, Text, FlattensAt
<1>10. \A k \in 0 .. N : e[k] = EndOf(k)
  BY <1>4, <1>7, <1>8 DEF EndOf, FlattensAt
<1>11. e \in [0 .. N -> Nat] /\ e[0] = 0 /\ e[N] = Len(Stream)
  BY <1>4, <1>6, <1>8, Zenon DEF FlattensAt
<1>12. ASSUME NEW k \in 1 .. N
       PROVE  /\ e[k] = e[k - 1] + Len(X[k].text)
              /\ \A j \in 1 .. Len(X[k].text) : Stream[e[k - 1] + j] = X[k].text[j]
  <2>1. /\ e[k] = e[k - 1] + Len(seqs[k])
        /\ \A j \in 1 .. Len(seqs[k]) : Stream[e[k - 1] + j] = seqs[k][j]
    BY <1>4, <1>6, <1>8 DEF FlattensAt
  <2>2. seqs[k] = X[k].text
    BY <1>3
  <2> QED BY <2>1, <2>2, Zenon
<1>13. Marks(N, e)
  <2>1. ASSUME NEW k \in 1 .. N PROVE e[k - 1] < e[k]
    <3>1. e[k] = e[k - 1] + Len(seqs[k]) /\ Len(seqs[k]) \in Nat \ {0}
      BY <1>3, <1>12
    <3>2. k - 1 \in 0 .. N
      BY <1>1
    <3>3. e[k - 1] \in Nat
      BY <1>11, <3>2
    <3> QED BY <3>1, <3>3
  <2> QED BY <1>1, <1>11, <2>1 DEF Marks
<1> HIDE DEF N
<1>14. \A k \in 1 .. N : Layout(X[k]) /\ X[k].msg = sent[k].msg
  BY <1>2
<1>15. Laid(X, e)
  BY <1>9, <1>10, <1>11, <1>12, <1>13, <1>14, Zenon DEF Laid, N
<1> QED BY <1>15

\* A part of the stream within a text is a part of the text.
LEMMA PartOfStream ==
    ASSUME NEW X, NEW e, Laid(X, e), NEW k \in 1 .. Len(sent),
           NEW r1 \in Nat, NEW r2 \in r1 .. Len(X[k].text)
    PROVE  SubSeq(Stream, e[k - 1] + r1 + 1, e[k - 1] + r2) = SubSeq(X[k].text, r1 + 1, r2)
<1> DEFINE t == X[k].text
           base == e[k - 1]
           A == Char \cup {CR, LF, Colon}
<1>1. /\ Marks(Len(sent), e) /\ Len(sent) \in Nat /\ e \in [0 .. Len(sent) -> Nat]
      /\ e[Len(sent)] = Len(Stream)
  BY DEF Laid, Marks
<1>2. k \in 0 .. Len(sent) /\ k - 1 \in 0 .. Len(sent) /\ Len(sent) \in k .. Len(sent)
  BY <1>1
<1>3. base \in Nat /\ e[k] \in Nat /\ e[k] <= Len(Stream)
  BY <1>1, <1>2, MarksGrow
<1>4. /\ e[k] = base + Len(t) /\ \A j \in 1 .. Len(t) : Stream[base + j] = t[j]
      /\ Layout(X[k]) /\ Stream \in Seq(A)
  BY DEF Laid, Text
<1>5. t \in Seq(A) /\ Len(t) \in Nat
  <2>1. t \in Seq(A)
    BY <1>4 DEF Layout, Shape, Text
  <2> HIDE DEF t
  <2> QED BY <2>1
<1> DEFINE R1 == base + r1
           R2 == base + r2
           u == SubSeq(Stream, R1 + 1, R2)
           v == SubSeq(t, r1 + 1, r2)
<1>6. r2 \in r1 .. Len(t)
  OBVIOUS
<1> HIDE DEF t, base, A
<1>7. R1 \in Nat /\ R2 \in R1 .. Len(Stream) /\ R2 - R1 = r2 - r1
  BY <1>3, <1>4, <1>5, <1>6
<1>8. v \in Seq(A) /\ Len(v) = r2 - r1 /\ \A i \in 1 .. r2 - r1 : v[i] = t[r1 + i]
  BY <1>5, <1>6, PartOf
<1>9. \A i \in 1 .. r2 - r1 : R1 + i = base + (r1 + i) /\ r1 + i \in 1 .. Len(t)
  BY <1>3, <1>5, <1>6
<1> HIDE DEF R1, R2
<1>10. u \in Seq(A) /\ Len(u) = R2 - R1 /\ \A i \in 1 .. R2 - R1 : u[i] = Stream[R1 + i]
  BY <1>4, <1>7, PartOf
<1> HIDE DEF u, v
<1>11. u = v
  <2>1. Len(u) = Len(v)
    BY <1>7, <1>8, <1>10
  <2>2. ASSUME NEW i \in 1 .. Len(u) PROVE u[i] = v[i]
    <3>1. i \in 1 .. R2 - R1 /\ i \in 1 .. r2 - r1
      BY <1>7, <1>10
    <3>2. u[i] = Stream[R1 + i] /\ v[i] = t[r1 + i]
      BY <1>8, <1>10, <3>1
    <3>3. R1 + i = base + (r1 + i) /\ r1 + i \in 1 .. Len(t)
      BY <1>9, <3>1
    <3>4. Stream[base + (r1 + i)] = t[r1 + i]
      BY <1>4, <3>3
    <3> QED BY <3>2, <3>3, <3>4
  <2> QED BY <1>8, <1>10, <2>1, <2>2, SeqEqual
<1>12. R1 + 1 = base + r1 + 1
  BY <1>3 DEF R1
<1> QED BY <1>11, <1>12 DEF u, v, R1, R2, t, base

\* The CRs of the stream are those of the end sequences.
LEMMA EndsOfStream ==
    ASSUME NEW X, NEW e, Laid(X, e)
    PROVE  /\ \A y \in 4 .. Len(Stream) :
                 Stream[y - 3] = CR /\ Stream[y - 1] = CR => \E k \in 1 .. Len(sent) : y = e[k]
           /\ \A k \in 1 .. Len(sent) :
                 /\ e[k - 1] \in Nat /\ e[k] \in Nat /\ e[k - 1] + 5 <= e[k] /\ e[k] <= Len(Stream)
                 /\ Stream[e[k] - 3] = CR /\ Stream[e[k] - 2] = LF
                 /\ Stream[e[k] - 1] = CR /\ Stream[e[k]] = LF
<1> DEFINE N == Len(sent)
           B(k) == X[k].end[X[k].n]
<1>1. /\ Marks(N, e) /\ N \in Nat /\ e \in [0 .. N -> Nat]
      /\ e[N] = Len(Stream) /\ e[0] = 0
  BY DEF Laid, Marks
<1>2. ASSUME NEW k \in 1 .. N
      PROVE  /\ Tail4(X[k].text, B(k)) /\ e[k] = e[k - 1] + Len(X[k].text)
             /\ \A j \in 1 .. Len(X[k].text) : Stream[e[k - 1] + j] = X[k].text[j]
             /\ e[k - 1] \in Nat /\ e[k] \in Nat /\ e[k] <= Len(Stream)
             /\ k \in 0 .. N /\ k - 1 \in 0 .. N
  <2>1. k \in 0 .. N /\ k - 1 \in 0 .. N /\ N \in k .. N
    BY <1>1
  <2>2. e[k] <= e[N]
    BY <1>1, <2>1, MarksGrow
  <2>3. Layout(X[k]) /\ e[k] = e[k - 1] + Len(X[k].text)
        /\ \A j \in 1 .. Len(X[k].text) : Stream[e[k - 1] + j] = X[k].text[j]
    BY DEF Laid
  <2>4. Tail4(X[k].text, B(k))
    BY <2>3, TextTail
  <2>5. e[k - 1] \in Nat /\ e[k] \in Nat
    BY <1>1, <2>1
  <2> HIDE DEF N
  <2> QED BY <1>1, <2>1, <2>2, <2>3, <2>4, <2>5
<1> HIDE DEF B
<1>3. ASSUME NEW k \in 1 .. N
      PROVE  /\ B(k) \in Nat \ {0} /\ Len(X[k].text) = B(k) + 4
             /\ \A j \in 1 .. B(k) : X[k].text[j] # CR
             /\ X[k].text[B(k) + 1] = CR /\ X[k].text[B(k) + 2] = LF
             /\ X[k].text[B(k) + 3] = CR /\ X[k].text[B(k) + 4] = LF
  BY <1>2 DEF Tail4
<1> HIDE DEF N
<1>4. ASSUME NEW k \in 1 .. N
      PROVE  /\ e[k - 1] + 5 <= e[k]
             /\ Stream[e[k] - 3] = CR /\ Stream[e[k] - 2] = LF
             /\ Stream[e[k] - 1] = CR /\ Stream[e[k]] = LF
  <2> DEFINE b == B(k)
             t == X[k].text
             base == e[k - 1]
  <2>1. /\ base \in Nat /\ b \in Nat \ {0} /\ Len(t) = b + 4 /\ e[k] = base + Len(t)
        /\ \A j \in 1 .. Len(t) : Stream[base + j] = t[j]
        /\ t[b + 1] = CR /\ t[b + 2] = LF /\ t[b + 3] = CR /\ t[b + 4] = LF
    BY <1>2, <1>3
  <2> HIDE DEF b, t, base
  <2>2. /\ e[k] - 3 = base + (b + 1) /\ e[k] - 2 = base + (b + 2)
        /\ e[k] - 1 = base + (b + 3) /\ e[k] = base + (b + 4)
        /\ b + 1 \in 1 .. Len(t) /\ b + 2 \in 1 .. Len(t)
        /\ b + 3 \in 1 .. Len(t) /\ b + 4 \in 1 .. Len(t)
        /\ base + 5 <= e[k]
    BY <2>1
  <2> QED BY <2>1, <2>2 DEF base
<1>5. ASSUME NEW y \in 4 .. Len(Stream), Stream[y - 3] = CR, Stream[y - 1] = CR
      PROVE  \E k \in 1 .. N : y = e[k]
  <2>0. Len(Stream) \in Nat
    <3>1. N \in 0 .. N
      BY <1>1
    <3> QED BY <1>1, <3>1
  <2>1. y \in Nat /\ y - 3 \in 1 .. e[N] /\ y <= e[N]
    BY <1>1, <2>0
  <2>2. PICK k \in 1 .. N : e[k - 1] < y - 3 /\ y - 3 <= e[k]
    BY <1>1, <2>1, BetweenMarks
  <2> DEFINE b == B(k)
             t == X[k].text
             base == e[k - 1]
             j == y - 3 - base
  <2>3. /\ base \in Nat /\ b \in Nat \ {0} /\ Len(t) = b + 4 /\ e[k] = base + Len(t)
        /\ \A i \in 1 .. Len(t) : Stream[base + i] = t[i]
        /\ \A i \in 1 .. b : t[i] # CR
        /\ t[b + 1] = CR /\ t[b + 2] = LF /\ t[b + 3] = CR /\ t[b + 4] = LF
    BY <1>2, <1>3
  <2>4. base < y - 3 /\ y - 3 <= e[k]
    BY <2>2
  <2> HIDE DEF b, t, base
  <2>5. j \in 1 .. b + 4 /\ base + j = y - 3
    BY <2>1, <2>3, <2>4
  <2>6. t[j] = CR
    BY <1>5, <2>3, <2>5
  <2> HIDE DEF j
  <2>7. j = b + 1 \/ j = b + 3
    <3>1. j \in 1 .. b \/ j = b + 1 \/ j = b + 2 \/ j = b + 3 \/ j = b + 4
      BY <2>3, <2>5
    <3>2. ~(j \in 1 .. b) /\ j # b + 2 /\ j # b + 4
      BY <2>3, <2>6 DEF CR, LF
    <3> QED BY <3>1, <3>2
  <2>8. CASE j = b + 1
    <3>1. y = e[k]
      BY <2>1, <2>3, <2>5, <2>8
    <3> QED BY <3>1
  <2>9. CASE j = b + 3
    <3>1. y - 1 = e[k] + 1
      BY <2>1, <2>3, <2>5, <2>9
    <3>2. k # N
      <4> SUFFICES ASSUME k = N PROVE FALSE
        OBVIOUS
      <4>1. e[k] = e[N]
        OBVIOUS
      <4>2. e[k] \in Nat
        BY <1>2
      <4> QED BY <2>1, <3>1, <4>1, <4>2
    <3>3. k + 1 \in 1 .. N /\ (k + 1) - 1 = k
      BY <1>1, <3>2
    <3> DEFINE h == k + 1
    <3>4. /\ B(h) \in Nat \ {0} /\ Len(X[h].text) = B(h) + 4
          /\ \A i \in 1 .. B(h) : X[h].text[i] # CR
          /\ \A i \in 1 .. Len(X[h].text) : Stream[e[h - 1] + i] = X[h].text[i]
      BY <1>2, <1>3, <3>3
    <3>5. 1 \in 1 .. B(h) /\ 1 \in 1 .. Len(X[h].text)
      BY <3>4
    <3>6. X[h].text[1] # CR /\ Stream[e[h - 1] + 1] = X[h].text[1]
      BY <3>4, <3>5
    <3>7. Stream[e[k] + 1] # CR
      BY <3>3, <3>6
    <3> QED BY <1>5, <3>1, <3>7
  <2> QED BY <2>7, <2>8, <2>9
<1> QED BY <1>2, <1>4, <1>5 DEF N
-----------------------------------------------------------------------------
(* The parser at the ends of a text *)

Fresh(p) == p.line = <<>> /\ p.first = TRUE /\ p.data = <<>>

LEMMA FreshAt ==
    ASSUME NEW x, Layout(x), NEW p, Fresh(p)
    PROVE  AtOffset(p, x, 0)
<1>1. x.n \in Nat \ {0} /\ x.end[0] = 0
  BY DEF Layout, Shape
<1>2. 0 \in 0 .. x.n
  BY <1>1
<1>3. x.lines[0 + 1] \in Seq(Char \cup {Colon, CR})
  BY <1>2, LineOf
<1> DEFINE l == x.lines[0 + 1]
<1>4. 0 \in 0 .. Len(l) /\ SubSeq(l, 1, 0) = <<>>
  <2>1. l \in Seq(Char \cup {Colon, CR})
    BY <1>3
  <2> HIDE DEF l
  <2>2. Len(l) \in Nat
    BY <2>1
  <2>3. SubSeq(l, 1, 0) = <<>>
    BY <2>1, SubSeqEmpty
  <2> QED BY <2>2, <2>3
<1>5. At(p, x, 0, 0)
  <2>1. p.line = SubSeq(x.lines[0 + 1], 1, 0) /\ p.first = TRUE /\ p.data = <<>>
    BY <1>4 DEF Fresh
  <2>2. \A i \in 1 .. 0 : ~Malformed(i, x.lines[i])
    OBVIOUS
  <2>3. 0 \in 0 .. Len(x.lines[0 + 1])
    BY <1>4
  <2> QED BY <1>2, <2>1, <2>2, <2>3, Zenon DEF At
<1>6. 0 = x.end[0] + 0
  BY <1>1
<1> QED BY <1>2, <1>4, <1>5, <1>6 DEF AtOffset

\* Within the text the parser comes no further than the first CR of the end sequence.
LEMMA AtTheEnd ==
    ASSUME NEW x, Layout(x), NEW p, NEW r, AtOffset(p, x, r)
    PROVE  /\ r \in Nat /\ r <= x.end[x.n] + 1
           /\ r = x.end[x.n] => At(p, x, x.n, 0)
           /\ r > x.end[x.n] => At(p, x, x.n, 1)
<1>1. PICK m \in 0 .. x.n : \E c \in 0 .. Len(x.lines[m + 1]) :
         r = x.end[m] + c /\ At(p, x, m, c)
  BY DEF AtOffset
<1>2. PICK c \in 0 .. Len(x.lines[m + 1]) : r = x.end[m] + c /\ At(p, x, m, c)
  BY <1>1
<1> DEFINE n == x.n
           b == x.end[n]
           e == [i \in 0 .. n |-> x.end[i]]
           l == x.lines[m + 1]
<1>3. n \in Nat \ {0} /\ l \in Seq(Char \cup {Colon, CR})
      /\ x.end[m] \in Nat /\ x.end[m + 1] = x.end[m] + Len(l) + 1
      /\ (m = n => l = <<CR>>)
  BY LineOf
<1>4. Len(l) \in Nat
  <2> HIDE DEF l
  <2> QED BY <1>3
<1>5. CASE m = n
  <2>1. Len(l) = 1
    BY <1>3, <1>5
  <2>2. c \in 0 .. 1 /\ x.end[m] = b
    BY <1>5, <2>1
  <2>3. r = b + c /\ At(p, x, n, c) /\ b \in Nat
    BY <1>2, <1>3, <1>5
  <2>4. c = 0 \/ c = 1
    BY <2>2
  <2> HIDE DEF n, b
  <2>5. CASE c = 0
    BY <2>3, <2>5 DEF b, n
  <2>6. CASE c = 1
    BY <2>3, <2>6 DEF b, n
  <2> QED BY <2>4, <2>5, <2>6
<1>6. CASE m < n
  <2>1. m + 1 \in 0 .. n /\ n \in m + 1 .. n /\ n \in 0 .. n
    BY <1>3, <1>6
  <2>2. Marks(n, e) /\ e[n] = b /\ e[m + 1] = x.end[m + 1]
    BY <2>1, LineMarks
  <2>3. e[m + 1] <= e[n]
    <3> HIDE DEF e, n
    <3> QED BY <2>1, <2>2, MarksGrow
  <2>4. b \in Nat
    <3> HIDE DEF e, n
    <3> QED BY <2>1, <2>2 DEF Marks
  <2>5. x.end[m + 1] <= b
    BY <2>2, <2>3
  <2>6. c \in 0 .. Len(l)
    BY <1>2
  <2> HIDE DEF b, l
  <2>7. r \in Nat /\ r < b
    BY <1>2, <1>3, <1>4, <2>4, <2>5, <2>6, SMTT(30)
  <2> QED BY <2>4, <2>7 DEF b, n
<1>7. m = n \/ m < n
  BY <1>3
<1> QED BY <1>5, <1>6, <1>7

LEMMA NoMalformedLine ==
    ASSUME NEW x, Layout(x), x.msg # NoMessage, NEW r, MalformedBefore(x, r)
    PROVE  x.end[x.n] < r
<1>1. PICK i \in 1 .. x.n + 1 : Malformed(i, x.lines[i]) /\ x.end[i - 1] < r
  BY DEF MalformedBefore
<1>2. x.n \in Nat
  BY DEF Layout, Shape
<1>3. ~(i \in 1 .. x.n)
  BY <1>1, MessageLinesAreFine
<1>4. i - 1 = x.n
  BY <1>2, <1>3
<1> QED BY <1>1, <1>4

LEMMA MessageRead ==
    ASSUME NEW x, Layout(x), NEW p, At(p, x, x.n, 0)
    PROVE  x.msg # NoMessage /\ [method |-> p.method, data |-> p.data] = x.msg
<1>1. x.n \in Nat \ {0} /\ \A i \in 1 .. x.n : ~Malformed(i, x.lines[i])
  BY DEF Layout, Shape, At
<1>2. x.msg # NoMessage
  BY <1>1 DEF Layout
<1>3. HasRead(p, x, x.n) /\ Carries(x)
  BY <1>1, <1>2 DEF At, Layout
<1>4. FieldsIn(x, x.n) = DOMAIN x.msg.data
  BY <1>3 DEF FieldsIn, Carries
<1>5. x.msg = [method |-> x.msg.method, data |-> x.msg.data]
      /\ x.msg.data \in [DOMAIN x.msg.data -> Seq(Char) \ {<<>>}]
  BY <1>3, MessagesAssumption DEF Carries
<1>6. p.data = x.msg.data
  BY <1>3, <1>4, <1>5 DEF HasRead
<1> QED BY <1>2, <1>3, <1>5, <1>6 DEF HasRead

\* Once parse has thrown, it is over.
LEMMA ThrowLasts ==
    ASSUME NEW p, NEW lines, Len(lines) \in Nat \ {0}, ParseLine(p, lines[1]).threw
    PROVE  ParseMsgLines(p, lines).threw
<1> DEFINE N == Len(lines)
<1>1. PICK f : /\ f[0] = p
               /\ \A i \in 1 .. N : f[i] = ParseLine(f[i - 1], lines[i])
               /\ ParseMsgLines(p, lines) = f[N]
  BY ParseMsgLinesSteps
<1> DEFINE T == {i \in Nat : i > 0 => f[i].threw}
<1>2. 0 \in T
  OBVIOUS
<1>3. ASSUME NEW i \in 1 .. N, i - 1 \in T PROVE i \in T
  <2>1. f[i] = ParseLine(f[i - 1], lines[i]) /\ i \in Nat
    BY <1>1
  <2>2. CASE i = 1
    <3>1. f[i] = ParseLine(p, lines[1])
      BY <1>1, <2>1, <2>2
    <3> QED BY <2>1, <3>1
  <2>3. CASE i # 1
    <3>1. f[i - 1].threw
      BY <1>3, <2>3
    <3>2. f[i] = f[i - 1]
      BY <2>1, <3>1 DEF ParseLine
    <3> QED BY <2>1, <3>1, <3>2
  <2> QED BY <2>2, <2>3
<1>4. \A i \in 0 .. N : i \in T
  <2> HIDE DEF T
  <2> QED BY <1>2, <1>3, InductionUpTo
<1> QED BY <1>1, <1>4

LEMMA OneCharacter ==
    ASSUME NEW A, NEW t \in Seq(A), NEW i \in 1 .. Len(t)
    PROVE  SubSeq(t, i, i) = <<t[i]>>
<1> DEFINE u == SubSeq(t, i, i)
           v == <<t[i]>>
<1>1. i \in Int /\ i - i + 1 = 1 /\ i <= i /\ \A k \in i .. i : t[k] \in A
  OBVIOUS
<1>2. /\ SubSeq(t, i, i) \in Seq(A) /\ Len(SubSeq(t, i, i)) = IF i <= i THEN i - i + 1 ELSE 0
      /\ \A k \in 1 .. i - i + 1 : SubSeq(t, i, i)[k] = t[i + k - 1]
  BY <1>1, SubSeqProperties
<1>3. u \in Seq(A) /\ Len(u) = 1 /\ u[1] = t[i]
  <2>1. 1 \in 1 .. 1 /\ i + 1 - 1 = i
    OBVIOUS
  <2>2. SubSeq(t, i, i)[1] = t[i + 1 - 1]
    BY <1>1, <1>2, <2>1
  <2> QED BY <1>1, <1>2, <2>1, <2>2
<1>4. v \in Seq(A) /\ Len(v) = 1 /\ v[1] = t[i]
  OBVIOUS
<1> HIDE DEF u, v
<1>5. u = v
  <2>1. \A k \in 1 .. 1 : k = 1
    OBVIOUS
  <2> QED BY <1>3, <1>4, <2>1, SeqEqual
<1> QED BY <1>5 DEF u, v

\* The parser that has read the first CR of an end sequence throws at what follows.
LEMMA CutThrows ==
    ASSUME NEW x, Layout(x), NEW p, ParserOK(p), ~p.threw, At(p, x, x.n, 1),
           NEW s \in Text, Len(s) # 0, s[1] = LF
    PROVE  ParseMsgLines(p, LineSplit(s)).threw
<1> DEFINE n == x.n
           ss == LineSplit(s)
           b == x.end[n]
<1>1. ss = Split(s, <<LF>>)
  BY DEF LineSplit, END_OF_LINE
<1>2. PICK c : OneCuts(s, LF, ss, c)
  BY <1>1, OneSplit DEF Text
<1> HIDE DEF ss
<1>3. Len(s) \in Nat \ {0} /\ s \in Seq(Char \cup {CR, LF, Colon})
  BY DEF Text
<1>4. /\ Len(ss) \in Nat /\ c \in [0 .. Len(ss) -> 0 .. Len(s)] /\ c[0] = 0 /\ c[Len(ss)] = Len(s)
      /\ \A i \in 1 .. Len(ss) : IsFirst(s, LF, c[i - 1], c[i]) /\ ss[i] = SubSeq(s, c[i - 1] + 1, c[i])
  BY <1>2 DEF OneCuts
<1>5. Len(ss) \in Nat \ {0} /\ 1 \in 1 .. Len(ss) /\ 1 - 1 = 0 /\ 1 \in 0 .. Len(ss)
  BY <1>3, <1>4
<1>6. IsFirst(s, LF, 0, c[1]) /\ ss[1] = SubSeq(s, 0 + 1, c[1]) /\ c[1] \in 0 .. Len(s)
  BY <1>4, <1>5
<1>7. c[1] = 1
  <2>1. 0 < c[1] /\ c[1] <= Len(s) /\ \A i \in 0 + 1 .. Len(s) : s[i] = LF => c[1] <= i
    BY <1>6 DEF IsFirst
  <2>2. 1 \in 0 + 1 .. Len(s)
    BY <1>3
  <2>3. c[1] <= 1
    BY <2>1, <2>2
  <2> QED BY <1>6, <2>1, <2>3
<1>8. ss[1] = <<LF>>
  <2>1. SubSeq(s, 1, 1) = <<s[1]>>
    BY <1>3, OneCharacter
  <2> QED BY <1>6, <1>7, <2>1
<1>9. /\ n \in Nat \ {0} /\ x.text \in Text /\ b \in Nat /\ x.lines[n + 1] = <<CR>>
      /\ n \in 0 .. n /\ Len(x.text) = b + 4 /\ x.text[b + 2] = LF
  <2>1. n \in Nat \ {0}
    BY DEF Layout, Shape
  <2>2. n \in 0 .. n
    BY <2>1
  <2>3. Tail4(x.text, b)
    BY TextTail
  <2>4. x.lines[n + 1] = <<CR>>
    BY <2>2, LineOf
  <2> QED BY <2>1, <2>2, <2>3, <2>4 DEF Tail4
<1>10. SubSeq(x.text, b + 1 + 1, b + 2) = <<LF>>
  <2>1. b + 1 + 1 = b + 2 /\ b + 2 \in 1 .. Len(x.text)
    <3>1. b \in Nat /\ Len(x.text) = b + 4
      BY <1>9
    <3> HIDE DEF b
    <3> QED BY <3>1
  <2>2. x.text \in Seq(Char \cup {CR, LF, Colon})
    BY <1>9 DEF Text
  <2>3. SubSeq(x.text, b + 2, b + 2) = <<x.text[b + 2]>>
    BY <2>1, <2>2, OneCharacter
  <2> QED BY <1>9, <2>1, <2>3
<1>11. Len(x.lines[n + 1]) = 1
  BY <1>9
<1> DEFINE q == ParseLine(p, SubSeq(x.text, x.end[n] + 1 + 1, x.end[n] + 2))
<1>12. ~q.threw => n < x.n
  <2>1. 2 \in 1 + 1 .. Len(x.lines[n + 1]) + 1 /\ 2 = Len(x.lines[n + 1]) + 1
    BY <1>11
  <2>2. At(p, x, n, 1)
    OBVIOUS
  <2> HIDE DEF n
  <2>3. \A qq : qq = ParseLine(p, SubSeq(x.text, x.end[n] + 1 + 1, x.end[n] + 2)) =>
                   (~qq.threw => n < x.n)
    BY <2>1, <2>2, LineStep
  <2> QED BY <2>3
<1>13. q.threw
  BY <1>9, <1>12
<1>14. q = ParseLine(p, ss[1])
  BY <1>8, <1>10
<1> QED BY <1>5, <1>13, <1>14, ThrowLasts DEF ss
-----------------------------------------------------------------------------
(* The pieces of a read *)

\* The parser has come to the character y of the stream, in the k-th text, and all
\* that is before this text are messages.
Where(p, k, y, X, e) ==
    /\ k \in 1 .. Len(sent) + 1 /\ y \in Nat
    /\ e[k - 1] <= y
    /\ k <= Len(sent) => y < e[k] /\ AtOffset(p, X[k], y - e[k - 1])
    /\ k > Len(sent) => y = Len(Stream)
    /\ \A i \in 1 .. k - 1 : IsMessage(i)

LEMMA WithinOnly ==
    ASSUME NEW X, NEW e, Laid(X, e), NEW k \in 1 .. Len(sent), NEW y \in Nat,
           e[k - 1] <= y, y < e[k]
    PROVE  WithinEnd(y) <=> e[k] - 4 < y
<1> DEFINE N == Len(sent)
<1>1. /\ Marks(N, e) /\ N \in Nat /\ e \in [0 .. N -> Nat]
      /\ \A h \in 0 .. N : e[h] = EndOf(h)
  BY DEF Laid, Marks
<1>2. DOMAIN sent = 1 .. N \/ DOMAIN sent # 1 .. N
  OBVIOUS
<1>3. Len(END_SEQUENCE) = 4
  BY DEF END_SEQUENCE
<1>4. ASSUME NEW h \in 1 .. N, e[h] - 4 < y, y < e[h] PROVE h = k
  <2>1. h \in 0 .. N /\ h - 1 \in 0 .. N /\ k \in 0 .. N /\ k - 1 \in 0 .. N
    BY <1>1
  <2>2. e[h] \in Nat /\ e[h - 1] \in Nat /\ e[k] \in Nat /\ e[k - 1] \in Nat
    BY <1>1, <2>1
  <2>3. CASE h > k
    <3>1. h - 1 \in k .. N
      BY <1>1, <2>1, <2>3
    <3>2. e[k] <= e[h - 1]
      BY <1>1, <2>1, <3>1, MarksGrow
    <3>3. e[h - 1] + 5 <= e[h]
      BY EndsOfStream
    <3> QED BY <1>4, <2>2, <3>2, <3>3
  <2>4. CASE h < k
    <3>1. k - 1 \in h .. N
      BY <1>1, <2>1, <2>4
    <3>2. e[h] <= e[k - 1]
      BY <1>1, <2>1, <3>1, MarksGrow
    <3> QED BY <1>4, <2>2, <3>2
  <2> QED BY <2>1, <2>3, <2>4
<1>5. k \in 0 .. N /\ e[k] = EndOf(k)
  BY <1>1
<1>6. DOMAIN sent = 1 .. N
  BY DEF Laid
<1>7. ASSUME WithinEnd(y) PROVE e[k] - 4 < y
  <2>1. PICK h \in 1 .. N : EndOf(h) - 4 < y /\ y < EndOf(h)
    BY <1>3, <1>6, <1>7 DEF WithinEnd
  <2>2. h \in 0 .. N
    BY <1>1
  <2>3. e[h] - 4 < y /\ y < e[h]
    BY <1>1, <2>1, <2>2
  <2>4. h = k
    BY <1>4, <2>3
  <2> QED BY <2>3, <2>4
<1>8. ASSUME e[k] - 4 < y PROVE WithinEnd(y)
  BY <1>3, <1>5, <1>6, <1>8 DEF WithinEnd
<1> QED BY <1>7, <1>8

LEMMA CutPart ==
    ASSUME NEW A, NEW s \in Seq(A), NEW c \in Int, c <= Len(s)
    PROVE  /\ SubSeq(s, 1, c) \in Seq(A)
           /\ Len(SubSeq(s, 1, c)) = IF 1 <= c THEN c ELSE 0
           /\ \A i \in 1 .. c : SubSeq(s, 1, c)[i] = s[i]
<1> DEFINE a == 1
           u == SubSeq(s, a, c)
<1>1. a \in Int /\ \A i \in a .. c : s[i] \in A
  OBVIOUS
<1>2. c - a + 1 = c /\ (a <= c <=> 1 <= c) /\ \A i \in 1 .. c : a + i - 1 = i
  OBVIOUS
<1> HIDE DEF a
<1>3. /\ u \in Seq(A) /\ Len(u) = IF a <= c THEN c - a + 1 ELSE 0
      /\ \A i \in 1 .. c - a + 1 : u[i] = s[a + i - 1]
  BY <1>1, SubSeqProperties
<1> HIDE DEF u
<1>4. Len(u) = IF 1 <= c THEN c ELSE 0
  BY <1>2, <1>3
<1>5. \A i \in 1 .. c : u[i] = s[i]
  BY <1>2, <1>3
<1> QED BY <1>3, <1>4, <1>5 DEF u, a

IsPiece(s, y, z) ==
    s \in Text /\ Len(s) = z - y /\ \A i \in 1 .. z - y : s[i] = Stream[y + i]

EndIn(e, y, z) == \E k \in 1 .. Len(sent) : z = e[k] /\ y <= e[k] - 4

\* A piece ends a message exactly where the whole of an end sequence is in it.
LEMMA PieceOfStream ==
    ASSUME NEW X, NEW e, Laid(X, e), NEW y \in Nat, NEW z \in y .. Len(Stream),
           NEW piece, piece = SubSeq(Stream, y + 1, z)
    PROVE  /\ IsPiece(piece, y, z)
           /\ EndsMessage(piece) <=> EndIn(e, y, z)
           /\ EndsMessage(piece) => TextOf(piece) = SubSeq(Stream, y + 1, z - 4)
<1> DEFINE A == Char \cup {CR, LF, Colon}
           S == Stream
           cut4 == z - y - 4
           t == SubSeq(piece, 1, cut4)
<1>1. S \in Seq(A) /\ Len(S) \in Nat /\ z \in y .. Len(S) /\ z \in Nat
  <2>1. S \in Seq(A)
    BY DEF Laid, Text
  <2> HIDE DEF S
  <2>2. Len(S) \in Nat
    BY <2>1
  <2> QED BY <2>1, <2>2 DEF S
<1>2. piece = SubSeq(S, y + 1, z)
  OBVIOUS
<1> HIDE DEF S, A
<1>3. /\ SubSeq(S, y + 1, z) \in Seq(A) /\ Len(SubSeq(S, y + 1, z)) = z - y
      /\ \A i \in 1 .. z - y : SubSeq(S, y + 1, z)[i] = S[y + i]
  BY <1>1, PartOf, Zenon
<1>4. piece \in Seq(A) /\ Len(piece) = z - y /\ \A i \in 1 .. z - y : piece[i] = S[y + i]
  BY <1>2, <1>3, Zenon
<1>5. /\ END_SEQUENCE \in Seq(A) /\ Len(END_SEQUENCE) = 4
      /\ END_SEQUENCE[1] = CR /\ END_SEQUENCE[2] = LF
      /\ END_SEQUENCE[3] = CR /\ END_SEQUENCE[4] = LF
  BY DEF END_SEQUENCE, A
<1>6. TextOf(piece) = t
  BY <1>4, <1>5 DEF TextOf
<1>7. EndsMessage(piece) <=> piece = t \o END_SEQUENCE
  BY <1>6 DEF EndsMessage
<1>t. /\ t \in Seq(A)
      /\ Len(t) = IF 4 <= z - y THEN z - y - 4 ELSE 0
      /\ \A i \in 1 .. z - y - 4 : t[i] = piece[i]
  <2>1. cut4 \in Int /\ cut4 <= Len(piece)
    BY <1>1, <1>4
  <2>c. cut4 = z - y - 4
    OBVIOUS
  <2> HIDE DEF cut4
  <2>2. /\ t \in Seq(A) /\ Len(t) = IF 1 <= cut4 THEN cut4 ELSE 0
        /\ \A i \in 1 .. cut4 : t[i] = piece[i]
    BY <1>4, <2>1, CutPart
  <2> HIDE DEF t
  <2>4. Len(t) = IF 4 <= z - y THEN z - y - 4 ELSE 0
    <3>1. CASE 1 <= cut4
      <4>1. 4 <= z - y
        BY <1>1, <2>c, <3>1
      <4> QED BY <2>2, <2>c, <3>1, <4>1
    <3>2. CASE ~(1 <= cut4)
      <4>1. 4 <= z - y => z - y - 4 = 0
        BY <1>1, <2>c, <3>2
      <4> QED BY <2>2, <3>2, <4>1
    <3> QED BY <3>1, <3>2
  <2> QED BY <2>2, <2>4, <2>c
<1> HIDE DEF t
<1>8. /\ t \o END_SEQUENCE \in Seq(A)
      /\ Len(t \o END_SEQUENCE) = Len(t) + Len(END_SEQUENCE)
      /\ \A i \in 1 .. Len(t) + Len(END_SEQUENCE) :
            (t \o END_SEQUENCE)[i] = IF i <= Len(t) THEN t[i] ELSE END_SEQUENCE[i - Len(t)]
  BY <1>5, <1>t, ConcatProperties
<1> DEFINE w == t \o END_SEQUENCE
<1> HIDE DEF w
<1>9. /\ w \in Seq(A) /\ Len(w) = Len(t) + 4 /\ Len(t) \in Nat
      /\ \A i \in 1 .. Len(t) : w[i] = t[i]
      /\ w[Len(t) + 1] = CR /\ w[Len(t) + 2] = LF /\ w[Len(t) + 3] = CR /\ w[Len(t) + 4] = LF
  <2> DEFINE L == Len(t)
  <2>1. L \in Nat
    BY <1>t
  <2>2. /\ w \in Seq(A) /\ Len(w) = L + 4
        /\ \A i \in 1 .. L + 4 : w[i] = IF i <= L THEN t[i] ELSE END_SEQUENCE[i - L]
    BY <1>5, <1>8 DEF w
  <2> HIDE DEF L
  <2>3. \A i \in 1 .. L : i \in 1 .. L + 4 /\ i <= L
    BY <2>1
  <2>4. \A d \in 1 .. 4 : L + d \in 1 .. L + 4 /\ ~(L + d <= L) /\ (L + d) - L = d
    BY <2>1
  <2>5. \A d \in 1 .. 4 : w[L + d] = END_SEQUENCE[d]
    BY <2>2, <2>4
  <2> QED BY <1>5, <2>1, <2>2, <2>3, <2>5 DEF L
<1>10. ASSUME EndsMessage(piece)
       PROVE  4 <= z - y /\ \E k \in 1 .. Len(sent) : z = e[k] /\ y <= e[k] - 4
  <2>1. piece = w
    BY <1>7, <1>10 DEF w
  <2>2. 4 <= z - y /\ Len(t) = z - y - 4
    <3>1. z - y = Len(t) + 4 /\ Len(t) \in Nat
      BY <1>4, <1>9, <2>1
    <3>2. 4 <= z - y
      BY <1>1, <3>1
    <3> QED BY <1>t, <3>2
  <2>3. z - y - 3 \in 1 .. z - y /\ z - y - 1 \in 1 .. z - y
        /\ y + (z - y - 3) = z - 3 /\ y + (z - y - 1) = z - 1
        /\ Len(t) + 1 = z - y - 3 /\ Len(t) + 3 = z - y - 1
    BY <1>1, <2>2
  <2>4. S[z - 3] = CR /\ S[z - 1] = CR
    <3>1. piece[Len(t) + 1] = CR /\ piece[Len(t) + 3] = CR
      BY <1>9, <2>1, Zenon
    <3>2. piece[z - y - 3] = S[y + (z - y - 3)] /\ piece[z - y - 1] = S[y + (z - y - 1)]
      BY <1>4, <2>3
    <3> QED BY <2>3, <3>1, <3>2, Zenon
  <2>5. z \in 4 .. Len(Stream)
    BY <1>1, <2>2
  <2>6. \E k \in 1 .. Len(sent) : z = e[k]
    BY <2>4, <2>5, EndsOfStream DEF S
  <2>7. y <= z - 4
    BY <1>1, <2>2
  <2> QED BY <2>2, <2>6, <2>7
<1>11. ASSUME NEW k \in 1 .. Len(sent), z = e[k], y <= e[k] - 4
       PROVE  EndsMessage(piece)
  <2>1. /\ Stream[e[k] - 3] = CR /\ Stream[e[k] - 2] = LF
        /\ Stream[e[k] - 1] = CR /\ Stream[e[k]] = LF
    BY EndsOfStream
  <2>2. S[z - 3] = CR /\ S[z - 2] = LF /\ S[z - 1] = CR /\ S[z] = LF
    BY <1>11, <2>1 DEF S
  <2> DEFINE L == z - y - 4
  <2>3. L \in Nat /\ Len(t) = L /\ z - y = L + 4
    <3>1. z - y - 4 \in Nat /\ 4 <= z - y /\ z - y = z - y - 4 + 4
      BY <1>1, <1>11, SMTT(30)
    <3>2. Len(t) = z - y - 4
      BY <1>t, <3>1
    <3> QED BY <3>1, <3>2
  <2>4. y + (L + 1) = z - 3 /\ y + (L + 2) = z - 2 /\ y + (L + 3) = z - 1 /\ y + (L + 4) = z
    BY <1>1
  <2> HIDE DEF L
  <2>5. Len(piece) = Len(w)
    BY <1>4, <1>9, <2>3
  <2>6. ASSUME NEW i \in 1 .. Len(piece) PROVE piece[i] = w[i]
    <3>1. i \in 1 .. L + 4 /\ piece[i] = S[y + i]
      BY <1>4, <2>3
    <3>2. CASE i \in 1 .. L
      <4>1. i \in 1 .. z - y - 4 /\ i \in 1 .. Len(t)
        BY <2>3, <3>2 DEF L
      <4> QED BY <1>9, <1>t, <4>1
    <3>3. i \in 1 .. L \/ i = L + 1 \/ i = L + 2 \/ i = L + 3 \/ i = L + 4
      BY <2>3, <3>1
    <3>4. CASE i = L + 1
      <4>1. piece[i] = S[y + (L + 1)] /\ w[i] = w[Len(t) + 1]
        BY <2>3, <3>1, <3>4, Zenon
      <4> QED BY <1>9, <2>2, <2>4, <4>1, Zenon
    <3>5. CASE i = L + 2
      <4>1. piece[i] = S[y + (L + 2)] /\ w[i] = w[Len(t) + 2]
        BY <2>3, <3>1, <3>5, Zenon
      <4> QED BY <1>9, <2>2, <2>4, <4>1, Zenon
    <3>6. CASE i = L + 3
      <4>1. piece[i] = S[y + (L + 3)] /\ w[i] = w[Len(t) + 3]
        BY <2>3, <3>1, <3>6, Zenon
      <4> QED BY <1>9, <2>2, <2>4, <4>1, Zenon
    <3>7. CASE i = L + 4
      <4>1. piece[i] = S[y + (L + 4)] /\ w[i] = w[Len(t) + 4]
        BY <2>3, <3>1, <3>7, Zenon
      <4> QED BY <1>9, <2>2, <2>4, <4>1, Zenon
    <3> QED BY <3>2, <3>3, <3>4, <3>5, <3>6, <3>7
  <2>7. piece = w
    BY <1>4, <1>9, <2>5, <2>6, SeqEqual
  <2> QED BY <1>7, <2>7 DEF w
<1>12. ASSUME EndsMessage(piece) PROVE TextOf(piece) = SubSeq(Stream, y + 1, z - 4)
  <2>1. 4 <= z - y
    BY <1>10, <1>12
  <2> DEFINE z4 == z - 4
             u == SubSeq(S, y + 1, z4)
  <2>2. z4 \in y .. Len(S) /\ z4 - y = z - y - 4
    BY <1>1, <2>1
  <2> HIDE DEF z4
  <2>3. /\ SubSeq(S, y + 1, z4) \in Seq(A) /\ Len(SubSeq(S, y + 1, z4)) = z4 - y
        /\ \A i \in 1 .. z4 - y : SubSeq(S, y + 1, z4)[i] = S[y + i]
    BY <1>1, <2>2, PartOf
  <2>4. u \in Seq(A) /\ Len(u) = z - y - 4 /\ \A i \in 1 .. z - y - 4 : u[i] = S[y + i]
    BY <2>2, <2>3
  <2>5. \A i \in 1 .. z - y - 4 : i \in 1 .. z - y
    BY <1>1
  <2> HIDE DEF u
  <2>6. Len(t) = Len(u) /\ \A i \in 1 .. Len(u) : t[i] = u[i]
    BY <1>4, <1>t, <2>1, <2>4, <2>5
  <2>7. t = u
    BY <1>t, <2>4, <2>6, SeqEqual
  <2> QED BY <1>6, <2>7 DEF u, z4, S
<1>13. IsPiece(piece, y, z)
  BY <1>4 DEF A, S, Text, IsPiece
<1>14. EndsMessage(piece) <=> EndIn(e, y, z)
  BY <1>10, <1>11 DEF EndIn
<1> QED BY <1>12, <1>13, <1>14
LEMMA ParsePieceCases ==
    ASSUME NEW p, NEW piece
    PROVE  /\ ~EndsMessage(piece) => ParsePiece(p, piece) = ParseMsgLines(p, LineSplit(piece))
           /\ EndsMessage(piece) =>
                 LET q == ParseMsgLines(p, LineSplit(TextOf(piece)))
                 IN  ParsePiece(p, piece) = IF q.threw THEN q ELSE Complete1(q)
BY DEF ParsePiece, LineSplit, TextOf, EndsMessage, Complete1

LEMMA CompleteOne ==
    ASSUME NEW p, ParserOK(p), ~p.threw
    PROVE  /\ Fresh(Complete1(p)) /\ ~Complete1(p).threw
           /\ Complete1(p).out = Append(p.out, [method |-> p.method, data |-> p.data])
<1>1. p \in Parser
  BY DEF ParserOK
<1> DEFINE out == Append(p.out, [method |-> p.method, data |-> p.data])
<1>2. Complete1(p) = ClearCache([p EXCEPT !.out = out])
  BY DEF Complete1
<1> HIDE DEF out
<1>3. Complete1(p) = [p EXCEPT !.out = out, !.line = <<>>, !.first = TRUE,
                              !.method = Uninitialized, !.data = <<>>]
  BY <1>1, <1>2 DEF ClearCache, Parser
<1>4. /\ Complete1(p).out = out /\ Complete1(p).line = <<>> /\ Complete1(p).first = TRUE
      /\ Complete1(p).data = <<>> /\ Complete1(p).threw = p.threw
  BY <1>1, <1>3 DEF Parser
<1> QED BY <1>4 DEF Fresh, out

\* The two ends of what is read from a text.
LEMMA TextRead ==
    ASSUME NEW X, NEW e, Laid(X, e), NEW k \in 1 .. Len(sent), NEW p, ParserOK(p), ~p.threw,
           NEW r1 \in Nat, NEW r2 \in r1 .. Len(X[k].text), AtOffset(p, X[k], r1),
           NEW q, q = ParseMsgLines(p, LineSplit(SubSeq(Stream, e[k - 1] + r1 + 1, e[k - 1] + r2)))
    PROVE  /\ ParserOK(q) /\ q.out = p.out
           /\ ~q.threw => AtOffset(q, X[k], r2)
           /\ q.threw => ~IsMessage(k) \/ X[k].end[X[k].n] < r2
<1> DEFINE s == SubSeq(X[k].text, r1 + 1, r2)
<1>1. Layout(X[k]) /\ X[k].msg = sent[k].msg /\ X[k].text \in Text
  BY DEF Laid, Layout, Shape
<1>2. q = ParseMsgLines(p, LineSplit(s))
  BY PartOfStream
<1>3. s \in Text
  BY <1>1, PartOf DEF Text
<1> HIDE DEF s
<1>4. ParserOK(q) /\ q.out = p.out
  BY <1>2, <1>3, LineSplitType, ParseMsgLinesType
<1>5. (~q.threw => AtOffset(q, X[k], r2)) /\ (q.threw => MalformedBefore(X[k], r2))
  BY <1>1, <1>2, TextPart DEF s
<1>6. ASSUME q.threw, IsMessage(k) PROVE X[k].end[X[k].n] < r2
  BY <1>1, <1>5, <1>6, NoMalformedLine DEF IsMessage
<1> QED BY <1>4, <1>5, <1>6

\* From y to z no end sequence ends before z.
NoEndBefore(e, y, z) == \A h \in 1 .. Len(sent) : y <= e[h] - 4 => z <= e[h]

\* Why parse may throw in what is read from y to z: there is junk in it, or an end
\* sequence is cut by one of its ends.
Spoilt(e, y, z) ==
    \/ \E h \in 1 .. Len(sent) : ~IsMessage(h) /\ e[h - 1] < z
    \/ WithinEnd(y) \/ WithinEnd(z)

\* In the same text, or in the next one with its message.
Further(p, q, k, z, X, e) ==
    \/ Where(q, k, z, X, e) /\ q.out = p.out
    \/ Where(q, k + 1, z, X, e) /\ q.out = Append(p.out, sent[k].msg)

LEMMA PieceRead ==
    ASSUME NEW X, NEW e, Laid(X, e), NEW p, ParserOK(p), ~p.threw,
           NEW k \in 1 .. Len(sent), NEW y \in Nat, Where(p, k, y, X, e),
           NEW z \in y .. Len(Stream), y # z,
           NoEndBefore(e, y, z),
           NEW q, q = ParsePiece(p, SubSeq(Stream, y + 1, z))
    PROVE  /\ q.threw => Spoilt(e, y, z)
           /\ ~q.threw => ~WithinEnd(y) /\ Further(p, q, k, z, X, e)
<1> DEFINE N == Len(sent)
           x == X[k]
           base == e[k - 1]
           b == x.end[x.n]
           r == y - base
           piece == SubSeq(Stream, y + 1, z)
<1> USE DEF NoEndBefore, Spoilt, Further
<1>1. /\ Marks(N, e) /\ N \in Nat /\ e \in [0 .. N -> Nat] /\ Layout(x)
      /\ e[N] = Len(Stream) /\ x.msg = sent[k].msg /\ e[k] = base + Len(x.text)
  BY DEF Laid, Marks
<1>2. Tail4(x.text, b)
  BY <1>1, TextTail
<1>3. /\ base \in Nat /\ b \in Nat /\ Len(x.text) = b + 4 /\ e[k] = base + b + 4
      /\ k \in 0 .. N /\ k - 1 \in 0 .. N
  <2>1. k \in 0 .. N /\ k - 1 \in 0 .. N
    BY <1>1
  <2>2. base \in Nat
    BY <1>1, <2>1
  <2>3. b \in Nat /\ Len(x.text) = b + 4
    BY <1>2 DEF Tail4
  <2>4. e[k] = base + Len(x.text)
    BY <1>1
  <2> HIDE DEF base, b, x
  <2> QED BY <2>1, <2>2, <2>3, <2>4
<1>4. /\ base <= y /\ y < e[k] /\ AtOffset(p, x, y - base) /\ \A i \in 1 .. k - 1 : IsMessage(i)
  <2>1. k <= N
    BY <1>1
  <2> QED BY <2>1 DEF Where
<1> HIDE DEF x, base, b
<1>5. r \in Nat /\ base + r = y /\ r < b + 4 /\ z \in Nat /\ y < z /\ Len(Stream) \in Nat
  <2>1. N \in 0 .. N
    BY <1>1
  <2>2. Len(Stream) \in Nat
    BY <1>1, <2>1
  <2> QED BY <1>3, <1>4, <2>2
<1>w. WithinEnd(y) <=> e[k] - 4 < y
  BY <1>4, WithinOnly DEF base
<1> HIDE DEF r
<1>6. CASE r <= b
  <2>1. y <= e[k] - 4 /\ ~(e[k] - 4 < y)
    BY <1>3, <1>5, <1>6
  <2>2. ~WithinEnd(y) /\ z <= e[k]
    BY <1>w, <2>1
  <2>3. CASE z = e[k]
    <3>1. EndsMessage(piece) /\ TextOf(piece) = SubSeq(Stream, y + 1, z - 4)
      <4>1. EndIn(e, y, z)
        BY <2>1, <2>3 DEF EndIn
      <4> HIDE DEF piece
      <4>2. piece = SubSeq(Stream, y + 1, z)
        BY DEF piece
      <4> QED BY <4>1, <4>2, PieceOfStream
    <3> DEFINE q0 == ParseMsgLines(p, LineSplit(TextOf(piece)))
    <3>2. q = IF q0.threw THEN q0 ELSE Complete1(q0)
      BY <3>1, ParsePieceCases
    <3>3. z - 4 = base + b /\ y + 1 = base + r + 1 /\ b \in r .. Len(x.text)
      BY <1>3, <1>5, <1>6, <2>3
    <3>4. q0 = ParseMsgLines(p, LineSplit(SubSeq(Stream, base + r + 1, base + b)))
      BY <3>1, <3>3
    <3> HIDE DEF q0
    <3>5. AtOffset(p, x, r)
      BY <1>4 DEF r
    <3>6. /\ ParserOK(q0) /\ q0.out = p.out
          /\ ~q0.threw => AtOffset(q0, x, b)
          /\ q0.threw => ~IsMessage(k) \/ b < b
      <4>1. /\ r \in Nat /\ b \in r .. Len(X[k].text) /\ AtOffset(p, X[k], r)
            /\ q0 = ParseMsgLines(p, LineSplit(SubSeq(Stream, e[k - 1] + r + 1, e[k - 1] + b)))
        BY <1>5, <3>3, <3>4, <3>5 DEF x, base
      <4>2. b = X[k].end[X[k].n]
        BY DEF b, x
      <4>3. /\ ParserOK(q0) /\ q0.out = p.out
            /\ ~q0.threw => AtOffset(q0, X[k], b)
            /\ q0.threw => ~IsMessage(k) \/ X[k].end[X[k].n] < b
        BY <4>1, TextRead
      <4> QED BY <4>2, <4>3 DEF x
    <3>7. CASE q0.threw
      <4>1. q.threw
        BY <3>2, <3>7
      <4>2. ~IsMessage(k)
        BY <1>3, <3>6, <3>7
      <4>3. e[k - 1] < z
        BY <1>3, <1>4, <1>5 DEF base
      <4> QED BY <4>1, <4>2, <4>3
    <3>8. CASE ~q0.threw
      <4>1. At(q0, x, x.n, 0)
        BY <1>1, <3>6, <3>8, AtTheEnd DEF b
      <4>2. x.msg # NoMessage /\ [method |-> q0.method, data |-> q0.data] = x.msg
        BY <1>1, <4>1, MessageRead
      <4>3. q = Complete1(q0)
        BY <3>2, <3>8
      <4>4. Fresh(q) /\ ~q.threw /\ q.out = Append(p.out, sent[k].msg)
        BY <1>1, <3>6, <3>8, <4>2, <4>3, CompleteOne
      <4>5. \A i \in 1 .. k : IsMessage(i)
        <5>1. IsMessage(k)
          BY <1>1, <4>2 DEF IsMessage
        <5>2. \A i \in 1 .. k : i \in 1 .. k - 1 \/ i = k
          BY <1>1
        <5> QED BY <1>4, <5>1, <5>2
      <4>6. ASSUME k + 1 <= N
            PROVE  z < e[k + 1] /\ AtOffset(q, X[k + 1], z - e[(k + 1) - 1])
        <5>1. k + 1 \in 1 .. N /\ (k + 1) - 1 = k
          BY <1>1, <4>6
        <5>2. e[(k + 1) - 1] < e[k + 1]
          BY <1>1, <5>1 DEF Marks
        <5>3. z - e[(k + 1) - 1] = 0
          BY <1>5, <2>3, <5>1
        <5>4. Layout(X[k + 1])
          BY <5>1 DEF Laid
        <5>5. AtOffset(q, X[k + 1], 0)
          BY <4>4, <5>4, FreshAt
        <5> QED BY <2>3, <5>1, <5>2, <5>3, <5>5
      <4>7. ASSUME k + 1 > N PROVE z = Len(Stream)
        <5>1. k = N
          BY <1>1, <4>7
        <5> QED BY <1>1, <2>3, <5>1
      <4>8. Where(q, k + 1, z, X, e)
        <5>1. k + 1 \in 1 .. N + 1 /\ (k + 1) - 1 = k
          BY <1>1
        <5>2. e[(k + 1) - 1] <= z
          BY <1>5, <2>3, <5>1
        <5> QED BY <1>5, <4>5, <4>6, <4>7, <5>1, <5>2 DEF Where
      <4> QED BY <2>2, <4>4, <4>8
    <3> QED BY <3>7, <3>8
  <2>4. CASE z < e[k]
    <3>1. ~EndsMessage(piece)
      <4> SUFFICES ASSUME NEW h \in 1 .. Len(sent), z = e[h] PROVE FALSE
        <5> HIDE DEF piece
        <5>1. piece = SubSeq(Stream, y + 1, z)
          BY DEF piece
        <5>2. EndsMessage(piece) <=> EndIn(e, y, z)
          BY <5>1, PieceOfStream
        <5> QED BY <5>2 DEF EndIn
      <4>0. e[h] = z /\ e[k - 1] <= y /\ y < z /\ z < e[k] /\ y \in Nat /\ z \in Nat /\ e[k] \in Nat
            /\ e[k - 1] \in Nat
        <5>1. e[k - 1] \in Nat /\ e[k - 1] <= y
          BY <1>3, <1>4 DEF base
        <5>2. e[k] \in Nat
          BY <1>3
        <5> QED BY <1>5, <2>4, <5>1, <5>2
      <4>1. h \in 0 .. N /\ (h \in k .. N \/ k - 1 \in h .. N)
        BY <1>1
      <4>2. e[k] <= e[h] \/ e[h] <= e[k - 1]
        BY <1>1, <1>3, <4>1, MarksGrow
      <4> QED BY <4>0, <4>2
    <3> DEFINE r2 == z - base
    <3>2. r2 \in r .. Len(x.text) /\ base + r2 = z /\ r2 < b + 4 /\ r2 \in Nat
      BY <1>3, <1>5, <2>4
    <3>3. q = ParseMsgLines(p, LineSplit(piece))
      BY <3>1, ParsePieceCases
    <3> HIDE DEF r2
    <3>4. q = ParseMsgLines(p, LineSplit(SubSeq(Stream, base + r + 1, base + r2)))
      BY <1>5, <3>2, <3>3
    <3>5. AtOffset(p, x, r)
      BY <1>4 DEF r
    <3>6. /\ ParserOK(q) /\ q.out = p.out
          /\ ~q.threw => AtOffset(q, x, r2)
          /\ q.threw => ~IsMessage(k) \/ b < r2
      BY <1>5, <3>2, <3>4, <3>5, TextRead DEF x, base, b
    <3>7. base <= z
      BY <1>3, <1>4, <1>5
    <3>8. CASE q.threw
      <4>1. CASE ~IsMessage(k)
        <5>1. e[k - 1] < z
          BY <1>3, <1>4, <1>5 DEF base
        <5> QED BY <3>8, <4>1, <5>1
      <4>2. CASE b < r2
        <5>1. e[k] - 4 < z
          BY <1>3, <3>2, <4>2
        <5>2. WithinEnd(z)
          BY <1>5, <2>4, <3>7, <5>1, WithinOnly DEF base
        <5> QED BY <3>8, <5>2
      <4> QED BY <3>6, <3>8, <4>1, <4>2
    <3>9. CASE ~q.threw
      <4>1. AtOffset(q, X[k], z - e[k - 1])
        BY <3>6, <3>9 DEF r2, x, base
      <4>2. k \in 1 .. N + 1 /\ ~(k > N) /\ e[k - 1] <= z
        BY <1>1, <3>7 DEF base
      <4>3. Where(q, k, z, X, e)
        BY <1>4, <1>5, <2>4, <4>1, <4>2 DEF Where
      <4> QED BY <2>2, <3>6, <3>9, <4>3
    <3> QED BY <3>8, <3>9
  <2>5. z = e[k] \/ z < e[k]
    <3>1. e[k] \in Nat
      BY <1>3
    <3> QED BY <1>5, <2>2, <3>1
  <2> QED BY <2>3, <2>4, <2>5
<1>7. CASE ~(r <= b)
  <2>1. r = b + 1 /\ At(p, x, x.n, 1)
    <3>1. AtOffset(p, x, r)
      BY <1>4 DEF r
    <3>2. r <= b + 1 /\ (r > b => At(p, x, x.n, 1))
      BY <1>1, <3>1, AtTheEnd DEF b
    <3> QED BY <1>3, <1>5, <1>7, <3>2
  <2>2. y = e[k] - 3 /\ y + 1 = e[k] - 2
    BY <1>3, <1>5, <2>1
  <2>3. WithinEnd(y)
    <3>1. e[k] - 4 < y
      BY <1>3, <1>5, <2>2
    <3> QED BY <1>w, <3>1
  <2>4. Stream[y + 1] = LF
    BY <2>2, EndsOfStream
  <2>5. ASSUME NEW t \in y .. Len(Stream), t # y
        PROVE  ParseMsgLines(p, LineSplit(SubSeq(Stream, y + 1, t))).threw
    <3> DEFINE s == SubSeq(Stream, y + 1, t)
    <3>1. s = SubSeq(Stream, y + 1, t)
      OBVIOUS
    <3> HIDE DEF s
    <3>2. s \in Text /\ Len(s) = t - y /\ \A i \in 1 .. t - y : s[i] = Stream[y + i]
      <4>1. IsPiece(s, y, t)
        BY <3>1, PieceOfStream
      <4> QED BY <4>1 DEF IsPiece
    <3>3. 1 \in 1 .. t - y /\ t - y # 0
      BY <1>5, <2>5
    <3>4. Len(s) # 0 /\ s[1] = LF
      BY <2>4, <3>2, <3>3
    <3>5. ParseMsgLines(p, LineSplit(s)).threw
      BY <1>1, <2>1, <3>2, <3>4, CutThrows
    <3> QED BY <3>5 DEF s
  <2>6. CASE ~EndsMessage(piece)
    <3>1. q = ParseMsgLines(p, LineSplit(piece))
      BY <2>6, ParsePieceCases
    <3>2. q.threw
      BY <1>5, <2>5, <3>1
    <3> QED BY <2>3, <3>2
  <2>7. CASE EndsMessage(piece)
    <3> DEFINE q0 == ParseMsgLines(p, LineSplit(TextOf(piece)))
    <3>0. piece = SubSeq(Stream, y + 1, z)
      OBVIOUS
    <3> HIDE DEF piece
    <3>1. TextOf(piece) = SubSeq(Stream, y + 1, z - 4)
      BY <2>7, <3>0, PieceOfStream
    <3>2. PICK h \in 1 .. Len(sent) : z = e[h] /\ y <= e[h] - 4
      <4>1. EndIn(e, y, z)
        BY <2>7, <3>0, PieceOfStream
      <4> QED BY <4>1 DEF EndIn
    <3>3. z - 4 \in y .. Len(Stream) /\ z - 4 # y
      <4>1. h \in 0 .. N /\ h - 1 \in 0 .. N /\ (h \in 0 .. k \/ h - 1 \in k .. N)
        BY <1>1
      <4>2. e[h] \in Nat /\ e[h - 1] \in Nat
        BY <1>1, <4>1
      <4>3. ~(e[h] <= e[k])
        BY <1>3, <2>2, <3>2, <4>2
      <4>4. CASE h \in 0 .. k
        <5>1. k \in h .. N
          BY <1>1, <4>4
        <5>2. e[h] <= e[k]
          BY <1>1, <4>1, <5>1, MarksGrow
        <5> QED BY <4>3, <5>2
      <4>5. CASE h - 1 \in k .. N
        <5>1. e[k] <= e[h - 1]
          BY <1>1, <1>3, <4>5, MarksGrow
        <5>2. e[h - 1] + 5 <= e[h]
          BY EndsOfStream
        <5>3. e[k] \in Nat /\ y = e[k] - 3 /\ z = e[h] /\ Len(Stream) \in Nat /\ z \in y .. Len(Stream)
          BY <1>3, <1>5, <2>2, <3>2
        <5>4. y + 8 <= z
          <6>1. \A i, j, l \in Nat : i <= j /\ j + 5 <= l => i + 5 <= l
            OBVIOUS
          <6>2. e[k] + 5 <= e[h]
            BY <4>2, <5>1, <5>2, <5>3, <6>1
          <6> QED BY <5>3, <6>2
        <5>5. y \in Nat /\ z \in Nat /\ z <= Len(Stream) /\ Len(Stream) \in Nat
          BY <1>5
        <5> QED BY <5>4, <5>5
      <4> QED BY <4>1, <4>4, <4>5
    <3>4. q0.threw
      BY <2>5, <3>1, <3>3
    <3>5. q = q0
      BY <2>7, <3>4, ParsePieceCases DEF piece
    <3> QED BY <2>3, <3>4, <3>5
  <2> QED BY <2>6, <2>7
<1> QED BY <1>6, <1>7
-----------------------------------------------------------------------------
(* A read *)

LEMMA EndNotWithin ==
    ASSUME NEW X, NEW e, Laid(X, e), NEW h \in 1 .. Len(sent)
    PROVE  ~WithinEnd(e[h])
<1> DEFINE N == Len(sent)
<1>1. /\ Marks(N, e) /\ N \in Nat /\ e \in [0 .. N -> Nat] /\ DOMAIN sent = 1 .. N
      /\ \A k \in 0 .. N : e[k] = EndOf(k)
  BY DEF Laid, Marks
<1>2. Len(END_SEQUENCE) = 4
  BY DEF END_SEQUENCE
<1>3. SUFFICES ASSUME NEW g \in 1 .. N, EndOf(g) - 4 < e[h], e[h] < EndOf(g) PROVE FALSE
  BY <1>1, <1>2 DEF WithinEnd
<1>4. /\ g \in 0 .. N /\ g - 1 \in 0 .. N /\ h \in 0 .. N
      /\ (h \in g .. N \/ g - 1 \in h .. N)
  BY <1>1
<1>5. e[g] \in Nat /\ e[g - 1] \in Nat /\ e[h] \in Nat /\ e[g] = EndOf(g)
  BY <1>1, <1>4
<1>6. e[g - 1] + 5 <= e[g]
  BY EndsOfStream
<1>7. CASE h \in g .. N
  <2>1. e[g] <= e[h]
    BY <1>1, <1>4, <1>7, MarksGrow
  <2> QED BY <1>3, <1>5, <2>1
<1>8. CASE g - 1 \in h .. N
  <2>1. e[h] <= e[g - 1]
    BY <1>1, <1>4, <1>8, MarksGrow
  <2> QED BY <1>3, <1>5, <1>6, <2>1
<1> QED BY <1>4, <1>7, <1>8

LEMMA EndFound ==
    ASSUME NEW A, NEW s \in Seq(A), NEW j \in 1 .. Len(s) - 3
    PROVE  SubSeq(s, j, j + 4 - 1) = END_SEQUENCE
             <=> s[j] = CR /\ s[j + 1] = LF /\ s[j + 2] = CR /\ s[j + 3] = LF
<1> DEFINE r1 == j - 1
           r2 == j + 3
           u == SubSeq(s, r1 + 1, r2)
<1>1. /\ r1 \in Nat /\ r2 \in r1 .. Len(s) /\ r2 - r1 = 4 /\ r1 + 1 = j /\ j + 4 - 1 = r2
      /\ r1 + 2 = j + 1 /\ r1 + 3 = j + 2 /\ r1 + 4 = j + 3
  OBVIOUS
<1> HIDE DEF r1, r2
<1>2. u \in Seq(A) /\ Len(u) = r2 - r1 /\ \A i \in 1 .. r2 - r1 : u[i] = s[r1 + i]
  BY <1>1, PartOf
<1>3. u = SubSeq(s, j, j + 4 - 1)
  BY <1>1
<1> HIDE DEF u
<1>4. 1 \in 1 .. 4 /\ 2 \in 1 .. 4 /\ 3 \in 1 .. 4 /\ 4 \in 1 .. 4
  OBVIOUS
<1>5. Len(u) = 4 /\ u[1] = s[j] /\ u[2] = s[j + 1] /\ u[3] = s[j + 2] /\ u[4] = s[j + 3]
  <2>1. Len(u) = 4 /\ \A i \in 1 .. 4 : u[i] = s[r1 + i]
    BY <1>1, <1>2
  <2>2. u[1] = s[r1 + 1] /\ u[2] = s[r1 + 2] /\ u[3] = s[r1 + 3] /\ u[4] = s[r1 + 4]
    BY <1>4, <2>1
  <2> QED BY <1>1, <2>1, <2>2
<1>6. /\ END_SEQUENCE \in Seq({CR, LF}) /\ Len(END_SEQUENCE) = 4
      /\ END_SEQUENCE[1] = CR /\ END_SEQUENCE[2] = LF
      /\ END_SEQUENCE[3] = CR /\ END_SEQUENCE[4] = LF
  BY DEF END_SEQUENCE
<1>7. ASSUME s[j] = CR, s[j + 1] = LF, s[j + 2] = CR, s[j + 3] = LF PROVE u = END_SEQUENCE
  <2> DEFINE B == A \cup {CR, LF}
             w == END_SEQUENCE
  <2>1. u \in Seq(B)
    <3>1. A \subseteq B
      OBVIOUS
    <3> HIDE DEF B
    <3> QED BY <1>2, <3>1, SeqMonotonic
  <2>2. w \in Seq(B) /\ Len(w) = 4
    BY DEF END_SEQUENCE
  <2>3. \A i \in 1 .. 4 : i = 1 \/ i = 2 \/ i = 3 \/ i = 4
    OBVIOUS
  <2> HIDE DEF B
  <2>4. \A i \in 1 .. 4 : u[i] = w[i]
    BY <1>5, <1>6, <1>7, <2>3
  <2> HIDE DEF w
  <2>5. u = w
    BY <1>5, <2>1, <2>2, <2>4, SeqEqual
  <2> QED BY <2>5 DEF w
<1> QED BY <1>3, <1>5, <1>6, <1>7

\* The pieces of a read end with the end sequences in it, but for the last.
StreamCuts(e, r1, r2, ss, c) ==
    /\ Len(ss) \in Nat
    /\ c \in [0 .. Len(ss) -> Nat] /\ c[0] = r1 /\ c[Len(ss)] = r2
    /\ \A i \in 1 .. Len(ss) :
          /\ c[i - 1] < c[i] /\ c[i] <= r2
          /\ ss[i] = SubSeq(Stream, c[i - 1] + 1, c[i])
          /\ i < Len(ss) => \E h \in 1 .. Len(sent) : c[i] = e[h]
          /\ \A h \in 1 .. Len(sent) : c[i - 1] <= e[h] - 4 => c[i] <= e[h]

LEMMA CutsOfStream ==
    ASSUME NEW X, NEW e, Laid(X, e), NEW r1 \in Nat, NEW r2 \in r1 .. Len(Stream),
           NEW ss, ss = Split(SubSeq(Stream, r1 + 1, r2), END_SEQUENCE)
    PROVE  \E c : StreamCuts(e, r1, r2, ss, c)
<1> DEFINE A == Char \cup {CR, LF, Colon}
           S == Stream
           s == SubSeq(S, r1 + 1, r2)
           N == Len(ss)
<1>1. S \in Seq(A) /\ r2 \in r1 .. Len(S)
  BY DEF Laid, Text
<1>2. Len(S) \in Nat /\ r2 \in Nat
  <2> HIDE DEF S
  <2>1. Len(S) \in Nat
    BY <1>1
  <2> QED BY <1>1, <2>1
<1> HIDE DEF S, A
<1>3. s \in Seq(A) /\ Len(s) = r2 - r1 /\ \A i \in 1 .. r2 - r1 : s[i] = S[r1 + i]
  BY <1>1, PartOf
<1>4. Len(END_SEQUENCE) = 4 /\ Len(END_SEQUENCE) \in Nat \ {0}
  BY DEF END_SEQUENCE
<1>5. ss = Split(s, END_SEQUENCE)
  BY DEF S
<1>6. \A i, j \in Int : 0 <= i /\ i < j /\ j <= r2 - r1 =>
                        SubSeq(s, i + 1, j) = SubSeq(S, r1 + i + 1, r1 + j)
  <2> SUFFICES ASSUME NEW i \in Int, NEW j \in Int, 0 <= i, i < j, j <= r2 - r1
               PROVE  SubSeq(s, i + 1, j) = SubSeq(S, r1 + i + 1, r1 + j)
    OBVIOUS
  <2>1. i \in 0 .. r2 - r1 /\ j \in i + 1 .. r2 - r1
    BY <1>2
  <2> QED BY <1>1, <2>1, PartOfPart
<1> HIDE DEF s
<1>7. PICK b : Cuts(s, END_SEQUENCE, 1, ss, b)
  <2>1. s \in Seq(A)
    BY <1>3
  <2>2. \E b : Cuts(s, END_SEQUENCE, 1, Split(s, END_SEQUENCE), b)
    BY <1>4, <2>1, SplitCuts
  <2> QED BY <1>5, <2>2
<1>8. /\ ss \in Seq(PieceOf(s)) /\ b \in [0 .. N -> 0 .. Len(s)] /\ b[0] = 1 - 1 /\ b[N] = Len(s)
      /\ \A i \in 1 .. N :
            /\ b[i - 1] < b[i]
            /\ ss[i] = SubSeq(s, b[i - 1] + 1, b[i])
            /\ i < N => b[i] - 4 + 1 \in Found(s, END_SEQUENCE, b[i - 1] + 1)
            /\ \A j \in Found(s, END_SEQUENCE, b[i - 1] + 1) : b[i] <= j + 4 - 1
  BY <1>4, <1>7 DEF Cuts
<1>9. N \in Nat
  BY <1>8
<1> HIDE DEF N
<1> DEFINE c == [i \in 0 .. N |-> r1 + b[i]]
<1>10. ASSUME NEW i \in 1 .. N
       PROVE  /\ b[i - 1] \in Nat /\ b[i] \in Nat /\ b[i - 1] < b[i] /\ b[i] <= r2 - r1
              /\ c[i - 1] = r1 + b[i - 1] /\ c[i] = r1 + b[i]
              /\ ss[i] = SubSeq(s, b[i - 1] + 1, b[i])
  <2>1. i - 1 \in 0 .. N /\ i \in 0 .. N
    BY <1>9
  <2>2. b[i - 1] \in 0 .. Len(s) /\ b[i] \in 0 .. Len(s)
    BY <1>8, <2>1
  <2>3. b[i - 1] \in Nat /\ b[i] \in Nat /\ b[i] <= r2 - r1
    BY <1>2, <1>3, <2>2
  <2>4. c[i - 1] = r1 + b[i - 1] /\ c[i] = r1 + b[i]
    BY <2>1
  <2> HIDE DEF c
  <2> QED BY <1>8, <2>3, <2>4
<1>11. c \in [0 .. N -> Nat] /\ c[0] = r1 /\ c[N] = r2
  <2>1. \A i \in 0 .. N : b[i] \in Nat
    BY <1>8
  <2>2. b[0] = 0 /\ b[N] = r2 - r1 /\ 0 \in 0 .. N /\ N \in 0 .. N
    BY <1>3, <1>8, <1>9
  <2>3. c[0] = r1 + b[0] /\ c[N] = r1 + b[N] /\ \A i \in 0 .. N : r1 + b[i] \in Nat
    BY <2>1, <2>2
  <2>4. c \in [0 .. N -> Nat]
    BY <2>3
  <2> HIDE DEF c
  <2> QED BY <1>2, <2>2, <2>3, <2>4
<1> HIDE DEF c
<1>12. ASSUME NEW i \in 1 .. N PROVE ss[i] = SubSeq(Stream, c[i - 1] + 1, c[i])
  <2>1. ss[i] = SubSeq(S, r1 + b[i - 1] + 1, r1 + b[i])
    <3>1. b[i - 1] \in Int /\ b[i] \in Int /\ 0 <= b[i - 1]
      BY <1>10
    <3> QED BY <1>6, <1>10, <3>1
  <2> QED BY <1>10, <2>1 DEF S
<1>13. ASSUME NEW i \in 1 .. N, i < N PROVE \E h \in 1 .. Len(sent) : c[i] = e[h]
  <2> DEFINE j == b[i] - 4 + 1
  <2>1. j \in b[i - 1] + 1 .. Len(s) - 4 + 1 /\ SubSeq(s, j, j + 4 - 1) = END_SEQUENCE
    <3>1. j \in Found(s, END_SEQUENCE, b[i - 1] + 1)
      BY <1>8, <1>13
    <3> HIDE DEF j
    <3> QED BY <1>4, <3>1 DEF Found
  <2>2. /\ j \in 1 .. Len(s) - 3 /\ j \in 1 .. r2 - r1 /\ j + 2 \in 1 .. r2 - r1
        /\ r1 + j = c[i] - 3 /\ r1 + (j + 2) = c[i] - 1 /\ c[i] \in 4 .. Len(Stream)
    <3>1. /\ b[i - 1] \in Nat /\ b[i] \in Nat /\ b[i] <= r2 - r1 /\ c[i] = r1 + b[i]
          /\ Len(s) = r2 - r1 /\ r2 <= Len(Stream) /\ Len(Stream) \in Nat /\ r2 \in Nat
      <4>1. b[i - 1] \in Nat /\ b[i] \in Nat /\ b[i] <= r2 - r1 /\ c[i] = r1 + b[i]
        BY <1>10
      <4>2. Len(Stream) \in Nat
        BY <1>2 DEF S
      <4> QED BY <1>2, <1>3, <4>1, <4>2
    <3>2. b[i - 1] + 1 <= b[i] - 4 + 1 /\ b[i] - 4 + 1 <= r2 - r1 - 4 + 1
      BY <2>1, <3>1
    <3>3. j \in Int /\ 1 <= j /\ j <= r2 - r1 - 3 /\ j + 3 = b[i]
      <4>1. \A u, v, w \in Int : 0 <= v /\ v + 1 <= u - 4 + 1 /\ u - 4 + 1 <= w - 4 + 1 =>
               /\ u - 4 + 1 \in Int /\ 1 <= u - 4 + 1 /\ u - 4 + 1 <= w - 3
               /\ u - 4 + 1 + 3 = u
        OBVIOUS
      <4>2. b[i - 1] \in Int /\ b[i] \in Int /\ r2 - r1 \in Int /\ 0 <= b[i - 1]
        BY <3>1
      <4> QED BY <3>2, <4>1, <4>2, Zenon
    <3>4. Len(s) - 3 = r2 - r1 - 3 /\ r2 - r1 \in Int
      BY <3>1
    <3> HIDE DEF j
    <3>5. j \in 1 .. r2 - r1 - 3 /\ j \in 1 .. r2 - r1 /\ j + 2 \in 1 .. r2 - r1
      BY <3>3, <3>4
    <3>6. r1 + j = c[i] - 3 /\ r1 + (j + 2) = c[i] - 1 /\ c[i] \in 4 .. Len(Stream)
      BY <3>1, <3>3, SMTT(30)
    <3> QED BY <3>4, <3>5, <3>6
  <2> HIDE DEF j
  <2>3. s[j] = CR /\ s[j + 2] = CR
    BY <1>3, <2>1, <2>2, EndFound
  <2>4. s[j] = S[c[i] - 3] /\ s[j + 2] = S[c[i] - 1]
    BY <1>3, <2>2
  <2>5. c[i] \in 4 .. Len(Stream) /\ Stream[c[i] - 3] = CR /\ Stream[c[i] - 1] = CR
    BY <2>2, <2>3, <2>4 DEF S
  <2>6. \A y \in 4 .. Len(Stream) :
           Stream[y - 3] = CR /\ Stream[y - 1] = CR => \E k \in 1 .. Len(sent) : y = e[k]
    BY EndsOfStream
  <2> QED BY <2>5, <2>6
<1>14. ASSUME NEW i \in 1 .. N, NEW h \in 1 .. Len(sent), c[i - 1] <= e[h] - 4
       PROVE  c[i] <= e[h]
  <2>0. /\ e[h] \in Nat /\ b[i - 1] \in Nat /\ b[i] \in Nat /\ b[i] <= r2 - r1
        /\ c[i - 1] = r1 + b[i - 1] /\ c[i] = r1 + b[i]
    BY <1>10, EndsOfStream
  <2>1. CASE r2 < e[h]
    BY <1>2, <2>0, <2>1
  <2>2. CASE e[h] <= r2
    <3> DEFINE j == e[h] - 3 - r1
    <3>1. /\ j \in 1 .. Len(s) - 3 /\ j \in b[i - 1] + 1 .. Len(s) - 4 + 1
          /\ j \in 1 .. r2 - r1 /\ j + 1 \in 1 .. r2 - r1
          /\ j + 2 \in 1 .. r2 - r1 /\ j + 3 \in 1 .. r2 - r1
          /\ r1 + j = e[h] - 3 /\ r1 + (j + 1) = e[h] - 2
          /\ r1 + (j + 2) = e[h] - 1 /\ r1 + (j + 3) = e[h]
      <4>1. Len(s) = r2 - r1 /\ r1 + b[i - 1] <= e[h] - 4
        BY <1>3, <1>14, <2>0
      <4>2. e[h] \in Nat /\ b[i - 1] \in Nat
        BY <2>0
      <4>3. j \in Int /\ b[i - 1] + 1 <= j /\ r1 + j = e[h] - 3
        <5>1. \A u, v, w \in Int : w + v <= u - 4 =>
                 u - 3 - w \in Int /\ v + 1 <= u - 3 - w /\ w + (u - 3 - w) = u - 3
          OBVIOUS
        <5>2. e[h] \in Int /\ b[i - 1] \in Int /\ r1 \in Int
          BY <4>2
        <5> QED BY <4>1, <5>1, <5>2, Zenon
      <4>4. 1 <= j /\ j <= r2 - r1 - 3
        <5>1. \A u, v, w, t \in Int : 0 <= v /\ v + 1 <= u - 3 - w /\ u <= t =>
                 1 <= u - 3 - w /\ u - 3 - w <= t - w - 3
          OBVIOUS
        <5>2. e[h] \in Int /\ b[i - 1] \in Int /\ r1 \in Int /\ r2 \in Int /\ 0 <= b[i - 1]
          BY <1>2, <4>2
        <5> QED BY <2>2, <4>3, <5>1, <5>2, Zenon
      <4>5. e[h] \in Int /\ b[i - 1] + 1 \in Int
        BY <4>2
      <4>6. Len(s) - 3 = r2 - r1 - 3 /\ Len(s) - 4 + 1 = r2 - r1 - 3 /\ r2 - r1 \in Int
        BY <1>2, <4>1
      <4> HIDE DEF j
      <4>7. /\ j \in 1 .. r2 - r1 - 3 /\ j \in b[i - 1] + 1 .. r2 - r1 - 3
            /\ j \in 1 .. r2 - r1 /\ j + 1 \in 1 .. r2 - r1
            /\ j + 2 \in 1 .. r2 - r1 /\ j + 3 \in 1 .. r2 - r1
        BY <1>2, <4>3, <4>4, <4>5
      <4>8. /\ r1 + (j + 1) = e[h] - 2 /\ r1 + (j + 2) = e[h] - 1 /\ r1 + (j + 3) = e[h]
        BY <4>3, <4>5, SMTT(30)
      <4> QED BY <4>3, <4>6, <4>7, <4>8
    <3> HIDE DEF j
    <3>2. /\ S[e[h] - 3] = CR /\ S[e[h] - 2] = LF /\ S[e[h] - 1] = CR /\ S[e[h]] = LF
      BY EndsOfStream DEF S
    <3>3. s[j] = CR /\ s[j + 1] = LF /\ s[j + 2] = CR /\ s[j + 3] = LF
      <4>1. /\ s[j] = S[r1 + j] /\ s[j + 1] = S[r1 + (j + 1)]
            /\ s[j + 2] = S[r1 + (j + 2)] /\ s[j + 3] = S[r1 + (j + 3)]
        BY <1>3, <3>1
      <4> QED BY <3>1, <3>2, <4>1
    <3>4. SubSeq(s, j, j + 4 - 1) = END_SEQUENCE
      BY <1>3, <3>1, <3>3, EndFound
    <3>5. j \in Found(s, END_SEQUENCE, b[i - 1] + 1)
      BY <1>4, <3>1, <3>4 DEF Found
    <3>6. b[i] <= j + 4 - 1
      BY <1>8, <3>5
    <3>7. j \in Int /\ r1 + j = e[h] - 3
      BY <3>1
    <3> QED BY <2>0, <3>6, <3>7, SMTT(30)
  <2> QED BY <1>2, <2>0, <2>1, <2>2
<1>15. ASSUME NEW i \in 1 .. N PROVE c[i - 1] < c[i] /\ c[i] <= r2
  BY <1>2, <1>10, SMTT(30)
<1>16. StreamCuts(e, r1, r2, ss, c)
  BY <1>9, <1>11, <1>12, <1>13, <1>14, <1>15 DEF StreamCuts, N
<1> QED BY <1>16
\* The first messages of what is sent.
SentBefore(k) == [i \in 1 .. k - 1 |-> sent[i].msg]

\* What a parser has come to in a read, o being what was returned before it.
ReadTo(p, o, y, X, e) == \E k : Where(p, k, y, X, e) /\ o \o p.out = SentBefore(k)

LEMMA SentBeforeSteps ==
    ASSUME sent \in Seq(Sendable), NEW k \in 1 .. Len(sent)
    PROVE  /\ SentBefore(k) \in Seq({sent[i].msg : i \in 1 .. Len(sent)})
           /\ Append(SentBefore(k), sent[k].msg) = SentBefore(k + 1)
<1> DEFINE M == {sent[i].msg : i \in 1 .. Len(sent)}
           a == SentBefore(k)
           b == SentBefore(k + 1)
<1>1. Len(sent) \in Nat /\ k \in Nat \ {0} /\ k <= Len(sent)
  OBVIOUS
<1>2. /\ a = [i \in 1 .. k - 1 |-> sent[i].msg] /\ b = [i \in 1 .. k |-> sent[i].msg]
  <2>1. (k + 1) - 1 = k
    BY <1>1
  <2> QED BY <2>1 DEF SentBefore
<1>3. a \in Seq(M) /\ Len(a) = k - 1 /\ \A i \in 1 .. k - 1 : a[i] = sent[i].msg
  <2>1. \A i \in 1 .. k - 1 : sent[i].msg \in M
    BY <1>1
  <2>2. k - 1 \in Nat
    BY <1>1
  <2> HIDE DEF M
  <2> QED BY <1>2, <2>1, <2>2
<1>4. b \in Seq(M) /\ Len(b) = k /\ \A i \in 1 .. k : b[i] = sent[i].msg
  <2>1. \A i \in 1 .. k : sent[i].msg \in M
    BY <1>1
  <2> HIDE DEF M
  <2> QED BY <1>1, <1>2, <2>1, SMTT(30)
<1> DEFINE m == sent[k].msg
<1>5. m \in M
  OBVIOUS
<1> HIDE DEF M, a, b, m
<1>6. /\ Append(a, m) \in Seq(M) /\ Len(Append(a, m)) = Len(a) + 1
      /\ \A i \in 1 .. Len(a) : Append(a, m)[i] = a[i]
      /\ Append(a, m)[Len(a) + 1] = m
  BY <1>3, <1>5, AppendProperties
<1>7. Append(a, m) = b
  <2> DEFINE c == Append(a, m)
  <2>1. c \in Seq(M) /\ Len(c) = k
    BY <1>1, <1>3, <1>6
  <2>2. ASSUME NEW i \in 1 .. k PROVE c[i] = b[i]
    <3>1. CASE i \in 1 .. k - 1
      BY <1>3, <1>4, <1>6, <3>1
    <3>2. CASE i = k
      <4>1. Len(a) + 1 = k
        BY <1>1, <1>3
      <4>2. c[k] = m
        BY <1>6, <4>1
      <4> QED BY <1>4, <3>2, <4>2 DEF m
    <3>3. i \in 1 .. k - 1 \/ i = k
      BY <1>1
    <3> QED BY <3>1, <3>2, <3>3
  <2> HIDE DEF c
  <2>3. c = b
    BY <1>1, <1>4, <2>1, <2>2, SeqEqual
  <2> QED BY <2>3 DEF c
<1> QED BY <1>3, <1>7 DEF M, a, b, m

LEMMA AppendToConcat ==
    ASSUME NEW S, NEW a \in Seq(S), NEW b \in Seq(S), NEW m \in S
    PROVE  a \o Append(b, m) = Append(a \o b, m)
<1>1. a \o b \in Seq(S) /\ <<m>> \in Seq(S)
  BY ConcatProperties
<1>2. Append(b, m) = b \o <<m>> /\ Append(a \o b, m) = (a \o b) \o <<m>>
  BY <1>1, AppendIsConcat
<1>3. (a \o b) \o <<m>> = a \o (b \o <<m>>)
  BY <1>1, ConcatAssociative
<1> QED BY <1>2, <1>3

\* One more message.
LEMMA OneMore ==
    ASSUME sent \in Seq(Sendable), NEW k \in 1 .. Len(sent), NEW T, NEW out \in Seq(T),
           NEW j \in 1 .. Len(sent), SentBefore(j) \o out = SentBefore(k)
    PROVE  SentBefore(j) \o Append(out, sent[k].msg) = SentBefore(k + 1)
<1> DEFINE M == {sent[i].msg : i \in 1 .. Len(sent)}
           S == M \cup T
           o == SentBefore(j)
           m == sent[k].msg
<1>1. o \in Seq(M) /\ m \in M
  BY SentBeforeSteps
<1>2. o \in Seq(S) /\ out \in Seq(S) /\ m \in S
  <2>1. M \subseteq S /\ T \subseteq S
    OBVIOUS
  <2> HIDE DEF S, M
  <2> QED BY <1>1, <2>1, SeqMonotonic
<1>3. o \o out = SentBefore(k) /\ Append(SentBefore(k), m) = SentBefore(k + 1)
  BY SentBeforeSteps
<1> HIDE DEF S, M, o, m
<1>4. o \o Append(out, m) = Append(o \o out, m)
  BY <1>2, AppendToConcat
<1> QED BY <1>3, <1>4 DEF o, m

LEMMA WhereSame ==
    ASSUME NEW X, NEW e, NEW p, NEW q, NEW k, NEW y, Where(p, k, y, X, e),
           q.line = p.line, q.first = p.first, q.data = p.data, q.method = p.method
    PROVE  Where(q, k, y, X, e)
<1>1. ASSUME NEW x, NEW r, AtOffset(p, x, r) PROVE AtOffset(q, x, r)
  <2>1. ASSUME NEW m, NEW c, At(p, x, m, c) PROVE At(q, x, m, c)
    BY <2>1 DEF At, HasRead
  <2> QED BY <1>1, <2>1 DEF AtOffset
<1> QED BY <1>1 DEF Where
LEMMA ReadPiece ==
    ASSUME sent \in Seq(Sendable), NEW X, NEW e, Laid(X, e), NEW j \in 1 .. Len(sent),
           NEW p, ParserOK(p), ~p.threw, NEW y \in Nat, ReadTo(p, SentBefore(j), y, X, e),
           NEW z \in y .. Len(Stream), y # z,
           NoEndBefore(e, y, z),
           NEW q, q = ParsePiece(p, SubSeq(Stream, y + 1, z))
    PROVE  /\ q.threw => Spoilt(e, y, z)
           /\ ~q.threw => ~WithinEnd(y) /\ ReadTo(q, SentBefore(j), z, X, e)
<1>1. PICK k : Where(p, k, y, X, e) /\ SentBefore(j) \o p.out = SentBefore(k)
  BY DEF ReadTo
<1>2. Len(sent) \in Nat /\ Len(Stream) \in Nat
  <2>1. Stream \in Text
    BY DEF Laid
  <2> QED BY <2>1 DEF Text
<1>3. k \in 1 .. Len(sent)
  <2>1. k \in 1 .. Len(sent) + 1 /\ (k > Len(sent) => y = Len(Stream))
    BY <1>1 DEF Where
  <2>2. y # Len(Stream)
    BY <1>2
  <2> QED BY <1>2, <2>1, <2>2
<1>4. /\ q.threw => Spoilt(e, y, z)
      /\ ~q.threw => ~WithinEnd(y) /\ Further(p, q, k, z, X, e)
  BY <1>1, <1>3, PieceRead
<1>5. ASSUME Where(q, k, z, X, e), q.out = p.out PROVE ReadTo(q, SentBefore(j), z, X, e)
  BY <1>1, <1>5 DEF ReadTo
<1>6. ASSUME Where(q, k + 1, z, X, e), q.out = Append(p.out, sent[k].msg)
      PROVE  ReadTo(q, SentBefore(j), z, X, e)
  <2>1. p.out \in Seq([method : Method, data : Fields])
    BY DEF ParserOK, Parser
  <2>2. SentBefore(j) \o Append(p.out, sent[k].msg) = SentBefore(k + 1)
    BY <1>1, <1>3, <2>1, OneMore
  <2> QED BY <1>6, <2>2 DEF ReadTo
<1> QED BY <1>4, <1>5, <1>6 DEF Further

LEMMA ThrownPiece ==
    ASSUME NEW p, p.threw, NEW piece \in Text
    PROVE  ParsePiece(p, piece).threw
<1>1. ASSUME NEW s \in Text PROVE ParseMsgLines(p, LineSplit(s)).threw
  <2> DEFINE lines == LineSplit(s)
             N == Len(lines)
  <2>1. lines \in Seq(Text)
    BY LineSplitType
  <2> HIDE DEF lines
  <2>2. N \in Nat
    BY <2>1
  <2>3. PICK f : /\ f[0] = p
                 /\ \A i \in 1 .. N : f[i] = ParseLine(f[i - 1], lines[i])
                 /\ ParseMsgLines(p, lines) = f[N]
    BY <2>2, ParseMsgLinesSteps
  <2> DEFINE T == {i \in Nat : f[i].threw}
  <2>4. 0 \in T
    BY <2>3
  <2>5. ASSUME NEW i \in 1 .. N, i - 1 \in T PROVE i \in T
    <3>1. f[i] = ParseLine(f[i - 1], lines[i]) /\ f[i - 1].threw /\ i \in Nat
      BY <2>3, <2>5
    <3>2. f[i] = f[i - 1]
      BY <3>1 DEF ParseLine
    <3> QED BY <3>1, <3>2
  <2>6. \A i \in 0 .. N : i \in T
    <3> HIDE DEF T
    <3> QED BY <2>2, <2>4, <2>5, InductionUpTo
  <2> QED BY <2>2, <2>3, <2>6 DEF lines
<1>2. ParseMsgLines(p, LineSplit(piece)).threw
  BY <1>1
<1>3. ParseMsgLines(p, LineSplit(TextOf(piece))).threw
  BY <1>1, TextOfType
<1> QED BY <1>2, <1>3, ParsePieceCases

\* A read.
LEMMA ParseRead ==
    ASSUME sent \in Seq(Sendable), NEW X, NEW e, Laid(X, e), NEW p, ParserOK(p), ~p.threw,
           NEW j \in 1 .. Len(sent), NEW r1 \in Nat, Where(p, j, r1, X, e),
           NEW r2 \in r1 .. Len(Stream), r1 # r2,
           NEW q, q = Parse(p, SubSeq(Stream, r1 + 1, r2))
    PROVE  /\ ParserOK(q)
           /\ q.threw => Spoilt(e, r1, r2)
           /\ ~q.threw => ~WithinEnd(r1) /\ ReadTo(q, SentBefore(j), r2, X, e)
<1> DEFINE s == SubSeq(Stream, r1 + 1, r2)
           ss == Split(s, END_SEQUENCE)
           N == Len(ss)
<1>1. PICK c : StreamCuts(e, r1, r2, ss, c)
  BY CutsOfStream
<1>2. s \in Text
  <2>1. IsPiece(s, r1, r2)
    BY PieceOfStream
  <2> HIDE DEF s
  <2> QED BY <2>1 DEF IsPiece
<1>3. Len(ss) \in Nat /\ ss \in Seq(Text)
  <2>1. Len(END_SEQUENCE) \in Nat \ {0}
    BY DelimitersType
  <2> HIDE DEF s
  <2>2. ss \in Seq(Text)
    BY <1>2, <2>1, SplitType DEF Text
  <2> HIDE DEF ss
  <2> QED BY <2>2
<1>4. PICK f : /\ f[0] = [p EXCEPT !.out = <<>>]
               /\ \A i \in 1 .. N : f[i] = ParsePiece(f[i - 1], ss[i])
               /\ Parse(p, s) = f[N]
  <2> HIDE DEF s
  <2> QED BY <1>3, ParseSteps
<1> HIDE DEF ss
<1>5. /\ c \in [0 .. N -> Nat] /\ c[0] = r1 /\ c[N] = r2
      /\ \A i \in 1 .. N :
            /\ c[i - 1] < c[i] /\ c[i] <= r2
            /\ ss[i] = SubSeq(Stream, c[i - 1] + 1, c[i])
            /\ i < N => \E h \in 1 .. Len(sent) : c[i] = e[h]
            /\ \A h \in 1 .. Len(sent) : c[i - 1] <= e[h] - 4 => c[i] <= e[h]
  BY <1>1 DEF StreamCuts
<1>6. N \in Nat /\ N # 0 /\ \A i \in 1 .. N : ss[i] \in Text
  <2>1. N \in Nat
    BY <1>3
  <2>2. N # 0
    BY <1>5
  <2> QED BY <1>3, <2>1, <2>2
<1> HIDE DEF N, s
<1> DEFINE o == SentBefore(j)
           T == {i \in Nat : /\ ParserOK(f[i])
                             /\ f[i].threw => Spoilt(e, r1, r2)
                             /\ ~f[i].threw => /\ ReadTo(f[i], o, c[i], X, e)
                                               /\ i > 0 => ~WithinEnd(r1)}
<1>7. 0 \in T
  <2>1. p \in Parser
    BY DEF ParserOK
  <2> DEFINE g == [p EXCEPT !.out = <<>>]
  <2>2. /\ g.line = p.line /\ g.first = p.first /\ g.data = p.data /\ g.method = p.method
        /\ g.out = <<>> /\ g.threw = p.threw
    BY <2>1 DEF Parser
  <2>3. ParserOK(g)
    BY <2>1, NewParserOK DEF ParserOK, Parser, NewParser
  <2> HIDE DEF g
  <2>4. Where(g, j, r1, X, e)
    BY <2>2, WhereSame
  <2>5. o \o g.out = o
    <3>1. o \in Seq({sent[i].msg : i \in 1 .. Len(sent)})
      BY SentBeforeSteps
    <3> HIDE DEF o
    <3> QED BY <2>2, <3>1, ConcatEmptySeq
  <2>6. ReadTo(g, o, r1, X, e)
    BY <2>4, <2>5 DEF ReadTo
  <2>7. f[0] = g /\ c[0] = r1
    BY <1>4, <1>5 DEF g
  <2> HIDE DEF o
  <2> QED BY <2>2, <2>3, <2>6, <2>7
<1>8. ASSUME NEW i \in 1 .. N, i - 1 \in T PROVE i \in T
  <2> DEFINE g == f[i - 1]
             h == f[i]
             y == c[i - 1]
             z == c[i]
  <2>1. /\ ParserOK(g) /\ (g.threw => Spoilt(e, r1, r2))
        /\ (~g.threw => ReadTo(g, o, y, X, e) /\ (i - 1 > 0 => ~WithinEnd(r1)))
    BY <1>8
  <2>2. h = ParsePiece(g, ss[i]) /\ ss[i] \in Text /\ i \in Nat
    BY <1>4, <1>6
  <2>3. ParserOK(h)
    BY <2>1, <2>2, ParsePieceType
  <2>4. /\ y < z /\ z <= r2 /\ ss[i] = SubSeq(Stream, y + 1, z)
        /\ NoEndBefore(e, y, z)
    BY <1>5 DEF NoEndBefore
  <2>5. y \in Nat /\ z \in Nat
    <3>1. i - 1 \in 0 .. N /\ i \in 0 .. N
      BY <1>6
    <3> QED BY <1>5, <3>1
  <2>6. y = r1 \/ \E n \in 1 .. Len(sent) : y = e[n]
    <3>1. CASE i = 1
      BY <1>5, <3>1
    <3>2. CASE i # 1
      <4>1. i - 1 \in 1 .. N /\ i - 1 < N
        BY <1>6, <3>2
      <4> QED BY <1>5, <4>1
    <3> QED BY <3>1, <3>2
  <2>7. z = r2 \/ \E n \in 1 .. Len(sent) : z = e[n]
    <3>1. CASE i = N
      BY <1>5, <3>1
    <3>2. CASE i # N
      <4>1. i < N
        BY <1>6, <3>2
      <4> QED BY <1>5, <4>1
    <3> QED BY <3>1, <3>2
  <2>8. i = 1 => y = r1
    BY <1>5
  <2>9. i \in T <=> /\ ParserOK(h) /\ (h.threw => Spoilt(e, r1, r2))
                    /\ (~h.threw => ReadTo(h, o, z, X, e) /\ (i > 0 => ~WithinEnd(r1)))
    BY <2>2
  <2> HIDE DEF g, h, y, z, o, T
  <2>10. CASE g.threw
    <3>1. h.threw
      BY <2>1, <2>2, <2>10, ThrownPiece
    <3> QED BY <2>1, <2>3, <2>9, <2>10, <3>1
  <2>11. CASE ~g.threw
    <3>1. z \in y .. Len(Stream) /\ y # z
      <4>1. Stream \in Text
        BY DEF Laid
      <4>2. Len(Stream) \in Nat
        BY <4>1 DEF Text
      <4>3. r2 \in Nat /\ r2 <= Len(Stream)
        BY <4>2
      <4> QED BY <2>4, <2>5, <4>2, <4>3
    <3>2. h = ParsePiece(g, SubSeq(Stream, y + 1, z))
      BY <2>2, <2>4
    <3>3. /\ h.threw => Spoilt(e, y, z)
          /\ ~h.threw => ~WithinEnd(y) /\ ReadTo(h, o, z, X, e)
      BY <2>1, <2>4, <2>5, <2>11, <3>1, <3>2, ReadPiece DEF o
    <3>4. WithinEnd(y) => WithinEnd(r1)
      BY <2>6, EndNotWithin
    <3>5. WithinEnd(z) => WithinEnd(r2)
      BY <2>7, EndNotWithin
    <3>6. CASE h.threw
      <4>1. ASSUME NEW n \in 1 .. Len(sent), ~IsMessage(n), e[n - 1] < z
            PROVE  Spoilt(e, r1, r2)
        <5>1. e[n - 1] \in Nat
          BY EndsOfStream
        <5>2. e[n - 1] < r2
          BY <2>4, <2>5, <4>1, <5>1
        <5> QED BY <4>1, <5>2 DEF Spoilt
      <4>2. Spoilt(e, r1, r2)
        BY <3>3, <3>4, <3>5, <3>6, <4>1 DEF Spoilt
      <4> QED BY <2>3, <2>9, <3>6, <4>2
    <3>7. CASE ~h.threw
      <4>1. ~WithinEnd(r1)
        <5>1. CASE i = 1
          BY <2>8, <3>3, <3>7, <5>1
        <5>2. CASE i # 1
          <6>1. i - 1 > 0
            BY <2>2, <5>2
          <6> QED BY <2>1, <2>11, <6>1
        <5> QED BY <5>1, <5>2
      <4> QED BY <2>3, <2>9, <3>3, <3>7, <4>1
    <3> QED BY <3>6, <3>7
  <2> QED BY <2>10, <2>11
<1>9. N \in T
  <2> HIDE DEF T
  <2>1. \A i \in 0 .. N : i \in T
    BY <1>6, <1>7, <1>8, InductionUpTo
  <2> QED BY <1>6, <2>1
<1>10. q = f[N] /\ c[N] = r2 /\ N > 0
  <2>1. N > 0
    BY <1>6
  <2> QED BY <1>4, <1>5, <2>1 DEF s
<1> QED BY <1>9, <1>10
-----------------------------------------------------------------------------
(* The connection *)

\* As long as parse has not thrown: the first k - 1 texts were messages and have been
\* returned, the parser is in the k-th, and a read has ended within an end sequence
\* only if that was the last one.
Reading(X, e) ==
    /\ Laid(X, e)
    /\ ~parser.threw => /\ \E k : /\ Where(parser, k, received, X, e)
                                  /\ output = SentBefore(k)
                        /\ cut <=> WithinEnd(received)
    /\ parser.threw =>
          cut \/ \E k \in 1 .. Len(sent) : ~IsMessage(k) /\ e[k - 1] < received

ParserInv ==
    /\ sent \in Seq(Sendable) /\ sent # <<>>
    /\ received \in 0 .. Len(Stream) /\ cut \in BOOLEAN /\ ParserOK(parser)
    /\ \E X, e : Reading(X, e)

LEMMA ParserInvInit == Init => ParserInv
<1> SUFFICES ASSUME Init PROVE ParserInv
  OBVIOUS
<1>1. sent \in Seq(Sendable) /\ sent # <<>> /\ Len(sent) \in Nat \ {0}
  <2>1. PICK n \in 1 .. MaxSent : sent \in [1 .. n -> Sendable]
    BY DEF Init
  <2>2. n \in Nat \ {0}
    BY ParserAssumption
  <2> QED BY <2>1, <2>2
<1>2. received = 0 /\ cut = FALSE /\ parser = NewParser /\ output = <<>>
  BY DEF Init
<1>3. PICK X, e : Laid(X, e)
  BY <1>1, StreamLaid
<1>4. /\ e[0] = 0 /\ Layout(X[1]) /\ e[1] \in Nat /\ 1 \in 1 .. Len(sent)
      /\ Stream \in Text /\ e[1 - 1] + 5 <= e[1]
  <2>1. 1 \in 1 .. Len(sent)
    BY <1>1
  <2>2. e[1 - 1] + 5 <= e[1] /\ e[1] \in Nat
    BY <1>3, <2>1, EndsOfStream
  <2> QED BY <1>3, <2>1, <2>2 DEF Laid, Marks
<1>5. /\ parser.threw = FALSE /\ Fresh(parser)
  BY <1>2 DEF NewParser, Fresh
<1>6. AtOffset(parser, X[1], 0)
  BY <1>4, <1>5, FreshAt
<1>7. Where(parser, 1, received, X, e)
  <2>1. 1 \in 1 .. Len(sent) + 1 /\ ~(1 > Len(sent)) /\ 1 - 1 = 0
    BY <1>1
  <2>2. received < e[1] /\ received - e[1 - 1] = 0 /\ e[1 - 1] <= received
    BY <1>2, <1>4, <2>1
  <2>3. \A i \in 1 .. 1 - 1 : IsMessage(i)
    OBVIOUS
  <2> QED BY <1>2, <1>6, <2>1, <2>2, <2>3 DEF Where
<1>8. output = SentBefore(1)
  BY <1>2 DEF SentBefore
<1>9. ~WithinEnd(received)
  <2>1. ~(e[1] - 4 < received)
    BY <1>2, <1>4
  <2>2. e[1 - 1] <= received /\ received < e[1] /\ received \in Nat
    BY <1>2, <1>4
  <2> QED BY <1>3, <1>4, <2>1, <2>2, WithinOnly
<1>10. Reading(X, e)
  BY <1>2, <1>3, <1>5, <1>7, <1>8, <1>9 DEF Reading
<1>11. received \in 0 .. Len(Stream) /\ ParserOK(parser)
  <2>1. Len(Stream) \in Nat
    BY <1>4 DEF Text
  <2> QED BY <1>2, <2>1, NewParserOK
<1> QED BY <1>1, <1>2, <1>10, <1>11 DEF ParserInv

\* What is about the stream alone does not change.
LEMMA StreamStays ==
    ASSUME sent' = sent
    PROVE  /\ Stream' = Stream
           /\ \A X, e : Laid(X, e) => Laid(X, e)'
           /\ \A X, e, p, k, y : Where(p, k, y, X, e) => Where(p, k, y, X, e)'
           /\ \A k : SentBefore(k)' = SentBefore(k)
           /\ \A y : WithinEnd(y)' = WithinEnd(y)
           /\ \A k : IsMessage(k)' = IsMessage(k)
<1>1. Stream' = Stream
  BY DEF Stream
<1>2. \A k : EndOf(k)' = EndOf(k)
  BY DEF EndOf
<1>3. \A k : IsMessage(k)' = IsMessage(k)
  BY DEF IsMessage
<1>4. \A X, e : Laid(X, e) => Laid(X, e)'
  BY <1>1, <1>2 DEF Laid
<1>5. \A X, e, p, k, y : Where(p, k, y, X, e) => Where(p, k, y, X, e)'
  BY <1>1, <1>3 DEF Where
<1>6. \A k : SentBefore(k)' = SentBefore(k)
  BY DEF SentBefore
<1>7. \A y : WithinEnd(y)' = WithinEnd(y)
  BY <1>2 DEF WithinEnd
<1> QED BY <1>1, <1>3, <1>4, <1>5, <1>6, <1>7

LEMMA ParserInvStep == ParserInv /\ [Next]_vars => ParserInv'
<1> SUFFICES ASSUME ParserInv, [Next]_vars PROVE ParserInv'
  OBVIOUS
<1>1. PICK X, e : Reading(X, e)
  BY DEF ParserInv
<1>2. CASE Next
  <2>1. PICK n \in 1 .. Len(Stream) : ReceiveMsg(n)
    BY <1>2 DEF Next
  <2> DEFINE r1 == received
             r2 == received'
             q == parser'
  <2>2. /\ ~parser.threw /\ r1 + n <= Len(Stream) /\ r2 = r1 + n
        /\ cut' = (cut \/ WithinEnd(r2)) /\ q = Parse(parser, SubSeq(Stream, r1 + 1, r2))
        /\ output' = (IF q.threw THEN output ELSE output \o q.out) /\ sent' = sent
    BY <2>1 DEF ReceiveMsg
  <2>3. PICK k : Where(parser, k, r1, X, e) /\ output = SentBefore(k)
    BY <1>1, <2>2 DEF Reading
  <2>4. (cut <=> WithinEnd(r1)) /\ Laid(X, e)
    BY <1>1, <2>2 DEF Reading
  <2>5. /\ sent \in Seq(Sendable) /\ Len(Stream) \in Nat /\ Len(sent) \in Nat
        /\ r1 \in Nat /\ r2 \in r1 .. Len(Stream) /\ r1 # r2 /\ r2 \in Nat
    <3>1. Stream \in Text
      BY <2>4 DEF Laid
    <3>2. Len(Stream) \in Nat
      BY <3>1 DEF Text
    <3>3. received \in Nat /\ sent \in Seq(Sendable) /\ Len(sent) \in Nat
      BY <3>2 DEF ParserInv
    <3> QED BY <2>2, <3>2, <3>3
  <2>6. k \in 1 .. Len(sent)
    <3>1. k \in 1 .. Len(sent) + 1 /\ (k > Len(sent) => r1 = Len(Stream))
      BY <2>3 DEF Where
    <3>2. r1 # Len(Stream)
      BY <2>5
    <3> QED BY <2>5, <3>1, <3>2
  <2>7. ParserOK(parser)
    BY DEF ParserInv
  <2>8. /\ ParserOK(q)
        /\ q.threw => Spoilt(e, r1, r2)
        /\ ~q.threw => ~WithinEnd(r1) /\ ReadTo(q, SentBefore(k), r2, X, e)
    <3> HIDE DEF r1, r2, q
    <3> QED BY <2>2, <2>3, <2>4, <2>5, <2>6, <2>7, ParseRead
  <2>9. /\ Stream' = Stream /\ Laid(X, e)'
        /\ \A h, y, p : Where(p, h, y, X, e) => Where(p, h, y, X, e)'
        /\ \A h : SentBefore(h)' = SentBefore(h)
        /\ \A y : WithinEnd(y)' = WithinEnd(y)
        /\ \A h : IsMessage(h)' = IsMessage(h)
    BY <2>2, <2>4, StreamStays
  <2>10. Reading(X, e)'
    <3>1. CASE ~q.threw
      <4>1. PICK h : Where(q, h, r2, X, e) /\ SentBefore(k) \o q.out = SentBefore(h)
        BY <2>8, <3>1 DEF ReadTo
      <4>2. output' = SentBefore(h)
        BY <2>2, <2>3, <3>1, <4>1
      <4>3. cut' <=> WithinEnd(r2)
        BY <2>2, <2>4, <2>8, <3>1
      <4>4. Where(parser, h, received, X, e)' /\ output' = SentBefore(h)'
        BY <2>2, <2>9, <4>1, <4>2 DEF Where
      <4>5. cut' <=> WithinEnd(received)'
        BY <2>2, <4>3 DEF WithinEnd, EndOf
      <4> QED BY <2>9, <3>1, <4>4, <4>5 DEF Reading
    <3>2. CASE q.threw
      <4>1. cut' \/ \E h \in 1 .. Len(sent) : ~IsMessage(h) /\ e[h - 1] < r2
        BY <2>2, <2>4, <2>8, <3>2 DEF Spoilt
      <4>2. cut' \/ \E h \in 1 .. Len(sent') : ~IsMessage(h)' /\ e[h - 1] < received'
        BY <2>2, <2>9, <4>1
      <4> QED BY <2>9, <3>2, <4>2 DEF Reading
    <3> QED BY <3>1, <3>2
  <2>11. /\ sent' \in Seq(Sendable) /\ sent' # <<>> /\ cut' \in BOOLEAN
         /\ received' \in 0 .. Len(Stream')
    <3>1. received' \in 0 .. Len(Stream')
      BY <2>5, <2>9
    <3> QED BY <2>2, <3>1 DEF ParserInv
  <2> QED BY <2>8, <2>10, <2>11 DEF ParserInv
<1>3. CASE UNCHANGED vars
  <2>1. /\ sent' = sent /\ received' = received /\ cut' = cut /\ parser' = parser
        /\ output' = output
    BY <1>3 DEF vars
  <2>2. /\ Stream' = Stream /\ Laid(X, e)'
        /\ \A h, y, p : Where(p, h, y, X, e) => Where(p, h, y, X, e)'
        /\ \A h : SentBefore(h)' = SentBefore(h)
        /\ \A h : IsMessage(h)' = IsMessage(h)
    BY <1>1, <2>1, StreamStays DEF Reading
  <2>3. WithinEnd(received)' <=> WithinEnd(received)
    BY <2>1 DEF WithinEnd, EndOf
  <2>4. ASSUME NEW k, Where(parser, k, received, X, e)
        PROVE  Where(parser, k, received, X, e)'
    BY <2>1, <2>2, <2>4 DEF Where
  <2>5. Reading(X, e)'
    <3>1. CASE ~parser.threw
      <4>1. PICK k : Where(parser, k, received, X, e) /\ output = SentBefore(k)
        BY <1>1, <3>1 DEF Reading
      <4>2. Where(parser, k, received, X, e)' /\ output' = SentBefore(k)'
        BY <2>1, <2>2, <2>4, <4>1
      <4>3. cut' <=> WithinEnd(received)'
        BY <1>1, <2>1, <2>3, <3>1 DEF Reading
      <4> QED BY <2>1, <2>2, <3>1, <4>2, <4>3 DEF Reading
    <3>2. CASE parser.threw
      <4>1. cut' \/ \E h \in 1 .. Len(sent') : ~IsMessage(h)' /\ e[h - 1] < received'
        BY <1>1, <2>1, <2>2, <3>2 DEF Reading
      <4> QED BY <2>1, <2>2, <3>2, <4>1 DEF Reading
    <3> QED BY <3>1, <3>2
  <2> QED BY <2>1, <2>2, <2>5 DEF ParserInv
<1> QED BY <1>2, <1>3

\* What has been sent and read says at every moment what the parser keeps and what
\* it has returned (BufferedParser::parse).
THEOREM ParserInvariant == Spec => []ParserInv
<1>1. Init => ParserInv
  BY ParserInvInit
<1>2. ParserInv /\ [Next]_vars => ParserInv'
  BY ParserInvStep
<1> QED BY <1>1, <1>2, PTL DEF Spec

\* What is sent, read and kept has its type, and no line that is kept is too long
\* (BufferedParser::parseLine).
THEOREM ParserTypes == Spec => []TypeOK
<1>1. ParserInv => TypeOK
  BY DEF ParserInv, TypeOK, ParserOK, Parser
<1> QED BY <1>1, ParserInvariant, PTL
\* The texts that are complete are those before the one the parser is in.
LEMMA CompleteTexts ==
    ASSUME NEW X, NEW e, Laid(X, e), NEW p, NEW k, Where(p, k, received, X, e)
    PROVE  /\ Complete = 1 .. k - 1 /\ k \in 1 .. Len(sent) + 1 /\ Len(sent) \in Nat
           /\ \A i \in Complete : IsMessage(i)
<1> DEFINE N == Len(sent)
<1>1. /\ Marks(N, e) /\ N \in Nat /\ e \in [0 .. N -> Nat] /\ e[N] = Len(Stream)
      /\ \A h \in 0 .. N : e[h] = EndOf(h)
  BY DEF Laid, Marks
<1>2. /\ k \in 1 .. N + 1 /\ received \in Nat /\ e[k - 1] <= received
      /\ (k <= N => received < e[k]) /\ (k > N => received = Len(Stream))
      /\ \A i \in 1 .. k - 1 : IsMessage(i)
  BY DEF Where
<1>3. DOMAIN sent = 1 .. N
  BY DEF Laid
<1>4. ASSUME NEW h \in 1 .. N, h <= k - 1 PROVE e[h] <= received
  <2>1. h \in 0 .. N /\ k - 1 \in h .. N /\ k - 1 \in 0 .. N
    BY <1>1, <1>2, <1>4
  <2>2. e[h] <= e[k - 1]
    BY <1>1, <2>1, MarksGrow
  <2>3. e[h] \in Nat /\ e[k - 1] \in Nat
    BY <1>1, <2>1
  <2> QED BY <1>2, <2>2, <2>3
<1>5. ASSUME NEW h \in 1 .. N, ~(h <= k - 1) PROVE ~(e[h] <= received)
  <2>1. k \in 0 .. N /\ h \in k .. N /\ h \in 0 .. N /\ k <= N
    BY <1>1, <1>2, <1>5
  <2>2. e[k] <= e[h]
    BY <1>1, <2>1, MarksGrow
  <2>3. e[h] \in Nat /\ e[k] \in Nat
    BY <1>1, <2>1
  <2> QED BY <1>2, <2>1, <2>2, <2>3
<1>6. \A h \in 1 .. N : h \in Complete <=> h \in 1 .. k - 1
  <2> SUFFICES ASSUME NEW h \in 1 .. N PROVE h \in Complete <=> h \in 1 .. k - 1
    OBVIOUS
  <2>1. h \in 0 .. N /\ (h \in 1 .. k - 1 <=> h <= k - 1)
    BY <1>1, <1>2
  <2>2. h \in Complete <=> e[h] <= received
    BY <1>1, <1>3, <2>1 DEF Complete
  <2> QED BY <1>4, <1>5, <2>1, <2>2
<1>7. \A h \in 1 .. k - 1 : h \in 1 .. N
  BY <1>1, <1>2
<1>8. Complete \subseteq 1 .. N
  BY <1>3 DEF Complete
<1>9. Complete = 1 .. k - 1
  BY <1>6, <1>7, <1>8
<1> QED BY <1>1, <1>2, <1>9

LEMMA MessagesFlatten ==
    ASSUME sent \in Seq(Sendable), NEW k \in 1 .. Len(sent) + 1,
           \A i \in 1 .. k - 1 : IsMessage(i)
    PROVE  FlattenSeq([i \in 1 .. k - 1 |-> IF IsMessage(i) THEN <<sent[i].msg>> ELSE <<>>])
             = SentBefore(k)
<1> DEFINE N == k - 1
           M == {sent[i].msg : i \in 1 .. Len(sent)}
           seqs == [i \in 1 .. N |-> IF IsMessage(i) THEN <<sent[i].msg>> ELSE <<>>]
<1>1. Len(sent) \in Nat /\ N \in Nat /\ \A i \in 1 .. N : i \in 1 .. Len(sent)
  OBVIOUS
<1>2. \A i \in 1 .. N : seqs[i] = <<sent[i].msg>>
  OBVIOUS
<1>3. seqs \in Seq(Seq(M)) /\ Len(seqs) = N
  <2>1. \A i \in 1 .. N : <<sent[i].msg>> \in Seq(M)
    <3> SUFFICES ASSUME NEW i \in 1 .. N PROVE <<sent[i].msg>> \in Seq(M)
      OBVIOUS
    <3>1. sent[i].msg \in M
      BY <1>1
    <3> HIDE DEF M
    <3> QED BY <3>1
  <2>2. seqs = [i \in 1 .. N |-> seqs[i]]
    OBVIOUS
  <2> HIDE DEF seqs, M, N
  <2>3. \A i \in 1 .. N : seqs[i] \in Seq(M)
    BY <1>2, <2>1
  <2>4. seqs \in Seq(Seq(M))
    BY <1>1, <2>2, <2>3, IsASeq
  <2>5. Len(seqs) = N
    BY <1>1, <2>2
  <2> QED BY <2>4, <2>5
<1> HIDE DEF seqs, N
<1>4. PICK f : /\ f[0] = <<>>
               /\ \A i \in 1 .. Len(seqs) : f[i] = f[i - 1] \o seqs[i]
               /\ FlattenSeq(seqs) = f[Len(seqs)]
  BY <1>3, FlattenSteps
<1> DEFINE T == {i \in Nat : f[i] = SentBefore(i + 1)}
<1>5. 0 \in T
  <2>1. SentBefore(0 + 1) = <<>>
    BY DEF SentBefore
  <2> QED BY <1>4, <2>1
<1>6. ASSUME NEW i \in 1 .. N, i - 1 \in T PROVE i \in T
  <2>1. i \in 1 .. Len(sent) /\ i \in Nat /\ (i - 1) + 1 = i
    BY <1>1
  <2>2. f[i - 1] = SentBefore(i)
    BY <1>6, <2>1
  <2>3. f[i] = SentBefore(i) \o <<sent[i].msg>>
    BY <1>2, <1>3, <1>4, <2>2
  <2> DEFINE a == SentBefore(i)
             m == sent[i].msg
  <2>4. a \in Seq(M) /\ Append(a, m) = SentBefore(i + 1) /\ m \in M
    BY <2>1, SentBeforeSteps
  <2>5. f[i] = a \o <<m>>
    BY <2>3
  <2> HIDE DEF a, m, M
  <2>6. Append(a, m) = a \o <<m>>
    BY <2>4, AppendIsConcat
  <2>7. f[i] = SentBefore(i + 1)
    BY <2>4, <2>5, <2>6
  <2> QED BY <2>1, <2>7
<1>7. N \in T
  <2> HIDE DEF T
  <2>1. \A i \in 0 .. N : i \in T
    BY <1>1, <1>5, <1>6, InductionUpTo
  <2> QED BY <1>1, <2>1
<1>8. N + 1 = k
  BY DEF N
<1> QED BY <1>3, <1>4, <1>7, <1>8 DEF seqs, N

\* However the text is cut into reads, parse returns the messages that are complete,
\* each once and as it was sent (BufferedParser::parse).
THEOREM ParserOutput == Spec => []OutputExact
<1>1. ParserInv => OutputExact
  <2> SUFFICES ASSUME ParserInv, ~parser.threw
               PROVE  output = FlattenSeq([k \in 1 .. Cardinality(Complete) |->
                                 IF IsMessage(k) THEN <<sent[k].msg>> ELSE <<>>])
    BY DEF OutputExact
  <2>1. PICK X, e : Reading(X, e)
    BY DEF ParserInv
  <2>2. PICK k : Where(parser, k, received, X, e) /\ output = SentBefore(k)
    BY <2>1 DEF Reading
  <2>3. /\ Complete = 1 .. k - 1 /\ k \in 1 .. Len(sent) + 1 /\ Len(sent) \in Nat
        /\ \A i \in Complete : IsMessage(i)
    BY <2>1, <2>2, CompleteTexts DEF Reading
  <2>4. Cardinality(Complete) = k - 1
    <3>1. k - 1 \in Nat /\ Cardinality(1 .. k - 1) = k - 1
      BY <2>3, FS_Interval
    <3> QED BY <2>3, <3>1
  <2>5. sent \in Seq(Sendable)
    BY DEF ParserInv
  <2>6. FlattenSeq([i \in 1 .. k - 1 |-> IF IsMessage(i) THEN <<sent[i].msg>> ELSE <<>>])
          = SentBefore(k)
    BY <2>3, <2>5, MessagesFlatten
  <2> QED BY <2>2, <2>4, <2>6
<1> QED BY <1>1, ParserInvariant, PTL

\* Parse throws on nothing but junk and an end sequence that was cut, and lets neither
\* pass (BufferedParser::parseLine, BufferedParser::splitRaw).
THEOREM ParserThrows == Spec => []ThrowsOnlyOnJunk
<1>1. ParserInv => ThrowsOnlyOnJunk
  <2> SUFFICES ASSUME ParserInv PROVE ThrowsOnlyOnJunk
    OBVIOUS
  <2>1. PICK X, e : Reading(X, e)
    BY DEF ParserInv
  <2>2. ASSUME parser.threw
        PROVE  cut \/ \E k \in DOMAIN sent : ~IsMessage(k) /\ EndOf(k - 1) < received
    <3>1. cut \/ \E k \in 1 .. Len(sent) : ~IsMessage(k) /\ e[k - 1] < received
      BY <2>1, <2>2 DEF Reading
    <3>2. sent \in Seq(Sendable)
      BY DEF ParserInv
    <3>3. \A k \in 1 .. Len(sent) : k \in DOMAIN sent /\ k - 1 \in 0 .. Len(sent)
      BY <3>2
    <3>4. \A k \in 0 .. Len(sent) : e[k] = EndOf(k)
      BY <2>1 DEF Reading, Laid
    <3> QED BY <3>1, <3>3, <3>4
  <2>3. ASSUME ~parser.threw
        PROVE  ~(cut /\ ~WithinEnd(received)) /\ \A k \in Complete : IsMessage(k)
    <3>1. PICK k : Where(parser, k, received, X, e)
      BY <2>1, <2>3 DEF Reading
    <3>2. \A i \in Complete : IsMessage(i)
      BY <2>1, <3>1, CompleteTexts DEF Reading
    <3>3. cut <=> WithinEnd(received)
      BY <2>1, <2>3 DEF Reading
    <3> QED BY <3>2, <3>3
  <2> QED BY <2>2, <2>3 DEF ThrowsOnlyOnJunk, IncompleteIsStored
<1> QED BY <1>1, ParserInvariant, PTL
=============================================================================
