----------------------------- MODULE EGraphProofs -----------------------------
(***************************************************************************)
(* Lemmas about graphs: the order Extends, the least graphs that union and *)
(* rebuild make, and what they keep.                                       *)
(***************************************************************************)
EXTENDS EGraph, SequenceLemmas, WellFoundedInduction, TLAPS

\* A set of classes that is not empty has a least class.
LEMMA MinClass ==
  ASSUME NEW S \in SUBSET Class, S # {}
  PROVE  Min(S) \in S /\ \A y \in S : Min(S) <= y
<1>1. S \in SUBSET Nat
  BY ClassAssumption DEF Class
<1> QED BY <1>1, LeastNat DEF Min

\* A graph is a choice of the least class of each group of merged classes.
LEMMA GraphIs ==
  ASSUME NEW g
  PROVE  g \in Graph <=> /\ g \in [Class -> Class]
                         /\ \A x \in Class : g[x] <= x /\ g[g[x]] = g[x]
<1> DEFINE Like(f, x) == {y \in Class : f[y] = f[x]}
<1> DEFINE Label(f) == [x \in Class |-> Min(Like(f, x))]
<1>1. ASSUME NEW f \in [Class -> Class], NEW x \in Class
      PROVE  Min(Like(f, x)) \in Like(f, x) /\ \A y \in Like(f, x) : Min(Like(f, x)) <= y
  BY MinClass
<1>2. ASSUME NEW f \in [Class -> Class], g = Label(f)
      PROVE  /\ g \in [Class -> Class]
             /\ \A x \in Class : g[x] <= x /\ g[g[x]] = g[x]
  <2>1. \A x \in Class : g[x] \in Class /\ f[g[x]] = f[x] /\ g[x] <= x
    BY <1>1, <1>2
  <2>2. \A x \in Class : Like(f, g[x]) = Like(f, x)
    BY <2>1
  <2> HIDE DEF Like
  <2> QED BY <2>1, <2>2, <1>2
<1>3. ASSUME g \in [Class -> Class], \A x \in Class : g[x] <= x /\ g[g[x]] = g[x]
      PROVE  g = Label(g)
  <2>1. ASSUME NEW x \in Class PROVE g[x] = Min(Like(g, x))
    <3>1. g[x] \in Like(g, x) /\ \A y \in Like(g, x) : g[x] <= y
      BY <1>3
    <3>2. g[x] \in Int /\ Min(Like(g, x)) \in Int
      BY <1>1, <1>3, ClassAssumption DEF Class
    <3>3. g[x] <= Min(Like(g, x)) /\ Min(Like(g, x)) <= g[x]
      BY <1>1, <1>3, <3>1
    <3> HIDE DEF Like
    <3> QED BY <3>2, <3>3
  <2> HIDE DEF Like
  <2> QED BY <2>1, <1>3
<1> QED BY <1>2, <1>3 DEF Graph

\* Extends is a partial order on graphs.
LEMMA ExtendsOrder ==
  ASSUME NEW f \in Graph, NEW g \in Graph, NEW h \in Graph
  PROVE  /\ Extends(f, f)
         /\ Extends(g, f) /\ Extends(h, g) => Extends(h, f)
         /\ Extends(g, f) /\ Extends(f, g) => f = g
<1>1. /\ f \in [Class -> Class] /\ g \in [Class -> Class] /\ h \in [Class -> Class]
      /\ \A x \in Class : f[x] <= x /\ f[f[x]] = f[x] /\ g[x] <= x /\ g[g[x]] = g[x]
  BY GraphIs
<1>2. Extends(f, f)
  BY <1>1 DEF Extends
<1>3. ASSUME Extends(g, f), Extends(h, g) PROVE Extends(h, f)
  BY <1>1, <1>3 DEF Extends
<1>4. ASSUME Extends(g, f), Extends(f, g) PROVE f = g
  <2>1. ASSUME NEW x \in Class PROVE f[x] = g[x]
    <3>1. g[f[x]] = g[x] /\ f[g[x]] = f[x]
      BY <1>4 DEF Extends
    <3>2. g[x] <= f[x] /\ f[x] <= g[x]
      BY <1>1, <3>1
    <3>3. f[x] \in Class /\ g[x] \in Class
      BY <1>1
    <3>4. f[x] \in Int /\ g[x] \in Int
      BY <3>3 DEF Class
    <3> QED BY <3>2, <3>4
  <2> QED BY <1>1, <2>1
<1> QED BY <1>2, <1>3, <1>4

\* Classes merged in f are merged in the graphs that extend f.
LEMMA ExtendsMerges ==
  ASSUME NEW f \in Graph, NEW g \in Graph, Extends(g, f),
         NEW x \in Class, NEW y \in Class, f[x] = f[y]
  PROVE  g[x] = g[y]
BY GraphIs DEF Extends

\* What all the graphs of H merge.
Meet(H) == [x \in Class |-> Min({y \in Class : \A h \in H : h[y] = h[x]})]

\* The meet of a set of graphs is a graph that all of them extend, and it
\* merges all that they all merge.
LEMMA MeetIs ==
  ASSUME NEW H \in SUBSET Graph
  PROVE  /\ Meet(H) \in Graph
         /\ \A h \in H : Extends(h, Meet(H))
         /\ \A x, y \in Class : (\A h \in H : h[x] = h[y]) => Meet(H)[x] = Meet(H)[y]
<1> DEFINE Like(x) == {y \in Class : \A h \in H : h[y] = h[x]}
<1>1. ASSUME NEW x \in Class
      PROVE  Min(Like(x)) \in Like(x) /\ \A y \in Like(x) : Min(Like(x)) <= y
  BY MinClass
<1>2. \A x \in Class : Meet(H)[x] = Min(Like(x))
  BY DEF Meet
<1>3. \A x \in Class : /\ Meet(H)[x] \in Class /\ Meet(H)[x] <= x
                       /\ \A h \in H : h[Meet(H)[x]] = h[x]
  BY <1>1, <1>2
<1>4. ASSUME NEW x \in Class, NEW y \in Class, \A h \in H : h[x] = h[y]
      PROVE  Meet(H)[x] = Meet(H)[y]
  <2>1. Like(x) = Like(y)
    BY <1>4
  <2> HIDE DEF Like
  <2> QED BY <1>2, <2>1
<1>5. \A x \in Class : Meet(H)[Meet(H)[x]] = Meet(H)[x]
  BY <1>3, <1>4
<1>6. Meet(H) \in [Class -> Class]
  BY <1>3 DEF Meet
<1>7. Meet(H) \in Graph
  BY <1>3, <1>5, <1>6, GraphIs
<1> QED BY <1>3, <1>4, <1>7 DEF Extends

\* A set of graphs that has its own meet has a least graph.
LEMMA LeastIs ==
  ASSUME NEW S \in SUBSET Graph, Meet(S) \in S
  PROVE  Least(S) \in S /\ \A g \in S : Extends(g, Least(S))
BY MeetIs DEF Least

\* union merges the pairs, keeps the merges there were, and merges nothing that
\* a graph with both keeps apart; without a pair to merge it changes nothing.
LEMMA MergeAllIs ==
  ASSUME NEW g \in Graph, NEW pairs \in SUBSET (Class \X Class)
  PROVE  /\ MergeAll(g, pairs) \in Graph
         /\ Extends(MergeAll(g, pairs), g)
         /\ \A p \in pairs : MergeAll(g, pairs)[p[1]] = MergeAll(g, pairs)[p[2]]
         /\ \A w \in Graph : Extends(w, g) /\ (\A p \in pairs : w[p[1]] = w[p[2]])
              => Extends(w, MergeAll(g, pairs))
         /\ (\A p \in pairs : g[p[1]] = g[p[2]]) => MergeAll(g, pairs) = g
<1> DEFINE S == {h \in Graph : Extends(h, g) /\ \A p \in pairs : h[p[1]] = h[p[2]]}
<1>1. g \in [Class -> Class] /\ \A x \in Class : g[g[x]] = g[x]
  BY GraphIs
<1>2. \A x \in Class : \A h \in S : h[g[x]] = h[x]
  BY DEF Extends
<1>3. \A x \in Class : Meet(S)[g[x]] = Meet(S)[x]
  BY <1>1, <1>2, MeetIs
<1>4. \A p \in pairs : p[1] \in Class /\ p[2] \in Class
  OBVIOUS
<1>5. \A p \in pairs : Meet(S)[p[1]] = Meet(S)[p[2]]
  BY <1>4, MeetIs
<1>6. Meet(S) \in S
  BY <1>3, <1>5, MeetIs DEF Extends
<1>7. Least(S) \in S /\ \A h \in S : Extends(h, Least(S))
  BY <1>6, LeastIs
<1>8. MergeAll(g, pairs) = Least(S)
  BY DEF MergeAll
<1>9. ASSUME \A p \in pairs : g[p[1]] = g[p[2]] PROVE Least(S) = g
  <2>1. g \in S
    BY <1>9, ExtendsOrder
  <2> QED BY <1>7, <2>1, ExtendsOrder
<1> QED BY <1>7, <1>8, <1>9

\* rebuild makes the least congruent graph with the merges of g.
LEMMA RebuiltIs ==
  ASSUME NEW g \in Graph
  PROVE  /\ Rebuilt[g] \in Congruent /\ Rebuilt[g] \in Graph
         /\ Extends(Rebuilt[g], g)
         /\ \A w \in Congruent : Extends(w, g) => Extends(w, Rebuilt[g])
         /\ g \in Congruent => Rebuilt[g] = g
<1> DEFINE S == {h \in Congruent : Extends(h, g)}
<1> DEFINE M == Meet(S)
<1>1. S \in SUBSET Graph
  BY DEF Congruent
<1>2. M \in Graph /\ (\A h \in S : Extends(h, M))
      /\ \A x, y \in Class : (\A h \in S : h[x] = h[y]) => M[x] = M[y]
  BY <1>1, MeetIs
<1>3. Extends(M, g)
  <2>1. g \in [Class -> Class]
    BY GraphIs
  <2>2. \A x \in Class : \A h \in S : h[g[x]] = h[x]
    BY DEF Extends
  <2> QED BY <1>2, <2>1, <2>2 DEF Extends
<1>4. M \in Congruent
  <2> SUFFICES ASSUME NEW x \in Class, NEW y \in Class,
                      Canonical(M, x) = Canonical(M, y)
               PROVE  M[x] = M[y]
    BY <1>2 DEF Congruent
  <2> SUFFICES ASSUME NEW h \in S PROVE h[x] = h[y]
    BY <1>2
  <2>1. /\ Node[x].op = Node[y].op
        /\ DOMAIN Node[x].args = DOMAIN Node[y].args
        /\ \A i \in DOMAIN Node[x].args : M[Node[x].args[i]] = M[Node[y].args[i]]
    <3>1. Canonical(M, x).op = Canonical(M, y).op /\ Canonical(M, x).args = Canonical(M, y).args
      OBVIOUS
    <3>2. \A c \in Class : DOMAIN Canonical(M, c).args = DOMAIN Node[c].args
      BY DEF Canonical
    <3>3. \A c \in Class : \A i \in DOMAIN Node[c].args :
             Canonical(M, c).args[i] = M[Node[c].args[i]]
      BY DEF Canonical
    <3>4. \A c \in Class : Canonical(M, c).op = Node[c].op
      BY DEF Canonical
    <3>5. DOMAIN Node[x].args = DOMAIN Node[y].args
      BY <3>1, <3>2
    <3>6. Node[x].op = Node[y].op
      BY <3>1, <3>4
    <3>7. ASSUME NEW i \in DOMAIN Node[x].args
          PROVE  M[Node[x].args[i]] = M[Node[y].args[i]]
      <4>1. Canonical(M, x).args[i] = M[Node[x].args[i]]
        BY <3>3
      <4>2. Canonical(M, y).args[i] = M[Node[y].args[i]]
        BY <3>3, <3>5
      <4> QED BY <3>1, <4>1, <4>2
    <3> HIDE DEF M
    <3> QED BY <3>5, <3>6, <3>7
  <2>2. \A c \in Class : \A i \in DOMAIN Node[c].args : Node[c].args[i] \in Class
    BY NodeAssumption
  <2>3. h \in Graph /\ Extends(h, M)
    BY <1>1, <1>2
  <2>4. ASSUME NEW i \in DOMAIN Node[x].args
        PROVE  h[Node[x].args[i]] = h[Node[y].args[i]]
    <3>1. Node[x].args[i] \in Class /\ Node[y].args[i] \in Class
      BY <2>1, <2>2
    <3>2. M[Node[x].args[i]] = M[Node[y].args[i]]
      BY <2>1
    <3> HIDE DEF M
    <3> QED BY <1>2, <2>3, <3>1, <3>2, ExtendsMerges
  <2>5. Canonical(h, x) = Canonical(h, y)
    BY <2>1, <2>4 DEF Canonical
  <2> QED BY <2>5 DEF Congruent
<1>5. Least(S) \in S /\ \A h \in S : Extends(h, Least(S))
  BY <1>1, <1>3, <1>4, LeastIs
<1>6. Rebuilt[g] = Least(S)
  BY DEF Rebuilt
<1>7. ASSUME g \in Congruent PROVE Least(S) = g
  <2>1. g \in S
    BY <1>7, ExtendsOrder
  <2> QED BY <1>1, <1>5, <2>1, ExtendsOrder
<1> QED BY <1>1, <1>5, <1>6, <1>7

\* union of two classes: it merges them and keeps the merges there were.
LEMMA MergeIs ==
  ASSUME NEW g \in Graph, NEW a \in Class, NEW b \in Class
  PROVE  /\ Merge(g, a, b) \in Graph
         /\ Extends(Merge(g, a, b), g)
         /\ Merge(g, a, b)[a] = Merge(g, a, b)[b]
<1> DEFINE both == {g[a], g[b]}
           h == Merge(g, a, b)
<1>1. g \in [Class -> Class] /\ \A x \in Class : g[x] <= x /\ g[g[x]] = g[x]
  BY GraphIs
<1>2. Min(both) \in both /\ \A y \in both : Min(both) <= y
  BY <1>1, MinClass
<1>3. \A x \in Class : h[x] = IF g[x] \in both THEN Min(both) ELSE g[x]
  BY DEF Merge
<1>4. g[Min(both)] = Min(both) /\ Min(both) \in Class
  BY <1>1, <1>2
<1>5. h \in [Class -> Class]
  BY <1>1, <1>4 DEF Merge
<1>6. \A x \in Class : x \in Int /\ g[x] \in Int /\ Min(both) \in Int
  BY <1>1, <1>4, ClassAssumption DEF Class
<1> HIDE DEF both, h
<1>7. \A x \in Class : h[x] <= x
  BY <1>1, <1>2, <1>3, <1>6
<1>8. \A x \in Class : h[h[x]] = h[x] /\ h[g[x]] = h[x]
  BY <1>1, <1>2, <1>3, <1>4
<1>9. h \in Graph
  BY <1>5, <1>7, <1>8, GraphIs
<1>10. h[a] = h[b]
  BY <1>3 DEF both
<1> QED BY <1>8, <1>9, <1>10 DEF h, Extends

\* rebuild is monotone, and rebuilding again changes nothing.
LEMMA RebuiltMonotone ==
  ASSUME NEW f \in Graph, NEW g \in Graph, Extends(g, f)
  PROVE  /\ Extends(Rebuilt[g], Rebuilt[f]) /\ Extends(Rebuilt[g], f)
         /\ g \in Congruent => Extends(g, Rebuilt[f])
         /\ Rebuilt[Rebuilt[f]] = Rebuilt[f]
<1>1. /\ Rebuilt[f] \in Graph /\ Rebuilt[g] \in Graph
      /\ Rebuilt[f] \in Congruent /\ Rebuilt[g] \in Congruent
      /\ Extends(Rebuilt[g], g)
  BY RebuiltIs
<1>2. Extends(Rebuilt[g], f)
  BY <1>1, ExtendsOrder
<1> QED BY <1>1, <1>2, RebuiltIs

-----------------------------------------------------------------------------
(* Recursion over the classes.                                             *)

\* A definition of a value for each class, as a function of the class and of the
\* values, that only depends on the values of the classes before it.
Recursive(V, Step) ==
  /\ V # {} /\ Step \in [Class \X [Class -> V] -> V]
  /\ \A c \in Class : \A f, h \in [Class -> V] :
       (\A d \in Class : d < c => f[d] = h[d]) => Step[<<c, f>>] = Step[<<c, h>>]

\* Such a definition has a solution.
LEMMA RecursionOnClass ==
  ASSUME NEW V, NEW Step, Recursive(V, Step)
  PROVE  \E f \in [Class -> V] : \A c \in Class : f[c] = Step[<<c, f>>]
<1> USE DEF Recursive
<1> DEFINE Solved(n) == \E f \in [Class -> V] : \A c \in Class : c <= n => f[c] = Step[<<c, f>>]
           S == {n \in 0..NClasses : ~Solved(n)}
<1>1. /\ NClasses \in Nat /\ \A c \in Class : c \in Nat /\ c >= 1 /\ c <= NClasses
      /\ \A n \in 1..NClasses : n \in Class
  BY ClassAssumption DEF Class
<1>2. S = {}
  <2> SUFFICES ASSUME S # {} PROVE FALSE
    OBVIOUS
  <2>1. PICK m \in S : \A n \in S : m <= n
    <3>1. S \in SUBSET Nat
      BY <1>1
    <3> HIDE DEF S
    <3> QED BY <3>1, LeastNat
  <2>2. m \in 0..NClasses /\ ~Solved(m)
    OBVIOUS
  <2>3. Solved(0)
    <3>1. PICK v \in V : TRUE
      OBVIOUS
    <3>2. [c \in Class |-> v] \in [Class -> V] /\ \A c \in Class : ~(c <= 0)
      BY <1>1
    <3> QED BY <3>2
  <2>4. m # 0 /\ m - 1 \in 0..NClasses /\ m \in Class
    BY <1>1, <2>2, <2>3 DEF Class
  <2>5. Solved(m - 1)
    <3>1. m - 1 \notin S
      <4>1. ~(m <= m - 1)
        BY <1>1, <2>2
      <4> HIDE DEF S
      <4> QED BY <2>1, <4>1
    <3> HIDE DEF Solved
    <3> QED BY <2>4, <3>1
  <2>6. PICK f \in [Class -> V] : \A c \in Class : c <= m - 1 => f[c] = Step[<<c, f>>]
    BY <2>5
  <2> DEFINE h == [f EXCEPT ![m] = Step[<<m, f>>]]
  <2>7. h \in [Class -> V] /\ h[m] = Step[<<m, f>>] /\ \A c \in Class : c # m => h[c] = f[c]
    BY <2>4
  <2> HIDE DEF h
  <2>8. ASSUME NEW c \in Class, c <= m PROVE h[c] = Step[<<c, h>>]
    <3>1. \A d \in Class : d < c => f[d] = h[d]
      BY <1>1, <2>2, <2>7, <2>8
    <3>2. Step[<<c, f>>] = Step[<<c, h>>]
      BY <2>7, <3>1
    <3>3. c = m \/ (c # m /\ c <= m - 1)
      <4>1. m \in Nat /\ c \in Nat
        BY <1>1, <2>2
      <4> HIDE DEF S
      <4> QED BY <2>8, <4>1
    <3> QED BY <2>6, <2>7, <3>2, <3>3
  <2> QED BY <2>2, <2>7, <2>8
<1>3. Solved(NClasses)
  <2>1. NClasses \in 0..NClasses
    BY <1>1
  <2> HIDE DEF Solved
  <2> QED BY <1>2, <2>1
<1> QED BY <1>1, <1>3
=============================================================================
