----------------------------- MODULE TermProofs -----------------------------
(***************************************************************************)
(* Theorems about what is matched and about the terms that are created.    *)
(*                                                                         *)
(* Searchers: for any queries, a search that ends finds exactly the        *)
(* matches there are, and it panics only for a condition on a variable     *)
(* that is not bound.  TermCreation: for any theory, after each depth the  *)
(* graph has all terms up to that depth, with a type and with values, the  *)
(* values of a class are right however classes have been merged, and the   *)
(* classes that are paired by their values agree on the examples.          *)
(***************************************************************************)
EXTENDS TermCreation, Searchers, SequenceLemmas, FiniteSetTheorems

(***************************************************************************)
(* The order of the patterns.                                              *)
(***************************************************************************)
KeyBefore(key, i, j) == key[i] < key[j] \/ (key[i] = key[j] /\ i < j)
Ordered(f, key, n) ==
  /\ f \in [1..n -> 1..n]
  /\ \A i, j \in 1..n : i < j => KeyBefore(key, f[i], f[j])

\* f names each of n indices once.
Permutes(f, n) ==
  /\ f \in [1..n -> 1..n]
  /\ \A i, j \in 1..n : i # j => f[i] # f[j]
  /\ \A k \in 1..n : \E i \in 1..n : f[i] = k

\* KeyBefore is a strict order in which any two indices are comparable.
LEMMA KeyOrder ==
  ASSUME NEW n \in Nat, NEW key \in [1..n -> Nat]
  PROVE  /\ \A i \in 1..n : ~KeyBefore(key, i, i)
         /\ \A i, j, k \in 1..n : KeyBefore(key, i, j) /\ KeyBefore(key, j, k)
              => KeyBefore(key, i, k)
         /\ \A i, j \in 1..n : i # j => KeyBefore(key, i, j) \/ KeyBefore(key, j, i)
<1>1. \A i \in 1..n : key[i] \in Nat
  OBVIOUS
<1> QED BY <1>1 DEF KeyBefore

\* What is injective from a finite set to itself leaves nothing out.
LEMMA InjectionOnto ==
  ASSUME NEW n \in Nat, NEW f \in [1..n -> 1..n], \A i, j \in 1..n : i # j => f[i] # f[j]
  PROVE  \A k \in 1..n : \E i \in 1..n : f[i] = k
<1> DEFINE S == 1..n
<1>1. IsFiniteSet(S)
  BY FS_Interval
<1>2. f \in Injection(S, S)
  BY DEF Injection, IsInjective
<1>3. f \in Surjection(S, S)
  <2> HIDE DEF S
  <2> QED BY <1>1, <1>2, FS_Injection
<1> QED BY <1>3 DEF Surjection

\* An order by a key is a permutation.
LEMMA OrderedIsPermutation ==
  ASSUME NEW n \in Nat, NEW key \in [1..n -> Nat], NEW f, Ordered(f, key, n)
  PROVE  Permutes(f, n)
<1>1. f \in [1..n -> 1..n] /\ \A i, j \in 1..n : i < j => KeyBefore(key, f[i], f[j])
  BY DEF Ordered
<1>2. \A i, j \in 1..n : i < j => f[i] # f[j]
  BY <1>1, KeyOrder
<1>3. \A i, j \in 1..n : i # j => f[i] # f[j]
  BY <1>2
<1>4. \A k \in 1..n : \E i \in 1..n : f[i] = k
  BY <1>1, <1>3, InjectionOnto
<1> QED BY <1>1, <1>3, <1>4 DEF Permutes

\* Any indices can be put in order: each goes after those before it.
LEMMA OrderExists ==
  ASSUME NEW n \in Nat, NEW key \in [1..n -> Nat]
  PROVE  \E f : Ordered(f, key, n)
<1> DEFINE S == 1..n
           Pred(i) == {j \in S : KeyBefore(key, j, i)}
           rank == [i \in S |-> Cardinality(Pred(i)) + 1]
<1>1. IsFiniteSet(S) /\ Cardinality(S) = n
  BY FS_Interval
<1>2. ASSUME NEW i \in S
      PROVE  IsFiniteSet(Pred(i)) /\ Cardinality(Pred(i)) \in Nat /\ Cardinality(Pred(i)) < n
  <2>1. Pred(i) \in SUBSET S /\ i \notin Pred(i)
    BY KeyOrder
  <2>2. IsFiniteSet(Pred(i)) /\ Cardinality(Pred(i)) <= n /\ Cardinality(Pred(i)) # n
    <3> HIDE DEF S, Pred
    <3>1. /\ IsFiniteSet(Pred(i)) /\ Cardinality(Pred(i)) <= Cardinality(S)
          /\ Cardinality(S) = Cardinality(Pred(i)) => S = Pred(i)
      BY <1>1, <2>1, FS_Subset
    <3> QED BY <1>1, <2>1, <3>1
  <2>3. Cardinality(Pred(i)) \in Nat
    <3> HIDE DEF Pred
    <3> QED BY <2>2, FS_CardinalityType
  <2> HIDE DEF Pred
  <2> QED BY <2>2, <2>3
<1>3. ASSUME NEW i \in S, NEW j \in S, KeyBefore(key, i, j)
      PROVE  Cardinality(Pred(i)) < Cardinality(Pred(j))
  <2>1. Pred(i) \in SUBSET Pred(j) /\ i \in Pred(j) /\ i \notin Pred(i)
    BY <1>3, KeyOrder
  <2> HIDE DEF Pred, S
  <2>2. /\ Cardinality(Pred(i)) <= Cardinality(Pred(j))
        /\ Cardinality(Pred(j)) = Cardinality(Pred(i)) => Pred(j) = Pred(i)
    BY <1>2, <2>1, FS_Subset
  <2> QED BY <1>2, <2>1, <2>2
<1>4. rank \in [S -> S]
  <2>1. ASSUME NEW i \in S PROVE Cardinality(Pred(i)) + 1 \in S
    <3>1. Cardinality(Pred(i)) \in Nat /\ Cardinality(Pred(i)) < n
      BY <1>2
    <3> HIDE DEF Pred
    <3> QED BY <3>1
  <2> HIDE DEF Pred, S
  <2> QED BY <2>1
<1>5. ASSUME NEW i \in S, NEW j \in S, KeyBefore(key, i, j) PROVE rank[i] < rank[j]
  <2> HIDE DEF Pred, S
  <2> QED BY <1>2, <1>3, <1>5
<1> HIDE DEF rank, Pred
<1>6. \A i, j \in S : i # j => rank[i] # rank[j]
  <2> SUFFICES ASSUME NEW i \in S, NEW j \in S, i # j PROVE rank[i] # rank[j]
    OBVIOUS
  <2>1. KeyBefore(key, i, j) \/ KeyBefore(key, j, i)
    BY KeyOrder
  <2>2. rank[i] \in Nat /\ rank[j] \in Nat
    <3>1. rank[i] \in S /\ rank[j] \in S
      BY <1>4
    <3> QED BY <3>1
  <2> QED BY <1>5, <2>1, <2>2
<1>7. \A k \in S : \E i \in S : rank[i] = k
  BY <1>4, <1>6, InjectionOnto
<1> DEFINE f == [k \in S |-> CHOOSE i \in S : rank[i] = k]
<1>8. \A k \in S : f[k] \in S /\ rank[f[k]] = k
  BY <1>7
<1>9. f \in [S -> S]
  BY <1>8
<1> HIDE DEF f
<1>10. ASSUME NEW i \in S, NEW j \in S, i < j PROVE KeyBefore(key, f[i], f[j])
  <2>1. /\ f[i] \in S /\ f[j] \in S /\ i \in Int /\ j \in Int
        /\ rank[f[i]] = i /\ rank[f[j]] = j
    BY <1>8
  <2>2. f[i] # f[j] /\ ~KeyBefore(key, f[j], f[i])
    <3>1. ~(j < i) /\ i # j
      BY <1>10, <2>1
    <3> QED BY <1>5, <2>1, <3>1
  <2> QED BY <2>1, <2>2, KeyOrder
<1> QED BY <1>9, <1>10 DEF Ordered

(***************************************************************************)
(* The variables of several patterns.                                      *)
(***************************************************************************)
HaveVars(ps) == ps \in Seq(ToSet(ps)) /\ \A i \in DOMAIN ps : ps[i].vars \in Seq(Vars)

\* The parts of Searched are vectors of variables.
LEMMA VarsAreVectors ==
  ASSUME NEW ps, HaveVars(ps)
  PROVE  /\ [i \in DOMAIN ps |-> ps[i].vars] \in Seq(Seq(Vars))
         /\ DOMAIN ps = 1..Len(ps) /\ Len(ps) \in Nat
<1>1. DOMAIN ps = 1..Len(ps) /\ Len(ps) \in Nat
  BY LenProperties DEF HaveVars
<1> QED BY <1>1 DEF HaveVars

\* A variable is common when it is there at two places.
LEMMA CommonIs ==
  ASSUME NEW ps, HaveVars(ps), NEW v
  PROVE  v \in CommonVars(ps) <=>
           \E a, b \in DOMAIN Searched(ps) :
             a # b /\ Searched(ps)[a] = v /\ Searched(ps)[b] = v
<1> DEFINE s == Searched(ps)
           O == {i \in DOMAIN s : s[i] = v}
<1>1. s \in Seq(Vars)
  BY VarsAreVectors, FlattenIs DEF Searched
<1>2. IsFiniteSet(DOMAIN s)
  <2>1. DOMAIN s = 1..Len(s) /\ Len(s) \in Nat
    <3> HIDE DEF s
    <3> QED BY <1>1, LenProperties
  <2> HIDE DEF s
  <2> QED BY <2>1, FS_Interval
<1>3. IsFiniteSet(O) /\ Cardinality(O) \in Nat
  <2>1. O \in SUBSET DOMAIN s
    OBVIOUS
  <2> HIDE DEF O
  <2> QED BY <1>2, <2>1, FS_Subset, FS_CardinalityType
<1>4. ASSUME NEW a \in O, NEW b \in O, a # b PROVE Cardinality(O) > 1
  <2>1. O # {} /\ ~\E x : O = {x}
    BY <1>4
  <2> HIDE DEF O
  <2>2. Cardinality(O) # 0 /\ Cardinality(O) # 1
    BY <1>3, <2>1, FS_EmptySet, FS_Singleton
  <2> QED BY <1>3, <2>2
<1>5. ASSUME Cardinality(O) > 1 PROVE \E a, b \in O : a # b
  <2> HIDE DEF O
  <2>1. O # {}
    BY <1>5, FS_EmptySet
  <2>2. ~\E x : O = {x}
    BY <1>3, <1>5, FS_Singleton
  <2> QED BY <2>1, <2>2
<1>6. v \in CommonVars(ps) <=> v \in ToSet(s) /\ Cardinality(O) > 1
  BY DEF CommonVars, Occurrences
<1> HIDE DEF s
<1>7. (\E a, b \in O : a # b) <=> \E a, b \in DOMAIN s : a # b /\ s[a] = v /\ s[b] = v
  OBVIOUS
<1>8. (\E a, b \in O : a # b) => v \in ToSet(s)
  BY DEF ToSet
<1> HIDE DEF O
<1>9. v \in CommonVars(ps) <=> \E a, b \in O : a # b
  BY <1>4, <1>5, <1>6, <1>8
<1> QED BY <1>7, <1>9 DEF s

\* What is searched are the variables of the patterns, and what two patterns
\* share is common.
LEMMA SearchedIs ==
  ASSUME NEW ps, HaveVars(ps)
  PROVE  /\ Searched(ps) \in Seq(Vars)
         /\ VarsOf(ps) = UNION {ToSet(ps[i].vars) : i \in DOMAIN ps}
         /\ VarsOf(ps) \subseteq Vars
         /\ CommonVars(ps) \subseteq VarsOf(ps)
         /\ \A i, j \in DOMAIN ps :
              i # j => ToSet(ps[i].vars) \cap ToSet(ps[j].vars) \subseteq CommonVars(ps)
<1> DEFINE ss == [i \in DOMAIN ps |-> ps[i].vars]
<1>1. ss \in Seq(Seq(Vars)) /\ DOMAIN ss = DOMAIN ps
  BY VarsAreVectors
<1>2. \A i \in DOMAIN ps : ss[i] = ps[i].vars
  OBVIOUS
<1>3. Searched(ps) = FlattenSeq(ss)
  BY DEF Searched
<1> HIDE DEF ss
<1>4. /\ FlattenSeq(ss) \in Seq(Vars)
      /\ ToSet(FlattenSeq(ss)) = UNION {ToSet(ss[i]) : i \in DOMAIN ss}
  BY <1>1, FlattenIs
<1>5. VarsOf(ps) = UNION {ToSet(ps[i].vars) : i \in DOMAIN ps}
  <2>1. \A i \in DOMAIN ps : ToSet(ss[i]) = ToSet(ps[i].vars)
    BY <1>2
  <2> QED BY <1>1, <1>3, <1>4, <2>1 DEF VarsOf
<1>6. ToSet(Searched(ps)) \subseteq Vars
  <2> DEFINE s == Searched(ps)
  <2>1. s \in Seq(Vars)
    BY <1>3, <1>4
  <2> HIDE DEF s
  <2>2. \A i \in DOMAIN s : s[i] \in Vars
    BY <2>1, ElementAt
  <2> QED BY <2>2 DEF ToSet, s
<1>7. CommonVars(ps) \subseteq VarsOf(ps)
  BY DEF CommonVars, VarsOf
<1>8. ASSUME NEW i \in DOMAIN ps, NEW j \in DOMAIN ps, i # j,
             NEW v \in ToSet(ps[i].vars) \cap ToSet(ps[j].vars)
      PROVE  v \in CommonVars(ps)
  <2>1. v \in ToSet(ss[i]) \cap ToSet(ss[j])
    BY <1>2
  <2>2. \E a, b \in DOMAIN FlattenSeq(ss) :
          a # b /\ FlattenSeq(ss)[a] = v /\ FlattenSeq(ss)[b] = v
    BY <1>1, <1>8, <2>1, FlattenIs
  <2> QED BY <1>3, <2>2, CommonIs
<1> QED BY <1>3, <1>4, <1>5, <1>6, <1>7, <1>8 DEF VarsOf

Sorts(f, key, ps) ==
  /\ key = [i \in 1..Len(ps) |-> CountCommons(ps[i], ps)]
  /\ key \in [1..Len(ps) -> Nat]
  /\ Ordered(f, key, Len(ps))
  /\ Sorted(ps) = [i \in 1..Len(ps) |-> ps[f[i]]]

\* Sorting permutes the patterns.
LEMMA SortedIs ==
  ASSUME NEW ps, HaveVars(ps)
  PROVE  \E f, key : Sorts(f, key, ps)
<1> DEFINE n == Len(ps)
           key == [i \in 1..n |-> CountCommons(ps[i], ps)]
           s == Searched(ps)
<1>1. n \in Nat /\ DOMAIN ps = 1..n
  BY VarsAreVectors
<1>2. IsFiniteSet(DOMAIN s)
  <2>1. s \in Seq(Vars)
    BY SearchedIs
  <2> HIDE DEF s
  <2>2. DOMAIN s = 1..Len(s) /\ Len(s) \in Nat
    BY <2>1, LenProperties
  <2> QED BY <2>2, FS_Interval
<1>3. ASSUME NEW i \in 1..n PROVE CountCommons(ps[i], ps) \in Nat
  <2> DEFINE d == DOMAIN ps[i].vars
             pairs == {o \in d \X (DOMAIN s) :
                         ps[i].vars[o[1]] \in CommonVars(ps) /\ s[o[2]] = ps[i].vars[o[1]]}
  <2>1. IsFiniteSet(d)
    <3> DEFINE t == ps[i].vars
    <3>1. t \in Seq(Vars)
      BY <1>1 DEF HaveVars
    <3> HIDE DEF t
    <3>2. DOMAIN t = 1..Len(t) /\ Len(t) \in Nat
      BY <3>1, LenProperties
    <3>3. IsFiniteSet(DOMAIN t)
      BY <3>2, FS_Interval
    <3> QED BY <3>3 DEF t
  <2>2. pairs \in SUBSET (d \X (DOMAIN s))
    OBVIOUS
  <2>3. CountCommons(ps[i], ps) = Cardinality(pairs)
    BY DEF CountCommons
  <2> HIDE DEF d, pairs, s
  <2>4. IsFiniteSet(d \X (DOMAIN s))
    BY <1>2, <2>1, FS_Product
  <2>5. IsFiniteSet(pairs)
    BY <2>2, <2>4, FS_Subset
  <2> QED BY <2>3, <2>5, FS_CardinalityType
<1>4. key \in [1..n -> Nat]
  BY <1>3
<1> DEFINE Is(f) == \A i, j \in 1..n : i < j => KeyBefore(key, f[i], f[j])
           f == CHOOSE g \in [1..n -> 1..n] : Is(g)
<1>5. \E g \in [1..n -> 1..n] : Is(g)
  <2> HIDE DEF key, n
  <2>1. PICK g : Ordered(g, key, n)
    BY <1>1, <1>4, OrderExists
  <2> QED BY <2>1 DEF Ordered
<1>6. f \in [1..n -> 1..n] /\ Is(f)
  <2> HIDE DEF n, Is
  <2> QED BY <1>5
<1>7. Sorted(ps) = [i \in 1..n |-> ps[f[i]]]
  <2>1. Sorted(ps) = SortByKey(ps, key)
    BY <1>1 DEF Sorted
  <2> HIDE DEF key, n
  <2>2. SortByKey(ps, key) = [i \in 1..n |-> ps[f[i]]]
    BY <1>1 DEF SortByKey, KeyBefore
  <2> QED BY <2>1, <2>2
<1> HIDE DEF f, key
<1>8. Ordered(f, key, n)
  BY <1>6 DEF Ordered
<1> QED BY <1>4, <1>7, <1>8 DEF key, Sorts

\* The sorted patterns are the same patterns, of the same variables.
LEMMA SortedPatterns ==
  ASSUME NEW ps, HaveVars(ps)
  PROVE  \E f : /\ Permutes(f, Len(ps))
                /\ Sorted(ps) = [i \in 1..Len(ps) |-> ps[f[i]]]
                /\ HaveVars(Sorted(ps)) /\ Len(Sorted(ps)) = Len(ps)
                /\ DOMAIN Sorted(ps) = 1..Len(ps)
                /\ VarsOf(Sorted(ps)) = VarsOf(ps)
<1> DEFINE n == Len(ps)
           qs == Sorted(ps)
<1>1. PICK f, key : /\ key \in [1..n -> Nat] /\ Ordered(f, key, n)
                    /\ qs = [i \in 1..n |-> ps[f[i]]]
  BY SortedIs DEF Sorts
<1>2. n \in Nat /\ DOMAIN ps = 1..n
  BY VarsAreVectors
<1> HIDE DEF n, qs
<1>3. Permutes(f, n)
  <2>1. n \in Nat /\ key \in [1..n -> Nat] /\ Ordered(f, key, n)
    BY <1>1, <1>2
  <2> QED BY <2>1, OrderedIsPermutation
<1>4. DOMAIN qs = 1..n /\ \A i \in 1..n : qs[i] = ps[f[i]] /\ f[i] \in 1..n
  BY <1>1, <1>3 DEF Permutes
<1>5. HaveVars(qs) /\ Len(qs) = n
  <2>1. \A i \in 1..n : qs[i] \in ToSet(qs)
    BY <1>4 DEF ToSet
  <2>2. qs = [i \in 1..n |-> qs[i]]
    BY <1>1
  <2>3. qs \in Seq(ToSet(qs))
    BY <1>2, <2>1, <2>2
  <2>4. Len(qs) = n
    BY <1>2, <1>4, <2>3, LenProperties
  <2> QED BY <1>2, <1>4, <2>3, <2>4 DEF HaveVars
<1>6. VarsOf(qs) = VarsOf(ps)
  <2>1. /\ VarsOf(ps) = UNION {ToSet(ps[i].vars) : i \in 1..n}
        /\ VarsOf(qs) = UNION {ToSet(qs[i].vars) : i \in 1..n}
    BY <1>2, <1>4, <1>5, SearchedIs
  <2>2. \A i \in 1..n : ToSet(qs[i].vars) = ToSet(ps[f[i]].vars)
    BY <1>4
  <2>3. \A i \in 1..n : \E j \in 1..n : f[j] = i
    BY <1>3 DEF Permutes
  <2>4. \A i \in 1..n : \E j \in 1..n : ToSet(ps[i].vars) = ToSet(qs[j].vars)
    BY <2>2, <2>3
  <2>5. \A i \in 1..n : \E j \in 1..n : ToSet(qs[i].vars) = ToSet(ps[j].vars)
    BY <1>4, <2>2
  <2> QED BY <2>1, <2>4, <2>5
<1> QED BY <1>1, <1>3, <1>4, <1>5, <1>6 DEF n, qs

\* What is common of two patterns is in both, and so often there that
\* counting it in either gives the places of both.
LEMMA CountOfTwo ==
  ASSUME NEW p, NEW q, p.vars \in Seq(Vars), q.vars \in Seq(Vars),
         IsInjective(p.vars), IsInjective(q.vars)
  PROVE  CountCommons(p, <<p, q>>) = CountCommons(q, <<p, q>>)
<1> DEFINE ps == <<p, q>>
           s == Searched(ps)
           t == p.vars
           u == q.vars
           common == CommonVars(ps)
           B == {b \in DOMAIN s : s[b] \in common}
<1>1. HaveVars(ps)
  BY DEF HaveVars, ToSet
<1>2. s = t \o u
  <2>1. [i \in DOMAIN ps |-> ps[i].vars] = <<t, u>>
    OBVIOUS
  <2>2. s = FlattenSeq(<<t, u>>)
    BY <2>1 DEF Searched
  <2> HIDE DEF s, t, u
  <2> QED BY <2>2, FlattenPair DEF t, u
<1>3. t \in Seq(Vars) /\ u \in Seq(Vars) /\ IsInjective(t) /\ IsInjective(u)
  OBVIOUS
<1>4. \A v : v \in common <=> \E a, b \in DOMAIN s : a # b /\ s[a] = v /\ s[b] = v
  BY <1>1, CommonIs
<1> HIDE DEF ps, t, u, s
<1>5. /\ DOMAIN t = 1..Len(t) /\ DOMAIN u = 1..Len(u)
      /\ Len(t) \in Nat /\ Len(u) \in Nat
      /\ DOMAIN s = 1..Len(t) + Len(u)
      /\ \A a \in DOMAIN s : s[a] = IF a <= Len(t) THEN t[a] ELSE u[a - Len(t)]
  BY <1>2, <1>3, LenProperties, ConcatProperties
<1> HIDE DEF common
\* Each common variable is in t and in u.
<1>6. ASSUME NEW v \in common
      PROVE  (\E a \in DOMAIN t : t[a] = v) /\ (\E a \in DOMAIN u : u[a] = v)
  <2>1. PICK a \in DOMAIN s, b \in DOMAIN s : a # b /\ s[a] = v /\ s[b] = v
    BY <1>4
  <2>2. CASE a <= Len(t) /\ b <= Len(t)
    <3>1. a \in DOMAIN t /\ b \in DOMAIN t /\ t[a] = t[b]
      BY <1>5, <2>1, <2>2
    <3> QED BY <1>3, <2>1, <3>1 DEF IsInjective
  <2>3. CASE a > Len(t) /\ b > Len(t)
    <3> DEFINE c == a - Len(t)
               d == b - Len(t)
    <3>1. c \in DOMAIN u /\ d \in DOMAIN u /\ u[c] = u[d] /\ c # d
      BY <1>5, <2>1, <2>3
    <3> HIDE DEF c, d
    <3> QED BY <1>3, <3>1 DEF IsInjective
  <2>4. ASSUME NEW c \in DOMAIN s, NEW d \in DOMAIN s, s[c] = v, s[d] = v,
               c <= Len(t), d > Len(t)
        PROVE  (\E e \in DOMAIN t : t[e] = v) /\ (\E e \in DOMAIN u : u[e] = v)
    <3> DEFINE e == d - Len(t)
    <3>1. c \in DOMAIN t /\ t[c] = v /\ e \in DOMAIN u /\ u[e] = v
      BY <1>5, <2>4
    <3> HIDE DEF e
    <3> QED BY <3>1
  <2>5. \/ a <= Len(t) /\ b <= Len(t)
        \/ a > Len(t) /\ b > Len(t)
        \/ a <= Len(t) /\ b > Len(t)
        \/ b <= Len(t) /\ a > Len(t)
    BY <1>5
  <2> QED BY <2>1, <2>2, <2>3, <2>4, <2>5
<1>7. IsFiniteSet(B)
  <2>1. IsFiniteSet(DOMAIN s)
    BY <1>5, FS_Interval
  <2>2. B \in SUBSET DOMAIN s
    OBVIOUS
  <2> HIDE DEF B
  <2> QED BY <2>1, <2>2, FS_Subset
<1>8. ASSUME NEW w, IsInjective(w), \A v \in common : \E a \in DOMAIN w : w[a] = v
      PROVE  Cardinality({o \in (DOMAIN w) \X DOMAIN s : w[o[1]] \in common /\ s[o[2]] = w[o[1]]})
               = Cardinality(B)
  <2> DEFINE pairs == {o \in (DOMAIN w) \X DOMAIN s : w[o[1]] \in common /\ s[o[2]] = w[o[1]]}
             at(b) == CHOOSE a \in DOMAIN w : w[a] = s[b]
             g == [b \in B |-> <<at(b), b>>]
  <2>1. \A b \in B : at(b) \in DOMAIN w /\ w[at(b)] = s[b]
    BY <1>8
  <2> HIDE DEF at
  <2>2. g \in [B -> pairs]
    BY <2>1
  <2>3. \A b, c \in B : g[b] = g[c] => b = c
    OBVIOUS
  <2>4. ASSUME NEW o \in pairs PROVE \E b \in B : g[b] = o
    <3>1. o[2] \in B /\ o = <<o[1], o[2]>> /\ o[1] \in DOMAIN w /\ s[o[2]] = w[o[1]]
      OBVIOUS
    <3>2. at(o[2]) = o[1]
      BY <1>8, <2>1, <3>1 DEF IsInjective
    <3> QED BY <3>1, <3>2
  <2>5. g \in Bijection(B, pairs)
    <3> HIDE DEF g, B, pairs
    <3> QED BY <2>2, <2>3, <2>4 DEF Bijection, Injection, Surjection, IsInjective
  <2>6. ExistsBijection(B, pairs)
    BY <2>5 DEF ExistsBijection
  <2> HIDE DEF B, pairs
  <2>7. Cardinality(pairs) = Cardinality(B)
    BY <1>7, <2>6, FS_Bijection
  <2> QED BY <2>7 DEF pairs
<1>9. /\ CountCommons(p, ps) = Cardinality({o \in (DOMAIN t) \X DOMAIN s :
                                   t[o[1]] \in common /\ s[o[2]] = t[o[1]]})
      /\ CountCommons(q, ps) = Cardinality({o \in (DOMAIN u) \X DOMAIN s :
                                   u[o[1]] \in common /\ s[o[2]] = u[o[1]]})
  BY DEF CountCommons, t, u, s, common
<1>10. CountCommons(p, ps) = Cardinality(B) /\ CountCommons(q, ps) = Cardinality(B)
  <2> HIDE DEF B
  <2> QED BY <1>3, <1>6, <1>8, <1>9
<1> QED BY <1>10 DEF ps

\* Two patterns stay in order.
LEMMA TwoStay ==
  ASSUME NEW p, NEW q, p.vars \in Seq(Vars), q.vars \in Seq(Vars),
         IsInjective(p.vars), IsInjective(q.vars)
  PROVE  Sorted(<<p, q>>) = <<p, q>>
<1> DEFINE ps == <<p, q>>
<1>1. HaveVars(ps) /\ Len(ps) = 2 /\ ps[1] = p /\ ps[2] = q
  BY DEF HaveVars, ToSet
<1>2. CountCommons(ps[1], ps) = CountCommons(ps[2], ps)
  BY CountOfTwo
<1> HIDE DEF ps
<1>3. PICK f, key : /\ key = [i \in 1..2 |-> CountCommons(ps[i], ps)]
                    /\ key \in [1..2 -> Nat] /\ Ordered(f, key, 2)
                    /\ Sorted(ps) = [i \in 1..2 |-> ps[f[i]]]
  <2>1. \E f, key : Sorts(f, key, ps)
    BY <1>1, SortedIs
  <2> QED BY <1>1, <2>1 DEF Sorts
<1>4. f[1] = 1 /\ f[2] = 2
  <2>1. 1 \in 1..2 /\ 2 \in 1..2 /\ f \in [1..2 -> 1..2] /\ KeyBefore(key, f[1], f[2])
    BY <1>3 DEF Ordered
  <2>2. \A i, j \in 1..2 : key[i] = key[j] /\ key[i] \in Nat
    BY <1>2, <1>3
  <2>3. f[1] < f[2]
    BY <2>1, <2>2 DEF KeyBefore
  <2> QED BY <2>1, <2>3
<1>5. Sorted(ps) = [i \in 1..2 |-> ps[i]]
  BY <1>3, <1>4
<1> QED BY <1>1, <1>5 DEF ps

(***************************************************************************)
(* The join.  V[i] are the variables that the substitutions S[i] bind.     *)
(***************************************************************************)
Limits(common) == [common -> Classes \cup {NoId}]

\* A substitution is within limits when it has the class they name.
LEMMA WithinIs ==
  ASSUME NEW V, NEW t \in Substs(V), NEW common, NEW limits \in Limits(common)
  PROVE  Within(limits, KeyOf(t, common)) <=>
           \A v \in common \cap V : limits[v] # NoId => t[v] = limits[v]
<1>1. DOMAIN t = V /\ \A v \in V : t[v] \in Classes /\ t[v] # NoId
  BY SearchersAssumption DEF Substs
<1>2. DOMAIN KeyOf(t, common) = common
  BY DEF KeyOf
<1>3. \A v \in common : KeyOf(t, common)[v] = IF v \in V THEN t[v] ELSE NoId
  BY <1>1 DEF KeyOf
<1> QED BY <1>1, <1>2, <1>3 DEF Within

\* The limits that are handed on: those there were, and what t binds.
LEMMA NewLimitIs ==
  ASSUME NEW V, NEW t \in Substs(V), NEW common, NEW limits \in Limits(common)
  PROVE  /\ NewLimit(limits, KeyOf(t, common)) \in Limits(common)
         /\ \A v \in common :
              NewLimit(limits, KeyOf(t, common))[v] =
                IF limits[v] # NoId THEN limits[v] ELSE IF v \in V THEN t[v] ELSE NoId
<1>1. DOMAIN t = V /\ \A v \in V : t[v] \in Classes
  BY DEF Substs
<1>2. DOMAIN KeyOf(t, common) = common
  BY DEF KeyOf
<1>3. \A v \in common : KeyOf(t, common)[v] = IF v \in V THEN t[v] ELSE NoId
  BY <1>1 DEF KeyOf
<1>4. \A v \in common : limits[v] \in Classes \cup {NoId}
  BY DEF Limits
<1> DEFINE new(v) == IF limits[v] # NoId THEN limits[v] ELSE KeyOf(t, common)[v]
<1>5. NewLimit(limits, KeyOf(t, common)) = [v \in common |-> new(v)]
  BY <1>2 DEF NewLimit
<1>6. \A v \in common : new(v) \in Classes \cup {NoId}
  BY <1>1, <1>3, <1>4
<1>7. \A v \in common :
        new(v) = IF limits[v] # NoId THEN limits[v] ELSE IF v \in V THEN t[v] ELSE NoId
  BY <1>3
<1> HIDE DEF new
<1> QED BY <1>5, <1>6, <1>7 DEF Limits

\* Substitutions that agree are merged to one that extends both.
LEMMA MergedIs ==
  ASSUME NEW V \in SUBSET Vars, NEW W \in SUBSET Vars,
         NEW r \in Substs(W), NEW t \in Substs(V),
         \A v \in W \cap V : r[v] = t[v]
  PROVE  /\ MergeSubsts(r, t) \in Substs(W \cup V)
         /\ \A v \in W : MergeSubsts(r, t)[v] = r[v]
         /\ \A v \in V : MergeSubsts(r, t)[v] = t[v]
<1>1. DOMAIN r = W /\ DOMAIN t = V
  BY DEF Substs
<1>2. r \notin Panics /\ t \notin Panics
  BY SearchersAssumption
<1> DEFINE m == [v \in W \cup V |-> IF v \in W THEN r[v] ELSE t[v]]
<1>3. MergeSubsts(r, t) = m
  BY <1>1, <1>2 DEF MergeSubsts
<1>4. m \in Substs(W \cup V)
  BY DEF Substs
<1>5. (\A v \in W : m[v] = r[v]) /\ \A v \in V : m[v] = t[v]
  OBVIOUS
<1> HIDE DEF m
<1> QED BY <1>3, <1>4, <1>5

\* What aggregate_substs makes of the groups of S by the keys that are within
\* limits, at the end and before it, where R has what comes of the other groups.
InKeys(S, common, limits, groups, keys) ==
  groups = GroupByCommonVars(S, common) /\ keys = {k \in DOMAIN groups : Within(limits, k)}
SubstsIn(groups, keys) == UNION {groups[k] : k \in keys}
ProductsIn(groups, keys, limits, R) ==
  UNION {{MergeSubsts(rest, s) : rest \in R[NewLimit(limits, k)], s \in groups[k]} : k \in keys}

\* The groups of S that are within limits have what of S is within limits.
LEMMA GroupsWithin ==
  ASSUME NEW S, NEW common, NEW limits, NEW R, NEW groups, NEW keys,
         InKeys(S, common, limits, groups, keys), NEW x
  PROVE  /\ x \in SubstsIn(groups, keys) <=> x \in S /\ Within(limits, KeyOf(x, common))
         /\ x \in ProductsIn(groups, keys, limits, R)
              <=> \E s \in S : /\ Within(limits, KeyOf(s, common))
                               /\ \E r \in R[NewLimit(limits, KeyOf(s, common))] :
                                    x = MergeSubsts(r, s)
<1>1. DOMAIN groups = {KeyOf(s, common) : s \in S}
  BY DEF GroupByCommonVars, InKeys
<1>2. \A k \in DOMAIN groups : groups[k] = {s \in S : KeyOf(s, common) = k}
  BY DEF GroupByCommonVars, InKeys
<1>3. ASSUME NEW s PROVE s \in S /\ Within(limits, KeyOf(s, common)) <=>
                         \E k \in keys : s \in groups[k]
  BY <1>1, <1>2 DEF InKeys
<1>4. \A k \in keys : \A s \in groups[k] : KeyOf(s, common) = k
  BY <1>2 DEF InKeys
<1>5. x \in ProductsIn(groups, keys, limits, R)
        <=> \E k \in keys : \E r \in R[NewLimit(limits, k)], s \in groups[k] :
              x = MergeSubsts(r, s)
  BY DEF ProductsIn
<1>6. (\E k \in keys : \E r \in R[NewLimit(limits, k)], s \in groups[k] :
         x = MergeSubsts(r, s))
        <=> \E s \in S : /\ Within(limits, KeyOf(s, common))
                         /\ \E r \in R[NewLimit(limits, KeyOf(s, common))] :
                              x = MergeSubsts(r, s)
  BY <1>3, <1>4
<1>7. x \in SubstsIn(groups, keys) <=> x \in S /\ Within(limits, KeyOf(x, common))
  BY <1>3 DEF SubstsIn
<1> QED BY <1>5, <1>6, <1>7

Joinable(n, V, S, common) ==
  /\ n \in Nat \ {0} /\ V \in [1..n -> SUBSET Vars]
  /\ \A i \in 1..n : S[i] \subseteq Substs(V[i])
  /\ \A i, j \in 1..n : i # j => V[i] \cap V[j] \subseteq common
AllVars(n, V, i) == UNION {V[j] : j \in i..n}
\* The substitutions of the variables from the i-th group on, within limits.
Join(n, V, S, common, i, limits) ==
  {s \in Substs(AllVars(n, V, i)) :
     /\ \A j \in i..n : Restrict(s, V[j]) \in S[j]
     /\ \A v \in common \cap AllVars(n, V, i) : limits[v] # NoId => s[v] = limits[v]}

\* The last group joins what is within limits.
LEMMA JoinOfLast ==
  ASSUME NEW n, NEW V, NEW S, NEW common, Joinable(n, V, S, common),
         NEW limits \in Limits(common)
  PROVE  Join(n, V, S, common, n, limits) = {s \in S[n] : Within(limits, KeyOf(s, common))}
<1>1. n \in 1..n /\ AllVars(n, V, n) = V[n] /\ n..n = {n}
  BY DEF Joinable, AllVars
<1>2. S[n] \subseteq Substs(V[n])
  BY <1>1 DEF Joinable
<1>3. ASSUME NEW s \in Substs(V[n])
      PROVE  /\ Restrict(s, V[n]) = s
             /\ Within(limits, KeyOf(s, common)) <=>
                  \A v \in common \cap V[n] : limits[v] # NoId => s[v] = limits[v]
  BY WithinIs DEF Substs, Restrict
<1> QED BY <1>1, <1>2, <1>3 DEF Join

\* A group before the last joins, with each substitution within limits, what
\* the others join within the limits that are handed on.
LEMMA JoinStep ==
  ASSUME NEW n, NEW V, NEW S, NEW common, Joinable(n, V, S, common),
         NEW limits \in Limits(common), NEW i \in 1..n, i # n, NEW x
  PROVE  x \in Join(n, V, S, common, i, limits) <=>
           \E t \in S[i] :
             /\ Within(limits, KeyOf(t, common))
             /\ \E r \in Join(n, V, S, common, i + 1, NewLimit(limits, KeyOf(t, common))) :
                  x = MergeSubsts(r, t)
<1> DEFINE W == AllVars(n, V, i + 1)
           U == AllVars(n, V, i)
           new(t) == NewLimit(limits, KeyOf(t, common))
<1>1. /\ n \in Nat /\ i + 1 \in 1..n /\ i \notin i + 1..n
      /\ i..n = {i} \cup (i + 1..n) /\ i + 1..n \subseteq 1..n
  BY DEF Joinable
<1>2. U = W \cup V[i]
  BY <1>1 DEF AllVars
<1>3. V[i] \in SUBSET Vars /\ W \in SUBSET Vars /\ \A j \in i + 1..n : V[j] \subseteq W
  BY <1>1 DEF AllVars, Joinable
<1>4. V[i] \cap W \subseteq common
  <2> SUFFICES ASSUME NEW v \in V[i] \cap W PROVE v \in common
    OBVIOUS
  <2>1. PICK j \in i + 1..n : v \in V[j]
    BY DEF AllVars
  <2>2. j \in 1..n /\ i # j
    BY <1>1
  <2> QED BY <2>1, <2>2 DEF Joinable
<1>5. ASSUME NEW t \in S[i]
      PROVE  /\ t \in Substs(V[i]) /\ new(t) \in Limits(common)
             /\ \A v \in common :
                  new(t)[v] = IF limits[v] # NoId THEN limits[v]
                              ELSE IF v \in V[i] THEN t[v] ELSE NoId
             /\ Within(limits, KeyOf(t, common)) <=>
                  \A v \in common \cap V[i] : limits[v] # NoId => t[v] = limits[v]
             /\ \A v \in V[i] : t[v] \in Classes /\ t[v] # NoId
  <2>1. t \in Substs(V[i])
    BY DEF Joinable
  <2>2. \A v \in V[i] : t[v] \in Classes /\ t[v] # NoId
    BY <2>1, SearchersAssumption DEF Substs
  <2> QED BY <2>1, <2>2, NewLimitIs, WithinIs
<1>6. ASSUME NEW t \in S[i], Within(limits, KeyOf(t, common)),
             NEW r \in Join(n, V, S, common, i + 1, new(t))
      PROVE  MergeSubsts(r, t) \in Join(n, V, S, common, i, limits)
  <2> DEFINE m == MergeSubsts(r, t)
  <2>1. /\ r \in Substs(W)
        /\ \A j \in i + 1..n : Restrict(r, V[j]) \in S[j]
        /\ \A v \in common \cap W : new(t)[v] # NoId => r[v] = new(t)[v]
    BY <1>6 DEF Join
  <2>2. \A v \in W \cap V[i] : r[v] = t[v]
    BY <1>4, <1>5, <1>6, <2>1
  <2>3. m \in Substs(U) /\ (\A v \in W : m[v] = r[v]) /\ \A v \in V[i] : m[v] = t[v]
    <3> HIDE DEF W, U
    <3>1. V[i] \in SUBSET Vars /\ W \in SUBSET Vars /\ r \in Substs(W) /\ t \in Substs(V[i])
      BY <1>3, <1>5, <2>1
    <3>2. m \in Substs(W \cup V[i]) /\ (\A v \in W : m[v] = r[v]) /\ \A v \in V[i] : m[v] = t[v]
      BY <2>2, <3>1, MergedIs
    <3> QED BY <1>2, <3>2
  <2> HIDE DEF m, W, U, new
  <2>4. Restrict(m, V[i]) \in S[i]
    <3>1. Restrict(m, V[i]) = t
      BY <1>5, <2>3 DEF Substs, Restrict
    <3> QED BY <3>1
  <2>5. ASSUME NEW j \in i + 1..n PROVE Restrict(m, V[j]) \in S[j]
    <3>1. Restrict(m, V[j]) = Restrict(r, V[j])
      BY <1>3, <2>3 DEF Restrict
    <3> QED BY <2>1, <3>1
  <2>6. \A v \in common \cap U : limits[v] # NoId => m[v] = limits[v]
    BY <1>2, <1>5, <1>6, <2>1, <2>3
  <2>7. \A j \in i..n : Restrict(m, V[j]) \in S[j]
    BY <1>1, <2>4, <2>5
  <2> QED BY <2>3, <2>6, <2>7 DEF Join, U, m
<1>7. ASSUME x \in Join(n, V, S, common, i, limits)
      PROVE  \E t \in S[i] :
               /\ Within(limits, KeyOf(t, common))
               /\ \E r \in Join(n, V, S, common, i + 1, new(t)) : x = MergeSubsts(r, t)
  <2> DEFINE t == Restrict(x, V[i])
             r == Restrict(x, W)
             m == MergeSubsts(r, t)
  <2>1. /\ x \in Substs(U)
        /\ \A j \in i..n : Restrict(x, V[j]) \in S[j]
        /\ \A v \in common \cap U : limits[v] # NoId => x[v] = limits[v]
    BY <1>7 DEF Join
  <2>2. t \in S[i] /\ \A v \in V[i] : t[v] = x[v]
    BY <1>1, <2>1 DEF Restrict
  <2>3. r \in Substs(W) /\ \A v \in W : r[v] = x[v]
    <3> HIDE DEF W, U
    <3> QED BY <1>2, <2>1 DEF Substs, Restrict
  <2>4. Within(limits, KeyOf(t, common))
    <3> HIDE DEF U, t
    <3> QED BY <1>2, <1>5, <2>1, <2>2
  <2>5. r \in Join(n, V, S, common, i + 1, new(t))
    <3>1. ASSUME NEW j \in i + 1..n PROVE Restrict(r, V[j]) \in S[j]
      <4>1. Restrict(r, V[j]) = Restrict(x, V[j])
        <5> HIDE DEF W, r
        <5> QED BY <1>3, <2>3 DEF Restrict
      <4> QED BY <1>1, <2>1, <4>1
    <3>2. ASSUME NEW v \in common \cap W, new(t)[v] # NoId PROVE r[v] = new(t)[v]
      <4> HIDE DEF t, r, W, U, new
      <4> QED BY <1>2, <1>5, <2>1, <2>2, <2>3, <3>2
    <3> HIDE DEF t, r, new
    <3> QED BY <2>3, <3>1, <3>2 DEF Join
  <2>6. m = x
    <3> HIDE DEF t, r
    <3>1. \A v \in W \cap V[i] : r[v] = t[v]
      BY <2>2, <2>3
    <3>2. m \in Substs(W \cup V[i]) /\ (\A v \in W : m[v] = r[v]) /\ \A v \in V[i] : m[v] = t[v]
      <4> HIDE DEF W
      <4>1. V[i] \in SUBSET Vars /\ W \in SUBSET Vars /\ r \in Substs(W) /\ t \in Substs(V[i])
        BY <1>3, <1>5, <2>2, <2>3
      <4> QED BY <3>1, <4>1, MergedIs
    <3> HIDE DEF m, W, U
    <3> QED BY <1>2, <2>1, <2>2, <2>3, <3>2 DEF Substs
  <2> HIDE DEF t, r, new
  <2> QED BY <2>2, <2>4, <2>5, <2>6
<1> QED BY <1>6, <1>7

\* The product of the groups is the join: the substitutions of all variables
\* that restrict to one of each.
LEMMA AggregateIs ==
  ASSUME NEW n, NEW V, NEW S, NEW common, Joinable(n, V, S, common)
  PROVE  AggregateSubsts([i \in 1..n |-> GroupByCommonVars(S[i], common)], common) =
           {s \in Substs(UNION {V[j] : j \in 1..n}) : \A i \in 1..n : Restrict(s, V[i]) \in S[i]}
<1> DEFINE groups == [i \in 1..n |-> GroupByCommonVars(S[i], common)]
           L == Limits(common)
           keys(i, limits) == {k \in DOMAIN groups[i] : Within(limits, k)}
           Step(f, i, limits) ==
             IF i = Len(groups) THEN SubstsIn(groups[i], keys(i, limits))
             ELSE ProductsIn(groups[i], keys(i, limits), limits, f[i + 1])
           Is(f) == f = [i \in DOMAIN groups |-> [limits \in L |-> Step(f, i, limits)]]
           agg == CHOOSE f : Is(f)
           join(i, limits) == Join(n, V, S, common, i, limits)
           all == [i \in 1..n |-> [limits \in L |-> join(i, limits)]]
           none == [v \in common |-> NoId]
<1>1. AggregateSubsts(groups, common) = agg[1][none]
  BY DEF AggregateSubsts, Limits, SubstsIn, ProductsIn
<1>2. n \in Nat /\ n \in 1..n /\ 1 \in 1..n
  BY DEF Joinable
<1>3. /\ DOMAIN groups = 1..n /\ Len(groups) = n
      /\ \A i \in 1..n : groups[i] = GroupByCommonVars(S[i], common)
  BY <1>2
<1> HIDE DEF groups
<1>4. ASSUME NEW f, NEW i \in 1..n, NEW limits \in L,
             i # n => \A l \in L : f[i + 1][l] = join(i + 1, l)
      PROVE  Step(f, i, limits) = join(i, limits)
  <2> DEFINE G == groups[i]
             K == keys(i, limits)
             R == f[i + 1]
  <2>1. InKeys(S[i], common, limits, G, K)
    BY <1>3 DEF InKeys
  <2> HIDE DEF keys, join
  <2>2. CASE i = n
    <3>1. Step(f, i, limits) = SubstsIn(G, K)
      BY <1>3, <2>2
    <3> HIDE DEF G, K, Step
    <3>2. \A x : x \in SubstsIn(G, K) <=> x \in S[i] /\ Within(limits, KeyOf(x, common))
      BY <2>1, GroupsWithin
    <3>3. join(n, limits) = {s \in S[n] : Within(limits, KeyOf(s, common))}
      BY JoinOfLast DEF join
    <3> QED BY <2>2, <3>1, <3>2, <3>3
  <2>3. CASE i # n
    <3>1. Step(f, i, limits) = ProductsIn(G, K, limits, R)
      BY <1>3, <2>3
    <3>2. \A l \in L : R[l] = join(i + 1, l)
      BY <1>4, <2>3
    <3> HIDE DEF G, K, R, Step
    <3>3. ASSUME NEW x PROVE x \in Step(f, i, limits) <=> x \in join(i, limits)
      <4>1. x \in Step(f, i, limits)
              <=> \E t \in S[i] : /\ Within(limits, KeyOf(t, common))
                                  /\ \E r \in R[NewLimit(limits, KeyOf(t, common))] :
                                       x = MergeSubsts(r, t)
        BY <2>1, <3>1, GroupsWithin
      <4>2. \A t \in S[i] : R[NewLimit(limits, KeyOf(t, common))]
                              = join(i + 1, NewLimit(limits, KeyOf(t, common)))
        <5> SUFFICES ASSUME NEW t \in S[i]
                     PROVE  NewLimit(limits, KeyOf(t, common)) \in L
          BY <3>2
        <5>1. t \in Substs(V[i])
          BY DEF Joinable
        <5> QED BY <5>1, NewLimitIs
      <4>3. x \in join(i, limits)
              <=> \E t \in S[i] : /\ Within(limits, KeyOf(t, common))
                                  /\ \E r \in join(i + 1, NewLimit(limits, KeyOf(t, common))) :
                                       x = MergeSubsts(r, t)
        BY <2>3, JoinStep DEF join
      <4> QED BY <4>1, <4>2, <4>3
    <3> QED BY <3>3
  <2> QED BY <2>2, <2>3
<1> HIDE DEF Step, L, join
<1>5. Is(all)
  <2>1. \A i \in 1..n : \A l \in L : all[i][l] = join(i, l)
    OBVIOUS
  <2> HIDE DEF all
  <2>2. ASSUME NEW i \in 1..n, NEW limits \in L PROVE Step(all, i, limits) = join(i, limits)
    <3>1. i # n => i + 1 \in 1..n
      BY <1>2
    <3> QED BY <1>4, <2>1, <3>1
  <2> QED BY <1>3, <2>2 DEF all
<1>6. Is(agg)
  <2> HIDE DEF Is, all
  <2> QED BY <1>5
<1>7. \A i \in 1..n : \A l \in L : agg[i][l] = Step(agg, i, l)
  <2> HIDE DEF agg
  <2> DEFINE g == [i \in 1..n |-> [l \in L |-> Step(agg, i, l)]]
  <2>1. agg = g
    BY <1>3, <1>6
  <2>2. \A i \in 1..n : \A l \in L : g[i][l] = Step(agg, i, l)
    OBVIOUS
  <2> HIDE DEF g
  <2> QED BY <2>1, <2>2
<1> HIDE DEF agg, all
<1> DEFINE Right(i) == \A l \in L : agg[i][l] = join(i, l)
           wrong == {k \in Nat : n - k \in 1..n /\ ~Right(n - k)}
<1>8. ASSUME wrong # {} PROVE FALSE
  <2>1. PICK k \in wrong : \A y \in wrong : k <= y
    <3>1. wrong \in SUBSET Nat
      OBVIOUS
    <3> HIDE DEF wrong
    <3> QED BY <1>8, <3>1, LeastNat
  <2> DEFINE i == n - k
  <2>2. i \in 1..n /\ ~Right(i) /\ k \in Nat
    OBVIOUS
  <2>3. i # n => i + 1 \in 1..n /\ Right(i + 1)
    <3> SUFFICES ASSUME i # n PROVE i + 1 \in 1..n /\ Right(i + 1)
      OBVIOUS
    <3>1. k - 1 \in Nat /\ k - 1 \notin wrong /\ n - (k - 1) = i + 1 /\ i + 1 \in 1..n
      <4>1. k - 1 \in Nat /\ n - (k - 1) = i + 1 /\ i + 1 \in 1..n /\ ~(k <= k - 1)
        BY <1>2, <2>2
      <4> HIDE DEF wrong
      <4> QED BY <2>1, <4>1
    <3> HIDE DEF Right, i
    <3> QED BY <3>1
  <2> HIDE DEF i
  <2>4. \A l \in L : Step(agg, i, l) = join(i, l)
    BY <1>4, <2>2, <2>3
  <2> QED BY <1>7, <2>2, <2>4
<1>9. Right(1)
  <2>1. n - 1 \in Nat /\ n - (n - 1) = 1
    BY <1>2
  <2> HIDE DEF Right
  <2> QED BY <1>2, <1>8, <2>1
<1>10. none \in L
  BY DEF L, Limits
<1>11. agg[1][none] = join(1, none)
  BY <1>9, <1>10
<1>12. join(1, none) =
         {s \in Substs(UNION {V[j] : j \in 1..n}) : \A i \in 1..n : Restrict(s, V[i]) \in S[i]}
  <2>1. \A v \in common : none[v] = NoId
    OBVIOUS
  <2> HIDE DEF none
  <2> QED BY <2>1 DEF join, Join, AllVars
<1> QED BY <1>1, <1>11, <1>12 DEF groups

(***************************************************************************)
(* The searchers of several patterns.  Found is what a pattern or a        *)
(* searcher made of patterns finds.                                        *)
(***************************************************************************)
Finds(p) ==
  /\ p.vars \in Seq(Vars)
  /\ DOMAIN p.at \subseteq Classes
  /\ \A c \in DOMAIN p.at : p.at[c] # {} /\ p.at[c] \subseteq Substs(ToSet(p.vars))
Searching(ps) ==
  ps \in Seq(ToSet(ps)) /\ Len(ps) # 0 /\ \A i \in DOMAIN ps : Finds(ps[i])

\* Found has what it is made of.
LEMMA FoundIs ==
  ASSUME NEW vs, NEW at
  PROVE  /\ Found(vs, at).vars = vs
         /\ DOMAIN Found(vs, at).at = {c \in DOMAIN at : at[c] # {}}
         /\ \A c \in DOMAIN Found(vs, at).at : Found(vs, at).at[c] = at[c]
         /\ \A c : At(Found(vs, at), c) = IF c \in DOMAIN at THEN at[c] ELSE {}
<1> DEFINE D == {c \in DOMAIN at : at[c] # {}}
<1>1. Found(vs, at) = [vars |-> vs, at |-> [c \in D |-> at[c]]]
  BY DEF Found, RestrictDomain, Restrict
<1> DEFINE g == [c \in D |-> at[c]]
<1>2. DOMAIN g = D /\ \A c \in D : g[c] = at[c]
  OBVIOUS
<1>3. Found(vs, at).vars = vs /\ Found(vs, at).at = g
  BY <1>1
<1> HIDE DEF g
<1>4. ASSUME NEW c PROVE At(Found(vs, at), c) = IF c \in DOMAIN at THEN at[c] ELSE {}
  BY <1>2, <1>3 DEF At
<1> QED BY <1>2, <1>3, <1>4

\* All that a searcher finds, it finds in some class.
LEMMA AllMatchesIs ==
  ASSUME NEW p, Finds(p)
  PROVE  /\ AllMatches(p) \subseteq Substs(ToSet(p.vars))
         /\ \A s : s \in AllMatches(p) <=> \E c \in Classes : s \in At(p, c)
BY DEF AllMatches, At, Finds

\* Of what is found, the searchers made of patterns use the variables.
LEMMA SearchingIs ==
  ASSUME NEW ps, Searching(ps)
  PROVE  HaveVars(ps) /\ Len(ps) \in Nat \ {0} /\ DOMAIN ps = 1..Len(ps)
<1>1. HaveVars(ps)
  BY DEF Searching, HaveVars, Finds
<1> QED BY <1>1, VarsAreVectors DEF Searching

\* A vector of the elements of a finite set has each of them once.
LEMMA SetToSeqIs ==
  ASSUME NEW S, IsFiniteSet(S)
  PROVE  SetToSeq(S) \in Seq(S) /\ ToSet(SetToSeq(S)) = S /\ IsInjective(SetToSeq(S))
<1> DEFINE n == Cardinality(S)
           f == SetToSeq(S)
<1>1. n \in Nat /\ ExistsBijection(1..n, S)
  BY FS_CardinalityType
<1> HIDE DEF n
<1>2. \E g \in [1..n -> S] : IsInjective(g)
  BY <1>1 DEF ExistsBijection, Bijection, Injection
<1>3. f \in [1..n -> S] /\ IsInjective(f)
  BY <1>2 DEF SetToSeq, n
<1>4. f \in Surjection(1..n, S)
  <2>1. f \in Injection(1..n, S)
    BY <1>3 DEF Injection
  <2>2. Cardinality(1..n) = n
    BY <1>1, FS_Interval
  <2> HIDE DEF f
  <2> QED BY <2>1, <2>2, FS_Injection DEF n
<1> HIDE DEF f
<1>5. ToSet(f) = S
  BY <1>3, <1>4 DEF Surjection, ToSet
<1>6. f \in Seq(S)
  BY <1>1, <1>3
<1> QED BY <1>3, <1>5, <1>6 DEF f

GroupsOf(n, S, common) == [i \in 1..n |-> GroupByCommonVars(S[i], common)]

\* What the variables and the matches of patterns are to the join.
LEMMA PatternsJoin ==
  ASSUME NEW ps, HaveVars(ps), NEW n, n = Len(ps), n # 0,
         NEW f, Permutes(f, n), NEW S, \A i \in 1..n : S[i] \subseteq Substs(ToSet(ps[f[i]].vars)),
         NEW s
  PROVE  s \in AggregateSubsts(GroupsOf(n, S, CommonVars(ps)), CommonVars(ps)) <=>
           /\ s \in Substs(VarsOf(ps))
           /\ \A i \in 1..n : Restrict(s, ToSet(ps[f[i]].vars)) \in S[i]
<1> DEFINE V == [i \in 1..n |-> ToSet(ps[f[i]].vars)]
           common == CommonVars(ps)
<1>1. n \in Nat \ {0} /\ DOMAIN ps = 1..n
  BY VarsAreVectors
<1>2. \A i \in 1..n : f[i] \in 1..n /\ \A j \in 1..n : i # j => f[i] # f[j]
  BY DEF Permutes
<1>3. /\ VarsOf(ps) = UNION {ToSet(ps[i].vars) : i \in 1..n}
      /\ VarsOf(ps) \subseteq Vars
      /\ \A i, j \in 1..n :
           i # j => ToSet(ps[i].vars) \cap ToSet(ps[j].vars) \subseteq common
  BY <1>1, SearchedIs
<1>4. \A i \in 1..n : V[i] = ToSet(ps[f[i]].vars)
  OBVIOUS
<1>5. V \in [1..n -> SUBSET Vars]
  BY <1>2, <1>3
<1> HIDE DEF V, common
<1>6. Joinable(n, V, S, common)
  <2>1. \A i \in 1..n : S[i] \subseteq Substs(V[i])
    BY <1>4
  <2>2. ASSUME NEW i \in 1..n, NEW j \in 1..n, i # j PROVE V[i] \cap V[j] \subseteq common
    BY <1>2, <1>3, <1>4, <2>2
  <2> QED BY <1>1, <1>5, <2>1, <2>2 DEF Joinable
<1>7. UNION {V[j] : j \in 1..n} = VarsOf(ps)
  <2>1. \A j \in 1..n : \E i \in 1..n : f[i] = j
    BY DEF Permutes
  <2>2. ASSUME NEW v PROVE (\E j \in 1..n : v \in V[j]) <=> v \in VarsOf(ps)
    <3>1. v \in VarsOf(ps) <=> \E i \in 1..n : v \in ToSet(ps[i].vars)
      BY <1>3
    <3>2. ASSUME NEW j \in 1..n, v \in V[j] PROVE v \in VarsOf(ps)
      BY <1>2, <1>4, <3>1, <3>2
    <3>3. ASSUME NEW i \in 1..n, v \in ToSet(ps[i].vars) PROVE \E j \in 1..n : v \in V[j]
      <4>1. PICK j \in 1..n : f[j] = i
        BY <2>1
      <4>2. V[j] = ToSet(ps[i].vars)
        BY <1>4, <4>1
      <4> QED BY <3>3, <4>2
    <3> QED BY <3>1, <3>2, <3>3
  <2> QED BY <2>2
<1>8. AggregateSubsts(GroupsOf(n, S, common), common)
        = {t \in Substs(VarsOf(ps)) : \A i \in 1..n : Restrict(t, V[i]) \in S[i]}
  BY <1>6, <1>7, AggregateIs DEF GroupsOf
<1> QED BY <1>4, <1>8 DEF common

\* MultiEq finds, in each class, the substitutions under which all patterns
\* match there.
LEMMA MultiEqIs ==
  ASSUME NEW ps, Searching(ps)
  PROVE  /\ Finds(MultiEq(ps)) /\ ToSet(MultiEq(ps).vars) = VarsOf(ps)
         /\ MultiEq(ps).vars = Searched(Sorted(ps))
         /\ \A c \in Classes : \A s :
              s \in At(MultiEq(ps), c) <=>
                /\ s \in Substs(VarsOf(ps))
                /\ \A i \in DOMAIN ps : Restrict(s, ToSet(ps[i].vars)) \in At(ps[i], c)
<1> DEFINE n == Len(ps)
           qs == Sorted(ps)
           common == CommonVars(qs)
           ids == {c \in Classes : \A i \in DOMAIN qs : c \in DOMAIN qs[i].at}
           Groups(c) == [i \in DOMAIN qs |-> GroupByCommonVars(qs[i].at[c], common)]
           at == [c \in ids |-> AggregateSubsts(Groups(c), common)]
<1>1. HaveVars(ps) /\ n \in Nat \ {0} /\ DOMAIN ps = 1..n
  BY SearchingIs
<1>2. MultiEq(ps) = Found(Searched(qs), at)
  BY DEF MultiEq
<1> HIDE DEF n, qs
<1>3. PICK f : /\ Permutes(f, n) /\ qs = [i \in 1..n |-> ps[f[i]]]
               /\ HaveVars(qs) /\ Len(qs) = n /\ DOMAIN qs = 1..n
               /\ VarsOf(qs) = VarsOf(ps)
  BY <1>1, SortedPatterns DEF n, qs
<1>4. /\ \A i \in 1..n : qs[i] = ps[f[i]] /\ f[i] \in 1..n
      /\ \A k \in 1..n : \E i \in 1..n : f[i] = k
  BY <1>3 DEF Permutes
<1>5. \A i \in 1..n : Finds(ps[i]) /\ Finds(qs[i])
  BY <1>1, <1>4 DEF Searching
<1>6. ASSUME NEW c \in ids
      PROVE  at[c] = {s \in Substs(VarsOf(ps)) :
                        \A i \in 1..n : Restrict(s, ToSet(qs[i].vars)) \in qs[i].at[c]}
  <2> DEFINE S == [i \in 1..n |-> qs[i].at[c]]
             id == [i \in 1..n |-> i]
  <2>1. \A i \in 1..n : S[i] = qs[i].at[c] /\ id[i] = i
    OBVIOUS
  <2>2. \A i \in 1..n : S[i] \subseteq Substs(ToSet(qs[id[i]].vars))
    BY <1>3, <1>5, <2>1 DEF Finds
  <2>3. Permutes(id, n)
    BY DEF Permutes
  <2>4. at[c] = AggregateSubsts(GroupsOf(n, S, common), common)
    BY <1>3 DEF GroupsOf
  <2> HIDE DEF S, id, at, common
  <2>5. \A s : s \in AggregateSubsts(GroupsOf(n, S, common), common) <=>
                /\ s \in Substs(VarsOf(qs))
                /\ \A i \in 1..n : Restrict(s, ToSet(qs[id[i]].vars)) \in S[i]
    <3>1. HaveVars(qs) /\ n = Len(qs) /\ n # 0
      BY <1>1, <1>3
    <3> QED BY <2>2, <2>3, <3>1, PatternsJoin DEF common
  <2>6. \A s : s \in at[c] <=>
          /\ s \in Substs(VarsOf(ps))
          /\ \A i \in 1..n : Restrict(s, ToSet(qs[i].vars)) \in qs[i].at[c]
    BY <1>3, <2>1, <2>4, <2>5
  <2> QED BY <2>6
<1> HIDE DEF at
<1>7. DOMAIN at = ids /\ ids \subseteq Classes
  BY DEF at
<1>8. ASSUME NEW c \in Classes, NEW s
      PROVE  s \in At(MultiEq(ps), c) <=>
               /\ s \in Substs(VarsOf(ps))
               /\ \A i \in DOMAIN ps : Restrict(s, ToSet(ps[i].vars)) \in At(ps[i], c)
  <2>1. At(MultiEq(ps), c) = IF c \in ids THEN at[c] ELSE {}
    BY <1>2, <1>7, FoundIs
  <2>2. CASE c \in ids
    <3>1. \A i \in 1..n : At(qs[i], c) = qs[i].at[c]
      BY <1>3, <2>2 DEF At
    <3>2. s \in At(MultiEq(ps), c) <=>
            /\ s \in Substs(VarsOf(ps))
            /\ \A i \in 1..n : Restrict(s, ToSet(qs[i].vars)) \in At(qs[i], c)
      BY <1>6, <2>1, <2>2, <3>1
    <3>3. \A i \in 1..n : \E j \in 1..n : ps[i] = qs[j]
      BY <1>4
    <3>4. \A j \in 1..n : \E i \in 1..n : qs[j] = ps[i]
      BY <1>4
    <3>5. (\A i \in 1..n : Restrict(s, ToSet(qs[i].vars)) \in At(qs[i], c)) <=>
            \A i \in 1..n : Restrict(s, ToSet(ps[i].vars)) \in At(ps[i], c)
      BY <3>3, <3>4
    <3> QED BY <1>1, <3>2, <3>5
  <2>3. CASE c \notin ids
    <3>1. PICK i \in 1..n : c \notin DOMAIN qs[i].at
      BY <1>3, <2>3
    <3>2. At(ps[f[i]], c) = {} /\ f[i] \in DOMAIN ps
      BY <1>1, <1>4, <3>1 DEF At
    <3> QED BY <2>1, <2>3, <3>2
  <2> QED BY <2>2, <2>3
<1>9. MultiEq(ps).vars = Searched(qs) /\ Searched(qs) \in Seq(Vars)
      /\ ToSet(MultiEq(ps).vars) = VarsOf(ps)
  BY <1>2, <1>3, FoundIs, SearchedIs DEF VarsOf
<1>10. Finds(MultiEq(ps))
  <2>1. /\ DOMAIN MultiEq(ps).at \subseteq Classes
        /\ \A c \in DOMAIN MultiEq(ps).at :
             /\ MultiEq(ps).at[c] = at[c] /\ at[c] # {} /\ c \in ids
    BY <1>2, <1>7, FoundIs
  <2>2. \A c \in ids : at[c] \subseteq Substs(VarsOf(ps))
    BY <1>6
  <2> QED BY <1>9, <2>1, <2>2 DEF Finds
<1> QED BY <1>8, <1>9, <1>10 DEF qs

\* MultiDiff finds, in a class, the substitutions under which one pattern, the
\* first one in order, matches there and the others match in some class.
LEMMA MultiDiffIs ==
  ASSUME NEW ps, Searching(ps)
  PROVE  /\ Finds(MultiDiff(ps)) /\ ToSet(MultiDiff(ps).vars) = VarsOf(ps)
         /\ IsInjective(MultiDiff(ps).vars)
         /\ \E r \in DOMAIN ps :
              /\ \A p, q : /\ ps = <<p, q>> /\ IsInjective(p.vars) /\ IsInjective(q.vars)
                           => r = 1
              /\ \A c \in Classes : \A s :
                   s \in At(MultiDiff(ps), c) <=>
                     /\ s \in Substs(VarsOf(ps))
                     /\ \A i \in DOMAIN ps :
                          IF i = r THEN Restrict(s, ToSet(ps[i].vars)) \in At(ps[i], c)
                          ELSE Restrict(s, ToSet(ps[i].vars)) \in AllMatches(ps[i])
<1> DEFINE n == Len(ps)
           qs == Sorted(ps)
           common == CommonVars(qs)
           others == [i \in DOMAIN Tail(qs) |-> GroupByCommonVars(AllMatches(qs[i + 1]), common)]
           Groups(c) == Append(others, GroupByCommonVars(Head(qs).at[c], common))
           ids == IF \E i \in DOMAIN Tail(qs) : AllMatches(qs[i + 1]) = {} THEN {}
                  ELSE DOMAIN Head(qs).at
           at == [c \in ids |-> AggregateSubsts(Groups(c), common)]
           vs == SetToSeq(ToSet(Searched(qs)))
<1>1. HaveVars(ps) /\ n \in Nat \ {0} /\ DOMAIN ps = 1..n
  BY SearchingIs
<1>2. MultiDiff(ps) = Found(vs, at)
  BY DEF MultiDiff
<1> HIDE DEF n, qs
<1> DEFINE Two == \E p, q : ps = <<p, q>> /\ IsInjective(p.vars) /\ IsInjective(q.vars)
<1>3. PICK f : /\ Permutes(f, n) /\ qs = [i \in 1..n |-> ps[f[i]]]
               /\ HaveVars(qs) /\ Len(qs) = n /\ DOMAIN qs = 1..n
               /\ VarsOf(qs) = VarsOf(ps)
               /\ Two => f[1] = 1
  <2>1. CASE Two
    <3>1. PICK p, q : ps = <<p, q>> /\ IsInjective(p.vars) /\ IsInjective(q.vars)
      BY <2>1
    <3>2. ps[1] = p /\ ps[2] = q /\ n = 2
      BY <3>1 DEF n
    <3>3. p.vars \in Seq(Vars) /\ q.vars \in Seq(Vars)
      BY <1>1, <3>2 DEF HaveVars
    <3>4. qs = ps
      BY <3>1, <3>3, TwoStay DEF qs
    <3> DEFINE f == [i \in 1..n |-> i]
    <3>5. Permutes(f, n) /\ f[1] = 1
      BY <3>2 DEF Permutes
    <3>6. ps = [i \in 1..n |-> ps[f[i]]]
      BY <3>1, <3>2
    <3> HIDE DEF f
    <3> QED BY <1>1, <3>4, <3>5, <3>6 DEF n
  <2>2. CASE ~Two
    <3> HIDE DEF Two
    <3> QED BY <1>1, <2>2, SortedPatterns DEF n, qs
  <2> QED BY <2>1, <2>2
<1> HIDE DEF Two
<1>4. /\ \A i \in 1..n : qs[i] = ps[f[i]] /\ f[i] \in 1..n
      /\ \A i, j \in 1..n : i # j => f[i] # f[j]
      /\ \A k \in 1..n : \E i \in 1..n : f[i] = k
  BY <1>3 DEF Permutes
<1>5. \A i \in 1..n : Finds(ps[i]) /\ Finds(qs[i])
  BY <1>1, <1>4 DEF Searching
<1>6. /\ DOMAIN Tail(qs) = 1..(n - 1) /\ Head(qs) = qs[1]
      /\ DOMAIN others = 1..(n - 1) /\ Len(others) = n - 1
      /\ \A i \in 1..(n - 1) : others[i] = GroupByCommonVars(AllMatches(qs[i + 1]), common)
  <2>1. qs \in Seq(ToSet(qs)) /\ Len(qs) = n /\ n \in Nat /\ n >= 1
    BY <1>1, <1>3 DEF HaveVars
  <2>2. DOMAIN Tail(qs) = 1..(n - 1) /\ Head(qs) = qs[1]
    <3> HIDE DEF common
    <3> QED BY <2>1
  <2>3. DOMAIN others = 1..(n - 1) /\ Len(others) = n - 1
    BY <2>1, <2>2
  <2> QED BY <2>2, <2>3
<1> HIDE DEF others
\* The position of the i-th group among the sorted patterns.
<1> DEFINE pos == [i \in 1..n |-> IF i = n THEN 1 ELSE i + 1]
<1>7. /\ Permutes(pos, n) /\ pos[n] = 1 /\ n \in 1..n /\ 1 \in 1..n
      /\ \A i \in 1..(n - 1) : pos[i] = i + 1 /\ i \in 1..n /\ i # n
      /\ \A i \in 1..n : i # n => i \in 1..(n - 1)
      /\ \A i \in 1..n : pos[i] \in 1..n /\ (pos[i] = 1 <=> i = n)
  <2>1. pos \in [1..n -> 1..n] /\ \A i \in 1..n : pos[i] = IF i = n THEN 1 ELSE i + 1
    BY <1>1
  <2>2. \A i, j \in 1..n : i # j => pos[i] # pos[j]
    BY <1>1, <2>1
  <2>3. \A k \in 1..n : \E i \in 1..n : pos[i] = k
    BY <1>1, <2>1, <2>2, InjectionOnto
  <2>4. Permutes(pos, n)
    BY <2>1, <2>2, <2>3 DEF Permutes
  <2> HIDE DEF pos
  <2> QED BY <1>1, <2>1, <2>4
<1> HIDE DEF pos
<1>8. ASSUME NEW c \in ids, NEW s
      PROVE  s \in at[c] <=>
               /\ s \in Substs(VarsOf(ps))
               /\ \A i \in 1..n :
                    IF i = 1 THEN Restrict(s, ToSet(qs[i].vars)) \in qs[i].at[c]
                    ELSE Restrict(s, ToSet(qs[i].vars)) \in AllMatches(qs[i])
  <2> DEFINE found(j) == IF j = 1 THEN qs[j].at[c] ELSE AllMatches(qs[j])
             S == [i \in 1..n |-> found(pos[i])]
  <2>1. \A i \in 1..n : S[i] = found(pos[i])
    OBVIOUS
  <2>2. c \in DOMAIN qs[1].at
    BY <1>6
  <2>3. \A j \in 1..n : found(j) \subseteq Substs(ToSet(qs[j].vars))
    BY <1>5, <2>2, AllMatchesIs DEF Finds
  <2>4. Groups(c) = GroupsOf(n, S, common)
    <3> DEFINE g == GroupByCommonVars(Head(qs).at[c], common)
    <3>1. /\ \A i \in 1..n : GroupsOf(n, S, common)[i] = GroupByCommonVars(found(pos[i]), common)
          /\ DOMAIN GroupsOf(n, S, common) = 1..n
          /\ GroupsOf(n, S, common) = [i \in 1..n |-> GroupsOf(n, S, common)[i]]
      BY DEF GroupsOf
    <3>2. /\ \A i \in 1..(n - 1) :
               found(pos[i]) = AllMatches(qs[i + 1])
          /\ found(pos[n]) = Head(qs).at[c]
      BY <1>1, <1>6, <1>7
    <3> HIDE DEF found, S, g, common
    <3>3. /\ Groups(c) = [i \in 1..n |-> Groups(c)[i]]
          /\ Groups(c)[n] = g
          /\ \A i \in 1..(n - 1) : Groups(c)[i] = others[i]
      <4>1. others = [i \in 1..(n - 1) |-> others[i]]
        BY <1>6 DEF others
      <4> QED BY <1>1, <1>6, <4>1 DEF g
    <3>4. \A i \in 1..n : Groups(c)[i] = GroupsOf(n, S, common)[i]
      BY <1>6, <1>7, <3>1, <3>2, <3>3 DEF g
    <3> QED BY <3>1, <3>3, <3>4
  <2>5. s \in AggregateSubsts(GroupsOf(n, S, common), common) <=>
          /\ s \in Substs(VarsOf(qs))
          /\ \A i \in 1..n : Restrict(s, ToSet(qs[pos[i]].vars)) \in S[i]
    <3>1. \A i \in 1..n : S[i] \subseteq Substs(ToSet(qs[pos[i]].vars))
      BY <1>7, <2>1, <2>3
    <3>2. HaveVars(qs) /\ n = Len(qs) /\ n # 0
      BY <1>1, <1>3
    <3> HIDE DEF found, S, common
    <3> QED BY <1>7, <3>1, <3>2, PatternsJoin DEF common
  <2>6. at[c] = AggregateSubsts(Groups(c), common)
    OBVIOUS
  <2> HIDE DEF found, S, common, at
  <2>7. (\A i \in 1..n : Restrict(s, ToSet(qs[pos[i]].vars)) \in S[i]) <=>
          \A j \in 1..n : Restrict(s, ToSet(qs[j].vars)) \in found(j)
    <3>1. \A j \in 1..n : \E i \in 1..n : pos[i] = j
      BY <1>7 DEF Permutes
    <3> DEFINE MeetsIn(j) == Restrict(s, ToSet(qs[j].vars)) \in found(j)
    <3>2. \A i \in 1..n : Restrict(s, ToSet(qs[pos[i]].vars)) \in S[i] <=> MeetsIn(pos[i])
      BY <2>1
    <3>3. \A i \in 1..n : pos[i] \in 1..n
      BY <1>7
    <3>4. (\A i \in 1..n : MeetsIn(pos[i])) <=> \A j \in 1..n : MeetsIn(j)
      <4> HIDE DEF MeetsIn
      <4> QED BY <3>1, <3>3
    <3> QED BY <3>2, <3>4
  <2>8. \A j \in 1..n : Restrict(s, ToSet(qs[j].vars)) \in found(j) <=>
          IF j = 1 THEN Restrict(s, ToSet(qs[j].vars)) \in qs[j].at[c]
          ELSE Restrict(s, ToSet(qs[j].vars)) \in AllMatches(qs[j])
    BY DEF found
  <2> QED BY <1>3, <2>4, <2>5, <2>6, <2>7, <2>8
<1> HIDE DEF at
<1>9. DOMAIN at = ids /\ ids \subseteq Classes
  <2>1. Finds(qs[1])
    BY <1>5, <1>7
  <2> QED BY <1>6, <2>1 DEF at, Finds
<1>10. ASSUME NEW c \in Classes, NEW s
       PROVE  s \in At(MultiDiff(ps), c) <=>
                /\ s \in Substs(VarsOf(ps))
                /\ \A i \in 1..n :
                     IF i = 1 THEN Restrict(s, ToSet(qs[i].vars)) \in At(qs[i], c)
                     ELSE Restrict(s, ToSet(qs[i].vars)) \in AllMatches(qs[i])
  <2>1. At(MultiDiff(ps), c) = IF c \in ids THEN at[c] ELSE {}
    BY <1>2, <1>9, FoundIs
  <2>2. CASE c \in ids
    <3>1. At(qs[1], c) = qs[1].at[c]
      BY <1>6, <2>2 DEF At
    <3> HIDE DEF ids
    <3> QED BY <1>8, <2>1, <2>2, <3>1
  <2>3. CASE c \notin ids
    <3>1. CASE \E i \in 1..(n - 1) : AllMatches(qs[i + 1]) = {}
      <4>1. PICK i \in 1..(n - 1) : AllMatches(qs[i + 1]) = {}
        BY <3>1
      <4> DEFINE j == i + 1
      <4>2. j \in 1..n /\ j # 1 /\ AllMatches(qs[j]) = {}
        BY <1>1, <4>1
      <4> HIDE DEF j, ids
      <4> QED BY <2>1, <2>3, <4>2
    <3>2. CASE ~\E i \in 1..(n - 1) : AllMatches(qs[i + 1]) = {}
      <4>1. At(qs[1], c) = {}
        BY <1>6, <2>3, <3>2 DEF At
      <4> HIDE DEF ids
      <4> QED BY <1>7, <2>1, <2>3, <4>1
    <3> QED BY <3>1, <3>2
  <2> QED BY <2>2, <2>3
<1> DEFINE r == f[1]
<1>11. ASSUME NEW c \in Classes, NEW s
       PROVE  s \in At(MultiDiff(ps), c) <=>
                /\ s \in Substs(VarsOf(ps))
                /\ \A i \in DOMAIN ps :
                     IF i = r THEN Restrict(s, ToSet(ps[i].vars)) \in At(ps[i], c)
                     ELSE Restrict(s, ToSet(ps[i].vars)) \in AllMatches(ps[i])
  <2> DEFINE MeetsAs(p, first) == IF first THEN Restrict(s, ToSet(p.vars)) \in At(p, c)
                              ELSE Restrict(s, ToSet(p.vars)) \in AllMatches(p)
  <2>1. s \in At(MultiDiff(ps), c) <=>
          s \in Substs(VarsOf(ps)) /\ \A i \in 1..n : MeetsAs(qs[i], i = 1)
    BY <1>10
  <2> HIDE DEF MeetsAs
  <2>2. (\A i \in 1..n : MeetsAs(qs[i], i = 1)) <=> \A i \in 1..n : MeetsAs(ps[i], i = r)
    <3>1. \A i \in 1..n : (i = 1) <=> (f[i] = r)
      BY <1>4, <1>7
    <3>2. ASSUME NEW i \in 1..n PROVE MeetsAs(qs[i], i = 1) <=> MeetsAs(ps[f[i]], f[i] = r)
      BY <1>4, <3>1 DEF MeetsAs
    <3> HIDE DEF r
    <3> QED BY <1>4, <3>2
  <2> QED BY <1>1, <2>1, <2>2 DEF MeetsAs
<1>12. /\ MultiDiff(ps).vars = vs /\ vs \in Seq(Vars) /\ IsInjective(vs)
       /\ ToSet(vs) = VarsOf(ps)
  <2>1. VarsOf(qs) \subseteq Vars
    BY <1>3, SearchedIs
  <2>2. IsFiniteSet(VarsOf(qs))
    BY <2>1, SearchersAssumption, FS_Subset
  <2>3. vs = SetToSeq(VarsOf(qs))
    BY DEF VarsOf
  <2>4. vs \in Seq(VarsOf(qs)) /\ ToSet(vs) = VarsOf(qs) /\ IsInjective(vs)
    BY <2>2, <2>3, SetToSeqIs
  <2> HIDE DEF vs
  <2>5. vs \in Seq(Vars)
    BY <2>1, <2>4
  <2> QED BY <1>2, <1>3, <2>4, <2>5, FoundIs
<1>13. Finds(MultiDiff(ps))
  <2> HIDE DEF ids
  <2>1. /\ DOMAIN MultiDiff(ps).at \subseteq Classes
        /\ \A c \in DOMAIN MultiDiff(ps).at :
             /\ MultiDiff(ps).at[c] = at[c] /\ at[c] # {} /\ c \in ids
    BY <1>2, <1>9, FoundIs
  <2>2. \A c \in ids : at[c] \subseteq Substs(VarsOf(ps))
    BY <1>8
  <2> QED BY <1>12, <2>1, <2>2 DEF Finds
<1>14. r \in DOMAIN ps /\ \A p, q : /\ ps = <<p, q>> /\ IsInjective(p.vars) /\ IsInjective(q.vars)
                                    => r = 1
  BY <1>1, <1>3, <1>4, <1>7 DEF Two
<1> HIDE DEF r, vs
<1> QED BY <1>11, <1>12, <1>13, <1>14

(***************************************************************************)
(* Filters.                                                                *)
(***************************************************************************)
Condition == [root : Vars, classes : SUBSET Classes, existence : BOOLEAN]
MetUpTo(s, conds, k) == \A j \in 1..k : Bound(s, conds[j]) /\ Passes(s, conds[j])

\* What r finds is what p finds and the first k conditions let pass, or that the
\* variable of one of them is not bound.
Filtered(r, p, conds, k) ==
  /\ r.vars = p.vars /\ DOMAIN r.at \subseteq Classes
  /\ \A c \in DOMAIN r.at : r.at[c] # {}
  /\ \A c \in Classes : \A s \in At(r, c) : s \in Substs(ToSet(p.vars)) \/ s = Unbound
  /\ \A c \in Classes : \A s \in Substs(ToSet(p.vars)) :
       s \in At(r, c) <=> s \in At(p, c) /\ MetUpTo(s, conds, k)
  /\ \A c \in Classes : Unbound \in At(r, c) =>
       \E j \in 1..k : conds[j].root \notin ToSet(p.vars)

\* No condition filters nothing.
LEMMA FilteredByNone ==
  ASSUME NEW p, Finds(p), NEW conds
  PROVE  Filtered(p, p, conds, 0)
<1>1. \A s : MetUpTo(s, conds, 0)
  BY DEF MetUpTo
<1>2. \A c \in Classes : \A s \in At(p, c) : s \in Substs(ToSet(p.vars))
  BY DEF At, Finds
<1>3. Unbound \notin Substs(ToSet(p.vars))
  <2> DEFINE vs == p.vars
  <2>1. vs \in Seq(Vars)
    BY DEF Finds
  <2> HIDE DEF vs
  <2>2. \A i \in DOMAIN vs : vs[i] \in Vars
    BY <2>1, ElementAt
  <2>3. ToSet(vs) \in SUBSET Vars
    BY <2>2 DEF ToSet
  <2> QED BY <2>3, SearchersAssumption DEF Panics, vs
<1>4. \A c \in Classes : Unbound \notin At(p, c)
  BY <1>2, <1>3
<1> QED BY <1>1, <1>2, <1>4 DEF Filtered, Finds

\* One more condition.
LEMMA FilterStep ==
  ASSUME NEW p, Finds(p), NEW conds, NEW k \in Nat, NEW r, Filtered(r, p, conds, k)
  PROVE  Filtered(ExistFilter(r, conds[k + 1]), p, conds, k + 1)
<1> DEFINE cond == conds[k + 1]
           V == ToSet(p.vars)
           Kept(s) == IF Bound(s, cond) \/ s = Disagree THEN s ELSE Unbound
           at == [c \in DOMAIN r.at |->
                    {Kept(s) : s \in {t \in r.at[c] : Bound(t, cond) => Passes(t, cond)}}]
           e == ExistFilter(r, cond)
<1>1. e = Found(r.vars, at)
  BY DEF ExistFilter
<1>2. V \subseteq Vars
  <2> DEFINE vs == p.vars
  <2>1. vs \in Seq(Vars)
    BY DEF Finds
  <2> HIDE DEF vs
  <2>2. \A i \in DOMAIN vs : vs[i] \in Vars
    BY <2>1, ElementAt
  <2> QED BY <2>2 DEF vs, ToSet
<1>3. \A s \in Substs(V) : s \notin Panics /\ (Bound(s, cond) <=> cond.root \in V)
  <2>1. \A s \in Substs(V) : s \notin Panics /\ DOMAIN s = V
    BY <1>2, SearchersAssumption DEF Substs
  <2> HIDE DEF V, cond
  <2> QED BY <2>1 DEF Bound
<1>4. Disagree # Unbound /\ ~Bound(Unbound, cond)
  BY SearchersAssumption DEF Bound, Panics
<1> HIDE DEF cond, V
<1>5. \A c \in DOMAIN r.at : \A x :
        x \in at[c] <=> \E s \in r.at[c] : x = Kept(s) /\ (Bound(s, cond) => Passes(s, cond))
  BY DEF Kept
<1>6. /\ e.vars = r.vars /\ DOMAIN e.at = {c \in DOMAIN at : at[c] # {}}
      /\ \A c \in DOMAIN e.at : e.at[c] = at[c]
      /\ \A c : At(e, c) = IF c \in DOMAIN at THEN at[c] ELSE {}
      /\ DOMAIN at = DOMAIN r.at
  <2>1. DOMAIN at = DOMAIN r.at
    OBVIOUS
  <2> HIDE DEF at, e
  <2>2. /\ e.vars = r.vars /\ DOMAIN e.at = {c \in DOMAIN at : at[c] # {}}
        /\ \A c \in DOMAIN e.at : e.at[c] = at[c]
    BY <1>1, FoundIs
  <2>3. \A c : At(e, c) = IF c \in DOMAIN at THEN at[c] ELSE {}
    BY <1>1, FoundIs
  <2> QED BY <2>1, <2>2, <2>3
<1> HIDE DEF at, e
<1>7. ASSUME NEW c \in Classes, NEW x
      PROVE  x \in At(e, c) <=>
               \E s \in At(r, c) : x = Kept(s) /\ (Bound(s, cond) => Passes(s, cond))
  BY <1>5, <1>6 DEF At
<1>8. \A c \in Classes : \A s \in At(r, c) : s \in Substs(V) \/ s = Unbound
  BY DEF Filtered, V
<1>9. ASSUME NEW c \in Classes, NEW x \in At(e, c)
      PROVE  /\ x \in Substs(V) \/ x = Unbound
             /\ x \in Substs(V) => x \in At(r, c) /\ Bound(x, cond) /\ Passes(x, cond)
             /\ x = Unbound => Unbound \in At(r, c) \/ cond.root \notin V
  <2>1. PICK s \in At(r, c) : x = Kept(s) /\ (Bound(s, cond) => Passes(s, cond))
    BY <1>7
  <2>2. Unbound \notin Substs(V)
    BY <1>3 DEF Panics
  <2>3. CASE s = Unbound
    BY <1>4, <2>1, <2>2, <2>3
  <2>4. CASE s \in Substs(V)
    <3>1. s # Disagree /\ s # Unbound
      BY <1>3, <2>4 DEF Panics
    <3> QED BY <1>3, <2>1, <2>2, <2>4, <3>1
  <2> QED BY <1>8, <2>3, <2>4
<1>10. ASSUME NEW c \in Classes, NEW s \in Substs(V), s \in At(r, c),
              Bound(s, cond), Passes(s, cond)
       PROVE  s \in At(e, c)
  BY <1>7, <1>10
<1>11. ASSUME NEW c \in Classes, NEW s \in Substs(V)
       PROVE  s \in At(e, c) <=> s \in At(p, c) /\ MetUpTo(s, conds, k + 1)
  <2>1. s \in At(e, c) <=> s \in At(r, c) /\ Bound(s, cond) /\ Passes(s, cond)
    BY <1>9, <1>10
  <2>2. s \in At(r, c) <=> s \in At(p, c) /\ MetUpTo(s, conds, k)
    BY DEF Filtered, V
  <2>3. MetUpTo(s, conds, k + 1) <=> MetUpTo(s, conds, k) /\ Bound(s, cond) /\ Passes(s, cond)
    <3>1. 1..(k + 1) = 1..k \cup {k + 1}
      OBVIOUS
    <3> QED BY <3>1 DEF MetUpTo, cond
  <2> QED BY <2>1, <2>2, <2>3
<1>12. ASSUME NEW c \in Classes, Unbound \in At(e, c)
       PROVE  \E j \in 1..(k + 1) : conds[j].root \notin V
  <2>1. Unbound \in At(r, c) \/ cond.root \notin V
    BY <1>9, <1>12
  <2>2. k + 1 \in 1..(k + 1) /\ 1..k \subseteq 1..(k + 1)
    OBVIOUS
  <2>3. Unbound \in At(r, c) => \E j \in 1..k : conds[j].root \notin V
    BY DEF Filtered, V
  <2> QED BY <2>1, <2>2, <2>3 DEF cond
<1>13. /\ e.vars = p.vars /\ DOMAIN e.at \subseteq Classes
       /\ \A c \in DOMAIN e.at : e.at[c] # {}
  BY <1>6 DEF Filtered
<1> QED BY <1>9, <1>11, <1>12, <1>13 DEF Filtered, V, e, cond

\* Filters are combined one after the other.
LEMMA CombineFiltersIs ==
  ASSUME NEW p, Finds(p), NEW conds \in Seq(Condition)
  PROVE  Filtered(CombineFilters(p, conds), p, conds, Len(conds))
<1> DEFINE n == Len(conds)
           T == Substs(ToSet(p.vars)) \cup {Unbound}
           ats == UNION {[C -> SUBSET T] : C \in SUBSET Classes}
           X == {p} \cup [vars : {p.vars}, at : ats]
           Step == [i \in 1..n |-> [r \in X |-> ExistFilter(r, conds[i])]]
           Is(f) == f = [i \in 0..n |-> IF i = 0 THEN p ELSE ExistFilter(f[i - 1], conds[i])]
           filter == CHOOSE f : Is(f)
<1>1. n \in Nat /\ CombineFilters(p, conds) = filter[n]
  BY DEF CombineFilters
<1> HIDE DEF n
<1>2. ASSUME NEW r \in X, NEW i \in 1..n PROVE ExistFilter(r, conds[i]) \in X
  <2> DEFINE cond == conds[i]
             Kept(s) == IF Bound(s, cond) \/ s = Disagree THEN s ELSE Unbound
             at == [c \in DOMAIN r.at |->
                      {Kept(s) : s \in {t \in r.at[c] : Bound(t, cond) => Passes(t, cond)}}]
             D == {c \in DOMAIN at : at[c] # {}}
  <2>1. /\ r.vars = p.vars /\ DOMAIN r.at \subseteq Classes
        /\ \A c \in DOMAIN r.at : r.at[c] \subseteq T
    <3>1. CASE r = p
      BY <3>1 DEF Finds
    <3>2. CASE r \in [vars : {p.vars}, at : ats]
      <4>1. r.vars = p.vars /\ r.at \in ats
        BY <3>2
      <4>2. PICK C \in SUBSET Classes : r.at \in [C -> SUBSET T]
        BY <4>1
      <4> HIDE DEF T
      <4> QED BY <4>1, <4>2
    <3> QED BY <3>1, <3>2
  <2>2. D \subseteq Classes
    BY <2>1
  <2>3. \A c \in DOMAIN r.at : at[c] \subseteq T
    <3> SUFFICES ASSUME NEW c \in DOMAIN r.at, NEW s \in r.at[c] PROVE Kept(s) \in T
      OBVIOUS
    <3>1. s \in T
      BY <2>1
    <3> QED BY <3>1
  <2>4. ExistFilter(r, cond) = [vars |-> r.vars, at |-> [c \in D |-> at[c]]]
    BY DEF ExistFilter, Found, RestrictDomain, Restrict
  <2> HIDE DEF T, at
  <2>5. [c \in D |-> at[c]] \in [D -> SUBSET T]
    <3>1. DOMAIN at = DOMAIN r.at
      BY DEF at
    <3> QED BY <2>3, <3>1
  <2>6. [c \in D |-> at[c]] \in ats
    BY <2>2, <2>5
  <2> HIDE DEF ats, D
  <2> QED BY <2>1, <2>4, <2>6
<1>3. Step \in [1..n -> [X -> X]] /\ \A i \in 1..n : \A r \in X : Step[i][r] = ExistFilter(r, conds[i])
  <2> HIDE DEF X
  <2> QED BY <1>2
<1>4. p \in X
  OBVIOUS
<1> HIDE DEF X, Step
<1>5. PICK g \in [0..n -> X] : Iterates(g, p, n, Step)
  <2>1. n \in Nat /\ p \in X /\ Step \in [1..n -> [X -> X]]
    BY <1>1, <1>3, <1>4
  <2> QED BY <2>1, StepByStep
<1>6. Is(g)
  <2>1. ASSUME NEW i \in 1..n PROVE g[i] = ExistFilter(g[i - 1], conds[i])
    <3>1. i - 1 \in 0..n
      BY <1>1
    <3>2. g[i - 1] \in X
      BY <3>1
    <3>3. g[i] = Step[i][g[i - 1]]
      BY <1>5 DEF Iterates
    <3> QED BY <1>3, <3>2, <3>3
  <2>2. g[0] = p
    BY <1>5 DEF Iterates
  <2>3. \A i \in 0..n : i = 0 \/ i \in 1..n
    BY <1>1
  <2>4. \A i \in 0..n : g[i] = IF i = 0 THEN p ELSE ExistFilter(g[i - 1], conds[i])
    BY <2>1, <2>2, <2>3
  <2> QED BY <2>4
<1>7. Is(filter)
  <2> HIDE DEF Is
  <2> QED BY <1>6
<1>8. filter[0] = p /\ \A k \in Nat : k + 1 \in 1..n => filter[k + 1] = ExistFilter(filter[k], conds[k + 1])
  <2> HIDE DEF filter
  <2> DEFINE h == [i \in 0..n |-> IF i = 0 THEN p ELSE ExistFilter(filter[i - 1], conds[i])]
  <2>1. filter = h
    BY <1>7
  <2>2. h[0] = p
    BY <1>1
  <2>3. ASSUME NEW k \in Nat, k + 1 \in 1..n PROVE h[k + 1] = ExistFilter(filter[k], conds[k + 1])
    <3>1. k + 1 \in 0..n /\ k + 1 # 0 /\ (k + 1) - 1 = k
      BY <1>1, <2>3
    <3> QED BY <3>1
  <2> HIDE DEF h
  <2> QED BY <2>1, <2>2, <2>3
<1> HIDE DEF filter
<1> DEFINE wrong == {k \in 0..n : ~Filtered(filter[k], p, conds, k)}
<1>9. ASSUME wrong # {} PROVE FALSE
  <2>1. PICK k \in wrong : \A y \in wrong : k <= y
    <3>1. wrong \in SUBSET Nat
      BY <1>1
    <3> HIDE DEF wrong
    <3> QED BY <1>9, <3>1, LeastNat
  <2>2. Filtered(filter[0], p, conds, 0)
    BY <1>8, FilteredByNone
  <2>3. k # 0
    BY <2>1, <2>2
  <2> DEFINE m == k - 1
  <2>4. m \in Nat /\ m \in 0..n /\ m + 1 = k /\ k \in 1..n /\ ~(k <= m)
    BY <1>1, <2>1, <2>3
  <2> HIDE DEF m
  <2>5. Filtered(filter[m], p, conds, m)
    BY <2>1, <2>4
  <2>6. Filtered(ExistFilter(filter[m], conds[m + 1]), p, conds, m + 1)
    BY <2>4, <2>5, FilterStep
  <2>7. Filtered(filter[k], p, conds, k)
    BY <1>8, <2>4, <2>6
  <2> QED BY <2>1, <2>7
<1>10. n \in 0..n
  BY <1>1
<1> QED BY <1>1, <1>9, <1>10 DEF n

(***************************************************************************)
(* What the program searches for.                                          *)
(***************************************************************************)
\* What is there of a single pattern is what a searcher finds.
LEMMA PatternFinds ==
  ASSUME NEW p, IsPattern(p)
  PROVE  Finds(p) /\ IsInjective(p.vars)
BY DEF IsPattern, Finds

\* A substitution of all variables is what is left of it.
LEMMA RestrictAll ==
  ASSUME NEW V, NEW s \in Substs(V), NEW W \in SUBSET V
  PROVE  Restrict(s, W) \in Substs(W) /\ Restrict(s, V) = s
BY DEF Substs, Restrict

\* The variables of two patterns.
LEMMA VarsOfTwo ==
  ASSUME NEW p, Finds(p), NEW q, Finds(q)
  PROVE  /\ Searching(<<p, q>>) /\ DOMAIN <<p, q>> = {1, 2}
         /\ VarsOf(<<p, q>>) = ToSet(p.vars) \cup ToSet(q.vars)
<1> DEFINE ps == <<p, q>>
<1>1. Len(ps) = 2 /\ ps[1] = p /\ ps[2] = q /\ DOMAIN ps = {1, 2} /\ ps \in Seq({p, q})
  OBVIOUS
<1>2. ToSet(ps) = {p, q}
  BY <1>1 DEF ToSet
<1> HIDE DEF ps
<1>3. Searching(ps)
  BY <1>1, <1>2 DEF Searching
<1>4. HaveVars(ps)
  BY <1>3, SearchingIs
<1>5. VarsOf(ps) = UNION {ToSet(ps[i].vars) : i \in {1, 2}}
  BY <1>1, <1>4, SearchedIs
<1>6. UNION {ToSet(ps[i].vars) : i \in {1, 2}} = ToSet(ps[1].vars) \cup ToSet(ps[2].vars)
  OBVIOUS
<1> QED BY <1>1, <1>3, <1>5, <1>6 DEF ps

\* Two patterns of different classes are found in the class of the first.
LEMMA PairIs ==
  ASSUME NEW p, Finds(p), IsInjective(p.vars), NEW q, Finds(q), IsInjective(q.vars)
  PROVE  LET d == MultiDiff(<<p, q>>)
             V == ToSet(p.vars) \cup ToSet(q.vars)
         IN  /\ Finds(d) /\ IsInjective(d.vars) /\ ToSet(d.vars) = V
             /\ \A c \in Classes : \A s :
                  s \in At(d, c) <=> /\ s \in Substs(V)
                                     /\ Restrict(s, ToSet(p.vars)) \in At(p, c)
                                     /\ Restrict(s, ToSet(q.vars)) \in AllMatches(q)
<1> DEFINE ps == <<p, q>>
           d == MultiDiff(ps)
<1>1. /\ Searching(ps) /\ DOMAIN ps = {1, 2} /\ ps[1] = p /\ ps[2] = q
      /\ VarsOf(ps) = ToSet(p.vars) \cup ToSet(q.vars)
  BY VarsOfTwo
<1>2. \A x, y : ps = <<x, y>> => x = p /\ y = q
  OBVIOUS
<1> HIDE DEF ps
<1>3. Finds(d) /\ ToSet(d.vars) = VarsOf(ps) /\ IsInjective(d.vars)
  BY <1>1, MultiDiffIs
<1>4. \A c \in Classes : \A s :
        s \in At(d, c) <=>
          /\ s \in Substs(VarsOf(ps))
          /\ \A i \in DOMAIN ps : IF i = 1 THEN Restrict(s, ToSet(ps[i].vars)) \in At(ps[i], c)
                                  ELSE Restrict(s, ToSet(ps[i].vars)) \in AllMatches(ps[i])
  <2>1. PICK r \in DOMAIN ps :
          /\ \A x, y : ps = <<x, y>> /\ IsInjective(x.vars) /\ IsInjective(y.vars) => r = 1
          /\ \A c \in Classes : \A s :
               s \in At(d, c) <=>
                 /\ s \in Substs(VarsOf(ps))
                 /\ \A i \in DOMAIN ps :
                      IF i = r THEN Restrict(s, ToSet(ps[i].vars)) \in At(ps[i], c)
                      ELSE Restrict(s, ToSet(ps[i].vars)) \in AllMatches(ps[i])
    BY <1>1, MultiDiffIs
  <2>2. r = 1
    BY <2>1 DEF ps
  <2> QED BY <2>1, <2>2
<1>5. ASSUME NEW c \in Classes, NEW s
      PROVE  s \in At(d, c) <=> /\ s \in Substs(VarsOf(ps))
                                /\ Restrict(s, ToSet(p.vars)) \in At(p, c)
                                /\ Restrict(s, ToSet(q.vars)) \in AllMatches(q)
  BY <1>1, <1>4
<1> QED BY <1>1, <1>3, <1>5 DEF ps

\* A precondition is found in the classes that are true.
LEMMA HoldsTrueIs ==
  ASSUME NEW p, Finds(p), IsInjective(p.vars), NEW truth \in SUBSET Classes
  PROVE  LET h == HoldsTrue(p, truth)
         IN  /\ Finds(h) /\ IsInjective(h.vars) /\ ToSet(h.vars) = ToSet(p.vars)
             /\ \A c \in Classes : \A s : s \in At(h, c) <=> c \in truth /\ s \in At(p, c)
<1> DEFINE t == True(truth)
           ps == <<p, t>>
           h == MultiEq(ps)
           all == [c \in truth |-> Substs({})]
<1>1. Substs({}) # {}
  <2>1. [x \in {} |-> x] \in Substs({})
    BY DEF Substs
  <2> QED BY <2>1
<1>2. t.vars = <<>> /\ \A c : At(t, c) = IF c \in truth THEN Substs({}) ELSE {}
  <2>1. t = Found(<<>>, all) /\ DOMAIN all = truth /\ \A c \in truth : all[c] = Substs({})
    BY DEF True
  <2> HIDE DEF t, all
  <2>2. t.vars = <<>> /\ \A c : At(t, c) = IF c \in DOMAIN all THEN all[c] ELSE {}
    BY <2>1, FoundIs
  <2> QED BY <2>1, <2>2
<1>3. ToSet(t.vars) = {} /\ IsInjective(t.vars) /\ t.vars \in Seq(Vars)
  <2>1. <<>> \in Seq(Vars) /\ IsInjective(<<>>) /\ ToSet(<<>>) = {}
    BY DEF IsInjective, ToSet
  <2> HIDE DEF t
  <2> QED BY <1>2, <2>1
<1>4. Finds(t)
  <2>1. t = Found(<<>>, all) /\ DOMAIN all = truth /\ \A c \in truth : all[c] = Substs({})
    BY DEF True
  <2> HIDE DEF t, all
  <2>2. /\ DOMAIN t.at = {c \in DOMAIN all : all[c] # {}}
        /\ \A c \in DOMAIN t.at : t.at[c] = all[c]
    BY <2>1, FoundIs
  <2> QED BY <1>1, <1>3, <2>1, <2>2 DEF Finds
<1> HIDE DEF t
<1>5. /\ Searching(ps) /\ DOMAIN ps = {1, 2} /\ ps[1] = p /\ ps[2] = t
      /\ VarsOf(ps) = ToSet(p.vars)
  <2>1. /\ Searching(ps) /\ DOMAIN ps = {1, 2}
        /\ VarsOf(ps) = ToSet(p.vars) \cup ToSet(t.vars)
    BY <1>4, VarsOfTwo
  <2>2. ps[1] = p /\ ps[2] = t
    OBVIOUS
  <2> HIDE DEF ps
  <2> QED BY <1>3, <2>1, <2>2
<1>6. Sorted(ps) = ps
  BY <1>3, TwoStay DEF Finds
<1>7. Searched(ps) = p.vars
  <2> DEFINE vs == p.vars
  <2>1. vs \in Seq(Vars) /\ t.vars = <<>>
    BY <1>2 DEF Finds
  <2>2. [i \in DOMAIN ps |-> ps[i].vars] = <<vs, t.vars>>
    BY <1>5
  <2> HIDE DEF vs, ps
  <2>3. FlattenSeq(<<vs, t.vars>>) = vs \o t.vars
    BY <1>3, <2>1, FlattenPair
  <2>4. vs \o <<>> = vs
    BY <2>1
  <2> QED BY <2>1, <2>2, <2>3, <2>4 DEF Searched, vs
<1> HIDE DEF ps
<1>8. /\ Finds(h) /\ ToSet(h.vars) = ToSet(p.vars) /\ h.vars = p.vars
      /\ \A c \in Classes : \A s :
           s \in At(h, c) <=>
             /\ s \in Substs(ToSet(p.vars))
             /\ \A i \in DOMAIN ps : Restrict(s, ToSet(ps[i].vars)) \in At(ps[i], c)
  BY <1>5, <1>6, <1>7, MultiEqIs
<1>9. ASSUME NEW c \in Classes, NEW s PROVE s \in At(h, c) <=> c \in truth /\ s \in At(p, c)
  <2>1. s \in At(h, c) <=> /\ s \in Substs(ToSet(p.vars))
                           /\ Restrict(s, ToSet(p.vars)) \in At(p, c)
                           /\ Restrict(s, {}) \in At(t, c)
    BY <1>3, <1>5, <1>8
  <2>2. s \in At(p, c) => s \in Substs(ToSet(p.vars))
    BY DEF At, Finds
  <2>3. s \in Substs(ToSet(p.vars)) =>
          Restrict(s, ToSet(p.vars)) = s /\ Restrict(s, {}) \in Substs({})
    BY RestrictAll
  <2> QED BY <1>2, <2>1, <2>2, <2>3
<1> QED BY <1>8, <1>9 DEF HoldsTrue, h, ps, t

(***************************************************************************)
(* What an answer is: the matches of the patterns, that of pattern i in    *)
(* one of the classes in[c][i], which the conditions let pass.             *)
(***************************************************************************)
Complete(r, ps, in) ==
  /\ Finds(r) /\ ToSet(r.vars) = VarsOf(ps)
  /\ \A c \in Classes : \A s :
       s \in At(r, c) <=> s \in Substs(VarsOf(ps)) /\ MatchIn(ps, in[c], s)

IsAnswer(r, ps, in, conds) ==
  /\ DOMAIN r.at \subseteq Classes /\ \A c \in DOMAIN r.at : r.at[c] # {}
  /\ \A c \in Classes : \A s \in At(r, c) : s \in Substs(VarsOf(ps)) \/ s = Unbound
  /\ \A c \in Classes : \A s \in Substs(VarsOf(ps)) :
       s \in At(r, c) <=> MatchIn(ps, in[c], s) /\ MetUpTo(s, conds, Len(conds))
  /\ \A c \in Classes : Unbound \in At(r, c) =>
       \E j \in 1..Len(conds) : conds[j].root \notin VarsOf(ps)

\* Filters make an answer of all matches.
LEMMA FilteredIsAnswer ==
  ASSUME NEW r, NEW p, NEW ps, NEW in, Complete(p, ps, in),
         NEW conds, Filtered(r, p, conds, Len(conds))
  PROVE  IsAnswer(r, ps, in, conds)
<1> DEFINE n == Len(conds)
<1>1. ToSet(p.vars) = VarsOf(ps)
  BY DEF Complete
<1>2. \A c \in Classes : \A s \in Substs(VarsOf(ps)) : s \in At(p, c) <=> MatchIn(ps, in[c], s)
  BY DEF Complete
<1>3. /\ DOMAIN r.at \subseteq Classes /\ \A c \in DOMAIN r.at : r.at[c] # {}
      /\ \A c \in Classes : \A s \in At(r, c) : s \in Substs(VarsOf(ps)) \/ s = Unbound
      /\ \A c \in Classes : \A s \in Substs(VarsOf(ps)) :
           s \in At(r, c) <=> s \in At(p, c) /\ MetUpTo(s, conds, n)
      /\ \A c \in Classes : Unbound \in At(r, c) =>
           \E j \in 1..n : conds[j].root \notin VarsOf(ps)
  BY <1>1 DEF Filtered
<1> QED BY <1>2, <1>3 DEF IsAnswer

\* All matches are an answer where there are no conditions.
LEMMA CompleteIsAnswer ==
  ASSUME NEW r, NEW ps, NEW in, Complete(r, ps, in)
  PROVE  IsAnswer(r, ps, in, <<>>)
<1>1. Finds(r) /\ Len(<<>>) = 0
  BY DEF Complete
<1>2. Filtered(r, r, <<>>, Len(<<>>))
  BY <1>1, FilteredByNone
<1> QED BY <1>2, FilteredIsAnswer

\* A rule of one pattern.
LEMMA RuleOfOne ==
  ASSUME NEW p, IsPattern(p)
  PROVE  Complete(p, <<p>>, [c \in Classes |-> [i \in {1} |-> {c}]])
<1> DEFINE ps == <<p>>
           in == [c \in Classes |-> [i \in {1} |-> {c}]]
<1>1. Finds(p) /\ IsInjective(p.vars)
  BY PatternFinds
<1>2. Len(ps) = 1 /\ DOMAIN ps = {1} /\ ps[1] = p /\ ps \in Seq({p})
  OBVIOUS
<1>3. ToSet(ps) = {p}
  BY <1>2 DEF ToSet
<1> HIDE DEF ps
<1>4. HaveVars(ps)
  BY <1>1, <1>2, <1>3 DEF HaveVars, Finds
<1>5. VarsOf(ps) = ToSet(p.vars)
  <2>1. VarsOf(ps) = UNION {ToSet(ps[i].vars) : i \in DOMAIN ps}
    BY <1>4, SearchedIs
  <2>2. {ToSet(ps[i].vars) : i \in DOMAIN ps} = {ToSet(p.vars)}
    BY <1>2
  <2> QED BY <2>1, <2>2
<1>6. ASSUME NEW c \in Classes, NEW s
      PROVE  s \in At(p, c) <=> s \in Substs(ToSet(p.vars)) /\ MatchIn(ps, in[c], s)
  <2>1. in[c][1] = {c}
    OBVIOUS
  <2> HIDE DEF in
  <2>2. MatchIn(ps, in[c], s) <=> Restrict(s, ToSet(p.vars)) \in At(p, c)
    BY <1>2, <2>1 DEF MatchIn
  <2>3. s \in At(p, c) => s \in Substs(ToSet(p.vars))
    BY <1>1 DEF At, Finds
  <2>4. s \in Substs(ToSet(p.vars)) => Restrict(s, ToSet(p.vars)) = s
    BY RestrictAll
  <2> QED BY <2>2, <2>3, <2>4
<1> HIDE DEF in
<1> QED BY <1>1, <1>5, <1>6 DEF Complete, ps, in

\* A pattern and, in the classes T, another that holds of the same values.
LEMMA PairIn ==
  ASSUME NEW p, IsPattern(p), NEW q, IsPattern(q),
         NEW r, Finds(r), IsInjective(r.vars), ToSet(r.vars) = ToSet(q.vars),
         NEW T \in SUBSET Classes, \A s : s \in AllMatches(r) <=> \E c \in T : s \in At(q, c)
  PROVE  Complete(MultiDiff(<<p, r>>), <<p, q>>,
                  [c \in Classes |-> [i \in {1, 2} |-> IF i = 1 THEN {c} ELSE T]])
<1> DEFINE ps == <<p, q>>
           d == MultiDiff(<<p, r>>)
           in == [c \in Classes |-> [i \in {1, 2} |-> IF i = 1 THEN {c} ELSE T]]
<1>1. Finds(p) /\ IsInjective(p.vars) /\ Finds(q)
  BY PatternFinds
<1>2. /\ Searching(ps) /\ DOMAIN ps = {1, 2} /\ ps[1] = p /\ ps[2] = q
      /\ VarsOf(ps) = ToSet(p.vars) \cup ToSet(q.vars)
  BY <1>1, VarsOfTwo
<1>3. /\ Finds(d) /\ IsInjective(d.vars) /\ ToSet(d.vars) = ToSet(p.vars) \cup ToSet(q.vars)
      /\ \A c \in Classes : \A s :
           s \in At(d, c) <=> /\ s \in Substs(ToSet(p.vars) \cup ToSet(q.vars))
                              /\ Restrict(s, ToSet(p.vars)) \in At(p, c)
                              /\ Restrict(s, ToSet(q.vars)) \in AllMatches(r)
  BY <1>1, PairIs
<1> HIDE DEF ps, d
<1>4. ASSUME NEW c \in Classes, NEW s
      PROVE  s \in At(d, c) <=> s \in Substs(VarsOf(ps)) /\ MatchIn(ps, in[c], s)
  <2>1. in[c][1] = {c} /\ in[c][2] = T
    OBVIOUS
  <2> HIDE DEF in
  <2>2. MatchIn(ps, in[c], s) <=> /\ Restrict(s, ToSet(p.vars)) \in At(p, c)
                                  /\ \E b \in T : Restrict(s, ToSet(q.vars)) \in At(q, b)
    BY <1>2, <2>1 DEF MatchIn
  <2> QED BY <1>2, <1>3, <2>2
<1> HIDE DEF in
<1> QED BY <1>2, <1>3, <1>4 DEF Complete, ps, d, in

\* A rule with a precondition, which is found in a class that is true.
LEMMA RuleOfTwo ==
  ASSUME NEW p, IsPattern(p), NEW q, IsPattern(q), NEW truth \in SUBSET Classes
  PROVE  Complete(MultiDiff(<<p, HoldsTrue(q, truth)>>), <<p, q>>,
                  [c \in Classes |-> [i \in {1, 2} |-> IF i = 1 THEN {c} ELSE truth]])
<1> DEFINE r == HoldsTrue(q, truth)
<1>1. Finds(q) /\ IsInjective(q.vars)
  BY PatternFinds
<1>2. /\ Finds(r) /\ IsInjective(r.vars) /\ ToSet(r.vars) = ToSet(q.vars)
      /\ \A c \in Classes : \A s : s \in At(r, c) <=> c \in truth /\ s \in At(q, c)
  BY <1>1, HoldsTrueIs
<1> HIDE DEF r
<1>3. \A s : s \in AllMatches(r) <=> \E c \in truth : s \in At(q, c)
  BY <1>2, AllMatchesIs
<1>4. Complete(MultiDiff(<<p, r>>), <<p, q>>,
               [c \in Classes |-> [i \in {1, 2} |-> IF i = 1 THEN {c} ELSE truth]])
  BY <1>2, <1>3, PairIn
<1> QED BY <1>4 DEF r

\* The hypothesis at a smaller value.
LEMMA HypothesisOfTwo ==
  ASSUME NEW p, IsPattern(p), NEW q, IsPattern(q)
  PROVE  Complete(MultiDiff(<<p, q>>), <<p, q>>,
                  [c \in Classes |-> [i \in {1, 2} |-> IF i = 1 THEN {c} ELSE Classes]])
<1>1. Finds(q) /\ IsInjective(q.vars)
  BY PatternFinds
<1>2. \A s : s \in AllMatches(q) <=> \E c \in Classes : s \in At(q, c)
  BY <1>1, AllMatchesIs
<1> QED BY <1>1, <1>2, PairIn

\* The hypothesis at a smaller value, with a precondition.
LEMMA HypothesisOfThree ==
  ASSUME NEW p, IsPattern(p), NEW q, IsPattern(q), NEW t, IsPattern(t),
         NEW truth \in SUBSET Classes
  PROVE  Complete(MultiDiff(<<p, MultiDiff(<<q, HoldsTrue(t, truth)>>)>>), <<p, q, t>>,
                  [c \in Classes |-> [i \in {1, 2, 3} |->
                     IF i = 1 THEN {c} ELSE IF i = 3 THEN truth ELSE Classes]])
<1> DEFINE h == HoldsTrue(t, truth)
           r == MultiDiff(<<q, h>>)
           d == MultiDiff(<<p, r>>)
           ps == <<p, q, t>>
           P == ToSet(p.vars)
           Q == ToSet(q.vars)
           T == ToSet(t.vars)
           in == [c \in Classes |-> [i \in {1, 2, 3} |->
                    IF i = 1 THEN {c} ELSE IF i = 3 THEN truth ELSE Classes]]
<1>1. /\ Finds(p) /\ IsInjective(p.vars) /\ Finds(q) /\ IsInjective(q.vars)
      /\ Finds(t) /\ IsInjective(t.vars)
  BY PatternFinds
<1>2. /\ Finds(h) /\ IsInjective(h.vars) /\ ToSet(h.vars) = T
      /\ \A c \in Classes : \A s : s \in At(h, c) <=> c \in truth /\ s \in At(t, c)
  BY <1>1, HoldsTrueIs
<1> HIDE DEF h
<1>3. /\ Finds(r) /\ IsInjective(r.vars) /\ ToSet(r.vars) = Q \cup T
      /\ \A c \in Classes : \A s :
           s \in At(r, c) <=> /\ s \in Substs(Q \cup T) /\ Restrict(s, Q) \in At(q, c)
                              /\ Restrict(s, T) \in AllMatches(h)
  BY <1>1, <1>2, PairIs
<1> HIDE DEF r
<1>4. /\ Finds(d) /\ IsInjective(d.vars) /\ ToSet(d.vars) = P \cup (Q \cup T)
      /\ \A c \in Classes : \A s :
           s \in At(d, c) <=> /\ s \in Substs(P \cup (Q \cup T)) /\ Restrict(s, P) \in At(p, c)
                              /\ Restrict(s, Q \cup T) \in AllMatches(r)
  <2>1. Finds(p) /\ IsInjective(p.vars) /\ Finds(r) /\ IsInjective(r.vars)
    BY <1>1, <1>3
  <2>2. /\ Finds(d) /\ IsInjective(d.vars) /\ ToSet(d.vars) = P \cup ToSet(r.vars)
        /\ \A c \in Classes : \A s :
             s \in At(d, c) <=> /\ s \in Substs(P \cup ToSet(r.vars))
                                /\ Restrict(s, P) \in At(p, c)
                                /\ Restrict(s, ToSet(r.vars)) \in AllMatches(r)
    BY <2>1, PairIs
  <2>3. ToSet(r.vars) = Q \cup T
    BY <1>3
  <2> HIDE DEF d, P, Q, T
  <2> QED BY <2>2, <2>3
<1> HIDE DEF d
<1>5. Len(ps) = 3 /\ DOMAIN ps = {1, 2, 3} /\ ps[1] = p /\ ps[2] = q /\ ps[3] = t
      /\ ps \in Seq({p, q, t})
  OBVIOUS
<1> HIDE DEF ps
<1>6. VarsOf(ps) = P \cup (Q \cup T)
  <2>1. ToSet(ps) = {p, q, t}
    BY <1>5 DEF ToSet
  <2>2. HaveVars(ps)
    BY <1>1, <1>5, <2>1 DEF HaveVars, Finds
  <2>3. VarsOf(ps) = UNION {ToSet(ps[i].vars) : i \in {1, 2, 3}}
    BY <1>5, <2>2, SearchedIs
  <2>4. UNION {ToSet(ps[i].vars) : i \in {1, 2, 3}}
          = ToSet(ps[1].vars) \cup (ToSet(ps[2].vars) \cup ToSet(ps[3].vars))
    OBVIOUS
  <2> QED BY <1>5, <2>3, <2>4
<1> HIDE DEF P, Q, T
<1>7. ASSUME NEW s \in Substs(P \cup (Q \cup T))
      PROVE  /\ Restrict(s, Q \cup T) \in Substs(Q \cup T)
             /\ Restrict(Restrict(s, Q \cup T), Q) = Restrict(s, Q)
             /\ Restrict(Restrict(s, Q \cup T), T) = Restrict(s, T)
  BY DEF Substs, Restrict
<1>8. ASSUME NEW s \in Substs(P \cup (Q \cup T))
      PROVE  Restrict(s, Q \cup T) \in AllMatches(r) <=>
               /\ \E c \in Classes : Restrict(s, Q) \in At(q, c)
               /\ \E c \in truth : Restrict(s, T) \in At(t, c)
  <2>1. Restrict(s, Q \cup T) \in AllMatches(r) <=>
          \E c \in Classes : Restrict(s, Q) \in At(q, c) /\ Restrict(s, T) \in AllMatches(h)
    <3>1. \A x : x \in AllMatches(r) <=> \E c \in Classes : x \in At(r, c)
      BY <1>3, AllMatchesIs
    <3> QED BY <1>3, <1>7, <3>1
  <2>2. Restrict(s, T) \in AllMatches(h) <=> \E c \in truth : Restrict(s, T) \in At(t, c)
    <3>1. \A x : x \in AllMatches(h) <=> \E c \in Classes : x \in At(h, c)
      BY <1>2, AllMatchesIs
    <3> QED BY <1>2, <3>1
  <2> QED BY <2>1, <2>2
<1>9. ASSUME NEW c \in Classes, NEW s
      PROVE  s \in At(d, c) <=> s \in Substs(VarsOf(ps)) /\ MatchIn(ps, in[c], s)
  <2>1. in[c][1] = {c} /\ in[c][2] = Classes /\ in[c][3] = truth
    OBVIOUS
  <2> HIDE DEF in
  <2>2. MatchIn(ps, in[c], s) <=> /\ Restrict(s, P) \in At(p, c)
                                  /\ \E b \in Classes : Restrict(s, Q) \in At(q, b)
                                  /\ \E b \in truth : Restrict(s, T) \in At(t, b)
    BY <1>5, <2>1 DEF MatchIn, P, Q, T
  <2> QED BY <1>4, <1>6, <1>8, <2>2
<1> HIDE DEF in
<1> QED BY <1>4, <1>6, <1>9 DEF Complete, h, r, d, ps, in

(***************************************************************************)
(* What is searched for by each kind of query.                             *)
(***************************************************************************)
\* The patterns of a query are searchable.
LEMMA QueryIs ==
  ASSUME NEW q \in Queries
  PROVE  /\ Searching(q.patterns) /\ DOMAIN q.patterns = 1..Len(q.patterns)
         /\ \A i \in DOMAIN q.patterns : IsPattern(q.patterns[i])
         /\ q.truth \in SUBSET Classes /\ q.conds \in Seq(Condition)
         /\ q.kind # "rule" => q.conds = <<>>
         /\ q.kind = "rule" => Len(q.patterns) = 1 \/ Len(q.patterns) = 2
         /\ q.kind = "hypothesis" => Len(q.patterns) = 2 \/ Len(q.patterns) = 3
<1> DEFINE ps == q.patterns
<1>1. /\ q.kind \in {"rule", "hypothesis", "multieq", "multidiff"}
      /\ Len(ps) \in Arity[q.kind]
      /\ ps \in Seq(ToSet(ps)) /\ \A p \in ToSet(ps) : IsPattern(p)
      /\ q.truth \subseteq Classes /\ q.conds \in Seq(Condition)
      /\ q.kind # "rule" => q.conds = <<>>
  BY QueriesAssumption DEF Arity, Condition
<1>2. /\ q.kind = "rule" => Len(ps) \in 1..2
      /\ q.kind = "hypothesis" => Len(ps) \in 2..3
      /\ Len(ps) \in Nat \ {0}
  <2>1. /\ Arity["rule"] = 1..2 /\ Arity["hypothesis"] = 2..3
        /\ Arity["multieq"] = Nat \ {0} /\ Arity["multidiff"] = Nat \ {0}
    BY DEF Arity
  <2> DEFINE k == q.kind
             n == Len(ps)
  <2>2. k \in {"rule", "hypothesis", "multieq", "multidiff"} /\ n \in Arity[k]
    BY <1>1
  <2> HIDE DEF k, n
  <2>3. /\ k = "rule" => n \in 1..2
        /\ k = "hypothesis" => n \in 2..3
        /\ k \in {"multieq", "multidiff"} => n \in Nat \ {0}
    BY <2>1, <2>2
  <2>4. n \in Nat \ {0}
    BY <2>2, <2>3
  <2> QED BY <2>3, <2>4 DEF k, n
<1> HIDE DEF ps
<1>3. \A i \in DOMAIN ps : IsPattern(ps[i])
  BY <1>1 DEF ToSet
<1>4. Searching(ps)
  BY <1>1, <1>2, <1>3, PatternFinds DEF Searching
<1>5. DOMAIN ps = 1..Len(ps)
  BY <1>4, SearchingIs
<1> QED BY <1>1, <1>2, <1>3, <1>4, <1>5 DEF ps

\* A vector of one, two or three patterns.
LEMMA PatternsAre ==
  ASSUME NEW ps, ps \in Seq(ToSet(ps))
  PROVE  /\ Len(ps) = 1 => ps = <<ps[1]>> /\ DOMAIN ps = {1}
         /\ Len(ps) = 2 => ps = <<ps[1], ps[2]>> /\ DOMAIN ps = {1, 2}
         /\ Len(ps) = 3 => ps = <<ps[1], ps[2], ps[3]>> /\ DOMAIN ps = {1, 2, 3}
  OBVIOUS

\* The search of a rule is an answer.
LEMMA RuleIs ==
  ASSUME NEW q \in Queries, q.kind = "rule"
  PROVE  IsAnswer(Rule(q), q.patterns, RulePlaces(q), q.conds)
<1> DEFINE ps == q.patterns
           truth == q.truth
           searcher == IF Len(ps) = 1 THEN ps[1]
                       ELSE MultiDiff(<<ps[1], HoldsTrue(ps[2], truth)>>)
           in == RulePlaces(q)
<1>1. /\ ps \in Seq(ToSet(ps)) /\ \A i \in DOMAIN ps : IsPattern(ps[i])
      /\ truth \in SUBSET Classes /\ q.conds \in Seq(Condition)
      /\ Len(ps) = 1 \/ Len(ps) = 2
  BY QueryIs DEF Searching
<1>2. Rule(q) = CombineFilters(searcher, q.conds)
  BY DEF Rule
<1>3. Len(ps) = 2 => in = [c \in Classes |-> [i \in DOMAIN ps |->
                             IF i = 1 THEN {c} ELSE IF i = 2 THEN truth ELSE Classes]]
  BY DEF RulePlaces
<1>4. Len(ps) = 1 => in = [c \in Classes |-> [i \in DOMAIN ps |->
                             IF i = 1 THEN {c} ELSE Classes]]
  BY DEF RulePlaces
<1> HIDE DEF ps, truth, in
<1>5. Complete(searcher, ps, in)
  <2>1. CASE Len(ps) = 1
    <3>1. ps = <<ps[1]>> /\ DOMAIN ps = {1}
      BY <1>1, <2>1, PatternsAre
    <3>2. IsPattern(ps[1])
      BY <1>1, <3>1
    <3>3. in = [c \in Classes |-> [i \in {1} |-> {c}]]
      BY <1>4, <2>1, <3>1
    <3>4. Complete(ps[1], <<ps[1]>>, in)
      BY <3>2, <3>3, RuleOfOne
    <3> QED BY <2>1, <3>1, <3>4
  <2>2. CASE Len(ps) = 2
    <3>1. ps = <<ps[1], ps[2]>> /\ DOMAIN ps = {1, 2}
      BY <1>1, <2>2, PatternsAre
    <3>2. IsPattern(ps[1]) /\ IsPattern(ps[2])
      BY <1>1, <3>1
    <3>3. in = [c \in Classes |-> [i \in {1, 2} |-> IF i = 1 THEN {c} ELSE truth]]
      BY <1>3, <2>2, <3>1
    <3>4. Complete(MultiDiff(<<ps[1], HoldsTrue(ps[2], truth)>>), <<ps[1], ps[2]>>, in)
      BY <1>1, <3>2, <3>3, RuleOfTwo
    <3> QED BY <2>2, <3>1, <3>4
  <2> QED BY <1>1, <2>1, <2>2
<1> HIDE DEF searcher
<1>6. Filtered(CombineFilters(searcher, q.conds), searcher, q.conds, Len(q.conds))
  BY <1>1, <1>5, CombineFiltersIs DEF Complete
<1>7. IsAnswer(Rule(q), ps, in, q.conds)
  BY <1>2, <1>5, <1>6, FilteredIsAnswer
<1> QED BY <1>7 DEF ps, in

\* The search of the hypothesis is an answer.
LEMMA HypothesisIs ==
  ASSUME NEW q \in Queries, q.kind = "hypothesis"
  PROVE  IsAnswer(Hypothesis(q), q.patterns, RulePlaces(q), q.conds)
<1> DEFINE ps == q.patterns
           truth == q.truth
           in == RulePlaces(q)
<1>1. /\ ps \in Seq(ToSet(ps)) /\ \A i \in DOMAIN ps : IsPattern(ps[i])
      /\ truth \in SUBSET Classes /\ q.conds = <<>>
      /\ Len(ps) = 2 \/ Len(ps) = 3
  BY QueryIs DEF Searching
<1>2. Hypothesis(q) = MultiDiff(<<ps[1], IF Len(ps) = 2 THEN ps[2]
                                  ELSE MultiDiff(<<ps[2], HoldsTrue(ps[3], truth)>>)>>)
  BY DEF Hypothesis
<1>3. Len(ps) = 2 => in = [c \in Classes |-> [i \in DOMAIN ps |->
                             IF i = 1 THEN {c} ELSE Classes]]
  BY DEF RulePlaces
<1>4. Len(ps) = 3 => in = [c \in Classes |-> [i \in DOMAIN ps |->
                             IF i = 1 THEN {c} ELSE IF i = 3 THEN truth ELSE Classes]]
  BY DEF RulePlaces
<1> HIDE DEF ps, truth, in
<1>5. Complete(Hypothesis(q), ps, in)
  <2>1. CASE Len(ps) = 2
    <3>1. ps = <<ps[1], ps[2]>> /\ DOMAIN ps = {1, 2}
      BY <1>1, <2>1, PatternsAre
    <3>2. IsPattern(ps[1]) /\ IsPattern(ps[2])
      BY <1>1, <3>1
    <3>3. in = [c \in Classes |-> [i \in {1, 2} |-> IF i = 1 THEN {c} ELSE Classes]]
      BY <1>3, <2>1, <3>1
    <3>4. Complete(MultiDiff(<<ps[1], ps[2]>>), <<ps[1], ps[2]>>, in)
      BY <3>2, <3>3, HypothesisOfTwo
    <3> QED BY <1>2, <2>1, <3>1, <3>4
  <2>2. CASE Len(ps) = 3
    <3>1. ps = <<ps[1], ps[2], ps[3]>> /\ DOMAIN ps = {1, 2, 3}
      BY <1>1, <2>2, PatternsAre
    <3>2. IsPattern(ps[1]) /\ IsPattern(ps[2]) /\ IsPattern(ps[3])
      BY <1>1, <3>1
    <3>3. in = [c \in Classes |-> [i \in {1, 2, 3} |->
                  IF i = 1 THEN {c} ELSE IF i = 3 THEN truth ELSE Classes]]
      BY <1>4, <2>2, <3>1
    <3>4. Complete(MultiDiff(<<ps[1], MultiDiff(<<ps[2], HoldsTrue(ps[3], truth)>>)>>),
                   <<ps[1], ps[2], ps[3]>>, in)
      BY <1>1, <3>2, <3>3, HypothesisOfThree
    <3> QED BY <1>2, <2>2, <3>1, <3>4
  <2> QED BY <1>1, <2>1, <2>2
<1>6. IsAnswer(Hypothesis(q), ps, in, q.conds)
  BY <1>1, <1>5, CompleteIsAnswer
<1> QED BY <1>6 DEF ps, in

\* The search of several patterns of one class is an answer.
LEMMA MultiEqAnswers ==
  ASSUME NEW q \in Queries
  PROVE  IsAnswer(MultiEq(q.patterns), q.patterns, SamePlaces(q.patterns), <<>>)
<1> DEFINE ps == q.patterns
           in == SamePlaces(ps)
           d == MultiEq(ps)
<1>1. Searching(ps)
  BY QueryIs
<1>2. \A c \in Classes : \A i \in DOMAIN ps : in[c][i] = {c}
  BY DEF SamePlaces
<1> HIDE DEF ps, in
<1>3. /\ Finds(d) /\ ToSet(d.vars) = VarsOf(ps)
      /\ \A c \in Classes : \A s :
           s \in At(d, c) <=>
             /\ s \in Substs(VarsOf(ps))
             /\ \A i \in DOMAIN ps : Restrict(s, ToSet(ps[i].vars)) \in At(ps[i], c)
  BY <1>1, MultiEqIs
<1>4. ASSUME NEW c \in Classes, NEW s
      PROVE  MatchIn(ps, in[c], s) <=>
               \A i \in DOMAIN ps : Restrict(s, ToSet(ps[i].vars)) \in At(ps[i], c)
  BY <1>2 DEF MatchIn
<1>5. Complete(d, ps, in)
  BY <1>3, <1>4 DEF Complete
<1> QED BY <1>5, CompleteIsAnswer DEF ps, in

\* The search of several patterns of different classes is an answer.
LEMMA MultiDiffAnswers ==
  ASSUME NEW q \in Queries
  PROVE  \E r \in DOMAIN q.patterns :
           /\ Len(q.patterns) = 2 => r = 1
           /\ IsAnswer(MultiDiff(q.patterns), q.patterns, RootPlaces(q.patterns, r), <<>>)
<1> DEFINE ps == q.patterns
           d == MultiDiff(ps)
<1>1. Searching(ps) /\ \A i \in DOMAIN ps : IsPattern(ps[i])
  BY QueryIs
<1> HIDE DEF ps
<1>2. Finds(d) /\ ToSet(d.vars) = VarsOf(ps)
  BY <1>1, MultiDiffIs
<1>3. PICK r \in DOMAIN ps :
        /\ \A x, y : ps = <<x, y>> /\ IsInjective(x.vars) /\ IsInjective(y.vars) => r = 1
        /\ \A c \in Classes : \A s :
             s \in At(d, c) <=>
               /\ s \in Substs(VarsOf(ps))
               /\ \A i \in DOMAIN ps :
                    IF i = r THEN Restrict(s, ToSet(ps[i].vars)) \in At(ps[i], c)
                    ELSE Restrict(s, ToSet(ps[i].vars)) \in AllMatches(ps[i])
  BY <1>1, MultiDiffIs
<1>4. Len(ps) = 2 => r = 1
  <2>1. Len(ps) = 2 => ps = <<ps[1], ps[2]>> /\ DOMAIN ps = {1, 2}
    BY <1>1, PatternsAre DEF Searching
  <2>2. Len(ps) = 2 => IsInjective(ps[1].vars) /\ IsInjective(ps[2].vars)
    BY <1>1, <2>1, PatternFinds
  <2> QED BY <1>3, <2>1, <2>2
<1> DEFINE in == RootPlaces(ps, r)
<1>5. \A c \in Classes : \A i \in DOMAIN ps : in[c][i] = IF i = r THEN {c} ELSE Classes
  BY DEF RootPlaces
<1>6. \A i \in DOMAIN ps : \A s : s \in AllMatches(ps[i]) <=> \E b \in Classes : s \in At(ps[i], b)
  BY <1>1, AllMatchesIs DEF Searching
<1> HIDE DEF in, d
<1>7. ASSUME NEW c \in Classes, NEW s
      PROVE  MatchIn(ps, in[c], s) <=>
               \A i \in DOMAIN ps :
                 IF i = r THEN Restrict(s, ToSet(ps[i].vars)) \in At(ps[i], c)
                 ELSE Restrict(s, ToSet(ps[i].vars)) \in AllMatches(ps[i])
  BY <1>5, <1>6 DEF MatchIn
<1>8. Complete(d, ps, in)
  BY <1>2, <1>3, <1>7 DEF Complete
<1>9. IsAnswer(d, ps, in, <<>>)
  BY <1>8, CompleteIsAnswer
<1> QED BY <1>3, <1>4, <1>9 DEF ps, in, d

(***************************************************************************)
(* The result.                                                             *)
(***************************************************************************)
\* What is there of an answer when the search has not panicked.
LEMMA ResultOf ==
  ASSUME NEW r, NEW ps, NEW in, NEW conds, IsAnswer(r, ps, in, conds),
         Unbound \notin AllMatches(r)
  PROVE  /\ \A c \in DOMAIN r.at : r.at[c] # {}
         /\ UNION {{<<c, s>> : s \in r.at[c]} : c \in DOMAIN r.at}
              = {m \in Classes \X Substs(VarsOf(ps)) :
                   MatchIn(ps, in[m[1]], m[2]) /\ MetUpTo(m[2], conds, Len(conds))}
<1> DEFINE Good(c, s) == /\ c \in Classes /\ s \in Substs(VarsOf(ps))
                         /\ MatchIn(ps, in[c], s) /\ MetUpTo(s, conds, Len(conds))
<1>1. \A c \in Classes : Unbound \notin At(r, c)
  BY DEF AllMatches, At
<1>2. \A c : \A s : c \in DOMAIN r.at /\ s \in r.at[c] <=> c \in Classes /\ s \in At(r, c)
  BY DEF IsAnswer, At
<1>3. \A c : \A s : c \in DOMAIN r.at /\ s \in r.at[c] <=> Good(c, s)
  BY <1>1, <1>2 DEF IsAnswer
<1> HIDE DEF Good
<1>4. UNION {{<<c, s>> : s \in r.at[c]} : c \in DOMAIN r.at}
        = {m \in Classes \X Substs(VarsOf(ps)) : Good(m[1], m[2])}
  <2>1. \A c : \A s : Good(c, s) => c \in Classes /\ s \in Substs(VarsOf(ps))
    BY DEF Good
  <2> QED BY <1>3, <2>1
<1>5. \A m \in Classes \X Substs(VarsOf(ps)) :
        Good(m[1], m[2]) <=> MatchIn(ps, in[m[1]], m[2]) /\ MetUpTo(m[2], conds, Len(conds))
  BY DEF Good
<1> HIDE DEF Good
<1> QED BY <1>4, <1>5 DEF IsAnswer

\* How a search ends.
LEMMA Ends ==
  ASSUME NEW r, NEW ps, NEW in, NEW conds, IsAnswer(r, ps, in, conds),
         VarsOf(ps) \in SUBSET Vars, Finish(r)
  PROVE  /\ status' \in {"done", "not bound"} /\ query' = query
         /\ status' = "done" => Unbound \notin AllMatches(r) /\ sms' = r.at
         /\ status' # "done" => sms' = <<>>
         /\ status' = "not bound" => \E j \in 1..Len(conds) : conds[j].root \notin VarsOf(ps)
<1>1. ASSUME NEW s \in AllMatches(r) PROVE \E c \in Classes : s \in At(r, c)
  BY DEF AllMatches, IsAnswer, At
<1>2. Disagree \notin AllMatches(r)
  <2> SUFFICES ASSUME Disagree \in AllMatches(r) PROVE FALSE
    OBVIOUS
  <2>1. PICK c \in Classes : Disagree \in At(r, c)
    BY <1>1
  <2>2. Disagree \in Substs(VarsOf(ps)) \/ Disagree = Unbound
    BY <2>1 DEF IsAnswer
  <2> QED BY <2>2, SearchersAssumption DEF Panics
<1>3. Unbound \in AllMatches(r) => \E j \in 1..Len(conds) : conds[j].root \notin VarsOf(ps)
  BY <1>1 DEF IsAnswer
<1> QED BY <1>2, <1>3 DEF Finish

(***************************************************************************)
(* The theorems.                                                           *)
(***************************************************************************)
FoundRight == FindsItsMatches /\ PanicsOnlyForForeignVariable
Inv == query \in Queries /\ FoundRight

\* The variables of a query are variables.
LEMMA VarsOfQuery ==
  ASSUME NEW q \in Queries
  PROVE  VarsOf(q.patterns) \in SUBSET Vars
<1> DEFINE ps == q.patterns
<1>1. HaveVars(ps)
  BY QueryIs, SearchingIs
<1> HIDE DEF ps
<1>2. VarsOf(ps) \in SUBSET Vars
  BY <1>1, SearchedIs
<1> QED BY <1>2 DEF ps

\* In the initial states nothing is found and nothing has panicked.
LEMMA InitOK ==
  ASSUME InitSearch
  PROVE  Inv
<1>1. query \in Queries /\ sms = <<>> /\ status = "searching" /\ DOMAIN <<>> = {}
  BY DEF InitSearch
<1>2. RuleFindsItsMatches
  BY <1>1 DEF RuleFindsItsMatches
<1>3. MultiFindsItsMatches
  BY <1>1 DEF MultiFindsItsMatches
<1>4. PanicsOnlyForForeignVariable
  BY <1>1 DEF PanicsOnlyForForeignVariable, MergesAgree
<1>5. \A c \in DOMAIN sms : sms[c] # {}
  BY <1>1
<1> QED BY <1>1, <1>2, <1>3, <1>4, <1>5 DEF Inv, FoundRight, FindsItsMatches

\* When a search ends with an answer, the result is what its definition says.
LEMMA ResultIs ==
  ASSUME query \in Queries, NEW r, NEW in,
         IsAnswer(r, query.patterns, in, query.conds), Finish(r)
  PROVE  /\ query' = query /\ status' \in {"done", "not bound"}
         /\ \A c \in DOMAIN sms' : sms'[c] # {}
         /\ PanicsOnlyForForeignVariable'
         /\ status' = "done" =>
              Result' = {m \in Classes \X Substs(VarsOf(query.patterns)) :
                           /\ MatchIn(query.patterns, in[m[1]], m[2])
                           /\ MetUpTo(m[2], query.conds, Len(query.conds))}
<1> DEFINE ps == query.patterns
           conds == query.conds
<1>1. conds \in Seq(Condition) /\ VarsOf(ps) \in SUBSET Vars
  BY QueryIs, VarsOfQuery
<1>2. DOMAIN conds = 1..Len(conds)
  <2> HIDE DEF conds
  <2> QED BY <1>1, LenProperties
<1>3. IsAnswer(r, ps, in, conds) /\ query' = query
  BY DEF Finish
<1> HIDE DEF ps, conds
<1>4. /\ status' \in {"done", "not bound"}
      /\ status' = "done" => Unbound \notin AllMatches(r) /\ sms' = r.at
      /\ status' # "done" => sms' = <<>>
      /\ status' = "not bound" => \E j \in 1..Len(conds) : conds[j].root \notin VarsOf(ps)
  BY <1>1, <1>3, Ends
<1>5. ASSUME status' = "done"
      PROVE  /\ \A c \in DOMAIN sms' : sms'[c] # {}
             /\ Result' = {m \in Classes \X Substs(VarsOf(ps)) :
                             MatchIn(ps, in[m[1]], m[2]) /\ MetUpTo(m[2], conds, Len(conds))}
  <2>1. /\ \A c \in DOMAIN r.at : r.at[c] # {}
        /\ UNION {{<<c, s>> : s \in r.at[c]} : c \in DOMAIN r.at}
             = {m \in Classes \X Substs(VarsOf(ps)) :
                  MatchIn(ps, in[m[1]], m[2]) /\ MetUpTo(m[2], conds, Len(conds))}
    BY <1>3, <1>4, <1>5, ResultOf
  <2>2. Result' = UNION {{<<c, s>> : s \in r.at[c]} : c \in DOMAIN r.at}
    BY <1>4, <1>5 DEF Result
  <2> QED BY <1>4, <1>5, <2>1, <2>2
<1>6. status' # "done" => \A c \in DOMAIN sms' : sms'[c] # {}
  <2>1. DOMAIN <<>> = {}
    OBVIOUS
  <2> QED BY <1>4, <2>1
<1>7. PanicsOnlyForForeignVariable'
  BY <1>2, <1>3, <1>4 DEF PanicsOnlyForForeignVariable, MergesAgree, ps, conds
<1> QED BY <1>3, <1>4, <1>5, <1>6, <1>7 DEF ps, conds

\* The conditions are met when all of them are.
LEMMA MetIs ==
  ASSUME NEW conds \in Seq(Condition), NEW s
  PROVE  MetUpTo(s, conds, Len(conds)) <=> Met(s, conds)
<1>1. DOMAIN conds = 1..Len(conds)
  BY LenProperties
<1> QED BY <1>1 DEF Met, MetUpTo

\* The search of a rule or of the hypothesis.
LEMMA RuleStep ==
  ASSUME query \in Queries, query.kind \in {"rule", "hypothesis"},
         NEW r, IsAnswer(r, query.patterns, RulePlaces(query), query.conds), Finish(r)
  PROVE  FoundRight'
<1> DEFINE ps == query.patterns
           in == RulePlaces(query)
<1>1. /\ query' = query /\ \A c \in DOMAIN sms' : sms'[c] # {}
      /\ PanicsOnlyForForeignVariable'
      /\ status' = "done" =>
           Result' = {m \in Classes \X Substs(VarsOf(ps)) :
                        /\ MatchIn(ps, in[m[1]], m[2])
                        /\ MetUpTo(m[2], query.conds, Len(query.conds))}
  BY ResultIs
<1>2. \A s : MetUpTo(s, query.conds, Len(query.conds)) <=> Met(s, query.conds)
  BY QueryIs, MetIs
<1> HIDE DEF in
<1>3. status' = "done" => Result' = {m \in Reference(ps, in) : Met(m[2], query.conds)}
  BY <1>1, <1>2 DEF Reference
<1>4. RuleFindsItsMatches'
  BY <1>1, <1>3 DEF RuleFindsItsMatches, in
<1>5. MultiFindsItsMatches'
  BY <1>1 DEF MultiFindsItsMatches
<1> QED BY <1>1, <1>4, <1>5 DEF FoundRight, FindsItsMatches

\* The search of several patterns of one class.
LEMMA MultiEqStep ==
  ASSUME query \in Queries, query.kind = "multieq", Finish(MultiEq(query.patterns))
  PROVE  FoundRight'
<1> DEFINE ps == query.patterns
           in == SamePlaces(ps)
<1>1. query.conds = <<>> /\ IsAnswer(MultiEq(ps), ps, in, query.conds)
  BY QueryIs, MultiEqAnswers
<1>2. /\ query' = query /\ \A c \in DOMAIN sms' : sms'[c] # {}
      /\ PanicsOnlyForForeignVariable'
      /\ status' = "done" =>
           Result' = {m \in Classes \X Substs(VarsOf(ps)) :
                        /\ MatchIn(ps, in[m[1]], m[2])
                        /\ MetUpTo(m[2], query.conds, Len(query.conds))}
  BY <1>1, ResultIs
<1>3. \A s : MetUpTo(s, query.conds, Len(query.conds))
  BY <1>1 DEF MetUpTo
<1> HIDE DEF in
<1>4. status' = "done" => Result' = Reference(ps, in)
  BY <1>2, <1>3 DEF Reference
<1>5. MultiFindsItsMatches'
  BY <1>2, <1>4 DEF MultiFindsItsMatches, in
<1>6. RuleFindsItsMatches'
  BY <1>2 DEF RuleFindsItsMatches
<1> QED BY <1>2, <1>5, <1>6 DEF FoundRight, FindsItsMatches

\* The search of several patterns of different classes.
LEMMA MultiDiffStep ==
  ASSUME query \in Queries, query.kind = "multidiff", Finish(MultiDiff(query.patterns))
  PROVE  FoundRight'
<1> DEFINE ps == query.patterns
<1>1. PICK r \in DOMAIN ps : /\ Len(ps) = 2 => r = 1
                             /\ IsAnswer(MultiDiff(ps), ps, RootPlaces(ps, r), <<>>)
  BY MultiDiffAnswers
<1> DEFINE in == RootPlaces(ps, r)
<1>2. query.conds = <<>> /\ IsAnswer(MultiDiff(ps), ps, in, query.conds)
  BY <1>1, QueryIs
<1>3. /\ query' = query /\ \A c \in DOMAIN sms' : sms'[c] # {}
      /\ PanicsOnlyForForeignVariable'
      /\ status' = "done" =>
           Result' = {m \in Classes \X Substs(VarsOf(ps)) :
                        /\ MatchIn(ps, in[m[1]], m[2])
                        /\ MetUpTo(m[2], query.conds, Len(query.conds))}
  BY <1>2, ResultIs
<1>4. \A s : MetUpTo(s, query.conds, Len(query.conds))
  BY <1>2 DEF MetUpTo
<1> HIDE DEF in
<1>5. status' = "done" => Result' = Reference(ps, in)
  BY <1>3, <1>4 DEF Reference
<1>6. MultiFindsItsMatches'
  BY <1>1, <1>3, <1>5 DEF MultiFindsItsMatches, in
<1>7. RuleFindsItsMatches'
  BY <1>3 DEF RuleFindsItsMatches
<1> QED BY <1>3, <1>6, <1>7 DEF FoundRight, FindsItsMatches

\* Every step keeps what was asked and ends right.
LEMMA NextOK ==
  ASSUME Inv, [NextSearch]_search_vars
  PROVE  Inv'
<1>1. CASE SearchRule
  <2>1. query \in Queries /\ query.kind = "rule" /\ Finish(Rule(query))
    BY <1>1 DEF SearchRule, Inv
  <2>2. FoundRight'
    BY <2>1, RuleIs, RuleStep
  <2> QED BY <2>1, <2>2 DEF Inv, Finish
<1>2. CASE SearchHypothesis
  <2>1. query \in Queries /\ query.kind = "hypothesis" /\ Finish(Hypothesis(query))
    BY <1>2 DEF SearchHypothesis, Inv
  <2>2. FoundRight'
    BY <2>1, HypothesisIs, RuleStep
  <2> QED BY <2>1, <2>2 DEF Inv, Finish
<1>3. CASE SearchMultiEq
  <2>1. query \in Queries /\ query.kind = "multieq" /\ Finish(MultiEq(query.patterns))
    BY <1>3 DEF SearchMultiEq, Inv
  <2>2. FoundRight'
    BY <2>1, MultiEqStep
  <2> QED BY <2>1, <2>2 DEF Inv, Finish
<1>4. CASE SearchMultiDiff
  <2>1. query \in Queries /\ query.kind = "multidiff" /\ Finish(MultiDiff(query.patterns))
    BY <1>4 DEF SearchMultiDiff, Inv
  <2>2. FoundRight'
    BY <2>1, MultiDiffStep
  <2> QED BY <2>1, <2>2 DEF Inv, Finish
<1>5. CASE UNCHANGED search_vars
  <2>1. /\ query' = query /\ sms' = sms /\ status' = status
        /\ query \in Queries /\ FindsItsMatches /\ PanicsOnlyForForeignVariable
    BY <1>5 DEF search_vars, Inv, FoundRight
  <2>2. Result' = Result
    BY <2>1 DEF Result
  <2>3. RuleFindsItsMatches'
    BY <2>1, <2>2 DEF FindsItsMatches, RuleFindsItsMatches
  <2>4. MultiFindsItsMatches'
    BY <2>1, <2>2 DEF FindsItsMatches, MultiFindsItsMatches
  <2>5. PanicsOnlyForForeignVariable'
    BY <2>1 DEF PanicsOnlyForForeignVariable, MergesAgree
  <2>6. \A c \in DOMAIN sms' : sms'[c] # {}
    BY <2>1 DEF FindsItsMatches
  <2> QED BY <2>1, <2>3, <2>4, <2>5, <2>6 DEF Inv, FoundRight, FindsItsMatches
<1> QED BY <1>1, <1>2, <1>3, <1>4, <1>5 DEF NextSearch

\* A search that ends finds exactly the matches there are: whatever patterns,
\* precondition and conditions the rules have, whatever each pattern matches,
\* however the patterns are sorted and grouped for the join (searchers.rs).
THEOREM SearchIsComplete == SpecSearch => []FindsItsMatches
<1>1. InitSearch => Inv
  BY InitOK
<1>2. Inv /\ [NextSearch]_search_vars => Inv'
  BY NextOK
<1>3. Inv => FindsItsMatches
  BY DEF Inv, FoundRight
<1> QED BY <1>1, <1>2, <1>3, PTL DEF SpecSearch

\* The assertion of merge_substs never fails (searchers.rs:92), and a filter
\* looks up an unbound variable only for a condition that names a variable of
\* neither the left-hand side nor the precondition.
THEOREM PanicsAreForeign == SpecSearch => []PanicsOnlyForForeignVariable
<1>1. InitSearch => Inv
  BY InitOK
<1>2. Inv /\ [NextSearch]_search_vars => Inv'
  BY NextOK
<1>3. Inv => PanicsOnlyForForeignVariable
  BY DEF Inv, FoundRight
<1> QED BY <1>1, <1>2, <1>3, PTL DEF SpecSearch

(***************************************************************************)
(* Counting.                                                               *)
(***************************************************************************)
\* What holds at 0 and goes from each number to the next.
LEMMA ByCounting ==
  ASSUME NEW n \in Nat, NEW S, 0 \in S, \A m \in 1..n : m - 1 \in S => m \in S
  PROVE  \A m \in 0..n : m \in S
<1> DEFINE bad == {m \in 0..n : m \notin S}
<1>1. ASSUME bad # {} PROVE FALSE
  <2>1. PICK m \in bad : \A y \in bad : m <= y
    <3>1. bad \in SUBSET Nat
      OBVIOUS
    <3> HIDE DEF bad
    <3> QED BY <1>1, <3>1, LeastNat
  <2>2. m \in 1..n /\ m - 1 \in 0..n /\ m - 1 \notin bad
    BY <2>1
  <2> QED BY <2>2
<1> QED BY <1>1

\* What holds at a number if it holds at all smaller ones.
LEMMA ByOrder ==
  ASSUME NEW n \in Nat, NEW S, \A m \in 1..n : (\A k \in 1..(m - 1) : k \in S) => m \in S
  PROVE  \A m \in 1..n : m \in S
<1> DEFINE bad == {m \in 1..n : m \notin S}
<1>1. ASSUME bad # {} PROVE FALSE
  <2>1. PICK m \in bad : \A y \in bad : m <= y
    <3>1. bad \in SUBSET Nat
      OBVIOUS
    <3> HIDE DEF bad
    <3> QED BY <1>1, <3>1, LeastNat
  <2>2. \A k \in 1..(m - 1) : k \in S
    BY <2>1
  <2> QED BY <2>2
<1> QED BY <1>1

(***************************************************************************)
(* Graphs.                                                                 *)
(***************************************************************************)
\* Terms come after their arguments.
Nodes(ts) ==
  /\ ts \in Seq(ToSet(ts))
  /\ \A i \in 1..Len(ts) : /\ ts[i] = Term(ts[i].op, ts[i].args)
                           /\ ts[i].args \in Seq({ts[j] : j \in 1..(i - 1)})

\* g gives each term its class, which is named by a term in it.
Graph(ts, g) ==
  /\ Nodes(ts) /\ g \in [ToSet(ts) -> ToSet(ts)]
  /\ \A t \in ToSet(ts) : g[g[t]] = g[t]

\* h has the merges of g.
Coarser(g, h) == \A a, b \in DOMAIN g : g[a] = g[b] => h[a] = h[b]
ClassesOf(g) == {g[t] : t \in DOMAIN g}

\* A merge makes one class of two.
LEMMA MergeIs ==
  ASSUME NEW ts, NEW g, Graph(ts, g), NEW a \in ToSet(ts), NEW b \in ToSet(ts)
  PROVE  LET h == Merge(ts, g, a, b)
         IN /\ Graph(ts, h) /\ Coarser(g, h)
            /\ \A x, y \in ToSet(ts) : h[x] = h[y] => \/ g[x] = g[y]
                                                      \/ {g[x], g[y]} \subseteq {g[a], g[b]}
            /\ ClassesOf(h) \subseteq ClassesOf(g)
            /\ g[a] # g[b] => ClassesOf(h) # ClassesOf(g)
<1> DEFINE D == ToSet(ts)
           o == Older(ts, g[a], g[b])
           h == Merge(ts, g, a, b)
<1>1. DOMAIN g = D /\ \A t \in D : g[t] \in D /\ g[g[t]] = g[t]
  BY DEF Graph
<1>2. o \in {g[a], g[b]}
  BY DEF Older
<1>3. DOMAIN h = D /\ \A t \in D : h[t] = IF g[t] \in {g[a], g[b]} THEN o ELSE g[t]
  BY <1>1 DEF Merge
<1> HIDE DEF o, h
<1>4. h \in [D -> D] /\ \A t \in D : h[h[t]] = h[t]
  <2>1. \A t \in D : h[t] \in D
    BY <1>1, <1>2, <1>3
  <2>2. \A t \in D : h[h[t]] = h[t]
    BY <1>1, <1>2, <1>3
  <2>3. h = [t \in D |-> h[t]]
    BY <1>3 DEF h, Merge
  <2> QED BY <2>1, <2>2, <2>3
<1>5. Coarser(g, h)
  BY <1>1, <1>3 DEF Coarser
<1>6. \A x, y \in D : h[x] = h[y] => g[x] = g[y] \/ {g[x], g[y]} \subseteq {g[a], g[b]}
  BY <1>1, <1>2, <1>3
<1>7. ClassesOf(h) \subseteq ClassesOf(g)
  BY <1>1, <1>2, <1>3 DEF ClassesOf
<1>8. ASSUME g[a] # g[b] PROVE ClassesOf(h) # ClassesOf(g)
  <2>1. PICK c \in {g[a], g[b]} : c # o
    BY <1>8
  <2>2. c \in ClassesOf(g)
    BY <1>1 DEF ClassesOf
  <2>3. \A t \in D : h[t] # c
    BY <1>3, <2>1
  <2> QED BY <1>3, <2>2, <2>3 DEF ClassesOf
<1> QED BY <1>4, <1>5, <1>6, <1>7, <1>8 DEF Graph, h

(***************************************************************************)
(* Rebuilding.                                                             *)
(***************************************************************************)
\* The classes that still have an equal node are merged, or there are none.
LEMMA RepairedIs ==
  ASSUME NEW ts, NEW g, Graph(ts, g)
  PROVE  LET h == Repaired(ts, g)
         IN /\ Graph(ts, h) /\ Coarser(g, h)
            /\ \/ Split(g) = {} /\ h = g
               \/ /\ ClassesOf(h) \subseteq ClassesOf(g) /\ ClassesOf(h) # ClassesOf(g)
                  /\ \E p \in Split(g) : h = Merge(ts, g, p[1], p[2])
<1>1. CASE Split(g) = {}
  <2>1. Coarser(g, g)
    BY DEF Coarser
  <2> QED BY <1>1, <2>1 DEF Repaired
<1>2. CASE Split(g) # {}
  <2> DEFINE p == CHOOSE p \in Split(g) : TRUE
  <2>1. p \in Split(g)
    BY <1>2
  <2> HIDE DEF p
  <2>2. p[1] \in ToSet(ts) /\ p[2] \in ToSet(ts) /\ g[p[1]] # g[p[2]]
    BY <2>1 DEF Split, Graph
  <2>3. Repaired(ts, g) = Merge(ts, g, p[1], p[2])
    BY <1>2 DEF Repaired, p
  <2> QED BY <2>1, <2>2, <2>3, MergeIs
<1> QED BY <1>1, <1>2

\* What each repair stays in, as does the graph before all, the graph that is
\* rebuilt is in.
LEMMA RebuildIn ==
  ASSUME NEW ts, NEW g, Graph(ts, g),
         NEW S, g \in S[0],
         \A n \in 1..Len(ts) : \A h \in S[n - 1] :
           Graph(ts, h) /\ Repaired(ts, h) \in S[n]
  PROVE  Rebuild(ts, g) \in S[Len(ts)]
<1> DEFINE N == Len(ts)
           X == [ToSet(ts) -> ToSet(ts)]
           Start == {h \in X : Graph(ts, h)}
           Step == [n \in 1..N |-> [h \in Start |-> Repaired(ts, h)]]
           Is(f) == f = [n \in 0..N |-> IF n = 0 THEN g ELSE Repaired(ts, f[n - 1])]
<1>1. N \in Nat
  BY DEF Graph, Nodes
<1>2. g \in Start /\ \A h \in Start : Repaired(ts, h) \in Start
  <2>1. \A h : Graph(ts, h) => h \in X
    BY DEF Graph
  <2>2. \A h \in Start : Graph(ts, Repaired(ts, h))
    BY RepairedIs
  <2> QED BY <2>1, <2>2
<1>3. PICK f \in [0..N -> Start] : Iterates(f, g, N, Step)
  <2>1. Step \in [1..N -> [Start -> Start]]
    BY <1>2
  <2> HIDE DEF Start, Step, N
  <2> QED BY <1>1, <1>2, <2>1, StepByStep
<1>4. \A n \in 1..N : f[n] = Repaired(ts, f[n - 1])
  <2> SUFFICES ASSUME NEW n \in 1..N PROVE f[n] = Repaired(ts, f[n - 1])
    OBVIOUS
  <2>1. f[n - 1] \in Start
    <3>1. n - 1 \in 0..N
      BY <1>1
    <3> HIDE DEF Start, N, Step
    <3> QED BY <1>3, <3>1
  <2>2. f[n] = Step[n][f[n - 1]]
    BY <1>3 DEF Iterates
  <2> HIDE DEF Start
  <2> QED BY <2>1, <2>2
<1>5. \E e : Is(e)
  <2>1. f[0] = g /\ DOMAIN f = 0..N
    BY <1>3 DEF Iterates
  <2>2. Is(f)
    BY <1>1, <1>3, <1>4, <2>1
  <2> QED BY <2>2
<1> DEFINE after == CHOOSE e : Is(e)
<1>6. Is(after)
  BY <1>5
<1>7. Rebuild(ts, g) = after[N]
  BY DEF Rebuild
<1> HIDE DEF after, Is
<1>8. after[0] = g /\ \A n \in 1..N : after[n] = Repaired(ts, after[n - 1])
  BY <1>1, <1>6 DEF Is
<1> DEFINE good == {n \in 0..N : after[n] \in S[n]}
<1>9. 0 \in good /\ \A n \in 1..N : n - 1 \in good => n \in good
  BY <1>1, <1>8
<1>10. \A n \in 0..N : n \in good
  <2> HIDE DEF good, N
  <2> QED BY <1>1, <1>9, ByCounting
<1> QED BY <1>1, <1>7, <1>10

\* The classes of a graph are no more than its terms.
LEMMA ClassesAreFew ==
  ASSUME NEW ts, NEW g, Graph(ts, g)
  PROVE  IsFiniteSet(ClassesOf(g)) /\ Cardinality(ClassesOf(g)) <= Len(ts)
<1> DEFINE D == ToSet(ts)
           N == Len(ts)
<1>1. N \in Nat /\ DOMAIN ts = 1..N /\ ts \in Seq(D)
  BY LenProperties DEF Graph, Nodes
<1>2. DOMAIN g = D
  BY DEF Graph
<1> DEFINE f == [i \in 1..N |-> g[ts[i]]]
<1>3. f \in Surjection(1..N, ClassesOf(g))
  <2>1. \A i \in 1..N : ts[i] \in D /\ g[ts[i]] \in ClassesOf(g)
    BY <1>1, <1>2 DEF ClassesOf, ToSet
  <2>2. f \in [1..N -> ClassesOf(g)]
    BY <2>1
  <2>3. \A c \in ClassesOf(g) : \E i \in 1..N : f[i] = c
    BY <1>1, <1>2 DEF ClassesOf, ToSet
  <2> HIDE DEF f
  <2> QED BY <2>2, <2>3 DEF Surjection
<1>4. IsFiniteSet(1..N) /\ Cardinality(1..N) = N
  BY <1>1, FS_Interval
<1> HIDE DEF f
<1> QED BY <1>3, <1>4, FS_Surjection

\* Rebuilding leaves no class with an equal node.
LEMMA RebuildIs ==
  ASSUME NEW ts, NEW g, Graph(ts, g)
  PROVE  LET h == Rebuild(ts, g)
         IN Graph(ts, h) /\ Coarser(g, h) /\ Split(h) = {}
<1> DEFINE N == Len(ts)
           X == [ToSet(ts) -> ToSet(ts)]
           Few(h, n) == Split(h) = {} \/ Cardinality(ClassesOf(h)) + n <= N
           S == [n \in 0..N |-> {h \in X : Graph(ts, h) /\ Coarser(g, h) /\ Few(h, n)}]
<1>1. N \in Nat
  BY DEF Graph, Nodes
<1>2. \A h : Graph(ts, h) => h \in X /\ DOMAIN h = ToSet(ts)
  BY DEF Graph
<1>3. g \in S[0]
  <2>1. Coarser(g, g)
    BY DEF Coarser
  <2>2. Cardinality(ClassesOf(g)) \in Nat /\ Cardinality(ClassesOf(g)) <= N
    BY ClassesAreFew, FS_CardinalityType
  <2>3. Few(g, 0)
    BY <1>1, <2>2
  <2> QED BY <1>1, <1>2, <2>1, <2>3
<1>4. ASSUME NEW n \in 1..N, NEW h \in S[n - 1] PROVE Graph(ts, h) /\ Repaired(ts, h) \in S[n]
  <2> DEFINE r == Repaired(ts, h)
  <2>1. h \in X /\ Graph(ts, h) /\ Coarser(g, h) /\ Few(h, n - 1)
    BY <1>1, <1>4
  <2>2. /\ Graph(ts, r) /\ Coarser(h, r)
        /\ \/ Split(h) = {} /\ r = h
           \/ Split(h) # {} /\ ClassesOf(r) \subseteq ClassesOf(h) /\ ClassesOf(r) # ClassesOf(h)
    BY <2>1, RepairedIs
  <2> HIDE DEF r
  <2>3. Coarser(g, r)
    BY <1>2, <2>1, <2>2 DEF Coarser
  <2>4. Few(r, n)
    <3>1. CASE Split(h) = {} /\ r = h
      BY <3>1
    <3>2. CASE Split(h) # {} /\ ClassesOf(r) \subseteq ClassesOf(h) /\ ClassesOf(r) # ClassesOf(h)
      <4>1. IsFiniteSet(ClassesOf(h)) /\ IsFiniteSet(ClassesOf(r))
        BY <2>1, <2>2, ClassesAreFew
      <4>2. Cardinality(ClassesOf(r)) # Cardinality(ClassesOf(h))
            /\ Cardinality(ClassesOf(r)) <= Cardinality(ClassesOf(h))
        BY <3>2, <4>1, FS_Subset
      <4>3. Cardinality(ClassesOf(r)) \in Nat /\ Cardinality(ClassesOf(h)) \in Nat
        BY <4>1, FS_CardinalityType
      <4>4. Cardinality(ClassesOf(h)) + (n - 1) <= N
        BY <2>1, <3>2
      <4> QED BY <1>1, <4>2, <4>3, <4>4
    <3> QED BY <2>2, <3>1, <3>2
  <2>5. r \in X
    BY <1>2, <2>2
  <2> HIDE DEF X, Few
  <2>6. r \in {e \in X : Graph(ts, e) /\ Coarser(g, e) /\ Few(e, n)}
    BY <2>2, <2>3, <2>4, <2>5
  <2> QED BY <1>1, <2>1, <2>6 DEF r
<1> HIDE DEF S
<1>5. Rebuild(ts, g) \in S[N]
  BY <1>3, <1>4, RebuildIn
<1> DEFINE h == Rebuild(ts, g)
<1> HIDE DEF h
<1>6. h \in X /\ Graph(ts, h) /\ Coarser(g, h) /\ Few(h, N)
  BY <1>1, <1>5 DEF S, h
<1>7. Split(h) = {}
  <2> SUFFICES ASSUME Split(h) # {} PROVE FALSE
    OBVIOUS
  <2>1. IsFiniteSet(ClassesOf(h)) /\ Cardinality(ClassesOf(h)) \in Nat
    BY <1>6, ClassesAreFew, FS_CardinalityType
  <2>2. Cardinality(ClassesOf(h)) + N <= N
    BY <1>6
  <2>3. Cardinality(ClassesOf(h)) = 0
    BY <1>1, <2>1, <2>2
  <2>4. ClassesOf(h) = {}
    BY <2>1, <2>3, FS_EmptySet
  <2>5. DOMAIN h = {}
    BY <2>4 DEF ClassesOf
  <2> QED BY <2>5 DEF Split
<1> QED BY <1>6, <1>7 DEF h

\* A graph without a class to merge is left as it is.
LEMMA RebuildSame ==
  ASSUME NEW ts, NEW g, Graph(ts, g), Split(g) = {}
  PROVE  Rebuild(ts, g) = g
<1> DEFINE S == [n \in 0..Len(ts) |-> {g}]
<1>1. Len(ts) \in Nat
  BY DEF Graph, Nodes
<1>2. g \in S[0]
  BY <1>1
<1>3. ASSUME NEW n \in 1..Len(ts), NEW h \in S[n - 1] PROVE Graph(ts, h) /\ Repaired(ts, h) \in S[n]
  <2>1. h = g
    BY <1>1, <1>3
  <2> QED BY <1>1, <2>1 DEF Repaired
<1> HIDE DEF S
<1>4. Rebuild(ts, g) \in S[Len(ts)]
  BY <1>2, <1>3, RebuildIn
<1> QED BY <1>1, <1>4 DEF S

(***************************************************************************)
(* Adding nodes.                                                           *)
(***************************************************************************)
\* A node over the terms of ts.
NodeOver(ts, node) == node = Term(node.op, node.args) /\ node.args \in Seq(ToSet(ts))

\* The graph h of the terms us has what is in the graph g of ts, unchanged.
Grown(ts, g, us, h) == ToSet(ts) \subseteq ToSet(us) /\ \A t \in ToSet(ts) : h[t] = g[t]

\* The class c is that of node: there is a term in it with such arguments.
HasNode(g, node, c) == \E t \in DOMAIN g : g[t] = c /\ Canonical(g, t) = Canonical(g, node)

\* The terms are nodes over the terms.
LEMMA TermsAreNodes ==
  ASSUME NEW ts, Nodes(ts), NEW t \in ToSet(ts)
  PROVE  NodeOver(ts, t)
<1>1. ts \in Seq(ToSet(ts)) /\ DOMAIN ts = 1..Len(ts) /\ Len(ts) \in Nat
  BY LenProperties DEF Nodes
<1>2. PICK i \in 1..Len(ts) : t = ts[i]
  BY <1>1 DEF ToSet
<1>3. t = Term(t.op, t.args) /\ t.args \in Seq({ts[j] : j \in 1..(i - 1)})
  BY <1>2 DEF Nodes
<1>4. {ts[j] : j \in 1..(i - 1)} \subseteq ToSet(ts)
  BY <1>1 DEF ToSet
<1>5. t.args \in Seq(ToSet(ts))
  BY <1>3, <1>4, ElementAt, ElementsInSeq
<1> QED BY <1>3, <1>5 DEF NodeOver

\* The node with classes for its arguments is over the same terms.
LEMMA CanonicalIs ==
  ASSUME NEW ts, NEW g, g \in [ToSet(ts) -> ToSet(ts)], NEW node, NodeOver(ts, node)
  PROVE  LET c == Canonical(g, node)
         IN /\ NodeOver(ts, c) /\ c.op = node.op /\ Len(c.args) = Len(node.args)
            /\ DOMAIN c.args = DOMAIN node.args
            /\ \A i \in DOMAIN node.args : c.args[i] = g[node.args[i]]
<1> DEFINE D == ToSet(ts)
           n == Len(node.args)
           xs == [i \in DOMAIN node.args |-> g[node.args[i]]]
<1>1. node.args \in Seq(D) /\ n \in Nat /\ DOMAIN node.args = 1..n
  BY LenProperties DEF NodeOver
<1>2. \A i \in 1..n : g[node.args[i]] \in D
  BY <1>1
<1>3. xs \in Seq(D) /\ Len(xs) = n /\ DOMAIN xs = 1..n
  BY <1>1, <1>2
<1>4. Canonical(g, node).op = node.op /\ Canonical(g, node).args = xs
  BY DEF Canonical, Term
<1> HIDE DEF xs
<1>5. NodeOver(ts, Canonical(g, node))
  BY <1>3, <1>4 DEF NodeOver, Canonical, Term
<1> QED BY <1>1, <1>3, <1>4, <1>5 DEF xs

\* Terms to which one is appended whose arguments are there.
LEMMA AppendNode ==
  ASSUME NEW ts, Nodes(ts), NEW new, NodeOver(ts, new)
  PROVE  /\ Nodes(Append(ts, new)) /\ ToSet(Append(ts, new)) = ToSet(ts) \cup {new}
<1> DEFINE D == ToSet(ts)
           N == Len(ts)
           us == Append(ts, new)
<1>1. ts \in Seq(D) /\ N \in Nat /\ DOMAIN ts = 1..N
  BY LenProperties DEF Nodes
<1>2. /\ us \in Seq(D \cup {new}) /\ Len(us) = N + 1 /\ DOMAIN us = 1..(N + 1)
      /\ us[N + 1] = new /\ \A i \in 1..N : us[i] = ts[i]
  <2>1. ts \in Seq(D \cup {new}) /\ new \in D \cup {new}
    BY <1>1, ElementsInSeq, ElementAt
  <2>2. us \in Seq(D \cup {new}) /\ Len(us) = N + 1
    BY <2>1, AppendProperties
  <2>3. us[N + 1] = new /\ \A i \in 1..N : us[i] = ts[i]
    BY <1>1, AppendIs
  <2> QED BY <2>2, <2>3, LenProperties
<1> HIDE DEF us
<1>3. ToSet(us) = D \cup {new}
  <2>1. \A x \in D : \E i \in 1..N : ts[i] = x
    BY <1>1 DEF ToSet
  <2>2. \A i \in 1..N : ts[i] \in D
    BY <1>1 DEF ToSet
  <2>3. \A i \in 1..(N + 1) : i \in 1..N \/ i = N + 1
    BY <1>1
  <2>4. ToSet(us) = {us[i] : i \in 1..(N + 1)}
    BY <1>2 DEF ToSet
  <2>5. N + 1 \in 1..(N + 1) /\ \A i \in 1..N : i \in 1..(N + 1)
    BY <1>1
  <2> HIDE DEF D
  <2> QED BY <1>2, <2>1, <2>2, <2>3, <2>4, <2>5
<1>4. ASSUME NEW i \in 1..Len(us)
      PROVE  us[i] = Term(us[i].op, us[i].args) /\ us[i].args \in Seq({us[j] : j \in 1..(i - 1)})
  <2>1. CASE i = N + 1
    <3>1. {us[j] : j \in 1..N} = D
      <4>1. D = {ts[j] : j \in 1..N}
        BY <1>1 DEF ToSet
      <4> HIDE DEF D
      <4> QED BY <1>2, <4>1
    <3>2. i - 1 = N /\ us[i] = new
      BY <1>1, <1>2, <2>1
    <3> QED BY <3>1, <3>2 DEF NodeOver
  <2>2. CASE i # N + 1
    <3>1. i \in 1..N /\ \A j \in 1..(i - 1) : j \in 1..N
      BY <1>1, <1>2, <2>2
    <3>2. us[i] = ts[i] /\ {us[j] : j \in 1..(i - 1)} = {ts[j] : j \in 1..(i - 1)}
      BY <1>2, <3>1
    <3> QED BY <3>1, <3>2 DEF Nodes
  <2> QED BY <2>1, <2>2
<1> QED BY <1>2, <1>3, <1>4 DEF Nodes, us

\* Adding a node gives its class.
LEMMA AddedIs ==
  ASSUME NEW ts, NEW g, Graph(ts, g), NEW node, NodeOver(ts, node)
  PROVE  LET a == Added(ts, g, node)
         IN /\ Graph(a.terms, a.graph) /\ Grown(ts, g, a.terms, a.graph)
            /\ a.id \in ToSet(a.terms) /\ HasNode(a.graph, node, a.id)
            /\ \A t \in ToSet(a.terms) : t \notin ToSet(ts) =>
                 a.graph[t] = t /\ t = Canonical(g, node)
<1> DEFINE a == Added(ts, g, node)
           D == ToSet(ts)
           new == Canonical(g, node)
<1>1. g \in [D -> D] /\ Nodes(ts) /\ \A t \in D : g[g[t]] = g[t]
  BY DEF Graph
<1>2. CASE Same(g, node) # {}
  <2> DEFINE t == CHOOSE t \in Same(g, node) : TRUE
  <2>1. t \in Same(g, node)
    BY <1>2
  <2>2. a.terms = ts /\ a.graph = g /\ a.id = g[t]
    BY <1>2 DEF Added
  <2> HIDE DEF t, a
  <2>3. t \in D /\ Canonical(g, t) = Canonical(g, node) /\ g[t] \in D
    BY <1>1, <2>1 DEF Same
  <2>4. HasNode(g, node, g[t])
    BY <1>1, <2>3 DEF HasNode
  <2> QED BY <2>2, <2>3, <2>4 DEF Grown, a
<1>3. CASE Same(g, node) = {}
  <2> DEFINE h == [t \in D \cup {new} |-> IF t = new THEN new ELSE g[t]]
  <2>1. a.terms = Append(ts, new) /\ a.graph = h /\ a.id = new
    BY <1>1, <1>3 DEF Added
  <2> HIDE DEF a
  <2>2. NodeOver(ts, new) /\ Canonical(g, new) = new
    <3>1. /\ NodeOver(ts, new) /\ DOMAIN new.args = DOMAIN node.args
          /\ \A i \in DOMAIN node.args : new.args[i] = g[node.args[i]]
      BY <1>1, CanonicalIs
    <3>2. \A i \in DOMAIN node.args : node.args[i] \in D
      BY ElementAt DEF NodeOver
    <3>3. \A i \in DOMAIN new.args : g[new.args[i]] = g[node.args[i]]
      BY <1>1, <3>1, <3>2
    <3>4. [i \in DOMAIN new.args |-> g[new.args[i]]] = [i \in DOMAIN node.args |-> g[node.args[i]]]
      BY <3>1, <3>3
    <3>5. new.op = node.op
      BY DEF Canonical, Term
    <3>6. Canonical(g, new) = Term(node.op, [i \in DOMAIN node.args |-> g[node.args[i]]])
      BY <3>4, <3>5 DEF Canonical
    <3> QED BY <3>1, <3>6 DEF Canonical
  <2>3. new \notin D
    BY <1>1, <1>3, <2>2 DEF Same
  <2>4. Nodes(Append(ts, new)) /\ ToSet(Append(ts, new)) = D \cup {new}
    BY <1>1, <2>2, AppendNode
  <2> HIDE DEF new
  <2>5. \A t \in D : h[t] = g[t] /\ g[t] \in D
    BY <1>1, <2>3
  <2>6. h[new] = new /\ DOMAIN h = D \cup {new}
    OBVIOUS
  <2>7. h \in [D \cup {new} -> D \cup {new}]
    BY <2>5
  <2>8. \A t \in D \cup {new} : h[h[t]] = h[t]
    BY <1>1, <2>5, <2>6
  <2>9. Graph(Append(ts, new), h)
    BY <2>4, <2>7, <2>8 DEF Graph
  <2> HIDE DEF h
  <2>10. \A u : NodeOver(ts, u) => Canonical(h, u) = Canonical(g, u)
    <3> SUFFICES ASSUME NEW u, NodeOver(ts, u) PROVE Canonical(h, u) = Canonical(g, u)
      OBVIOUS
    <3>1. \A i \in DOMAIN u.args : h[u.args[i]] = g[u.args[i]]
      BY <2>5, ElementAt DEF NodeOver
    <3>2. [i \in DOMAIN u.args |-> h[u.args[i]]] = [i \in DOMAIN u.args |-> g[u.args[i]]]
      BY <3>1
    <3> QED BY <3>2 DEF Canonical
  <2>11. Canonical(h, new) = Canonical(h, node)
    BY <2>2, <2>10 DEF new
  <2>12. HasNode(h, node, new)
    BY <2>6, <2>11 DEF HasNode
  <2>13. Grown(ts, g, Append(ts, new), h)
    BY <2>4, <2>5 DEF Grown
  <2>14. \A t \in ToSet(Append(ts, new)) : t \notin D => h[t] = t /\ t = new
    BY <2>4, <2>6
  <2> QED BY <2>1, <2>4, <2>9, <2>12, <2>13, <2>14 DEF a, new
<1> QED BY <1>2, <1>3

\* What there is after each node.
After(st, ts, g, nodes) ==
  /\ st[0] = [terms |-> ts, graph |-> g, ids |-> <<>>]
  /\ \A n \in 1..Len(nodes) :
       LET a == Added(st[n - 1].terms, st[n - 1].graph, nodes[n])
       IN st[n] = [terms |-> a.terms, graph |-> a.graph, ids |-> Append(st[n - 1].ids, a.id)]

\* AddedAll, step by step.
LEMMA AddedSteps ==
  ASSUME NEW ts, NEW g, NEW nodes, Len(nodes) \in Nat
  PROVE  \E st : After(st, ts, g, nodes) /\ AddedAll(ts, g, nodes) = st[Len(nodes)]
<1> DEFINE N == Len(nodes)
           start == [terms |-> ts, graph |-> g, ids |-> <<>>]
           Step(s, n) == LET a == Added(s.terms, s.graph, nodes[n])
                         IN [terms |-> a.terms, graph |-> a.graph, ids |-> Append(s.ids, a.id)]
           Goes(st, m) == st = [n \in 0..m |-> IF n = 0 THEN start ELSE Step(st[n - 1], n)]
           solved == {m \in 0..N : \E st : Goes(st, m)}
<1>1. 0 \in solved
  <2> DEFINE st == [n \in 0..0 |-> start]
  <2>1. st = [n \in 0..0 |-> IF n = 0 THEN start ELSE Step(st[n - 1], n)]
    OBVIOUS
  <2> HIDE DEF st
  <2> QED BY <2>1
<1>2. ASSUME NEW m \in 1..N, m - 1 \in solved PROVE m \in solved
  <2>1. PICK e : Goes(e, m - 1)
    BY <1>2
  <2> HIDE DEF Step, start
  <2>2. /\ DOMAIN e = 0..(m - 1) /\ e[0] = start
        /\ \A n \in 1..(m - 1) : e[n] = Step(e[n - 1], n)
    BY <2>1
  <2> DEFINE st == [n \in 0..m |-> IF n = m THEN Step(e[m - 1], m) ELSE e[n]]
  <2>3. st[0] = start
    BY <2>2
  <2>4. \A n \in 1..m : st[n] = Step(st[n - 1], n)
    <3> SUFFICES ASSUME NEW n \in 1..m PROVE st[n] = Step(st[n - 1], n)
      OBVIOUS
    <3>1. st[n - 1] = e[n - 1]
      OBVIOUS
    <3>2. CASE n = m
      BY <3>1, <3>2
    <3>3. CASE n # m
      <4>1. n \in 1..(m - 1) /\ st[n] = e[n]
        BY <3>3
      <4> QED BY <2>2, <3>1, <4>1
    <3> QED BY <3>2, <3>3
  <2>5. st = [n \in 0..m |-> st[n]]
    OBVIOUS
  <2> HIDE DEF st
  <2>6. \A n \in 0..m : st[n] = IF n = 0 THEN start ELSE Step(st[n - 1], n)
    BY <2>3, <2>4
  <2>7. Goes(st, m)
    BY <2>5, <2>6
  <2> HIDE DEF Goes
  <2> QED BY <2>7
<1>3. N \in solved
  <2>1. \A m \in 0..N : m \in solved
    <3> HIDE DEF solved, N
    <3> QED BY <1>1, <1>2, ByCounting DEF N
  <2>2. N \in 0..N
    OBVIOUS
  <2> HIDE DEF solved, N
  <2> QED BY <2>1, <2>2
<1> DEFINE after == CHOOSE st : Goes(st, N)
<1>4. Goes(after, N)
  BY <1>3
<1>5. AddedAll(ts, g, nodes) = after[N]
  BY DEF AddedAll
<1> HIDE DEF after
<1>6. After(after, ts, g, nodes)
  <2>1. after[0] = start /\ \A n \in 1..N : after[n] = Step(after[n - 1], n)
    <3> HIDE DEF Step, start
    <3> QED BY <1>4
  <2> QED BY <2>1 DEF After
<1> QED BY <1>5, <1>6

(***************************************************************************)
(* Values.                                                                 *)
(***************************************************************************)
\* The value of a node whose arguments have the values in v.
NodeValue(v, th, env, node) ==
  IF node.args = <<>> THEN IF node.op \in DOMAIN env THEN env[node.op] ELSE th.algebra[node.op]
  ELSE th.algebra[node.op][[i \in DOMAIN node.args |-> v[node.args[i]]]]

\* v has the values of the terms in T.
Valued(v, T, th, env) == \A t \in T : v[t] = NodeValue(v, th, env, t)

\* Two that have the values of the terms agree.
LEMMA ValuesAgree ==
  ASSUME NEW ts, Nodes(ts), NEW th, NEW env, NEW v, NEW w,
         Valued(v, ToSet(ts), th, env), Valued(w, ToSet(ts), th, env)
  PROVE  \A t \in ToSet(ts) : v[t] = w[t]
<1> DEFINE N == Len(ts)
           same == {i \in 1..N : v[ts[i]] = w[ts[i]]}
<1>1. N \in Nat /\ DOMAIN ts = 1..N
  BY LenProperties DEF Nodes
<1>2. ASSUME NEW i \in 1..N, \A k \in 1..(i - 1) : k \in same PROVE i \in same
  <2> DEFINE t == ts[i]
  <2>1. t.args \in Seq({ts[j] : j \in 1..(i - 1)})
    BY DEF Nodes
  <2>2. \A j \in DOMAIN t.args : v[t.args[j]] = w[t.args[j]]
    <3> SUFFICES ASSUME NEW j \in DOMAIN t.args PROVE v[t.args[j]] = w[t.args[j]]
      OBVIOUS
    <3> DEFINE earlier == {ts[k] : k \in 1..(i - 1)}
    <3>1. t.args[j] \in earlier
      <4>1. t.args \in Seq(earlier)
        BY <2>1
      <4> HIDE DEF earlier
      <4> QED BY <4>1, ElementAt
    <3>2. PICK k \in 1..(i - 1) : t.args[j] = ts[k]
      BY <3>1
    <3> QED BY <1>2, <3>2
  <2>3. t \in ToSet(ts)
    BY <1>1 DEF ToSet
  <2>4. v[t] = NodeValue(v, th, env, t) /\ w[t] = NodeValue(w, th, env, t)
    BY <2>3 DEF Valued
  <2> HIDE DEF t
  <2>5. [j \in DOMAIN t.args |-> v[t.args[j]]] = [j \in DOMAIN t.args |-> w[t.args[j]]]
    BY <2>2
  <2>6. NodeValue(v, th, env, t) = NodeValue(w, th, env, t)
    BY <2>5 DEF NodeValue
  <2> QED BY <2>4, <2>6 DEF t
<1>3. \A i \in 1..N : i \in same
  <2> HIDE DEF same, N
  <2> QED BY <1>1, <1>2, ByOrder
<1> QED BY <1>1, <1>3 DEF ToSet

\* The terms have values.
LEMMA ValueIs ==
  ASSUME NEW ts, Nodes(ts), NEW th, NEW env
  PROVE  /\ DOMAIN Val(ToSet(ts), th, env) = ToSet(ts)
         /\ Valued(Val(ToSet(ts), th, env), ToSet(ts), th, env)
<1> DEFINE N == Len(ts)
           D == ToSet(ts)
           Below(n) == {ts[j] : j \in 1..n}
           Goes(v, n) == v = [t \in D |-> IF t \in Below(n) THEN NodeValue(v, th, env, t) ELSE <<>>]
           solved == {n \in 0..N : \E v : Goes(v, n)}
<1>1. N \in Nat /\ DOMAIN ts = 1..N /\ Below(N) = D
  BY LenProperties DEF Nodes, ToSet
<1>2. 0 \in solved
  <2>1. Below(0) = {}
    OBVIOUS
  <2> DEFINE v == [t \in D |-> <<>>]
  <2>2. v = [t \in D |-> IF t \in Below(0) THEN NodeValue(v, th, env, t) ELSE <<>>]
    BY <2>1
  <2> HIDE DEF v, D, Below
  <2> QED BY <1>1, <2>2
<1>3. ASSUME NEW m \in 1..N, m - 1 \in solved PROVE m \in solved
  <2>1. PICK u : Goes(u, m - 1)
    BY <1>3
  <2> DEFINE new == ts[m]
             v == [t \in D |-> IF t = new THEN NodeValue(u, th, env, new) ELSE u[t]]
  <2>2. Below(m) = Below(m - 1) \cup {new}
    <3>1. \A j \in 1..m : j \in 1..(m - 1) \/ j = m
      BY <1>1
    <3>2. \A j \in 1..(m - 1) : j \in 1..m
      BY <1>1
    <3>3. m \in 1..m
      BY <1>1
    <3> QED BY <3>1, <3>2, <3>3
  <2>3. ASSUME NEW t \in Below(m - 1), NEW i \in DOMAIN t.args
        PROVE  t.args[i] \in Below(m - 1) /\ (new \notin Below(m - 1) => t.args[i] # new)
    <3>1. PICK k \in 1..(m - 1) : t = ts[k]
      OBVIOUS
    <3>2. k \in 1..N
      BY <1>1
    <3> DEFINE earlier == {ts[j] : j \in 1..(k - 1)}
    <3>3. t.args[i] \in earlier
      <4>1. t.args \in Seq(earlier)
        BY <3>1, <3>2 DEF Nodes
      <4> HIDE DEF earlier
      <4> QED BY <4>1, ElementAt
    <3>4. PICK j \in 1..(k - 1) : t.args[i] = ts[j]
      BY <3>3
    <3>5. j \in 1..(m - 1)
      BY <1>1, <3>1, <3>4
    <3> QED BY <3>4, <3>5
  <2>4. \A i \in DOMAIN new.args : new.args[i] \in Below(m - 1)
    <3>1. new.args \in Seq({ts[j] : j \in 1..(m - 1)})
      BY DEF Nodes
    <3> QED BY <3>1, ElementAt
  <2>5. CASE new \in Below(m - 1)
    <3>1. Below(m) = Below(m - 1)
      BY <2>2, <2>5
    <3> HIDE DEF Below
    <3>2. Goes(u, m)
      BY <2>1, <3>1
    <3> HIDE DEF Goes
    <3> QED BY <3>2
  <2>6. CASE new \notin Below(m - 1)
    <3>1. \A t \in D : t # new => v[t] = u[t]
      OBVIOUS
    <3>2. \A j \in 1..N : ts[j] \in D
      BY <1>1 DEF ToSet
    <3>3. \A t \in Below(m - 1) : t \in D /\ t # new
      BY <1>1, <2>6, <3>2
    <3>4. new \in D
      BY <3>2
    <3>5. \A t \in Below(m - 1) : NodeValue(v, th, env, t) = NodeValue(u, th, env, t)
      <4> SUFFICES ASSUME NEW t \in Below(m - 1) PROVE NodeValue(v, th, env, t) = NodeValue(u, th, env, t)
        OBVIOUS
      <4>1. \A i \in DOMAIN t.args : v[t.args[i]] = u[t.args[i]]
        BY <2>3, <3>1, <3>3
      <4> HIDE DEF v
      <4>2. [i \in DOMAIN t.args |-> v[t.args[i]]] = [i \in DOMAIN t.args |-> u[t.args[i]]]
        BY <4>1
      <4> QED BY <4>2 DEF NodeValue
    <3>6. NodeValue(v, th, env, new) = NodeValue(u, th, env, new)
      <4>1. \A i \in DOMAIN new.args : v[new.args[i]] = u[new.args[i]]
        BY <2>4, <3>1, <3>3
      <4> HIDE DEF v
      <4>2. [i \in DOMAIN new.args |-> v[new.args[i]]] = [i \in DOMAIN new.args |-> u[new.args[i]]]
        BY <4>1
      <4> QED BY <4>2 DEF NodeValue
    <3>7. \A t \in D : u[t] = IF t \in Below(m - 1) THEN NodeValue(u, th, env, t) ELSE <<>>
      <4> HIDE DEF Below, D
      <4> QED BY <2>1
    <3>8. \A t \in D : v[t] = IF t \in Below(m) THEN NodeValue(v, th, env, t) ELSE <<>>
      <4> SUFFICES ASSUME NEW t \in D PROVE v[t] = IF t \in Below(m) THEN NodeValue(v, th, env, t) ELSE <<>>
        OBVIOUS
      <4>1. CASE t = new
        <5>1. v[t] = NodeValue(u, th, env, new)
          BY <4>1
        <5> HIDE DEF v, Below
        <5> QED BY <2>2, <3>6, <4>1, <5>1
      <4>2. CASE t # new
        <5> HIDE DEF v, Below, D
        <5> QED BY <2>2, <3>1, <3>5, <3>7, <4>2
      <4> QED BY <4>1, <4>2
    <3>9. v = [t \in D |-> v[t]]
      OBVIOUS
    <3> HIDE DEF v, Below, D
    <3>10. Goes(v, m)
      BY <3>8, <3>9
    <3> HIDE DEF Goes
    <3> QED BY <3>10
  <2> QED BY <2>5, <2>6
<1>4. N \in solved
  <2>1. \A m \in 0..N : m \in solved
    <3> HIDE DEF solved, N
    <3> QED BY <1>1, <1>2, <1>3, ByCounting
  <2>2. N \in 0..N
    BY <1>1
  <2> HIDE DEF solved, N
  <2> QED BY <2>1, <2>2
<1> DEFINE Is(v) == v = [t \in D |-> NodeValue(v, th, env, t)]
<1>5. \E v : Is(v)
  <2>1. PICK v : Goes(v, N)
    BY <1>4
  <2> HIDE DEF D, Below
  <2>2. Is(v)
    BY <1>1, <2>1
  <2> HIDE DEF Is
  <2> QED BY <2>2
<1> DEFINE val == CHOOSE v : Is(v)
<1>6. Is(val)
  BY <1>5
<1>7. Val(D, th, env) = val
  BY DEF Val, NodeValue
<1> HIDE DEF val
<1> QED BY <1>6, <1>7 DEF Valued

\* A class is a set of terms with one value.
Right(ts, g, th) ==
  \A env \in Envs(th) : \A a, b \in ToSet(ts) :
    g[a] = g[b] => Val(ToSet(ts), th, env)[a] = Val(ToSet(ts), th, env)[b]

\* A node and the node with classes for its arguments have one value.
LEMMA CanonicalValue ==
  ASSUME NEW ts, NEW g, Graph(ts, g), NEW th, Right(ts, g, th), NEW env \in Envs(th),
         NEW node, NodeOver(ts, node)
  PROVE  NodeValue(Val(ToSet(ts), th, env), th, env, Canonical(g, node))
           = NodeValue(Val(ToSet(ts), th, env), th, env, node)
<1> DEFINE v == Val(ToSet(ts), th, env)
           c == Canonical(g, node)
<1>1. g \in [ToSet(ts) -> ToSet(ts)] /\ \A t \in ToSet(ts) : g[g[t]] = g[t]
  BY DEF Graph
<1>2. /\ NodeOver(ts, c) /\ c.op = node.op /\ Len(c.args) = Len(node.args)
      /\ DOMAIN c.args = DOMAIN node.args
      /\ \A i \in DOMAIN node.args : c.args[i] = g[node.args[i]]
  BY <1>1, CanonicalIs
<1> HIDE DEF c
<1>3. \A i \in DOMAIN node.args : v[c.args[i]] = v[node.args[i]]
  <2> SUFFICES ASSUME NEW i \in DOMAIN node.args PROVE v[c.args[i]] = v[node.args[i]]
    OBVIOUS
  <2>1. node.args[i] \in ToSet(ts)
    BY ElementAt DEF NodeOver
  <2>2. g[node.args[i]] \in ToSet(ts) /\ g[g[node.args[i]]] = g[node.args[i]]
    BY <1>1, <2>1
  <2> HIDE DEF v
  <2> QED BY <1>2, <2>1, <2>2 DEF Right, v
<1>4. [i \in DOMAIN c.args |-> v[c.args[i]]] = [i \in DOMAIN node.args |-> v[node.args[i]]]
  BY <1>2, <1>3
<1>5. (c.args = <<>>) = (node.args = <<>>)
  BY <1>2, EmptySeq DEF NodeOver
<1> HIDE DEF v
<1> QED BY <1>2, <1>4, <1>5 DEF NodeValue, c, v

\* Terms with equal nodes have one value.
LEMMA EqualNodes ==
  ASSUME NEW ts, NEW g, Graph(ts, g), NEW th, Right(ts, g, th), NEW env \in Envs(th),
         NEW a \in ToSet(ts), NEW node, NodeOver(ts, node), Canonical(g, a) = Canonical(g, node)
  PROVE  Val(ToSet(ts), th, env)[a] = NodeValue(Val(ToSet(ts), th, env), th, env, node)
<1> DEFINE v == Val(ToSet(ts), th, env)
<1>1. NodeOver(ts, a)
  BY TermsAreNodes DEF Graph
<1>2. v[a] = NodeValue(v, th, env, a)
  BY ValueIs DEF Valued, Graph
<1>3. /\ NodeValue(v, th, env, Canonical(g, a)) = NodeValue(v, th, env, a)
      /\ NodeValue(v, th, env, Canonical(g, node)) = NodeValue(v, th, env, node)
  BY <1>1, CanonicalValue
<1> HIDE DEF v
<1> QED BY <1>2, <1>3 DEF v

\* Merging what has one value is right.
LEMMA RightMerged ==
  ASSUME NEW ts, NEW g, Graph(ts, g), NEW th, Right(ts, g, th),
         NEW a \in ToSet(ts), NEW b \in ToSet(ts), Equal(ToSet(ts), th, a, b)
  PROVE  Right(ts, Merge(ts, g, a, b), th)
<1> DEFINE h == Merge(ts, g, a, b)
<1>1. \A x, y \in ToSet(ts) : h[x] = h[y] => \/ g[x] = g[y]
                                             \/ {g[x], g[y]} \subseteq {g[a], g[b]}
  BY MergeIs
<1> HIDE DEF h
<1> SUFFICES ASSUME NEW env \in Envs(th), NEW x \in ToSet(ts), NEW y \in ToSet(ts), h[x] = h[y]
             PROVE  Val(ToSet(ts), th, env)[x] = Val(ToSet(ts), th, env)[y]
  BY DEF Right, h
<1> DEFINE v == Val(ToSet(ts), th, env)
<1>2. \A s, t \in ToSet(ts) : g[s] = g[t] => v[s] = v[t]
  BY DEF Right
<1>3. v[a] = v[b]
  BY DEF Equal
<1> HIDE DEF v
<1>4. CASE g[x] = g[y]
  BY <1>2, <1>4 DEF v
<1>5. CASE {g[x], g[y]} \subseteq {g[a], g[b]}
  <2>1. v[x] \in {v[a], v[b]} /\ v[y] \in {v[a], v[b]}
    BY <1>2, <1>5
  <2> QED BY <1>3, <2>1 DEF v
<1> QED BY <1>1, <1>4, <1>5

\* Rebuilding is right.
LEMMA RightRebuilt ==
  ASSUME NEW ts, NEW g, Graph(ts, g), NEW th, Right(ts, g, th)
  PROVE  Right(ts, Rebuild(ts, g), th)
<1> DEFINE X == [ToSet(ts) -> ToSet(ts)]
           S == [n \in 0..Len(ts) |-> {h \in X : Graph(ts, h) /\ Right(ts, h, th)}]
<1>1. Len(ts) \in Nat
  BY DEF Graph, Nodes
<1>2. \A h : Graph(ts, h) => h \in X /\ DOMAIN h = ToSet(ts)
  BY DEF Graph
<1>3. g \in S[0]
  BY <1>1, <1>2
<1>4. ASSUME NEW n \in 1..Len(ts), NEW h \in S[n - 1] PROVE Graph(ts, h) /\ Repaired(ts, h) \in S[n]
  <2> DEFINE r == Repaired(ts, h)
  <2>1. Graph(ts, h) /\ Right(ts, h, th)
    BY <1>1, <1>4
  <2>2. Graph(ts, r) /\ (r = h \/ \E p \in Split(h) : r = Merge(ts, h, p[1], p[2]))
    BY <2>1, RepairedIs
  <2> HIDE DEF r
  <2>3. Right(ts, r, th)
    <3>1. CASE r = h
      BY <2>1, <3>1
    <3>2. CASE \E p \in Split(h) : r = Merge(ts, h, p[1], p[2])
      <4>1. PICK p \in Split(h) : r = Merge(ts, h, p[1], p[2])
        BY <3>2
      <4>2. p[1] \in ToSet(ts) /\ p[2] \in ToSet(ts) /\ Canonical(h, p[1]) = Canonical(h, p[2])
        BY <1>2, <2>1 DEF Split
      <4>3. \A t \in ToSet(ts) : NodeOver(ts, t)
        BY <2>1, TermsAreNodes DEF Graph
      <4>4. Equal(ToSet(ts), th, p[1], p[2])
        <5> SUFFICES ASSUME NEW env \in Envs(th)
                     PROVE  Val(ToSet(ts), th, env)[p[1]] = Val(ToSet(ts), th, env)[p[2]]
          BY DEF Equal
        <5> DEFINE v == Val(ToSet(ts), th, env)
        <5>1. v[p[1]] = NodeValue(v, th, env, p[2])
          BY <2>1, <4>2, <4>3, EqualNodes
        <5>2. v[p[2]] = NodeValue(v, th, env, p[2])
          BY <2>1, <4>2, <4>3, EqualNodes
        <5> QED BY <5>1, <5>2
      <4> QED BY <2>1, <4>1, <4>2, <4>4, RightMerged
    <3> QED BY <2>2, <3>1, <3>2
  <2>4. r \in X
    BY <1>2, <2>2
  <2> HIDE DEF X
  <2>5. r \in {e \in X : Graph(ts, e) /\ Right(ts, e, th)}
    BY <2>2, <2>3, <2>4
  <2> QED BY <1>1, <2>1, <2>5 DEF r
<1> HIDE DEF S
<1>5. Rebuild(ts, g) \in S[Len(ts)]
  BY <1>3, <1>4, RebuildIn
<1> QED BY <1>1, <1>5 DEF S

\* What terms there are besides makes no difference to a value.
LEMMA ValuesGrow ==
  ASSUME NEW ts, Nodes(ts), NEW us, Nodes(us), ToSet(ts) \subseteq ToSet(us), NEW th, NEW env
  PROVE  \A t \in ToSet(ts) : Val(ToSet(us), th, env)[t] = Val(ToSet(ts), th, env)[t]
<1>1. Valued(Val(ToSet(us), th, env), ToSet(us), th, env)
  BY ValueIs
<1>2. Valued(Val(ToSet(us), th, env), ToSet(ts), th, env)
  BY <1>1 DEF Valued
<1>3. Valued(Val(ToSet(ts), th, env), ToSet(ts), th, env)
  BY ValueIs
<1> QED BY <1>2, <1>3, ValuesAgree

\* The class of a node has the value of the node.
LEMMA ClassValue ==
  ASSUME NEW ts, NEW g, Graph(ts, g), NEW th, Right(ts, g, th), NEW env \in Envs(th),
         NEW node, NodeOver(ts, node), NEW c, HasNode(g, node, c)
  PROVE  Val(ToSet(ts), th, env)[c] = NodeValue(Val(ToSet(ts), th, env), th, env, node)
<1>1. PICK t \in ToSet(ts) : g[t] = c /\ Canonical(g, t) = Canonical(g, node)
  BY DEF HasNode, Graph
<1>2. c \in ToSet(ts) /\ g[c] = g[t]
  BY <1>1 DEF Graph
<1> DEFINE v == Val(ToSet(ts), th, env)
<1>3. v[t] = NodeValue(v, th, env, node)
  BY <1>1, EqualNodes
<1>4. v[c] = v[t]
  BY <1>2 DEF Right
<1> QED BY <1>3, <1>4

\* Adding a node is right.
LEMMA RightAdded ==
  ASSUME NEW ts, NEW g, Graph(ts, g), NEW th, Right(ts, g, th), NEW node, NodeOver(ts, node)
  PROVE  LET a == Added(ts, g, node) IN Right(a.terms, a.graph, th)
<1> DEFINE us == Added(ts, g, node).terms
           h == Added(ts, g, node).graph
<1>1. /\ Graph(us, h) /\ Grown(ts, g, us, h)
      /\ \A t \in ToSet(us) : t \notin ToSet(ts) => h[t] = t /\ t = Canonical(g, node)
  BY AddedIs
<1> HIDE DEF us, h
<1>2. \A t \in ToSet(ts) : g[t] \in ToSet(ts) /\ h[t] = g[t]
  BY <1>1 DEF Graph, Grown
<1> SUFFICES ASSUME NEW env \in Envs(th), NEW x \in ToSet(us), NEW y \in ToSet(us), h[x] = h[y]
             PROVE  Val(ToSet(us), th, env)[x] = Val(ToSet(us), th, env)[y]
  BY DEF Right, us, h
<1>3. CASE x \in ToSet(ts) /\ y \in ToSet(ts)
  <2>1. Val(ToSet(ts), th, env)[x] = Val(ToSet(ts), th, env)[y]
    BY <1>2, <1>3 DEF Right
  <2>2. \A t \in ToSet(ts) : Val(ToSet(us), th, env)[t] = Val(ToSet(ts), th, env)[t]
    BY <1>1, ValuesGrow DEF Graph, Grown
  <2> QED BY <1>3, <2>1, <2>2
<1>4. CASE x \notin ToSet(ts) \/ y \notin ToSet(ts)
  <2>1. x = y
    BY <1>1, <1>2, <1>4
  <2> QED BY <2>1
<1> QED BY <1>3, <1>4

\* A node stays in its class.
LEMMA HasNodeGrows ==
  ASSUME NEW ts, NEW g, Graph(ts, g), NEW us, NEW h, Graph(us, h), Grown(ts, g, us, h),
         NEW node, NodeOver(ts, node), NEW c, HasNode(g, node, c)
  PROVE  HasNode(h, node, c)
<1>1. \A u : NodeOver(ts, u) => Canonical(h, u) = Canonical(g, u)
  <2> SUFFICES ASSUME NEW u, NodeOver(ts, u) PROVE Canonical(h, u) = Canonical(g, u)
    OBVIOUS
  <2>1. \A i \in DOMAIN u.args : h[u.args[i]] = g[u.args[i]]
    BY ElementAt DEF NodeOver, Grown
  <2>2. [i \in DOMAIN u.args |-> h[u.args[i]]] = [i \in DOMAIN u.args |-> g[u.args[i]]]
    BY <2>1
  <2> QED BY <2>2 DEF Canonical
<1>2. PICK t \in ToSet(ts) : g[t] = c /\ Canonical(g, t) = Canonical(g, node)
  BY DEF HasNode, Graph
<1>3. NodeOver(ts, t)
  BY TermsAreNodes DEF Graph
<1>4. Canonical(h, t) = Canonical(h, node)
  BY <1>1, <1>2, <1>3
<1>5. t \in DOMAIN h /\ h[t] = c
  BY <1>2 DEF Grown, Graph
<1> QED BY <1>4, <1>5 DEF HasNode

\* Of a chain of graphs, each has what is in those before.
LEMMA GrownGrows ==
  ASSUME NEW ts, NEW g, NEW us, NEW h, NEW vs, NEW f, Grown(ts, g, us, h), Grown(us, h, vs, f)
  PROVE  Grown(ts, g, vs, f)
BY DEF Grown

\* A node over terms is a node over more terms.
LEMMA NodeOverMore ==
  ASSUME NEW ts, NEW us, ToSet(ts) \subseteq ToSet(us), NEW node, NodeOver(ts, node)
  PROVE  NodeOver(us, node)
<1>1. node.args \in Seq(ToSet(us))
  BY ElementAt, ElementsInSeq DEF NodeOver
<1> QED BY <1>1 DEF NodeOver

\* Adding nodes over terms that there are already gives their classes.
LEMMA AddedAllIs ==
  ASSUME NEW ts, NEW g, Graph(ts, g), NEW nodes, Len(nodes) \in Nat,
         \A j \in 1..Len(nodes) : NodeOver(ts, nodes[j])
  PROVE  LET all == AddedAll(ts, g, nodes)
         IN /\ Graph(all.terms, all.graph) /\ Grown(ts, g, all.terms, all.graph)
            /\ all.ids \in Seq(ToSet(all.terms)) /\ Len(all.ids) = Len(nodes)
            /\ \A j \in 1..Len(nodes) : HasNode(all.graph, nodes[j], all.ids[j])
            /\ \A th : Right(ts, g, th) => Right(all.terms, all.graph, th)
<1> DEFINE N == Len(nodes)
           Good(s, n) == /\ Graph(s.terms, s.graph) /\ Grown(ts, g, s.terms, s.graph)
                         /\ s.ids \in Seq(ToSet(s.terms)) /\ Len(s.ids) = n
                         /\ \A j \in 1..n : HasNode(s.graph, nodes[j], s.ids[j])
                         /\ \A th : Right(ts, g, th) => Right(s.terms, s.graph, th)
<1>1. PICK st : After(st, ts, g, nodes) /\ AddedAll(ts, g, nodes) = st[N]
  BY AddedSteps
<1> DEFINE good == {n \in 0..N : Good(st[n], n)}
<1>2. 0 \in good
  <2>1. st[0].terms = ts /\ st[0].graph = g /\ st[0].ids = <<>>
    BY <1>1 DEF After
  <2>2. Grown(ts, g, ts, g) /\ <<>> \in Seq(ToSet(ts)) /\ Len(<<>>) = 0
    BY DEF Grown
  <2>3. Good(st[0], 0)
    BY <2>1, <2>2
  <2> HIDE DEF Good
  <2> QED BY <2>3
<1>3. ASSUME NEW n \in 1..N, n - 1 \in good PROVE n \in good
  <2> DEFINE s == st[n - 1]
             node == nodes[n]
             a == Added(s.terms, s.graph, node)
  <2>1. Good(s, n - 1)
    BY <1>3
  <2>2. st[n].terms = a.terms /\ st[n].graph = a.graph /\ st[n].ids = Append(s.ids, a.id)
    <3>1. st[n] = [terms |-> a.terms, graph |-> a.graph, ids |-> Append(s.ids, a.id)]
      BY <1>1 DEF After
    <3> HIDE DEF a, s
    <3> QED BY <3>1
  <2> HIDE DEF s
  <2>3. NodeOver(s.terms, node) /\ \A j \in 1..N : NodeOver(s.terms, nodes[j])
    BY <2>1, NodeOverMore DEF Grown
  <2>4. /\ Graph(a.terms, a.graph) /\ Grown(s.terms, s.graph, a.terms, a.graph)
        /\ a.id \in ToSet(a.terms) /\ HasNode(a.graph, node, a.id)
    BY <2>1, <2>3, AddedIs
  <2>5. \A th : Right(ts, g, th) => Right(a.terms, a.graph, th)
    BY <2>1, <2>3, RightAdded
  <2> HIDE DEF a
  <2>6. Grown(ts, g, a.terms, a.graph)
    BY <2>1, <2>4, GrownGrows
  <2>7. /\ st[n].ids \in Seq(ToSet(a.terms)) /\ Len(st[n].ids) = n
        /\ st[n].ids[n] = a.id /\ \A j \in 1..(n - 1) : st[n].ids[j] = s.ids[j]
    <3>1. s.ids \in Seq(ToSet(a.terms)) /\ Len(s.ids) = n - 1
      BY <2>1, <2>4, ElementAt, ElementsInSeq DEF Grown
    <3>2. Append(s.ids, a.id) \in Seq(ToSet(a.terms)) /\ Len(Append(s.ids, a.id)) = n
      BY <2>4, <3>1, AppendProperties
    <3>3. Append(s.ids, a.id)[Len(s.ids) + 1] = a.id
          /\ \A j \in 1..Len(s.ids) : Append(s.ids, a.id)[j] = s.ids[j]
      BY <3>1, AppendIs
    <3> QED BY <2>2, <3>1, <3>2, <3>3
  <2>8. ASSUME NEW j \in 1..n PROVE HasNode(a.graph, nodes[j], st[n].ids[j])
    <3>1. CASE j = n
      BY <2>4, <2>7, <3>1
    <3>2. CASE j # n
      <4>1. j \in 1..(n - 1) /\ j \in 1..N
        BY <3>2
      <4>2. HasNode(s.graph, nodes[j], s.ids[j])
        BY <2>1, <4>1
      <4>3. HasNode(a.graph, nodes[j], s.ids[j])
        BY <2>1, <2>3, <2>4, <4>1, <4>2, HasNodeGrows
      <4> QED BY <2>7, <4>1, <4>3
    <3> QED BY <3>1, <3>2
  <2>9. Good(st[n], n)
    BY <2>2, <2>4, <2>5, <2>6, <2>7, <2>8
  <2> QED BY <2>9
<1>4. \A n \in 0..N : n \in good
  <2> HIDE DEF good, N
  <2> QED BY <1>2, <1>3, ByCounting DEF N
<1>5. Good(st[N], N)
  <2>1. N \in 0..N
    OBVIOUS
  <2> QED BY <1>4, <2>1
<1> QED BY <1>1, <1>5

(***************************************************************************)
(* The examples, and the initial graph.                                    *)
(***************************************************************************)
BaseExamples(t) == [i \in DOMAIN t.base |-> Const(t.base[i])]
MoreExamples(t, es) == [i \in DOMAIN t.rec |-> On(t.rec[i], Last(es))]

\* Each example is a constructor on nothing or on an earlier example.
ExampleOf(t, es, i) ==
  \/ \E c \in ToSet(t.base) : es[i] = Const(c)
  \/ \E f \in t.functions : \E j \in 1..(i - 1) : es[i] = On(f, es[j])
IsExamples(t, es) ==
  /\ es \in Seq(ToSet(es)) /\ es # <<>>
  /\ \A i \in 1..Len(es) : ExampleOf(t, es, i)

\* Examples, step by step.
LEMMA ExampleSteps ==
  ASSUME NEW t
  PROVE  \E st : /\ st[0] = BaseExamples(t) /\ Examples(t) = st[ExampleDepth]
                 /\ \A n \in 1..ExampleDepth : st[n] = st[n - 1] \o MoreExamples(t, st[n - 1])
<1> DEFINE N == ExampleDepth
           Step(es) == es \o MoreExamples(t, es)
           Goes(st, m) == st = [n \in 0..m |-> IF n = 0 THEN BaseExamples(t) ELSE Step(st[n - 1])]
           solved == {m \in 0..N : \E st : Goes(st, m)}
<1>1. N \in Nat
  BY TermAssumption
<1>2. 0 \in solved
  <2> DEFINE st == [n \in 0..0 |-> BaseExamples(t)]
  <2>1. st = [n \in 0..0 |-> IF n = 0 THEN BaseExamples(t) ELSE Step(st[n - 1])]
    OBVIOUS
  <2> HIDE DEF st
  <2>2. Goes(st, 0)
    BY <2>1
  <2> HIDE DEF Goes
  <2> QED BY <1>1, <2>2
<1>3. ASSUME NEW m \in 1..N, m - 1 \in solved PROVE m \in solved
  <2>1. PICK e : Goes(e, m - 1)
    BY <1>3
  <2> HIDE DEF Step
  <2>2. /\ DOMAIN e = 0..(m - 1) /\ e[0] = BaseExamples(t)
        /\ \A n \in 1..(m - 1) : e[n] = Step(e[n - 1])
    BY <1>1, <2>1
  <2> DEFINE st == [n \in 0..m |-> IF n = m THEN Step(e[m - 1]) ELSE e[n]]
  <2>3. st[0] = BaseExamples(t)
    BY <1>1, <2>2
  <2>4. \A n \in 1..m : st[n] = Step(st[n - 1])
    <3> SUFFICES ASSUME NEW n \in 1..m PROVE st[n] = Step(st[n - 1])
      OBVIOUS
    <3>1. st[n - 1] = e[n - 1]
      BY <1>1
    <3>2. CASE n = m
      BY <1>1, <3>1, <3>2
    <3>3. CASE n # m
      <4>1. n \in 1..(m - 1) /\ st[n] = e[n]
        BY <1>1, <3>3
      <4> QED BY <2>2, <3>1, <4>1
    <3> QED BY <3>2, <3>3
  <2>5. st = [n \in 0..m |-> st[n]]
    OBVIOUS
  <2> HIDE DEF st
  <2>6. \A n \in 0..m : st[n] = IF n = 0 THEN BaseExamples(t) ELSE Step(st[n - 1])
    BY <1>1, <2>3, <2>4
  <2>7. Goes(st, m)
    BY <2>5, <2>6
  <2> HIDE DEF Goes
  <2> QED BY <2>7
<1>4. N \in solved
  <2>1. \A m \in 0..N : m \in solved
    <3> HIDE DEF solved, N
    <3> QED BY <1>1, <1>2, <1>3, ByCounting
  <2>2. N \in 0..N
    BY <1>1
  <2> HIDE DEF solved, N
  <2> QED BY <2>1, <2>2
<1> DEFINE upTo == CHOOSE st : Goes(st, N)
<1>5. Goes(upTo, N)
  BY <1>4
<1>6. Examples(t) = upTo[N]
  BY DEF Examples, BaseExamples, MoreExamples
<1> HIDE DEF upTo
<1>7. upTo[0] = BaseExamples(t) /\ \A n \in 1..N : upTo[n] = Step(upTo[n - 1])
  <2> HIDE DEF Step
  <2> QED BY <1>1, <1>5
<1> QED BY <1>6, <1>7

\* The examples are what they should be.
LEMMA ExamplesAre ==
  ASSUME NEW t \in Theories
  PROVE  IsExamples(t, Examples(t))
<1> DEFINE N == ExampleDepth
<1>1. N \in Nat
  BY TermAssumption
<1>2. /\ t.base \in Seq(ToSet(t.base)) /\ t.base # <<>>
      /\ t.rec \in Seq(t.functions)
  BY SignatureAssumption
<1>3. PICK st : /\ st[0] = BaseExamples(t) /\ Examples(t) = st[N]
                /\ \A n \in 1..N : st[n] = st[n - 1] \o MoreExamples(t, st[n - 1])
  BY ExampleSteps
<1> DEFINE good == {n \in 0..N : IsExamples(t, st[n])}
<1>4. 0 \in good
  <2> DEFINE es == BaseExamples(t)
  <2>1. DOMAIN t.base = 1..Len(t.base) /\ Len(t.base) \in Nat /\ Len(t.base) # 0
    BY <1>2, LenProperties, EmptySeq
  <2>2. DOMAIN es = 1..Len(t.base) /\ \A i \in 1..Len(t.base) : es[i] = Const(t.base[i])
    BY <2>1 DEF BaseExamples
  <2>3. \A i \in 1..Len(t.base) : t.base[i] \in ToSet(t.base)
    BY <2>1 DEF ToSet
  <2>4. es \in Seq(ToSet(es)) /\ Len(es) = Len(t.base)
    <3>1. es = [i \in 1..Len(t.base) |-> es[i]]
      BY <2>1 DEF BaseExamples
    <3>2. \A i \in 1..Len(t.base) : es[i] \in ToSet(es)
      BY <2>2 DEF ToSet
    <3> HIDE DEF es
    <3> QED BY <2>1, <3>1, <3>2
  <2> HIDE DEF es
  <2>5. \A i \in 1..Len(es) : ExampleOf(t, es, i)
    BY <2>2, <2>3, <2>4 DEF ExampleOf
  <2>6. es # <<>>
    BY <2>1, <2>4, EmptySeq
  <2> QED BY <1>1, <1>3, <2>4, <2>5, <2>6 DEF IsExamples, es
<1>5. ASSUME NEW n \in 1..N, n - 1 \in good PROVE n \in good
  <2> DEFINE es == st[n - 1]
             more == MoreExamples(t, es)
             k == Len(t.rec)
             U == ToSet(es) \cup ToSet(more)
  <2>1. IsExamples(t, es)
    BY <1>5
  <2>2. st[n] = es \o more
    BY <1>3
  <2> HIDE DEF es
  <2>3. /\ es \in Seq(ToSet(es)) /\ Len(es) \in Nat /\ Len(es) # 0 /\ DOMAIN es = 1..Len(es)
        /\ \A i \in 1..Len(es) : ExampleOf(t, es, i)
    BY <2>1, LenProperties, EmptySeq DEF IsExamples
  <2>4. DOMAIN t.rec = 1..k /\ k \in Nat /\ \A i \in 1..k : t.rec[i] \in t.functions
    BY <1>2, LenProperties, ElementAt
  <2>5. DOMAIN more = 1..k /\ \A i \in 1..k : more[i] = On(t.rec[i], es[Len(es)])
    BY <2>4 DEF MoreExamples, Last
  <2>6. more \in Seq(U) /\ Len(more) = k
    <3>1. more = [i \in 1..k |-> more[i]]
      BY <2>4 DEF MoreExamples
    <3>2. \A i \in 1..k : more[i] \in U
      BY <2>5 DEF ToSet
    <3> HIDE DEF more
    <3> QED BY <2>4, <3>1, <3>2
  <2> HIDE DEF more
  <2> DEFINE all == es \o more
  <2>7. es \in Seq(U)
    BY <2>3, ElementAt, ElementsInSeq
  <2> HIDE DEF U
  <2>8. /\ all \in Seq(U) /\ Len(all) = Len(es) + k
        /\ \A i \in 1..(Len(es) + k) : all[i] = IF i <= Len(es) THEN es[i] ELSE more[i - Len(es)]
    <3>1. /\ all \in Seq(U) /\ Len(all) = Len(es) + Len(more)
          /\ \A i \in 1..(Len(es) + Len(more)) : all[i] = IF i <= Len(es) THEN es[i] ELSE more[i - Len(es)]
      BY <2>6, <2>7, ConcatProperties
    <3> QED BY <2>6, <3>1
  <2> HIDE DEF all
  <2>9. all \in Seq(ToSet(all))
    <3>1. DOMAIN all = 1..Len(all)
      BY <2>8, LenProperties
    <3>2. \A i \in 1..Len(all) : all[i] \in ToSet(all)
      BY <3>1 DEF ToSet
    <3> QED BY <2>8, <3>2, ElementsInSeq
  <2>10. ASSUME NEW i \in 1..Len(all) PROVE ExampleOf(t, all, i)
    <3>1. CASE i <= Len(es)
      <4>1. i \in 1..Len(es) /\ all[i] = es[i] /\ \A j \in 1..(i - 1) : all[j] = es[j]
        BY <2>3, <2>4, <2>8, <3>1
      <4>2. ExampleOf(t, es, i)
        BY <2>3, <4>1
      <4> QED BY <4>1, <4>2 DEF ExampleOf
    <3>2. CASE ~(i <= Len(es))
      <4>1. i - Len(es) \in 1..k /\ all[i] = more[i - Len(es)] /\ Len(es) \in 1..(i - 1)
            /\ all[Len(es)] = es[Len(es)]
        <5> HIDE DEF k
        <5>1. /\ Len(all) = Len(es) + k /\ Len(es) \in Nat /\ Len(es) # 0 /\ k \in Nat
              /\ i \in 1..(Len(es) + k)
          BY <2>3, <2>4, <2>8
        <5>2. /\ i - Len(es) \in 1..k /\ Len(es) \in 1..(i - 1)
              /\ Len(es) \in 1..(Len(es) + k) /\ Len(es) <= Len(es)
          BY <3>2, <5>1
        <5>3. all[i] = more[i - Len(es)] /\ all[Len(es)] = es[Len(es)]
          BY <2>8, <3>2, <5>1, <5>2
        <5> QED BY <5>2, <5>3
      <4>2. all[i] = On(t.rec[i - Len(es)], all[Len(es)]) /\ t.rec[i - Len(es)] \in t.functions
        <5> DEFINE m == i - Len(es)
        <5>1. m \in 1..k /\ all[i] = more[m] /\ all[Len(es)] = es[Len(es)]
          BY <4>1
        <5> HIDE DEF m
        <5>2. more[m] = On(t.rec[m], es[Len(es)]) /\ t.rec[m] \in t.functions
          BY <2>4, <2>5, <5>1
        <5>3. all[i] = On(t.rec[m], all[Len(es)]) /\ t.rec[m] \in t.functions
          BY <5>1, <5>2
        <5> QED BY <5>3 DEF m
      <4> QED BY <4>1, <4>2 DEF ExampleOf
    <3> QED BY <3>1, <3>2
  <2>11. all # <<>>
    BY <2>3, <2>4, <2>8, EmptySeq
  <2>12. IsExamples(t, st[n])
    BY <2>2, <2>9, <2>10, <2>11 DEF IsExamples, all
  <2> QED BY <2>12
<1>6. \A n \in 0..N : n \in good
  <2> HIDE DEF good, N
  <2> QED BY <1>1, <1>4, <1>5, ByCounting
<1>7. N \in 0..N
  BY <1>1
<1> QED BY <1>3, <1>6, <1>7

\* Each term is a class of its own.
Discrete(ts, g) == \A t \in ToSet(ts) : g[t] = t

\* A node that is added to such a graph is its class.
LEMMA AddedDiscrete ==
  ASSUME NEW ts, NEW g, Graph(ts, g), Discrete(ts, g), NEW node, NodeOver(ts, node)
  PROVE  LET a == Added(ts, g, node)
         IN Discrete(a.terms, a.graph) /\ a.id = node /\ node \in ToSet(a.terms)
<1> DEFINE a == Added(ts, g, node)
<1>1. /\ Graph(a.terms, a.graph) /\ Grown(ts, g, a.terms, a.graph)
      /\ a.id \in ToSet(a.terms) /\ HasNode(a.graph, node, a.id)
      /\ \A t \in ToSet(a.terms) : t \notin ToSet(ts) => a.graph[t] = t
  BY AddedIs
<1> HIDE DEF a
<1>2. Discrete(a.terms, a.graph)
  BY <1>1 DEF Discrete, Grown
<1>3. ASSUME NEW u, NodeOver(a.terms, u) PROVE Canonical(a.graph, u) = u
  <2>1. \A i \in DOMAIN u.args : a.graph[u.args[i]] = u.args[i]
    BY <1>2, <1>3, ElementAt DEF NodeOver, Discrete
  <2>2. u.args \in Seq(ToSet(a.terms)) /\ DOMAIN u.args = 1..Len(u.args)
    BY <1>3, LenProperties DEF NodeOver
  <2>3. u.args = [i \in DOMAIN u.args |-> u.args[i]]
    BY <2>2
  <2>4. [i \in DOMAIN u.args |-> a.graph[u.args[i]]] = u.args
    BY <2>1, <2>3
  <2> QED BY <1>3, <2>4 DEF Canonical, NodeOver
<1>4. PICK t \in ToSet(a.terms) : a.graph[t] = a.id /\ Canonical(a.graph, t) = Canonical(a.graph, node)
  BY <1>1 DEF HasNode, Graph
<1>5. NodeOver(a.terms, node) /\ NodeOver(a.terms, t)
  BY <1>1, NodeOverMore, TermsAreNodes DEF Graph, Grown
<1>6. t = node
  BY <1>3, <1>4, <1>5
<1> QED BY <1>2, <1>4, <1>6 DEF Discrete, a

\* The initial graph has the constants and the examples, each a class.
LEMMA InitialIs ==
  ASSUME NEW t \in Theories
  PROVE  LET consts == [i \in DOMAIN t.consts |-> Const(t.consts[i])]
             all == AddedAll(consts, [c \in ToSet(consts) |-> c], Examples(t))
         IN /\ Graph(all.terms, all.graph) /\ Discrete(all.terms, all.graph)
            /\ ToSet(consts) \subseteq ToSet(all.terms)
            /\ all.ids \in Seq(ToSet(all.terms)) /\ Len(all.ids) = Len(Examples(t))
            /\ \A i \in 1..Len(Examples(t)) : /\ all.ids[i] = Examples(t)[i]
                                              /\ Examples(t)[i] \in ToSet(all.terms)
<1> DEFINE ts == [i \in DOMAIN t.consts |-> Const(t.consts[i])]
           g == [c \in ToSet(ts) |-> c]
           es == Examples(t)
           N == Len(es)
<1>1. es \in Seq(ToSet(es)) /\ N \in Nat /\ \A i \in 1..N : ExampleOf(t, es, i)
  BY ExamplesAre, LenProperties DEF IsExamples
<1>2. Graph(ts, g) /\ Discrete(ts, g)
  <2>1. t.consts \in Seq(ToSet(t.consts))
    BY SignatureAssumption
  <2>2. DOMAIN t.consts = 1..Len(t.consts) /\ Len(t.consts) \in Nat
    BY <2>1, LenProperties
  <2>3. DOMAIN ts = 1..Len(t.consts) /\ \A i \in 1..Len(t.consts) : ts[i] = Const(t.consts[i])
    BY <2>2
  <2>4. ts \in Seq(ToSet(ts)) /\ Len(ts) = Len(t.consts)
    <3>1. ts = [i \in 1..Len(t.consts) |-> ts[i]]
      BY <2>2
    <3>2. \A i \in 1..Len(t.consts) : ts[i] \in ToSet(ts)
      BY <2>3 DEF ToSet
    <3> HIDE DEF ts
    <3> QED BY <2>2, <3>1, <3>2
  <2> HIDE DEF ts
  <2>5. ASSUME NEW i \in 1..Len(ts)
        PROVE  /\ ts[i] = Term(ts[i].op, ts[i].args)
               /\ ts[i].args \in Seq({ts[j] : j \in 1..(i - 1)})
    <3>1. ts[i] = Const(t.consts[i])
      BY <2>3, <2>4
    <3>2. ts[i].op = t.consts[i] /\ ts[i].args = <<>>
      BY <3>1 DEF Const, Term
    <3>3. ts[i] = Term(ts[i].op, ts[i].args)
      BY <3>1, <3>2 DEF Const
    <3>4. <<>> \in Seq({ts[j] : j \in 1..(i - 1)})
      OBVIOUS
    <3> QED BY <3>2, <3>3, <3>4
  <2>6. Nodes(ts)
    BY <2>4, <2>5 DEF Nodes
  <2> QED BY <2>6 DEF Graph, Discrete
<1> HIDE DEF ts, g, es
<1>3. PICK st : After(st, ts, g, es) /\ AddedAll(ts, g, es) = st[N]
  BY <1>1, AddedSteps
<1> DEFINE Good(s, n) == /\ Graph(s.terms, s.graph) /\ Discrete(s.terms, s.graph)
                         /\ ToSet(ts) \subseteq ToSet(s.terms)
                         /\ s.ids \in Seq(ToSet(s.terms)) /\ Len(s.ids) = n
                         /\ \A j \in 1..n : s.ids[j] = es[j] /\ es[j] \in ToSet(s.terms)
           good == {n \in 0..N : Good(st[n], n)}
<1>4. 0 \in good
  <2>1. st[0].terms = ts /\ st[0].graph = g /\ st[0].ids = <<>>
    BY <1>3 DEF After
  <2>2. <<>> \in Seq(ToSet(ts)) /\ Len(<<>>) = 0
    OBVIOUS
  <2>3. Good(st[0], 0)
    BY <1>2, <2>1, <2>2
  <2> HIDE DEF Good
  <2> QED BY <1>1, <2>3
<1>5. ASSUME NEW n \in 1..N, n - 1 \in good PROVE n \in good
  <2> DEFINE s == st[n - 1]
             a == Added(s.terms, s.graph, es[n])
  <2>1. Good(s, n - 1)
    BY <1>5
  <2>2. st[n].terms = a.terms /\ st[n].graph = a.graph /\ st[n].ids = Append(s.ids, a.id)
    <3>1. st[n] = [terms |-> a.terms, graph |-> a.graph, ids |-> Append(s.ids, a.id)]
      BY <1>3 DEF After
    <3> HIDE DEF a, s
    <3> QED BY <3>1
  <2> HIDE DEF s
  <2>3. NodeOver(s.terms, es[n])
    <3>1. CASE \E c \in ToSet(t.base) : es[n] = Const(c)
      BY <3>1 DEF NodeOver, Const, Term
    <3>2. CASE \E f \in t.functions : \E j \in 1..(n - 1) : es[n] = On(f, es[j])
      <4>1. PICK f \in t.functions, j \in 1..(n - 1) : es[n] = On(f, es[j])
        BY <3>2
      <4>2. f.arity \in Nat
        BY SignatureAssumption
      <4>3. es[j] \in ToSet(s.terms)
        BY <2>1
      <4>4. [i \in 1..f.arity |-> es[j]] \in Seq(ToSet(s.terms))
        BY <4>2, <4>3
      <4> QED BY <4>1, <4>4 DEF NodeOver, On, Term
    <3> QED BY <1>1, <3>1, <3>2 DEF ExampleOf
  <2>4. /\ Graph(a.terms, a.graph) /\ ToSet(s.terms) \subseteq ToSet(a.terms)
        /\ Discrete(a.terms, a.graph) /\ a.id = es[n] /\ es[n] \in ToSet(a.terms)
    BY <2>1, <2>3, AddedIs, AddedDiscrete DEF Grown
  <2> HIDE DEF a
  <2>5. s.ids \in Seq(ToSet(a.terms)) /\ Len(s.ids) = n - 1
    BY <2>1, <2>4, ElementAt, ElementsInSeq
  <2>6. st[n].ids \in Seq(ToSet(a.terms)) /\ Len(st[n].ids) = n
    BY <2>2, <2>4, <2>5, AppendProperties
  <2>7. st[n].ids[n] = es[n] /\ \A j \in 1..(n - 1) : st[n].ids[j] = s.ids[j]
    <3>1. Append(s.ids, a.id)[Len(s.ids) + 1] = a.id
          /\ \A j \in 1..Len(s.ids) : Append(s.ids, a.id)[j] = s.ids[j]
      BY <2>5, AppendIs
    <3> QED BY <2>2, <2>4, <2>5, <3>1
  <2>8. \A j \in 1..n : st[n].ids[j] = es[j] /\ es[j] \in ToSet(a.terms)
    <3> SUFFICES ASSUME NEW j \in 1..n PROVE st[n].ids[j] = es[j] /\ es[j] \in ToSet(a.terms)
      OBVIOUS
    <3>1. CASE j = n
      BY <2>4, <2>7, <3>1
    <3>2. CASE j # n
      <4>1. j \in 1..(n - 1)
        BY <3>2
      <4> QED BY <2>1, <2>4, <2>7, <4>1
    <3> QED BY <3>1, <3>2
  <2>9. Good(st[n], n)
    BY <2>1, <2>2, <2>4, <2>6, <2>8
  <2> QED BY <2>9
<1>6. \A n \in 0..N : n \in good
  <2> HIDE DEF good, N
  <2> QED BY <1>1, <1>4, <1>5, ByCounting
<1>7. Good(st[N], N)
  <2>1. N \in 0..N
    BY <1>1
  <2> QED BY <1>6, <2>1
<1> QED BY <1>3, <1>7 DEF ts, g, es

\* An example has a value of the algebra.
LEMMA ExampleValues ==
  ASSUME NEW t \in Theories, NEW env \in Envs(t), NEW ts, Nodes(ts),
         \A i \in 1..Len(Examples(t)) : Examples(t)[i] \in ToSet(ts)
  PROVE  \A i \in 1..Len(Examples(t)) : Val(ToSet(ts), t, env)[Examples(t)[i]] \in t.values
<1> DEFINE es == Examples(t)
           N == Len(es)
           v == Val(ToSet(ts), t, env)
           good == {i \in 1..N : v[es[i]] \in t.values}
<1>1. N \in Nat /\ \A i \in 1..N : ExampleOf(t, es, i)
  BY ExamplesAre, LenProperties DEF IsExamples
<1>2. ASSUME NEW i \in 1..N, \A j \in 1..(i - 1) : j \in good PROVE i \in good
  <2>1. v[es[i]] = NodeValue(v, t, env, es[i])
    BY <1>2, ValueIs DEF Valued
  <2>2. ExampleOf(t, es, i)
    BY <1>1
  <2> HIDE DEF es, v
  <2>3. CASE \E c \in ToSet(t.base) : es[i] = Const(c)
    <3>1. PICK c \in ToSet(t.base) : es[i] = Const(c)
      BY <2>3
    <3>2. c \in DOMAIN t.algebra /\ t.algebra[c] \in t.values
      BY AlgebraAssumption
    <3>3. c \notin DOMAIN env
      BY <3>2 DEF Envs
    <3>4. NodeValue(v, t, env, es[i]) = t.algebra[c]
      BY <3>1, <3>3 DEF NodeValue, Const, Term
    <3> QED BY <2>1, <3>2, <3>4
  <2>4. CASE \E f \in t.functions : \E j \in 1..(i - 1) : es[i] = On(f, es[j])
    <3>1. PICK f \in t.functions, j \in 1..(i - 1) : es[i] = On(f, es[j])
      BY <2>4
    <3>2. f.arity \in Nat \ {0} /\ t.algebra[f.name] \in [[1..f.arity -> t.values] -> t.values]
      BY SignatureAssumption, AlgebraAssumption
    <3>3. v[es[j]] \in t.values
      BY <1>2
    <3> DEFINE args == [k \in 1..f.arity |-> es[j]]
    <3>4. es[i].op = f.name /\ es[i].args = args
      BY <3>1 DEF On, Term
    <3>5. args # <<>>
      BY <3>2
    <3>6. [k \in DOMAIN args |-> v[args[k]]] \in [1..f.arity -> t.values]
      BY <3>3
    <3> HIDE DEF args
    <3>7. NodeValue(v, t, env, es[i]) = t.algebra[f.name][[k \in DOMAIN args |-> v[args[k]]]]
      BY <3>4, <3>5 DEF NodeValue
    <3> QED BY <2>1, <3>2, <3>6, <3>7
  <2> QED BY <2>2, <2>3, <2>4 DEF ExampleOf
<1>3. \A i \in 1..N : i \in good
  <2> HIDE DEF good, N
  <2> QED BY <1>1, <1>2, ByOrder
<1> QED BY <1>3

(***************************************************************************)
(* The operations of increase_depth.                                       *)
(***************************************************************************)
\* Each key keeps one of its values.
LEMMA OnePerKeyIs ==
  ASSUME NEW of, \A key \in DOMAIN of : of[key] # {}, NEW new \in OnePerKey(of)
  PROVE  DOMAIN new = DOMAIN of /\ \A key \in DOMAIN of : new[key] \in of[key]
<1> DEFINE sure == {key \in DOMAIN of : Cardinality(of[key]) = 1}
           clash == DOMAIN of \ sure
<1>1. PICK kept \in {f \in [clash -> UNION {of[key] : key \in clash}] : \A key \in clash : f[key] \in of[key]} :
        new = [key \in DOMAIN of |-> IF key \in sure THEN CHOOSE v \in of[key] : TRUE ELSE kept[key]]
  BY DEF OnePerKey
<1>2. \A key \in clash : kept[key] \in of[key]
  OBVIOUS
<1> HIDE DEF sure
<1> QED BY <1>1, <1>2

\* The ids that are brought up to date.
Moved(g, ids) == [i \in DOMAIN ids |-> g[ids[i]]]

LEMMA FixedIdsAre ==
  ASSUME NEW ids, NEW g, NEW new \in FixedIds(ids, g)
  PROVE  /\ \A k \in DOMAIN ids : g[k] \in DOMAIN new
         /\ \A key \in DOMAIN new : \E k \in DOMAIN ids :
              g[k] = key /\ new[key] = Moved(g, ids[k])
<1> DEFINE of == [key \in {g[k] : k \in DOMAIN ids} |-> {Moved(g, ids[k]) : k \in {j \in DOMAIN ids : g[j] = key}}]
<1>1. new \in OnePerKey(of)
  BY DEF FixedIds, Moved
<1>2. DOMAIN of = {g[k] : k \in DOMAIN ids}
  OBVIOUS
<1>3. \A key \in DOMAIN of : of[key] # {}
  OBVIOUS
<1>4. \A key \in DOMAIN of : \A v \in of[key] : \E k \in DOMAIN ids : g[k] = key /\ v = Moved(g, ids[k])
  OBVIOUS
<1> HIDE DEF of
<1>5. DOMAIN new = DOMAIN of /\ \A key \in DOMAIN of : new[key] \in of[key]
  BY <1>1, <1>3, OnePerKeyIs
<1>6. \A key \in DOMAIN new : \E k \in DOMAIN ids : g[k] = key /\ new[key] = Moved(g, ids[k])
  BY <1>4, <1>5
<1> QED BY <1>2, <1>5, <1>6

\* A match is a node that has arguments, the classes of typed terms.
LEMMA MatchIs ==
  ASSUME NEW th \in Theories, NEW ts, NEW g, g \in [ToSet(ts) -> ToSet(ts)], typed \subseteq ToSet(ts),
         NEW edge \in Matches(th, g)
  PROVE  /\ NodeOver(ts, edge) /\ edge.args # <<>>
         /\ \A i \in DOMAIN edge.args : edge.args[i] \in {g[t] : t \in typed}
<1>0. PICK f \in th.functions : \E args \in [1..f.arity -> {g[t] : t \in typed}] : edge = Term(f.name, args)
  BY DEF Matches
<1>1. PICK args \in [1..f.arity -> {g[t] : t \in typed}] : edge = Term(f.name, args)
  BY <1>0
<1>2. f.arity \in Nat \ {0}
  BY SignatureAssumption
<1>3. edge.args = args /\ edge = Term(edge.op, edge.args)
  BY <1>1 DEF Term
<1>4. args \in Seq(ToSet(ts)) /\ args # <<>>
  <2>1. {g[t] : t \in typed} \subseteq ToSet(ts)
    OBVIOUS
  <2>2. args \in [1..f.arity -> ToSet(ts)]
    BY <2>1
  <2>3. 1 \in DOMAIN args
    BY <1>2
  <2> QED BY <1>2, <2>2, <2>3
<1> QED BY <1>3, <1>4 DEF NodeOver

(***************************************************************************)
(* The inductive invariant.                                                *)
(***************************************************************************)
\* Classes that hold the same terms, as keys have values and types.
TypedHaveValues == \A t \in typed : \E k \in DOMAIN example_ids : graph[t] = graph[k]

ValuesFit ==
  /\ typed \subseteq ToSet(terms)
  /\ DOMAIN example_ids \subseteq ToSet(terms) /\ DOMAIN example_ids # {}
  /\ \A k \in DOMAIN example_ids :
       example_ids[k] \in Seq(ToSet(terms)) /\ Len(example_ids[k]) = NumExamples

PendingFit ==
  \A edge \in pending :
    /\ NodeOver(terms, edge) /\ edge.args # <<>>
    /\ phase = "creating" /\ ~TimeLimit => Translatable(edge)

PhasesFit ==
  /\ phase \in {"rewriting", "creating"} \cup (IF TimeLimit THEN {"panicked"} ELSE {})
  /\ depth \in 0..theory.depth
  /\ phase = "creating" => depth < theory.depth

TermInv ==
  /\ theory \in Theories /\ Graph(terms, graph)
  /\ ValuesFit /\ TypedHaveValues /\ PendingFit /\ PhasesFit

\* The number of examples.
LEMMA NumIs ==
  ASSUME theory \in Theories
  PROVE  NumExamples \in Nat \ {0}
<1>1. Examples(theory) \in Seq(ToSet(Examples(theory))) /\ Examples(theory) # <<>>
  BY ExamplesAre DEF IsExamples
<1> QED BY <1>1, LenProperties, EmptySeq DEF NumExamples

\* What a union does.
LEMMA UniteIs ==
  ASSUME TermInv, Unite
  PROVE  /\ Graph(terms, graph') /\ Coarser(graph, graph')
         /\ Right(terms, graph, theory) => Right(terms, graph', theory)
<1>1. DOMAIN graph = ToSet(terms)
  BY DEF TermInv, Graph
<1>2. PICK a, b \in ToSet(terms) : Equal(ToSet(terms), theory, a, b) /\ graph' = Merge(terms, graph, a, b)
  BY <1>1 DEF Unite
<1> QED BY <1>2, MergeIs, RightMerged DEF TermInv

\* What a saturation leaves.
LEMMA LeftIs ==
  ASSUME TermInv, NEW left \in Left
  PROVE  /\ Graph(terms, left) /\ Coarser(graph, left) /\ (Split(left) = {} \/ TimeLimit)
         /\ Right(terms, graph, theory) => Right(terms, left, theory)
<1>1. Graph(terms, graph) /\ Coarser(graph, graph)
  BY DEF TermInv, Coarser
<1>2. left = Rebuild(terms, graph) \/ (left = graph /\ TimeLimit)
  BY DEF Left
<1> QED BY <1>1, <1>2, RebuildIs, RightRebuilt

\* What the beginning of a depth does.
LEMMA BeginIs ==
  ASSUME TermInv, BeginDepth
  PROVE  \E left \in Left :
           /\ Graph(terms, left) /\ Coarser(graph, left) /\ (~TimeLimit => graph' = left)
           /\ Graph(terms, graph') /\ Coarser(left, graph') /\ Coarser(graph, graph')
           /\ example_ids' \in FixedIds(example_ids, left)
           /\ Right(terms, graph, theory) =>
                Right(terms, left, theory) /\ Right(terms, graph', theory)
<1>1. PICK left \in Left : example_ids' \in FixedIds(example_ids, left) /\ graph' = Rebuild(terms, left)
  BY DEF BeginDepth
<1>2. /\ Graph(terms, left) /\ Coarser(graph, left) /\ (Split(left) = {} \/ TimeLimit)
      /\ Right(terms, graph, theory) => Right(terms, left, theory)
  BY LeftIs
<1>3. Graph(terms, graph') /\ Coarser(left, graph')
  BY <1>1, <1>2, RebuildIs
<1>4. ~TimeLimit => graph' = left
  BY <1>1, <1>2, RebuildSame
<1>5. Coarser(graph, graph')
  BY <1>2, <1>3 DEF Coarser, Graph, TermInv
<1>6. Right(terms, graph, theory) => Right(terms, left, theory) /\ Right(terms, graph', theory)
  BY <1>1, <1>2, RightRebuilt
<1> QED BY <1>1, <1>2, <1>3, <1>4, <1>5, <1>6

\* What the creation of a term does.
LEMMA CreateIs ==
  ASSUME TermInv, NEW edge \in pending, Translatable(edge), CreateTerm(edge)
  PROVE  \E key :
           /\ Graph(terms', graph') /\ Grown(terms, graph, terms', graph')
           /\ key \in ToSet(terms') /\ HasNode(graph', edge, key)
           /\ typed' = typed \cup {key} /\ DOMAIN example_ids' = DOMAIN example_ids \cup {key}
           /\ \A k \in DOMAIN example_ids' : k # key => example_ids'[k] = example_ids[k]
           /\ example_ids'[key] \in Seq(ToSet(terms')) /\ Len(example_ids'[key]) = NumExamples
           /\ \A i \in 1..NumExamples : /\ NodeOver(terms, TranslateEdge(edge, i))
                                        /\ HasNode(graph', TranslateEdge(edge, i), example_ids'[key][i])
           /\ Right(terms, graph, theory) => Right(terms', graph', theory)
<1> DEFINE n == Len(example_ids[CHOOSE k \in DOMAIN example_ids : TRUE])
           more == [i \in 1..n |-> TranslateEdge(edge, i)]
           nodes == <<edge>> \o more
           all == AddedAll(terms, graph, nodes)
           key == Head(all.ids)
<1>1. n = NumExamples /\ n \in Nat
  BY NumIs DEF TermInv, ValuesFit
<1>2. /\ terms' = all.terms /\ graph' = all.graph /\ typed' = typed \cup {key}
      /\ example_ids' = [k \in DOMAIN example_ids \cup {key} |->
                           IF k = key THEN Tail(all.ids) ELSE example_ids[k]]
  BY DEF CreateTerm
<1> HIDE DEF n
<1>3. NodeOver(terms, edge)
  BY DEF TermInv, PendingFit
<1>4. ASSUME NEW i \in 1..n PROVE NodeOver(terms, TranslateEdge(edge, i))
  <2> DEFINE xs == [j \in DOMAIN edge.args |-> example_ids[edge.args[j]][i]]
  <2>1. DOMAIN edge.args = 1..Len(edge.args) /\ Len(edge.args) \in Nat
    BY <1>3, LenProperties DEF NodeOver
  <2>2. ASSUME NEW j \in DOMAIN edge.args PROVE example_ids[edge.args[j]][i] \in ToSet(terms)
    <3>1. edge.args[j] \in DOMAIN example_ids
      BY DEF Translatable
    <3>2. example_ids[edge.args[j]] \in Seq(ToSet(terms)) /\ Len(example_ids[edge.args[j]]) = n
      BY <1>1, <3>1 DEF TermInv, ValuesFit
    <3> QED BY <3>2, ElementAt
  <2>3. xs \in [1..Len(edge.args) -> ToSet(terms)]
    BY <2>1, <2>2
  <2>4. xs \in Seq(ToSet(terms))
    BY <2>1, <2>3
  <2> HIDE DEF xs
  <2>5. TranslateEdge(edge, i) = Term(edge.op, xs)
    BY DEF TranslateEdge, xs
  <2> QED BY <2>4, <2>5 DEF NodeOver, Term
<1>5. /\ Len(nodes) = n + 1 /\ nodes[1] = edge
      /\ \A i \in 1..n : nodes[i + 1] = TranslateEdge(edge, i)
  <2> DEFINE U == {edge} \cup {TranslateEdge(edge, i) : i \in 1..n}
  <2>1. more \in Seq(U) /\ Len(more) = n
    BY <1>1
  <2>2. <<edge>> \in Seq(U) /\ Len(<<edge>>) = 1 /\ <<edge>>[1] = edge
    OBVIOUS
  <2>3. \A i \in 1..n : more[i] = TranslateEdge(edge, i)
    OBVIOUS
  <2> HIDE DEF more, U
  <2>4. /\ Len(nodes) = Len(<<edge>>) + Len(more)
        /\ \A i \in 1..(Len(<<edge>>) + Len(more)) :
             nodes[i] = IF i <= Len(<<edge>>) THEN <<edge>>[i] ELSE more[i - Len(<<edge>>)]
    BY <2>1, <2>2, ConcatProperties
  <2> HIDE DEF nodes
  <2>5. \A i \in 1..(n + 1) : nodes[i] = IF i <= 1 THEN edge ELSE more[i - 1]
    BY <1>1, <2>1, <2>2, <2>4
  <2>6. ASSUME NEW i \in 1..n PROVE nodes[i + 1] = more[i]
    <3>1. i + 1 \in 1..(n + 1) /\ ~(i + 1 <= 1) /\ (i + 1) - 1 = i
      BY <1>1
    <3> QED BY <2>5, <3>1
  <2>7. 1 \in 1..(n + 1)
    BY <1>1
  <2>8. nodes[1] = edge
    BY <2>5, <2>7
  <2> QED BY <1>1, <2>1, <2>2, <2>3, <2>4, <2>6, <2>8
<1> HIDE DEF nodes
<1>6. Graph(terms, graph) /\ Len(nodes) \in Nat /\ \A j \in 1..Len(nodes) : NodeOver(terms, nodes[j])
  <2>1. ASSUME NEW j \in 1..(n + 1) PROVE NodeOver(terms, nodes[j])
    <3>1. CASE j = 1
      BY <1>3, <1>5, <3>1
    <3>2. CASE j # 1
      <4>1. j - 1 \in 1..n /\ (j - 1) + 1 = j
        BY <1>1, <3>2
      <4> QED BY <1>4, <1>5, <4>1
    <3> QED BY <3>1, <3>2
  <2> QED BY <1>1, <1>5, <2>1 DEF TermInv
<1>7. /\ Graph(all.terms, all.graph) /\ Grown(terms, graph, all.terms, all.graph)
      /\ all.ids \in Seq(ToSet(all.terms)) /\ Len(all.ids) = n + 1
      /\ \A j \in 1..(n + 1) : HasNode(all.graph, nodes[j], all.ids[j])
      /\ Right(terms, graph, theory) => Right(all.terms, all.graph, theory)
  BY <1>5, <1>6, AddedAllIs
<1> HIDE DEF all
<1>8. /\ key = all.ids[1] /\ key \in ToSet(all.terms)
      /\ Tail(all.ids) \in Seq(ToSet(all.terms)) /\ Len(Tail(all.ids)) = n
      /\ \A i \in 1..n : Tail(all.ids)[i] = all.ids[i + 1]
  <2>1. all.ids # <<>>
    BY <1>1, <1>7, EmptySeq
  <2>2. /\ Head(all.ids) \in ToSet(all.terms) /\ Tail(all.ids) \in Seq(ToSet(all.terms))
        /\ Len(Tail(all.ids)) = Len(all.ids) - 1
        /\ \A i \in 1..Len(Tail(all.ids)) : Tail(all.ids)[i] = all.ids[i + 1]
    BY <1>7, <2>1, HeadTailProperties
  <2>3. Head(all.ids) = all.ids[1]
    BY <1>7, <2>1
  <2> QED BY <1>1, <1>7, <2>2, <2>3
<1>9. HasNode(all.graph, edge, key)
  BY <1>1, <1>5, <1>7, <1>8
<1>10. ASSUME NEW i \in 1..n PROVE HasNode(all.graph, TranslateEdge(edge, i), Tail(all.ids)[i])
  <2>1. i + 1 \in 1..(n + 1)
    BY <1>1
  <2> QED BY <1>5, <1>7, <1>8, <2>1
<1> HIDE DEF key
<1>11. /\ DOMAIN example_ids' = DOMAIN example_ids \cup {key} /\ example_ids'[key] = Tail(all.ids)
       /\ \A k \in DOMAIN example_ids' : k # key => example_ids'[k] = example_ids[k]
  BY <1>2
<1> QED BY <1>1, <1>2, <1>4, <1>7, <1>8, <1>9, <1>10, <1>11

\* The initial state.
LEMMA InitTerm ==
  ASSUME Init
  PROVE  /\ TermInv /\ Discrete(terms, graph) /\ typed = {Const(c) : c \in ToSet(theory.consts)}
         /\ \A i \in 1..NumExamples : /\ Examples(theory)[i] \in ToSet(terms)
                                      /\ example_ids[Const(IndVar)][i] = Examples(theory)[i]
         /\ DOMAIN example_ids = typed
         /\ \A k \in typed : k # Const(IndVar) => \A i \in 1..NumExamples : example_ids[k][i] = k
<1> DEFINE consts == [i \in DOMAIN theory.consts |-> Const(theory.consts[i])]
           all == AddedAll(consts, [t \in ToSet(consts) |-> t], Examples(theory))
           es == Examples(theory)
           N == Len(es)
<1>1. /\ theory \in Theories
      /\ terms = all.terms /\ graph = all.graph /\ typed = ToSet(consts)
      /\ example_ids = [c \in ToSet(consts) |->
           IF c = Const(IndVar) THEN all.ids ELSE [i \in DOMAIN all.ids |-> c]]
      /\ pending = {} /\ depth = 0 /\ phase = "rewriting"
  BY DEF Init
<1>2. /\ Graph(all.terms, all.graph) /\ Discrete(all.terms, all.graph)
      /\ ToSet(consts) \subseteq ToSet(all.terms)
      /\ all.ids \in Seq(ToSet(all.terms)) /\ Len(all.ids) = N
      /\ \A i \in 1..N : all.ids[i] = es[i] /\ es[i] \in ToSet(all.terms)
  BY <1>1, InitialIs
<1> HIDE DEF all
<1>3. ToSet(consts) = {Const(c) : c \in ToSet(theory.consts)}
  BY DEF ToSet
<1>4. Const(IndVar) \in ToSet(consts)
  BY <1>1, <1>3, SignatureAssumption
<1> HIDE DEF consts
<1>5. NumExamples = N /\ N \in Nat /\ DOMAIN all.ids = 1..N
  BY <1>1, <1>2, NumIs, LenProperties DEF NumExamples
<1>6. ASSUME NEW k \in ToSet(consts)
      PROVE  /\ example_ids[k] \in Seq(ToSet(terms)) /\ Len(example_ids[k]) = N
             /\ k # Const(IndVar) => \A i \in 1..N : example_ids[k][i] = k
  <2>1. CASE k = Const(IndVar)
    BY <1>1, <1>2, <2>1
  <2>2. CASE k # Const(IndVar)
    <3>1. example_ids[k] = [i \in 1..N |-> k] /\ k \in ToSet(terms)
      BY <1>1, <1>2, <1>5, <2>2
    <3>2. [i \in 1..N |-> k] \in Seq(ToSet(terms)) /\ Len([i \in 1..N |-> k]) = N
      BY <1>5, <3>1
    <3> QED BY <3>1, <3>2
  <2> QED BY <2>1, <2>2
<1>7. ValuesFit
  BY <1>1, <1>2, <1>4, <1>5, <1>6 DEF ValuesFit
<1>8. TypedHaveValues
  BY <1>1 DEF TypedHaveValues
<1>9. PendingFit
  BY <1>1 DEF PendingFit
<1>10. PhasesFit
  <2>1. theory.depth \in Nat
    BY <1>1, TermAssumption
  <2> QED BY <1>1, <2>1 DEF PhasesFit
<1>11. TermInv
  BY <1>1, <1>2, <1>7, <1>8, <1>9, <1>10 DEF TermInv
<1>12. example_ids[Const(IndVar)] = all.ids
  BY <1>1, <1>4
<1> QED BY <1>1, <1>2, <1>3, <1>5, <1>6, <1>11, <1>12

\* The terms keep their types and values when their classes are merged.
LEMMA CoarserFits ==
  ASSUME TermInv, Coarser(graph, graph'), UNCHANGED <<terms, typed, example_ids>>
  PROVE  TypedHaveValues'
<1>1. DOMAIN graph = ToSet(terms)
  BY DEF TermInv, Graph
<1>2. typed \subseteq DOMAIN graph /\ DOMAIN example_ids \subseteq DOMAIN graph
  BY <1>1 DEF TermInv, ValuesFit
<1> QED BY <1>2 DEF TermInv, TypedHaveValues, Coarser

LEMMA UniteTerm ==
  ASSUME TermInv, Unite
  PROVE  TermInv'
<1>1. /\ phase = "rewriting"
      /\ UNCHANGED <<theory, terms, typed, example_ids, pending, depth, phase>>
  BY DEF Unite
<1>2. Graph(terms, graph') /\ Coarser(graph, graph')
  BY UniteIs
<1>3. Graph(terms, graph)' /\ TypedHaveValues'
  BY <1>1, <1>2, CoarserFits
<1>4. (theory \in Theories)' /\ ValuesFit' /\ PhasesFit'
  BY <1>1 DEF TermInv, ValuesFit, PhasesFit, NumExamples
<1>5. PendingFit'
  BY <1>1 DEF TermInv, PendingFit
<1> QED BY <1>3, <1>4, <1>5 DEF TermInv

\* The values fit when their keys are brought up to date, whether or not more
\* classes are merged after that; the keys have all that is typed.
LEMMA FixedFits ==
  ASSUME TermInv, NEW left, Graph(terms, left), Coarser(graph, left),
         Graph(terms, graph'), Coarser(left, graph'), Coarser(graph, graph'),
         example_ids' \in FixedIds(example_ids, left), UNCHANGED <<theory, terms, typed>>
  PROVE  /\ ValuesFit' /\ TypedHaveValues'
         /\ \A t \in typed : left[t] \in DOMAIN example_ids'
<1>1. /\ \A k \in DOMAIN example_ids : left[k] \in DOMAIN example_ids'
      /\ \A key \in DOMAIN example_ids' : \E k \in DOMAIN example_ids :
           left[k] = key /\ example_ids'[key] = Moved(left, example_ids[k])
  BY FixedIdsAre
<1>2. /\ DOMAIN graph = ToSet(terms) /\ DOMAIN left = ToSet(terms) /\ DOMAIN graph' = ToSet(terms)
      /\ \A t \in ToSet(terms) : left[t] \in ToSet(terms) /\ left[left[t]] = left[t]
  BY DEF Graph, TermInv
<1>3. /\ typed \subseteq ToSet(terms)
      /\ DOMAIN example_ids \subseteq ToSet(terms) /\ DOMAIN example_ids # {}
      /\ \A k \in DOMAIN example_ids :
           example_ids[k] \in Seq(ToSet(terms)) /\ Len(example_ids[k]) = NumExamples
  BY DEF TermInv, ValuesFit
<1>4. ValuesFit'
  <2>1. ASSUME NEW key \in DOMAIN example_ids'
        PROVE  example_ids'[key] \in Seq(ToSet(terms)) /\ Len(example_ids'[key]) = NumExamples
    <3>1. PICK k \in DOMAIN example_ids :
            example_ids'[key] = Moved(left, example_ids[k])
      BY <1>1
    <3> DEFINE ids == example_ids[k]
    <3>2. ids \in Seq(ToSet(terms)) /\ Len(ids) = NumExamples
      BY <1>3
    <3> HIDE DEF ids
    <3>3. DOMAIN ids = 1..NumExamples /\ NumExamples \in Nat /\ \A i \in 1..NumExamples : ids[i] \in ToSet(terms)
      BY <3>2, LenProperties, ElementAt
    <3> DEFINE found == [i \in 1..NumExamples |-> left[ids[i]]]
    <3>4. \A i \in 1..NumExamples : left[ids[i]] \in ToSet(terms)
      BY <1>2, <3>3
    <3>5. found \in Seq(ToSet(terms)) /\ Len(found) = NumExamples
      BY <3>3, <3>4
    <3>6. example_ids'[key] = found
      BY <3>1, <3>3 DEF Moved, ids
    <3> QED BY <3>5, <3>6
  <2>2. DOMAIN example_ids' \subseteq ToSet(terms) /\ DOMAIN example_ids' # {}
    BY <1>1, <1>2, <1>3
  <2> QED BY <1>3, <2>1, <2>2 DEF ValuesFit, NumExamples
<1>5. TypedHaveValues'
  <2> SUFFICES ASSUME NEW t \in typed PROVE \E key \in DOMAIN example_ids' : graph'[t] = graph'[key]
    BY DEF TypedHaveValues
  <2>1. PICK k \in DOMAIN example_ids : graph[t] = graph[k]
    BY DEF TermInv, TypedHaveValues
  <2>2. graph'[t] = graph'[k] /\ graph'[k] = graph'[left[k]]
    BY <1>2, <1>3, <2>1 DEF Coarser
  <2> QED BY <1>1, <2>2
<1>6. ASSUME NEW t \in typed PROVE left[t] \in DOMAIN example_ids'
  <2>1. PICK k \in DOMAIN example_ids : graph[t] = graph[k]
    BY DEF TermInv, TypedHaveValues
  <2>2. left[t] = left[k]
    BY <1>2, <1>3, <2>1 DEF Coarser, TermInv, Graph
  <2> QED BY <1>1, <2>2
<1> QED BY <1>4, <1>5, <1>6

LEMMA FixTerm ==
  ASSUME TermInv, FixKeys
  PROVE  TermInv'
<1>1. /\ phase = "rewriting" /\ graph' \in Left /\ example_ids' \in FixedIds(example_ids, graph')
      /\ UNCHANGED <<theory, terms, typed, pending, depth, phase>>
  BY DEF FixKeys
<1>2. Graph(terms, graph') /\ Coarser(graph, graph') /\ Coarser(graph', graph')
  BY <1>1, LeftIs DEF Coarser
<1>3. ValuesFit' /\ TypedHaveValues'
  BY <1>1, <1>2, FixedFits
<1>4. PendingFit' /\ PhasesFit'
  BY <1>1 DEF TermInv, PendingFit, PhasesFit
<1> QED BY <1>1, <1>2, <1>3, <1>4 DEF TermInv

LEMMA BeginTerm ==
  ASSUME TermInv, BeginDepth
  PROVE  TermInv'
<1>1. /\ phase = "rewriting" /\ depth < theory.depth
      /\ pending' = Matches(theory, graph') /\ phase' = "creating"
      /\ UNCHANGED <<theory, terms, typed, depth>>
  BY DEF BeginDepth
<1>2. PICK left \in Left :
        /\ Graph(terms, left) /\ Coarser(graph, left) /\ (~TimeLimit => graph' = left)
        /\ Graph(terms, graph') /\ Coarser(left, graph') /\ Coarser(graph, graph')
        /\ example_ids' \in FixedIds(example_ids, left)
  BY BeginIs
<1>3. ValuesFit' /\ TypedHaveValues' /\ \A t \in typed : left[t] \in DOMAIN example_ids'
  BY <1>1, <1>2, FixedFits
<1>4. PendingFit'
  <2> SUFFICES ASSUME NEW edge \in Matches(theory, graph')
               PROVE  /\ NodeOver(terms, edge) /\ edge.args # <<>>
                      /\ ~TimeLimit => \A j \in DOMAIN edge.args : edge.args[j] \in DOMAIN example_ids'
    BY <1>1 DEF PendingFit, Translatable
  <2>1. /\ theory \in Theories /\ graph' \in [ToSet(terms) -> ToSet(terms)]
        /\ typed \subseteq ToSet(terms)
    BY <1>2 DEF TermInv, Graph, ValuesFit
  <2>2. /\ NodeOver(terms, edge) /\ edge.args # <<>>
        /\ \A i \in DOMAIN edge.args : edge.args[i] \in {graph'[t] : t \in typed}
    BY <2>1, MatchIs
  <2>3. ASSUME ~TimeLimit, NEW j \in DOMAIN edge.args PROVE edge.args[j] \in DOMAIN example_ids'
    <3>1. PICK t \in typed : edge.args[j] = graph'[t]
      BY <2>2
    <3> QED BY <1>2, <1>3, <2>3, <3>1
  <2> QED BY <2>2, <2>3
<1>5. PhasesFit'
  BY <1>1 DEF TermInv, PhasesFit
<1> QED BY <1>1, <1>2, <1>3, <1>4, <1>5 DEF TermInv

LEMMA CreateTermKeeps ==
  ASSUME TermInv, Create
  PROVE  TermInv'
<1>1. phase = "creating" /\ UNCHANGED <<theory, depth>>
  BY DEF Create
<1>2. PICK edge \in pending :
        IF Translatable(edge)
        THEN CreateTerm(edge) /\ pending' = pending \ {edge} /\ UNCHANGED phase
        ELSE phase' = "panicked" /\ UNCHANGED <<terms, graph, typed, example_ids, pending>>
  BY DEF Create
<1>3. CASE Translatable(edge)
  <2>1. CreateTerm(edge) /\ pending' = pending \ {edge} /\ phase' = phase
    BY <1>2, <1>3
  <2>2. PICK key :
           /\ Graph(terms', graph') /\ Grown(terms, graph, terms', graph')
           /\ key \in ToSet(terms')
           /\ typed' = typed \cup {key} /\ DOMAIN example_ids' = DOMAIN example_ids \cup {key}
           /\ \A k \in DOMAIN example_ids' : k # key => example_ids'[k] = example_ids[k]
           /\ example_ids'[key] \in Seq(ToSet(terms')) /\ Len(example_ids'[key]) = NumExamples
    BY <1>3, <2>1, CreateIs
  <2>3. ToSet(terms) \subseteq ToSet(terms') /\ \A t \in ToSet(terms) : graph'[t] = graph[t]
    BY <2>2 DEF Grown
  <2>4. /\ typed \subseteq ToSet(terms)
        /\ DOMAIN example_ids \subseteq ToSet(terms)
        /\ \A k \in DOMAIN example_ids :
             example_ids[k] \in Seq(ToSet(terms)) /\ Len(example_ids[k]) = NumExamples
    BY DEF TermInv, ValuesFit
  <2>5. ValuesFit'
    <3>1. NumExamples' = NumExamples
      BY <1>1 DEF NumExamples
    <3>2. ASSUME NEW k \in DOMAIN example_ids'
          PROVE  example_ids'[k] \in Seq(ToSet(terms')) /\ Len(example_ids'[k]) = NumExamples
      <4>1. CASE k = key
        BY <2>2, <4>1
      <4>2. CASE k # key
        <5>1. k \in DOMAIN example_ids /\ example_ids'[k] = example_ids[k]
          BY <2>2, <4>2
        <5> QED BY <2>3, <2>4, <5>1, ElementAt, ElementsInSeq
      <4> QED BY <4>1, <4>2
    <3> QED BY <2>2, <2>3, <2>4, <3>1, <3>2 DEF ValuesFit
  <2>6. TypedHaveValues'
    <3> SUFFICES ASSUME NEW t \in typed' PROVE \E k \in DOMAIN example_ids' : graph'[t] = graph'[k]
      BY DEF TypedHaveValues
    <3>1. CASE t = key
      BY <2>2, <3>1
    <3>2. CASE t \in typed
      <4>1. PICK k \in DOMAIN example_ids : graph[t] = graph[k]
        BY <3>2 DEF TermInv, TypedHaveValues
      <4> QED BY <2>2, <2>3, <2>4, <3>2, <4>1
    <3> QED BY <2>2, <3>1, <3>2
  <2>7. PendingFit'
    <3> SUFFICES ASSUME NEW e \in pending
                 PROVE  /\ NodeOver(terms', e) /\ e.args # <<>>
                        /\ ~TimeLimit => \A j \in DOMAIN e.args : e.args[j] \in DOMAIN example_ids'
      BY <2>1 DEF PendingFit, Translatable
    <3>1. NodeOver(terms, e) /\ e.args # <<>> /\ (~TimeLimit => Translatable(e))
      BY <1>1 DEF TermInv, PendingFit
    <3>2. NodeOver(terms', e)
      BY <2>3, <3>1, NodeOverMore
    <3> QED BY <2>2, <3>1, <3>2 DEF Translatable
  <2>8. PhasesFit'
    BY <1>1, <2>1 DEF TermInv, PhasesFit
  <2> QED BY <1>1, <2>2, <2>5, <2>6, <2>7, <2>8 DEF TermInv
<1>4. CASE ~Translatable(edge)
  <2>1. phase' = "panicked" /\ UNCHANGED <<terms, graph, typed, example_ids, pending>>
    BY <1>2, <1>4
  <2>2. TimeLimit = TRUE
    BY <1>1, <1>4, TermAssumption DEF TermInv, PendingFit
  <2>3. ValuesFit' /\ TypedHaveValues'
    BY <1>1, <2>1 DEF TermInv, ValuesFit, TypedHaveValues, NumExamples
  <2>4. PendingFit' /\ PhasesFit'
    BY <1>1, <2>1, <2>2 DEF TermInv, PendingFit, PhasesFit
  <2> QED BY <1>1, <2>1, <2>3, <2>4 DEF TermInv
<1> QED BY <1>3, <1>4

LEMMA EndTerm ==
  ASSUME TermInv, EndDepth
  PROVE  TermInv'
<1>1. /\ phase = "creating" /\ pending = {} /\ graph' = Rebuild(terms, graph)
      /\ depth' = depth + 1 /\ phase' = "rewriting"
      /\ UNCHANGED <<theory, terms, typed, example_ids, pending>>
  BY DEF EndDepth
<1>2. Graph(terms, graph') /\ Coarser(graph, graph')
  BY <1>1, RebuildIs DEF TermInv
<1>3. TypedHaveValues'
  BY <1>1, <1>2, CoarserFits
<1>4. (theory \in Theories)' /\ ValuesFit'
  BY <1>1 DEF TermInv, ValuesFit, NumExamples
<1>5. PendingFit'
  BY <1>1 DEF PendingFit
<1>6. PhasesFit'
  <2>1. theory.depth \in Nat
    BY TermAssumption DEF TermInv
  <2> QED BY <1>1, <2>1 DEF TermInv, PhasesFit
<1> QED BY <1>1, <1>2, <1>3, <1>4, <1>5, <1>6 DEF TermInv

\* The invariant stays.
LEMMA NextTerm ==
  ASSUME TermInv, [Next]_vars
  PROVE  TermInv'
<1>1. ASSUME UNCHANGED vars PROVE TermInv'
  BY <1>1 DEF vars, TermInv, ValuesFit, TypedHaveValues, PendingFit, PhasesFit, NumExamples, Translatable
<1> QED BY <1>1, UniteTerm, FixTerm, BeginTerm, CreateTermKeeps, EndTerm DEF Next

\* Keys, values and types are classes of the graph, all classes have as many
\* values as there are examples, and only a saturation that runs out of time
\* makes increase_depth panic (thesy.rs, fix_example_ids and increase_depth).
THEOREM TermsTypeCorrect == Spec => []TypeOK
<1>1. TermInv => TypeOK
  <2> SUFFICES ASSUME TermInv PROVE TypeOK
    OBVIOUS
  <2>1. DOMAIN graph = ToSet(terms) /\ \A t \in DOMAIN graph : graph[graph[t]] = graph[t]
    BY DEF TermInv, Graph
  <2>2. ASSUME NEW k \in DOMAIN example_ids
        PROVE  Len(example_ids[k]) = NumExamples /\ ToSet(example_ids[k]) \subseteq DOMAIN graph
    <3>1. example_ids[k] \in Seq(ToSet(terms)) /\ Len(example_ids[k]) = NumExamples
      BY DEF TermInv, ValuesFit
    <3> QED BY <2>1, <3>1, ElementAt DEF ToSet
  <2>3. typed \cup DOMAIN example_ids \subseteq DOMAIN graph
    BY <2>1 DEF TermInv, ValuesFit
  <2> QED BY <2>1, <2>2, <2>3 DEF TermInv, PhasesFit, TypeOK
<1>2. Init => TermInv
  BY InitTerm
<1>3. TermInv /\ [Next]_vars => TermInv'
  BY NextTerm
<1> QED BY <1>1, <1>2, <1>3, PTL DEF Spec

\* A saturation that ends in time leaves no class whose values are looked up
\* under an old id: updating the keys before the graph is rebuilt is enough
\* (thesy.rs:317).  It is not when the time is up.
THEOREM KeysAreRelevantInTime ==
  ASSUME ~TimeLimit
  PROVE  Spec => []KeysAreRelevant
<1>1. TermInv => KeysAreRelevant
  BY DEF TermInv, PhasesFit, KeysAreRelevant
<1>2. Init => TermInv
  BY InitTerm
<1>3. TermInv /\ [Next]_vars => TermInv'
  BY NextTerm
<1> QED BY <1>1, <1>2, <1>3, PTL DEF Spec

(***************************************************************************)
(* The values of a class.                                                  *)
(***************************************************************************)
\* The assignment that gives the induction variable the value of an example.
Under(ts, th, env, i) == [env EXCEPT ![IndVar] = Val(ToSet(ts), th, env)[Examples(th)[i]]]

ExamplesIn(ts, th) == \A i \in 1..Len(Examples(th)) : Examples(th)[i] \in ToSet(ts)

\* The terms in ids are the values of their keys.
ValuesIn(ts, ids, th) ==
  \A k \in DOMAIN ids : \A i \in 1..Len(Examples(th)) : \A env \in Envs(th) :
    Val(ToSet(ts), th, env)[ids[k][i]] = Val(ToSet(ts), th, Under(ts, th, env, i))[k]

ValInv ==
  /\ TermInv /\ Right(terms, graph, theory) /\ ExamplesIn(terms, theory)
  /\ ValuesIn(terms, example_ids, theory)

LEMMA UnderIs ==
  ASSUME NEW th \in Theories, NEW ts, Nodes(ts), ExamplesIn(ts, th), NEW env \in Envs(th),
         NEW i \in 1..Len(Examples(th))
  PROVE  /\ Under(ts, th, env, i) \in Envs(th) /\ IndVar \in DOMAIN Under(ts, th, env, i)
         /\ Under(ts, th, env, i)[IndVar] = Val(ToSet(ts), th, env)[Examples(th)[i]]
         /\ DOMAIN Under(ts, th, env, i) = DOMAIN env
         /\ \A c \in DOMAIN env : c # IndVar => Under(ts, th, env, i)[c] = env[c]
<1> DEFINE free == {c \in ToSet(th.consts) : c \notin DOMAIN th.algebra}
           x == Val(ToSet(ts), th, env)[Examples(th)[i]]
<1>1. x \in th.values
  BY ExampleValues DEF ExamplesIn
<1>2. IndVar \in free
  BY SignatureAssumption, AlgebraAssumption
<1>3. env \in [free -> th.values]
  BY DEF Envs
<1>4. Under(ts, th, env, i) = [env EXCEPT ![IndVar] = x]
  BY DEF Under
<1>5. Envs(th) = [free -> th.values]
  BY DEF Envs
<1> HIDE DEF x, free
<1> QED BY <1>1, <1>2, <1>3, <1>4, <1>5 DEF x

\* What terms there are besides makes no difference to it.
LEMMA UnderGrows ==
  ASSUME NEW th, NEW ts, Nodes(ts), ExamplesIn(ts, th), NEW us, Nodes(us), ToSet(ts) \subseteq ToSet(us),
         NEW env, NEW i \in 1..Len(Examples(th))
  PROVE  Under(us, th, env, i) = Under(ts, th, env, i)
<1>1. Val(ToSet(us), th, env)[Examples(th)[i]] = Val(ToSet(ts), th, env)[Examples(th)[i]]
  BY ValuesGrow DEF ExamplesIn
<1> QED BY <1>1 DEF Under

\* The class of a term has its value.
LEMMA FindValue ==
  ASSUME NEW ts, NEW g, Graph(ts, g), NEW th, Right(ts, g, th), NEW env \in Envs(th),
         NEW t \in ToSet(ts)
  PROVE  Val(ToSet(ts), th, env)[g[t]] = Val(ToSet(ts), th, env)[t]
<1>1. g[t] \in ToSet(ts) /\ g[g[t]] = g[t]
  BY DEF Graph
<1> QED BY <1>1 DEF Right

LEMMA InitValues ==
  ASSUME Init
  PROVE  ValInv
<1> DEFINE es == Examples(theory)
           N == Len(es)
<1>1. /\ TermInv /\ Discrete(terms, graph) /\ typed = {Const(c) : c \in ToSet(theory.consts)}
      /\ \A i \in 1..N : es[i] \in ToSet(terms) /\ example_ids[Const(IndVar)][i] = es[i]
      /\ DOMAIN example_ids = typed /\ typed \subseteq ToSet(terms)
      /\ \A k \in typed : k # Const(IndVar) => \A i \in 1..N : example_ids[k][i] = k
  BY InitTerm DEF NumExamples, TermInv, ValuesFit
<1>2. Right(terms, graph, theory)
  BY <1>1 DEF Right, Discrete
<1>3. ExamplesIn(terms, theory)
  BY <1>1 DEF ExamplesIn
<1>4. theory \in Theories /\ Nodes(terms)
  BY <1>1 DEF TermInv, Graph
<1>5. ASSUME NEW k \in DOMAIN example_ids, NEW i \in 1..N, NEW env \in Envs(theory)
      PROVE  Val(ToSet(terms), theory, env)[example_ids[k][i]]
               = Val(ToSet(terms), theory, Under(terms, theory, env, i))[k]
  <2> DEFINE at == Under(terms, theory, env, i)
             v == Val(ToSet(terms), theory, env)
             w == Val(ToSet(terms), theory, at)
  <2>1. /\ at \in Envs(theory) /\ IndVar \in DOMAIN at /\ at[IndVar] = v[es[i]]
        /\ DOMAIN at = DOMAIN env /\ \A c \in DOMAIN env : c # IndVar => at[c] = env[c]
    BY <1>3, <1>4, UnderIs
  <2>2. PICK c \in ToSet(theory.consts) : k = Const(c)
    BY <1>1
  <2>3. k.op = c /\ k.args = <<>> /\ (k = Const(IndVar) => c = IndVar)
    BY <2>2 DEF Const, Term
  <2>4. k \in ToSet(terms)
    BY <1>1
  <2> HIDE DEF at
  <2>5. Valued(v, ToSet(terms), theory, env) /\ Valued(w, ToSet(terms), theory, at)
    BY <1>4, ValueIs
  <2> HIDE DEF v, w
  <2>6. v[k] = NodeValue(v, theory, env, k) /\ w[k] = NodeValue(w, theory, at, k)
    BY <2>4, <2>5 DEF Valued
  <2>7. CASE k = Const(IndVar)
    <3>1. example_ids[k][i] = es[i]
      BY <1>1, <2>7
    <3>2. w[k] = at[IndVar]
      BY <2>1, <2>3, <2>6, <2>7 DEF NodeValue
    <3> QED BY <2>1, <3>1, <3>2 DEF v, w, at
  <2>8. CASE k # Const(IndVar)
    <3>1. example_ids[k][i] = k
      BY <1>1, <2>8
    <3>2. c # IndVar
      BY <2>2, <2>8
    <3>3. v[k] = w[k]
      <4>1. CASE c \in DOMAIN env
        BY <2>1, <2>3, <2>6, <3>2, <4>1 DEF NodeValue
      <4>2. CASE c \notin DOMAIN env
        BY <2>1, <2>3, <2>6, <4>2 DEF NodeValue
      <4> QED BY <4>1, <4>2
    <3> QED BY <3>1, <3>3 DEF v, w, at
  <2> QED BY <2>7, <2>8
<1>6. ValuesIn(terms, example_ids, theory)
  BY <1>5 DEF ValuesIn
<1> QED BY <1>1, <1>2, <1>3, <1>6 DEF ValInv

\* The values are right when their keys are brought up to date.
LEMMA FixedValues ==
  ASSUME ValInv, NEW left, Graph(terms, left), Right(terms, left, theory),
         example_ids' \in FixedIds(example_ids, left)
  PROVE  ValuesIn(terms, example_ids', theory)
<1>1. \A key \in DOMAIN example_ids' : \E k \in DOMAIN example_ids :
        left[k] = key /\ example_ids'[key] = Moved(left, example_ids[k])
  BY FixedIdsAre
<1>2. theory \in Theories /\ Nodes(terms) /\ ExamplesIn(terms, theory)
  BY DEF ValInv, TermInv, Graph
<1>3. ASSUME NEW key \in DOMAIN example_ids', NEW i \in 1..Len(Examples(theory)), NEW env \in Envs(theory)
      PROVE  Val(ToSet(terms), theory, env)[example_ids'[key][i]]
               = Val(ToSet(terms), theory, Under(terms, theory, env, i))[key]
  <2> DEFINE at == Under(terms, theory, env, i)
  <2>1. PICK k \in DOMAIN example_ids : left[k] = key /\ example_ids'[key] = Moved(left, example_ids[k])
    BY <1>1
  <2>2. /\ k \in ToSet(terms) /\ example_ids[k] \in Seq(ToSet(terms))
        /\ Len(example_ids[k]) = Len(Examples(theory))
    BY DEF ValInv, TermInv, ValuesFit, NumExamples
  <2>3. i \in DOMAIN example_ids[k] /\ example_ids[k][i] \in ToSet(terms)
    BY <2>2, LenProperties, ElementAt
  <2>4. example_ids'[key][i] = left[example_ids[k][i]]
    BY <2>1, <2>3 DEF Moved
  <2>5. at \in Envs(theory)
    BY <1>2, UnderIs
  <2>6. Val(ToSet(terms), theory, env)[example_ids[k][i]] = Val(ToSet(terms), theory, at)[k]
    BY DEF ValInv, ValuesIn
  <2> HIDE DEF at
  <2>7. Val(ToSet(terms), theory, env)[left[example_ids[k][i]]]
          = Val(ToSet(terms), theory, env)[example_ids[k][i]]
    BY <2>3, FindValue
  <2>8. Val(ToSet(terms), theory, at)[left[k]] = Val(ToSet(terms), theory, at)[k]
    BY <2>2, <2>5, FindValue
  <2> QED BY <2>1, <2>4, <2>6, <2>7, <2>8 DEF at
<1> QED BY <1>3 DEF ValuesIn

\* The values of a term are those of its arguments, put together.
LEMMA CreateValues ==
  ASSUME ValInv, NEW edge \in pending, Translatable(edge), CreateTerm(edge)
  PROVE  /\ Right(terms', graph', theory) /\ ExamplesIn(terms', theory)
         /\ ValuesIn(terms', example_ids', theory)
<1> DEFINE N == Len(Examples(theory))
<1>1. TermInv /\ NumExamples = N
  BY DEF ValInv, NumExamples
<1>2. PICK key :
        /\ Graph(terms', graph') /\ Grown(terms, graph, terms', graph')
        /\ HasNode(graph', edge, key) /\ DOMAIN example_ids' = DOMAIN example_ids \cup {key}
        /\ \A k \in DOMAIN example_ids' : k # key => example_ids'[k] = example_ids[k]
        /\ \A i \in 1..N : /\ NodeOver(terms, TranslateEdge(edge, i))
                           /\ HasNode(graph', TranslateEdge(edge, i), example_ids'[key][i])
        /\ Right(terms', graph', theory)
  BY <1>1, CreateIs DEF ValInv
<1>3. ToSet(terms) \subseteq ToSet(terms') /\ Nodes(terms) /\ Nodes(terms')
  BY <1>2 DEF Grown, ValInv, TermInv, Graph
<1>4. theory \in Theories /\ ExamplesIn(terms, theory) /\ ExamplesIn(terms', theory)
  BY <1>3 DEF ValInv, TermInv, ExamplesIn
<1>5. NodeOver(terms, edge) /\ edge.args # <<>>
  BY <1>1 DEF TermInv, PendingFit
<1>6. ASSUME NEW k \in DOMAIN example_ids', NEW i \in 1..N, NEW env \in Envs(theory)
      PROVE  Val(ToSet(terms'), theory, env)[example_ids'[k][i]]
               = Val(ToSet(terms'), theory, Under(terms', theory, env, i))[k]
  <2> DEFINE at == Under(terms, theory, env, i)
             V(e) == Val(ToSet(terms'), theory, e)
  <2>1. Under(terms', theory, env, i) = at
    BY <1>3, <1>4, UnderGrows
  <2>2. at \in Envs(theory)
    BY <1>3, <1>4, UnderIs
  <2>3. ASSUME NEW j \in DOMAIN example_ids
        PROVE  V(env)[example_ids[j][i]] = V(at)[j]
    <3>1. Val(ToSet(terms), theory, env)[example_ids[j][i]] = Val(ToSet(terms), theory, at)[j]
      BY DEF ValInv, ValuesIn
    <3>2. /\ j \in ToSet(terms) /\ example_ids[j] \in Seq(ToSet(terms))
          /\ Len(example_ids[j]) = N
      BY <1>1 DEF TermInv, ValuesFit
    <3>3. example_ids[j][i] \in ToSet(terms)
      BY <3>2, ElementAt
    <3> HIDE DEF at
    <3>4. /\ V(env)[example_ids[j][i]] = Val(ToSet(terms), theory, env)[example_ids[j][i]]
          /\ V(at)[j] = Val(ToSet(terms), theory, at)[j]
      BY <1>3, <3>2, <3>3, ValuesGrow
    <3> QED BY <3>1, <3>4
  <2> HIDE DEF at
  <2>4. CASE k # key
    <3>1. k \in DOMAIN example_ids /\ example_ids'[k] = example_ids[k]
      BY <1>2, <2>4
    <3> QED BY <2>1, <2>3, <3>1
  <2>5. CASE k = key
    <3> DEFINE node == TranslateEdge(edge, i)
    <3>1. NodeOver(terms', node) /\ NodeOver(terms', edge)
      BY <1>2, <1>3, <1>5, NodeOverMore
    <3>2. V(env)[example_ids'[key][i]] = NodeValue(V(env), theory, env, node)
      BY <1>2, <3>1, ClassValue
    <3>3. V(at)[key] = NodeValue(V(at), theory, at, edge)
      BY <1>2, <2>2, <3>1, ClassValue
    <3>4. /\ node.op = edge.op /\ DOMAIN node.args = DOMAIN edge.args
          /\ \A j \in DOMAIN edge.args : node.args[j] = example_ids[edge.args[j]][i]
      BY DEF TranslateEdge, Term
    <3>5. node.args # <<>>
      <4>1. edge.args \in Seq(ToSet(terms)) /\ node.args \in Seq(ToSet(terms'))
        BY <1>5, <3>1 DEF NodeOver
      <4>2. DOMAIN edge.args # {}
        <5>1. Len(edge.args) \in Nat /\ Len(edge.args) # 0 /\ DOMAIN edge.args = 1..Len(edge.args)
          BY <1>5, <4>1, LenProperties, EmptySeq
        <5>2. 1 \in 1..Len(edge.args)
          BY <5>1
        <5> QED BY <5>1, <5>2
      <4>3. DOMAIN node.args # {}
        BY <3>4, <4>2
      <4> HIDE DEF node
      <4> QED BY <4>3
    <3> HIDE DEF node, V
    <3>6. \A j \in DOMAIN edge.args : V(env)[node.args[j]] = V(at)[edge.args[j]]
      BY <2>3, <3>4 DEF Translatable
    <3>7. [j \in DOMAIN node.args |-> V(env)[node.args[j]]] = [j \in DOMAIN edge.args |-> V(at)[edge.args[j]]]
      BY <3>4, <3>6
    <3>8. NodeValue(V(env), theory, env, node) = NodeValue(V(at), theory, at, edge)
      BY <1>5, <3>4, <3>5, <3>7 DEF NodeValue
    <3>9. V(env)[example_ids'[key][i]] = V(at)[key]
      BY <3>2, <3>3, <3>8
    <3> QED BY <2>1, <2>5, <3>9 DEF V
  <2> QED BY <2>4, <2>5
<1>7. ValuesIn(terms', example_ids', theory)
  BY <1>6 DEF ValuesIn
<1> QED BY <1>2, <1>4, <1>7

LEMMA NextValues ==
  ASSUME ValInv, [Next]_vars
  PROVE  ValInv'
<1>1. TermInv'
  BY NextTerm DEF ValInv
<1>2. CASE Unite
  <2>1. Right(terms, graph', theory)
    BY <1>2, UniteIs DEF ValInv
  <2> QED BY <1>1, <1>2, <2>1 DEF Unite, ValInv
<1>7. CASE FixKeys
  <2>1. /\ graph' \in Left /\ example_ids' \in FixedIds(example_ids, graph')
        /\ UNCHANGED <<theory, terms>>
    BY <1>7 DEF FixKeys
  <2>2. Graph(terms, graph') /\ Right(terms, graph', theory)
    BY <2>1, LeftIs DEF ValInv
  <2>3. ValuesIn(terms, example_ids', theory)
    BY <2>1, <2>2, FixedValues
  <2> QED BY <1>1, <2>1, <2>2, <2>3 DEF ValInv
<1>3. CASE BeginDepth
  <2>1. PICK left : /\ Graph(terms, left) /\ example_ids' \in FixedIds(example_ids, left)
                    /\ Right(terms, left, theory) /\ Right(terms, graph', theory)
    BY <1>3, BeginIs DEF ValInv
  <2>2. ValuesIn(terms, example_ids', theory)
    BY <2>1, FixedValues
  <2> QED BY <1>1, <1>3, <2>1, <2>2 DEF BeginDepth, ValInv
<1>4. CASE Create
  <2>1. theory' = theory
    BY <1>4 DEF Create
  <2>2. PICK edge \in pending :
          IF Translatable(edge) THEN CreateTerm(edge)
          ELSE UNCHANGED <<terms, graph, example_ids>>
    BY <1>4 DEF Create
  <2>3. CASE Translatable(edge)
    <3>1. /\ Right(terms', graph', theory) /\ ExamplesIn(terms', theory)
          /\ ValuesIn(terms', example_ids', theory)
      BY <2>2, <2>3, CreateValues
    <3> QED BY <1>1, <2>1, <3>1 DEF ValInv
  <2>4. CASE ~Translatable(edge)
    BY <1>1, <2>1, <2>2, <2>4 DEF ValInv
  <2> QED BY <2>3, <2>4
<1>5. CASE EndDepth
  <2>1. graph' = Rebuild(terms, graph) /\ UNCHANGED <<theory, terms, example_ids>>
    BY <1>5 DEF EndDepth
  <2>2. Right(terms, graph', theory)
    BY <2>1, RightRebuilt DEF ValInv, TermInv
  <2> QED BY <1>1, <2>1, <2>2 DEF ValInv
<1>6. CASE UNCHANGED vars
  BY <1>1, <1>6 DEF ValInv, vars
<1> QED BY <1>2, <1>3, <1>4, <1>5, <1>6, <1>7 DEF Next

\* The classes that example_ids lists for a class are what its terms are for
\* the examples, in every depth and however saturation has merged them: so the
\* equalities that get_conjectures sees among them are true of the examples
\* (thesy.rs, increase_depth and fix_example_ids).
THEOREM ValuesAreRight == Spec => []ValuesAreInstances
<1>1. ValInv => ValuesAreInstances
  <2> SUFFICES ASSUME ValInv,
                      NEW k \in DOMAIN example_ids, NEW i \in 1..NumExamples,
                      NEW t \in DOMAIN graph, graph[t] = graph[k], NEW env \in Envs(theory)
               PROVE  Val(DOMAIN graph, theory, env)[example_ids[k][i]]
                        = Val(DOMAIN graph, theory,
                              [env EXCEPT ![IndVar] = Val(DOMAIN graph, theory, env)[Examples(theory)[i]]])[t]
    BY DEF ValuesAreInstances
  <2>1. DOMAIN graph = ToSet(terms) /\ NumExamples = Len(Examples(theory))
        /\ theory \in Theories /\ Nodes(terms) /\ ExamplesIn(terms, theory) /\ k \in ToSet(terms)
    BY DEF ValInv, TermInv, ValuesFit, Graph, NumExamples
  <2> DEFINE at == Under(terms, theory, env, i)
  <2>2. at \in Envs(theory)
    BY <2>1, UnderIs
  <2>3. Val(ToSet(terms), theory, env)[example_ids[k][i]] = Val(ToSet(terms), theory, at)[k]
    BY <2>1 DEF ValInv, ValuesIn
  <2> HIDE DEF at
  <2>4. Val(ToSet(terms), theory, at)[t] = Val(ToSet(terms), theory, at)[k]
    BY <2>1, <2>2 DEF ValInv, Right
  <2> QED BY <2>1, <2>3, <2>4 DEF at, Under
<1>2. Init => ValInv
  BY InitValues
<1>3. ValInv /\ [Next]_vars => ValInv'
  BY NextValues
<1> QED BY <1>1, <1>2, <1>3, PTL DEF Spec

(***************************************************************************)
(* The pairs of get_conjectures: the keys with the same values.            *)
(***************************************************************************)
\* t and u have one value for each example.
AgreeOnExamples(t, u) ==
  \A i \in 1..NumExamples : \A env \in Envs(theory) :
    LET at == Under(terms, theory, env, i)
    IN Val(ToSet(terms), theory, at)[t] = Val(ToSet(terms), theory, at)[u]

Saturated == \A a, b \in DOMAIN graph : Equal(DOMAIN graph, theory, a, b) => graph[a] = graph[b]

\* All terms of two classes with the same values agree on the examples, and
\* when all that is equal has been merged no two others do.
PairsAreRight ==
  \A a, b \in DOMAIN example_ids :
    /\ example_ids[a] = example_ids[b] =>
         \A t, u \in DOMAIN graph :
           graph[t] = graph[a] /\ graph[u] = graph[b] => AgreeOnExamples(t, u)
    /\ Saturated /\ AgreeOnExamples(a, b) => example_ids[a] = example_ids[b]

\* The values are listed under the ids their classes have now.
UpToDate ==
  \A k \in DOMAIN example_ids : \A i \in 1..NumExamples :
    graph[example_ids[k][i]] = example_ids[k][i]

LEMMA FixedAreUpToDate ==
  ASSUME TermInv, FixKeys
  PROVE  UpToDate'
<1>1. /\ graph' \in Left /\ example_ids' \in FixedIds(example_ids, graph')
      /\ theory' = theory
  BY DEF FixKeys
<1>2. Graph(terms, graph')
  BY <1>1, LeftIs
<1>3. NumExamples' = NumExamples
  BY <1>1 DEF NumExamples
<1>4. ASSUME NEW key \in DOMAIN example_ids', NEW i \in 1..NumExamples
      PROVE  graph'[example_ids'[key][i]] = example_ids'[key][i]
  <2>1. PICK k \in DOMAIN example_ids : example_ids'[key] = Moved(graph', example_ids[k])
    BY <1>1, FixedIdsAre
  <2>2. example_ids[k] \in Seq(ToSet(terms)) /\ Len(example_ids[k]) = NumExamples
    BY DEF TermInv, ValuesFit
  <2>3. i \in DOMAIN example_ids[k] /\ example_ids[k][i] \in ToSet(terms)
    BY <2>2, ElementAt, LenProperties
  <2>4. example_ids'[key][i] = graph'[example_ids[k][i]]
    BY <2>1, <2>3 DEF Moved
  <2> QED BY <1>2, <2>3, <2>4 DEF Graph
<1> QED BY <1>3, <1>4 DEF UpToDate

LEMMA PairsAreRightIfUpToDate ==
  ASSUME ValInv, UpToDate
  PROVE  PairsAreRight
<1> SUFFICES ASSUME NEW a \in DOMAIN example_ids, NEW b \in DOMAIN example_ids
             PROVE  /\ example_ids[a] = example_ids[b] =>
                         \A t, u \in DOMAIN graph :
                           graph[t] = graph[a] /\ graph[u] = graph[b] => AgreeOnExamples(t, u)
                    /\ Saturated /\ AgreeOnExamples(a, b) => example_ids[a] = example_ids[b]
  BY DEF PairsAreRight
<1> DEFINE Value(env) == Val(ToSet(terms), theory, env)
           Given(env, i) == Under(terms, theory, env, i)
<1>1. /\ DOMAIN graph = ToSet(terms) /\ NumExamples = Len(Examples(theory))
      /\ theory \in Theories /\ Nodes(terms) /\ ExamplesIn(terms, theory)
      /\ a \in ToSet(terms) /\ b \in ToSet(terms)
  BY DEF ValInv, TermInv, ValuesFit, Graph, NumExamples
<1>2. ASSUME NEW i \in 1..NumExamples, NEW env \in Envs(theory)
      PROVE  /\ Given(env, i) \in Envs(theory)
             /\ Value(env)[example_ids[a][i]] = Value(Given(env, i))[a]
             /\ Value(env)[example_ids[b][i]] = Value(Given(env, i))[b]
  BY <1>1, UnderIs DEF ValInv, ValuesIn
<1>3. ASSUME example_ids[a] = example_ids[b],
             NEW t \in DOMAIN graph, NEW u \in DOMAIN graph,
             graph[t] = graph[a], graph[u] = graph[b]
      PROVE  AgreeOnExamples(t, u)
  <2> SUFFICES ASSUME NEW i \in 1..NumExamples, NEW env \in Envs(theory)
               PROVE  Value(Given(env, i))[t] = Value(Given(env, i))[u]
    BY DEF AgreeOnExamples
  <2>1. Value(Given(env, i))[t] = Value(Given(env, i))[a] /\ Value(Given(env, i))[u] = Value(Given(env, i))[b]
    BY <1>1, <1>2, <1>3 DEF ValInv, Right
  <2> QED BY <1>2, <1>3, <2>1
<1>4. ASSUME Saturated, AgreeOnExamples(a, b)
      PROVE  example_ids[a] = example_ids[b]
  <2>1. /\ example_ids[a] \in Seq(ToSet(terms)) /\ Len(example_ids[a]) = NumExamples
        /\ example_ids[b] \in Seq(ToSet(terms)) /\ Len(example_ids[b]) = NumExamples
    BY DEF ValInv, TermInv, ValuesFit
  <2>2. ASSUME NEW i \in 1..NumExamples PROVE example_ids[a][i] = example_ids[b][i]
    <3> DEFINE x == example_ids[a][i]
               y == example_ids[b][i]
    <3>1. x \in DOMAIN graph /\ y \in DOMAIN graph
      BY <1>1, <2>1, ElementAt
    <3>2. ASSUME NEW env \in Envs(theory) PROVE Value(env)[x] = Value(env)[y]
      <4>1. Value(Given(env, i))[a] = Value(Given(env, i))[b]
        BY <1>4 DEF AgreeOnExamples
      <4> QED BY <1>2, <4>1
    <3> HIDE DEF x, y
    <3>3. Equal(DOMAIN graph, theory, x, y)
      BY <1>1, <3>2 DEF Equal
    <3>4. graph[x] = graph[y]
      BY <1>4, <3>1, <3>3 DEF Saturated
    <3> QED BY <3>4 DEF UpToDate, x, y
  <2> QED BY <2>1, <2>2, SeqEqual
<1> QED BY <1>3, <1>4

\* The keys that get_conjectures pairs are right: what is paired agrees on the
\* examples, whichever terms of the two classes are shown, and no pair is missed
\* because keys or values are those of an earlier graph ("finds classes that
\* are equal for examples", thesy.rs:406).
THEOREM PairsAgreeOnExamples == Spec => [][FixKeys => PairsAreRight']_vars
<1>1. Init => ValInv
  BY InitValues
<1>2. ValInv /\ [Next]_vars => ValInv'
  BY NextValues
<1>3. ValInv /\ FixKeys => UpToDate'
  BY FixedAreUpToDate DEF ValInv
<1>4. ValInv /\ UpToDate => PairsAreRight
  BY PairsAreRightIfUpToDate
<1> QED BY <1>1, <1>2, <1>3, <1>4, PTL DEF Spec

(***************************************************************************)
(* The terms up to a depth, and their classes.                             *)
(***************************************************************************)
FirstTerms(th) == {Const(c) : c \in ToSet(th.consts)}
Bigger(th, T) == T \cup UNION {{Term(f.name, args) : args \in [1..f.arity -> T]} : f \in th.functions}
Levels(to, th, n) == to[0] = FirstTerms(th) /\ \A k \in 1..n : to[k] = Bigger(th, to[k - 1])

\* TermsTo, step by step.
LEMMA LevelsOf ==
  ASSUME NEW th, NEW n \in Nat
  PROVE  \E to : Levels(to, th, n) /\ TermsTo(th, n) = to[n]
<1> DEFINE Goes(st, m) == st = [k \in 0..m |-> IF k = 0 THEN FirstTerms(th) ELSE Bigger(th, st[k - 1])]
           solved == {m \in 0..n : \E st : Goes(st, m)}
<1>1. 0 \in solved
  <2> DEFINE st == [k \in 0..0 |-> FirstTerms(th)]
  <2>1. st = [k \in 0..0 |-> IF k = 0 THEN FirstTerms(th) ELSE Bigger(th, st[k - 1])]
    OBVIOUS
  <2> HIDE DEF st
  <2>2. Goes(st, 0)
    BY <2>1
  <2> HIDE DEF Goes
  <2> QED BY <2>2
<1>2. ASSUME NEW m \in 1..n, m - 1 \in solved PROVE m \in solved
  <2>1. PICK e : Goes(e, m - 1)
    BY <1>2
  <2>2. /\ DOMAIN e = 0..(m - 1) /\ e[0] = FirstTerms(th)
        /\ \A k \in 1..(m - 1) : e[k] = Bigger(th, e[k - 1])
    BY <2>1
  <2> DEFINE st == [k \in 0..m |-> IF k = m THEN Bigger(th, e[m - 1]) ELSE e[k]]
  <2>3. st[0] = FirstTerms(th)
    BY <2>2
  <2>4. \A k \in 1..m : st[k] = Bigger(th, st[k - 1])
    <3> SUFFICES ASSUME NEW k \in 1..m PROVE st[k] = Bigger(th, st[k - 1])
      OBVIOUS
    <3>1. st[k - 1] = e[k - 1]
      OBVIOUS
    <3>2. CASE k = m
      BY <3>1, <3>2
    <3>3. CASE k # m
      <4>1. k \in 1..(m - 1) /\ st[k] = e[k]
        BY <3>3
      <4> QED BY <2>2, <3>1, <4>1
    <3> QED BY <3>2, <3>3
  <2>5. st = [k \in 0..m |-> st[k]]
    OBVIOUS
  <2> HIDE DEF st
  <2>6. \A k \in 0..m : st[k] = IF k = 0 THEN FirstTerms(th) ELSE Bigger(th, st[k - 1])
    BY <2>3, <2>4
  <2>7. Goes(st, m)
    BY <2>5, <2>6
  <2> HIDE DEF Goes
  <2> QED BY <2>7
<1>3. n \in solved
  <2>1. \A m \in 0..n : m \in solved
    <3> HIDE DEF solved
    <3> QED BY <1>1, <1>2, ByCounting
  <2> HIDE DEF solved
  <2> QED BY <2>1
<1> DEFINE to == CHOOSE st : Goes(st, n)
<1>4. Goes(to, n)
  BY <1>3
<1>5. TermsTo(th, n) = to[n]
  BY DEF TermsTo, FirstTerms, Bigger
<1> HIDE DEF to
<1>6. Levels(to, th, n)
  BY <1>4 DEF Levels
<1> QED BY <1>5, <1>6

LEMMA LevelsAgree ==
  ASSUME NEW th, NEW n \in Nat, NEW a, NEW b, Levels(a, th, n), Levels(b, th, n)
  PROVE  a[n] = b[n]
<1> DEFINE same == {k \in 0..n : a[k] = b[k]}
<1>1. 0 \in same
  BY DEF Levels
<1>2. ASSUME NEW k \in 1..n, k - 1 \in same PROVE k \in same
  BY <1>2 DEF Levels
<1>3. \A k \in 0..n : k \in same
  <2> HIDE DEF same
  <2> QED BY <1>1, <1>2, ByCounting
<1> QED BY <1>3

\* A term of one more depth is an earlier one or has earlier ones for arguments.
LEMMA TermsToIs ==
  ASSUME NEW th
  PROVE  /\ TermsTo(th, 0) = FirstTerms(th)
         /\ \A n \in Nat : TermsTo(th, n + 1) = Bigger(th, TermsTo(th, n))
<1>1. TermsTo(th, 0) = FirstTerms(th)
  BY LevelsOf DEF Levels
<1>2. ASSUME NEW n \in Nat PROVE TermsTo(th, n + 1) = Bigger(th, TermsTo(th, n))
  <2>1. PICK to : Levels(to, th, n + 1) /\ TermsTo(th, n + 1) = to[n + 1]
    BY LevelsOf
  <2>2. PICK b : Levels(b, th, n) /\ TermsTo(th, n) = b[n]
    BY LevelsOf
  <2>3. Levels(to, th, n)
    BY <2>1 DEF Levels
  <2>4. to[n] = TermsTo(th, n)
    BY <2>2, <2>3, LevelsAgree
  <2>5. to[n + 1] = Bigger(th, to[(n + 1) - 1])
    <3>1. n + 1 \in 1..(n + 1)
      OBVIOUS
    <3> QED BY <2>1, <3>1 DEF Levels
  <2> QED BY <2>1, <2>4, <2>5
<1> QED BY <1>1, <1>2

\* The arguments of a term are of a smaller depth.
LEMMA ArgsBelow ==
  ASSUME NEW th \in Theories, NEW n \in Nat
  PROVE  \A m \in 0..n : /\ TermsTo(th, m) \subseteq TermsTo(th, n)
                         /\ \A t \in TermsTo(th, m) : \A i \in DOMAIN t.args :
                              m # 0 /\ t.args[i] \in TermsTo(th, m - 1)
<1> DEFINE fits == {m \in 0..n : \A t \in TermsTo(th, m) : \A i \in DOMAIN t.args :
                                   m # 0 /\ t.args[i] \in TermsTo(th, m - 1)}
           below == {m \in 0..n : \A k \in 0..m : TermsTo(th, k) \subseteq TermsTo(th, m)}
<1>1. \A m \in 1..n : /\ TermsTo(th, m) = Bigger(th, TermsTo(th, m - 1))
                      /\ TermsTo(th, m - 1) \subseteq TermsTo(th, m)
  <2> SUFFICES ASSUME NEW m \in 1..n
               PROVE  /\ TermsTo(th, m) = Bigger(th, TermsTo(th, m - 1))
                      /\ TermsTo(th, m - 1) \subseteq TermsTo(th, m)
    OBVIOUS
  <2>1. m - 1 \in Nat /\ (m - 1) + 1 = m
    OBVIOUS
  <2>2. TermsTo(th, (m - 1) + 1) = Bigger(th, TermsTo(th, m - 1))
    BY <2>1, TermsToIs
  <2>3. TermsTo(th, m) = Bigger(th, TermsTo(th, m - 1))
    BY <2>1, <2>2
  <2> QED BY <2>3 DEF Bigger
<1>2. 0 \in fits
  <2>1. \A t \in TermsTo(th, 0) : t.args = <<>>
    BY TermsToIs DEF FirstTerms, Const, Term
  <2> QED BY <2>1
<1>3. ASSUME NEW m \in 1..n, m - 1 \in fits PROVE m \in fits
  <2> SUFFICES ASSUME NEW t \in TermsTo(th, m), NEW i \in DOMAIN t.args
               PROVE  t.args[i] \in TermsTo(th, m - 1)
    OBVIOUS
  <2>1. CASE t \in TermsTo(th, m - 1)
    <3>1. m - 1 # 0 /\ t.args[i] \in TermsTo(th, (m - 1) - 1)
      BY <1>3, <2>1
    <3>2. m - 1 \in 1..n
      BY <3>1
    <3> QED BY <1>1, <3>1, <3>2
  <2>2. CASE t \notin TermsTo(th, m - 1)
    <3>1. t \in UNION {{Term(f.name, args) : args \in [1..f.arity -> TermsTo(th, m - 1)]} : f \in th.functions}
      BY <1>1, <2>2 DEF Bigger
    <3>2. PICK f \in th.functions :
            \E args \in [1..f.arity -> TermsTo(th, m - 1)] : t = Term(f.name, args)
      BY <3>1
    <3>3. PICK args \in [1..f.arity -> TermsTo(th, m - 1)] : t = Term(f.name, args)
      BY <3>2
    <3>4. t.args = args
      BY <3>3 DEF Term
    <3> QED BY <3>4
  <2> QED BY <2>1, <2>2
<1>4. 0 \in below
  OBVIOUS
<1>5. ASSUME NEW m \in 1..n, m - 1 \in below PROVE m \in below
  <2> SUFFICES ASSUME NEW k \in 0..m PROVE TermsTo(th, k) \subseteq TermsTo(th, m)
    OBVIOUS
  <2>1. CASE k = m
    BY <2>1
  <2>2. CASE k # m
    <3>1. k \in 0..(m - 1)
      BY <2>2
    <3>2. TermsTo(th, k) \subseteq TermsTo(th, m - 1)
      BY <1>5, <3>1
    <3> QED BY <1>1, <3>2
  <2> QED BY <2>1, <2>2
<1>6. (\A m \in 0..n : m \in fits) /\ \A m \in 0..n : m \in below
  <2> HIDE DEF fits, below
  <2> QED BY <1>2, <1>3, <1>4, <1>5, ByCounting
<1>7. \A m \in 0..n : TermsTo(th, m) \subseteq TermsTo(th, n)
  <2>1. n \in 0..n
    OBVIOUS
  <2> QED BY <1>6, <2>1
<1> QED BY <1>6, <1>7

\* The classes of the terms that are t with arguments in the classes at has.
LookupStep(g, at, t) ==
  {g[u] : u \in {v \in DOMAIN g :
     /\ v.op = t.op /\ DOMAIN v.args = DOMAIN t.args
     /\ \A i \in DOMAIN t.args : g[v.args[i]] \in at[t.args[i]]}}
Looked(at, T, g) == \A t \in T : at[t] = LookupStep(g, at, t)

LEMMA StepAgree ==
  ASSUME NEW g, NEW a, NEW b, NEW t, \A i \in DOMAIN t.args : a[t.args[i]] = b[t.args[i]]
  PROVE  LookupStep(g, a, t) = LookupStep(g, b, t)
<1>1. \A v : (\A i \in DOMAIN t.args : g[v.args[i]] \in a[t.args[i]])
               <=> (\A i \in DOMAIN t.args : g[v.args[i]] \in b[t.args[i]])
  OBVIOUS
<1> QED BY <1>1 DEF LookupStep

\* The classes of terms are those of terms like them.
LEMMA LookupIs ==
  ASSUME NEW th \in Theories, NEW n \in Nat, NEW g
  PROVE  Looked(Lookup(TermsTo(th, n), g), TermsTo(th, n), g)
<1> DEFINE T == TermsTo(th, n)
           Goes(at, m) == at = [t \in T |-> IF t \in TermsTo(th, m) THEN LookupStep(g, at, t) ELSE {}]
           solved == {m \in 0..n : \E at : Goes(at, m)}
<1>1. \A m \in 0..n : /\ TermsTo(th, m) \subseteq T
                      /\ \A t \in TermsTo(th, m) : \A i \in DOMAIN t.args :
                           m # 0 /\ t.args[i] \in TermsTo(th, m - 1)
  BY ArgsBelow
<1>2. ASSUME NEW m \in 0..n, NEW e,
             \A t \in TermsTo(th, m) : \A i \in DOMAIN t.args :
               e[t.args[i]] = LookupStep(g, e, t.args[i]) /\ t.args[i] \in TermsTo(th, m)
      PROVE  \E at : Goes(at, m)
  <2> DEFINE at == [t \in T |-> IF t \in TermsTo(th, m) THEN LookupStep(g, e, t) ELSE {}]
  <2>1. \A t \in TermsTo(th, m) : at[t] = LookupStep(g, e, t)
    BY <1>1
  <2>2. \A t \in T : t \notin TermsTo(th, m) => at[t] = {}
    OBVIOUS
  <2>3. at = [t \in T |-> at[t]]
    OBVIOUS
  <2> HIDE DEF at
  <2>4. ASSUME NEW t \in TermsTo(th, m) PROVE at[t] = LookupStep(g, at, t)
    <3>1. \A i \in DOMAIN t.args : at[t.args[i]] = e[t.args[i]]
      BY <1>2, <2>1
    <3>2. LookupStep(g, at, t) = LookupStep(g, e, t)
      BY <3>1, StepAgree
    <3> QED BY <2>1, <3>2
  <2> HIDE DEF T
  <2>5. \A t \in T : at[t] = IF t \in TermsTo(th, m) THEN LookupStep(g, at, t) ELSE {}
    BY <2>2, <2>4
  <2>6. Goes(at, m)
    BY <2>3, <2>5
  <2> HIDE DEF Goes
  <2> QED BY <2>6
<1>3. 0 \in solved
  <2>1. \A t \in TermsTo(th, 0) : \A i \in DOMAIN t.args : FALSE
    BY <1>1
  <2>2. \E at : Goes(at, 0)
    <3> HIDE DEF Goes
    <3> QED BY <1>2, <2>1
  <2> HIDE DEF Goes
  <2> QED BY <2>2
<1>4. ASSUME NEW m \in 1..n, m - 1 \in solved PROVE m \in solved
  <2>1. PICK e : Goes(e, m - 1)
    BY <1>4
  <2>2. \A t \in TermsTo(th, m - 1) : e[t] = LookupStep(g, e, t)
    <3>1. m - 1 \in 0..n
      OBVIOUS
    <3>2. \A t \in TermsTo(th, m - 1) : t \in T
      BY <1>1, <3>1
    <3> HIDE DEF T
    <3> QED BY <2>1, <3>2
  <2>3. TermsTo(th, m - 1) \subseteq TermsTo(th, m)
    BY ArgsBelow
  <2>4. \A t \in TermsTo(th, m) : \A i \in DOMAIN t.args :
          e[t.args[i]] = LookupStep(g, e, t.args[i]) /\ t.args[i] \in TermsTo(th, m)
    BY <1>1, <2>2, <2>3
  <2>5. \E at : Goes(at, m)
    <3>1. m \in 0..n
      OBVIOUS
    <3> HIDE DEF Goes
    <3> QED BY <1>2, <2>4, <3>1, Zenon
  <2> HIDE DEF Goes
  <2> QED BY <2>5
<1>5. n \in solved
  <2>1. \A m \in 0..n : m \in solved
    <3> HIDE DEF solved
    <3> QED BY <1>3, <1>4, ByCounting
  <2> HIDE DEF solved
  <2> QED BY <2>1
<1> DEFINE Is(at) == at = [t \in T |-> LookupStep(g, at, t)]
<1>6. \E at : Is(at)
  <2>1. PICK at : Goes(at, n)
    BY <1>5
  <2>2. Is(at)
    <3> HIDE DEF T
    <3> QED BY <2>1 DEF T
  <2> HIDE DEF Is
  <2> QED BY <2>2
<1> DEFINE at == CHOOSE f : Is(f)
<1>7. Is(at)
  BY <1>6
<1>8. Lookup(T, g) = at
  BY DEF Lookup, LookupStep
<1> HIDE DEF at
<1>9. \A t \in T : at[t] = LookupStep(g, at, t)
  <2> HIDE DEF T
  <2> QED BY <1>7
<1> QED BY <1>8, <1>9 DEF Looked

\* A term has the same classes among the terms of any depth.
LEMMA LookupAgree ==
  ASSUME NEW th \in Theories, NEW n \in Nat, NEW g, NEW a, NEW b,
         Looked(a, TermsTo(th, n), g), Looked(b, TermsTo(th, n), g)
  PROVE  \A t \in TermsTo(th, n) : a[t] = b[t]
<1> DEFINE same == {m \in 0..n : \A t \in TermsTo(th, m) : a[t] = b[t]}
<1>1. \A m \in 0..n : /\ TermsTo(th, m) \subseteq TermsTo(th, n)
                      /\ \A t \in TermsTo(th, m) : \A i \in DOMAIN t.args :
                           m # 0 /\ t.args[i] \in TermsTo(th, m - 1)
  BY ArgsBelow
<1>2. ASSUME NEW m \in 0..n, NEW t \in TermsTo(th, m), \A i \in DOMAIN t.args : a[t.args[i]] = b[t.args[i]]
      PROVE  a[t] = b[t]
  <2>1. LookupStep(g, a, t) = LookupStep(g, b, t)
    BY <1>2, StepAgree
  <2>2. t \in TermsTo(th, n)
    BY <1>1
  <2> QED BY <2>1, <2>2 DEF Looked
<1>3. 0 \in same
  <2>1. \A t \in TermsTo(th, 0) : \A i \in DOMAIN t.args : FALSE
    BY <1>1
  <2>2. 0 \in 0..n
    OBVIOUS
  <2>3. \A t \in TermsTo(th, 0) : a[t] = b[t]
    BY <1>2, <2>1, <2>2
  <2> QED BY <2>2, <2>3
<1>4. ASSUME NEW m \in 1..n, m - 1 \in same PROVE m \in same
  <2>1. m \in 0..n
    OBVIOUS
  <2>2. ASSUME NEW t \in TermsTo(th, m) PROVE a[t] = b[t]
    <3>1. \A i \in DOMAIN t.args : a[t.args[i]] = b[t.args[i]]
      BY <1>1, <1>4, <2>1
    <3> QED BY <1>2, <2>1, <3>1
  <2> QED BY <2>1, <2>2
<1>5. \A m \in 0..n : m \in same
  <2> HIDE DEF same
  <2> QED BY <1>3, <1>4, ByCounting
<1> QED BY <1>5

LEMMA LookupSame ==
  ASSUME NEW th \in Theories, NEW n \in Nat, NEW g
  PROVE  \A t \in TermsTo(th, n) : Lookup(TermsTo(th, n + 1), g)[t] = Lookup(TermsTo(th, n), g)[t]
<1>1. Looked(Lookup(TermsTo(th, n + 1), g), TermsTo(th, n + 1), g)
  BY LookupIs
<1>2. TermsTo(th, n) \subseteq TermsTo(th, n + 1)
  <2>1. TermsTo(th, n + 1) = Bigger(th, TermsTo(th, n))
    BY TermsToIs
  <2> QED BY <2>1 DEF Bigger
<1>3. Looked(Lookup(TermsTo(th, n + 1), g), TermsTo(th, n), g)
  BY <1>1, <1>2 DEF Looked
<1>4. Looked(Lookup(TermsTo(th, n), g), TermsTo(th, n), g)
  BY LookupIs
<1> QED BY <1>3, <1>4, LookupAgree

\* Terms with one class in g have one in h, which may have more terms.
Inside(g, h) == DOMAIN g \subseteq DOMAIN h /\ \A a, b \in DOMAIN g : g[a] = g[b] => h[a] = h[b]

LEMMA LookupStays ==
  ASSUME NEW th \in Theories, NEW n \in Nat, NEW ts, NEW g, Graph(ts, g), NEW h, Inside(g, h)
  PROVE  \A t \in TermsTo(th, n) : \A u \in ToSet(ts) :
           g[u] \in Lookup(TermsTo(th, n), g)[t] => h[u] \in Lookup(TermsTo(th, n), h)[t]
<1> DEFINE a == Lookup(TermsTo(th, n), g)
           b == Lookup(TermsTo(th, n), h)
           good == {m \in 0..n : \A t \in TermsTo(th, m) : \A u \in ToSet(ts) : g[u] \in a[t] => h[u] \in b[t]}
<1>1. \A m \in 0..n : /\ TermsTo(th, m) \subseteq TermsTo(th, n)
                      /\ \A t \in TermsTo(th, m) : \A i \in DOMAIN t.args :
                           m # 0 /\ t.args[i] \in TermsTo(th, m - 1)
  BY ArgsBelow
<1>2. Looked(a, TermsTo(th, n), g) /\ Looked(b, TermsTo(th, n), h)
  BY LookupIs
<1> HIDE DEF a, b
<1>3. DOMAIN g = ToSet(ts)
  BY DEF Graph
<1>4. ASSUME NEW m \in 0..n, NEW t \in TermsTo(th, m), NEW u \in ToSet(ts), g[u] \in a[t],
             \A i \in DOMAIN t.args : \A w \in ToSet(ts) : g[w] \in a[t.args[i]] => h[w] \in b[t.args[i]]
      PROVE  h[u] \in b[t]
  <2>1. a[t] = LookupStep(g, a, t) /\ b[t] = LookupStep(h, b, t)
    BY <1>1, <1>2 DEF Looked
  <2>2. PICK v \in ToSet(ts) : /\ g[v] = g[u] /\ v.op = t.op /\ DOMAIN v.args = DOMAIN t.args
                               /\ \A i \in DOMAIN t.args : g[v.args[i]] \in a[t.args[i]]
    BY <1>3, <1>4, <2>1 DEF LookupStep
  <2>3. \A i \in DOMAIN t.args : v.args[i] \in ToSet(ts)
    <3>1. NodeOver(ts, v)
      BY TermsAreNodes DEF Graph
    <3> QED BY <2>2, <3>1, ElementAt DEF NodeOver
  <2>4. \A i \in DOMAIN t.args : h[v.args[i]] \in b[t.args[i]]
    BY <1>4, <2>2, <2>3
  <2>5. v \in DOMAIN h /\ h[v] = h[u]
    BY <1>3, <2>2 DEF Inside
  <2>6. h[v] \in LookupStep(h, b, t)
    BY <2>2, <2>4, <2>5 DEF LookupStep
  <2> QED BY <2>1, <2>5, <2>6
<1>5. 0 \in good
  <2>1. \A t \in TermsTo(th, 0) : \A i \in DOMAIN t.args : FALSE
    BY <1>1
  <2>2. 0 \in 0..n
    OBVIOUS
  <2>3. \A t \in TermsTo(th, 0) : \A u \in ToSet(ts) : g[u] \in a[t] => h[u] \in b[t]
    BY <1>4, <2>1, <2>2
  <2> QED BY <2>2, <2>3
<1>6. ASSUME NEW m \in 1..n, m - 1 \in good PROVE m \in good
  <2>1. m \in 0..n
    OBVIOUS
  <2>2. ASSUME NEW t \in TermsTo(th, m), NEW u \in ToSet(ts), g[u] \in a[t] PROVE h[u] \in b[t]
    <3>1. \A i \in DOMAIN t.args : \A w \in ToSet(ts) : g[w] \in a[t.args[i]] => h[w] \in b[t.args[i]]
      BY <1>1, <1>6, <2>1
    <3> QED BY <1>4, <2>1, <2>2, <3>1
  <2> QED BY <2>1, <2>2
<1>7. \A m \in 0..n : m \in good
  <2> HIDE DEF good
  <2> QED BY <1>5, <1>6, ByCounting
<1> QED BY <1>7 DEF a, b

(***************************************************************************)
(* All terms are created.                                                  *)
(***************************************************************************)
\* t has a typed class in g, or will have one when the match edge is taken up.
Known(T, g, ks, t) == \E k \in ks : g[k] \in Lookup(T, g)[t]
Awaits(T, g, edge, t) ==
  /\ edge.op = t.op /\ DOMAIN edge.args = DOMAIN t.args
  /\ \A i \in DOMAIN t.args : g[edge.args[i]] \in Lookup(T, g)[t.args[i]]

AllKnown(th, n, g, ks) == \A t \in TermsTo(th, n) : Known(TermsTo(th, n), g, ks, t)
AllAwaited(th, n, g, ks, edges) ==
  \A t \in TermsTo(th, n) : \/ Known(TermsTo(th, n), g, ks, t)
                            \/ \E edge \in edges : Awaits(TermsTo(th, n), g, edge, t)

CreatedInv ==
  /\ TermInv
  /\ phase = "rewriting" => AllKnown(theory, depth, graph, typed)
  /\ phase = "creating" => AllAwaited(theory, depth + 1, graph, typed, pending)

\* Terms stay known when classes are merged or terms are added.
LEMMA KnownStays ==
  ASSUME NEW th \in Theories, NEW n \in Nat, NEW ts, NEW g, Graph(ts, g), NEW h, Inside(g, h),
         NEW ks \in SUBSET ToSet(ts), NEW t \in TermsTo(th, n), Known(TermsTo(th, n), g, ks, t)
  PROVE  Known(TermsTo(th, n), h, ks, t)
BY LookupStays DEF Known

LEMMA CoarserWithin ==
  ASSUME NEW ts, NEW g, NEW h, Graph(ts, g), Graph(ts, h), Coarser(g, h)
  PROVE  Inside(g, h)
BY DEF Graph, Coarser, Inside

LEMMA GrownWithin ==
  ASSUME NEW ts, NEW g, NEW us, NEW h, Graph(ts, g), Graph(us, h), Grown(ts, g, us, h)
  PROVE  Inside(g, h)
BY DEF Graph, Grown, Inside

LEMMA InitCreated ==
  ASSUME Init
  PROVE  CreatedInv
<1>1. TermInv /\ Discrete(terms, graph) /\ typed = {Const(c) : c \in ToSet(theory.consts)}
  BY InitTerm
<1>2. theory \in Theories /\ DOMAIN graph = ToSet(terms) /\ typed \subseteq ToSet(terms)
  BY <1>1 DEF TermInv, Graph, ValuesFit
<1> DEFINE T == TermsTo(theory, 0)
           at == Lookup(T, graph)
<1>3. T = typed
  BY <1>1, TermsToIs DEF FirstTerms
<1>4. ASSUME NEW t \in T PROVE Known(T, graph, typed, t)
  <2>1. at[t] = LookupStep(graph, at, t)
    BY <1>2, LookupIs DEF Looked
  <2>2. t \in DOMAIN graph /\ t.args = <<>>
    BY <1>1, <1>2, <1>3 DEF Const, Term
  <2> HIDE DEF at
  <2>3. graph[t] \in LookupStep(graph, at, t)
    BY <2>2 DEF LookupStep
  <2> QED BY <1>3, <2>1, <2>3 DEF Known, at
<1>5. AllKnown(theory, 0, graph, typed)
  BY <1>4 DEF AllKnown
<1>6. depth = 0 /\ phase = "rewriting"
  BY DEF Init
<1> QED BY <1>1, <1>5, <1>6 DEF CreatedInv

\* A term of the next depth is known or has a match.
LEMMA BeginCreated ==
  ASSUME CreatedInv, BeginDepth
  PROVE  AllAwaited(theory, depth + 1, graph', typed, pending')
<1>1. /\ theory \in Theories /\ depth \in Nat /\ Graph(terms, graph)
      /\ typed \subseteq ToSet(terms) /\ AllKnown(theory, depth, graph, typed)
  <2>1. theory.depth \in Nat
    BY TermAssumption DEF CreatedInv, TermInv
  <2> QED BY <2>1 DEF BeginDepth, CreatedInv, TermInv, ValuesFit, PhasesFit
<1>2. Graph(terms, graph') /\ Inside(graph, graph')
  BY <1>1, BeginIs, CoarserWithin DEF CreatedInv
<1>3. pending' = Matches(theory, graph')
  BY DEF BeginDepth
<1> DEFINE T == TermsTo(theory, depth)
           U == TermsTo(theory, depth + 1)
           h == graph'
<1>4. \A t \in T : Known(T, h, typed, t)
  BY <1>1, <1>2, KnownStays DEF AllKnown
<1>5. \A t \in T : Lookup(U, h)[t] = Lookup(T, h)[t]
  BY <1>1, LookupSame
<1>6. U = Bigger(theory, T)
  BY <1>1, TermsToIs
<1>7. \A t \in ToSet(terms) : h[h[t]] = h[t]
  BY <1>2 DEF Graph
<1>8. ASSUME NEW t \in U, t \notin T
      PROVE  \E edge \in Matches(theory, h) : Awaits(U, h, edge, t)
  <2>1. t \in UNION {{Term(f.name, args) : args \in [1..f.arity -> T]} : f \in theory.functions}
    BY <1>6, <1>8 DEF Bigger
  <2>2. PICK f \in theory.functions : \E args \in [1..f.arity -> T] : t = Term(f.name, args)
    BY <2>1
  <2>3. PICK args \in [1..f.arity -> T] : t = Term(f.name, args)
    BY <2>2
  <2>4. t.op = f.name /\ t.args = args /\ DOMAIN args = 1..f.arity
    BY <2>3 DEF Term
  <2> DEFINE Pick(i) == CHOOSE k \in typed : h[k] \in Lookup(T, h)[args[i]]
             xs == [i \in 1..f.arity |-> h[Pick(i)]]
             edge == Term(f.name, xs)
  <2> HIDE DEF T, U, h
  <2>5. \A i \in 1..f.arity : Pick(i) \in typed /\ h[Pick(i)] \in Lookup(T, h)[args[i]]
    <3> SUFFICES ASSUME NEW i \in 1..f.arity
                 PROVE  Pick(i) \in typed /\ h[Pick(i)] \in Lookup(T, h)[args[i]]
      OBVIOUS
    <3>1. Known(T, h, typed, args[i])
      BY <1>4
    <3>2. \E k \in typed : h[k] \in Lookup(T, h)[args[i]]
      BY <3>1 DEF Known
    <3> QED BY <3>2
  <2> HIDE DEF Pick
  <2>6. edge \in Matches(theory, h)
    <3>1. xs \in [1..f.arity -> {h[k] : k \in typed}]
      BY <2>5
    <3> HIDE DEF xs
    <3> QED BY <3>1 DEF Matches
  <2>7. edge.op = f.name /\ edge.args = xs
    BY DEF Term
  <2>8. ASSUME NEW i \in 1..f.arity PROVE h[xs[i]] \in Lookup(U, h)[args[i]]
    <3>1. h[xs[i]] = h[Pick(i)]
      BY <1>1, <1>7, <2>5
    <3>2. Lookup(U, h)[args[i]] = Lookup(T, h)[args[i]]
      BY <1>5
    <3> QED BY <2>5, <3>1, <3>2
  <2>9. DOMAIN xs = 1..f.arity
    OBVIOUS
  <2> HIDE DEF xs, edge
  <2>10. Awaits(U, h, edge, t)
    BY <2>4, <2>7, <2>8, <2>9 DEF Awaits
  <2> QED BY <2>6, <2>10
<1>9. ASSUME NEW t \in T PROVE Known(U, h, typed, t)
  BY <1>4, <1>5 DEF Known
<1> QED BY <1>3, <1>8, <1>9 DEF AllAwaited

\* The match that is taken up makes its terms known.
LEMMA CreateCreated ==
  ASSUME CreatedInv, Create, phase' # "panicked"
  PROVE  AllAwaited(theory, depth + 1, graph', typed', pending')
<1>1. PICK edge \in pending : Translatable(edge) /\ CreateTerm(edge) /\ pending' = pending \ {edge}
  BY DEF Create
<1>2. TermInv /\ phase = "creating" /\ AllAwaited(theory, depth + 1, graph, typed, pending)
  BY DEF Create, CreatedInv
<1>3. /\ theory \in Theories /\ depth + 1 \in Nat /\ Graph(terms, graph)
      /\ typed \subseteq ToSet(terms)
  <2>1. theory.depth \in Nat
    BY <1>2, TermAssumption DEF TermInv
  <2> QED BY <1>2, <2>1 DEF TermInv, ValuesFit, PhasesFit
<1>4. PICK key : /\ Graph(terms', graph') /\ Grown(terms, graph, terms', graph')
                 /\ key \in ToSet(terms') /\ HasNode(graph', edge, key) /\ typed' = typed \cup {key}
  BY <1>1, <1>2, CreateIs
<1>5. Inside(graph, graph')
  BY <1>3, <1>4, GrownWithin
<1> DEFINE U == TermsTo(theory, depth + 1)
           h == graph'
<1>6. Looked(Lookup(U, h), U, h)
  BY <1>3, LookupIs
<1>7. \A e \in pending : NodeOver(terms, e)
  BY <1>2 DEF TermInv, PendingFit
<1>8. \A t \in U : \A i \in DOMAIN t.args : t.args[i] \in U
  <2>1. \A m \in 0..(depth + 1) :
          /\ TermsTo(theory, m) \subseteq U
          /\ \A t \in TermsTo(theory, m) : \A i \in DOMAIN t.args :
               m # 0 /\ t.args[i] \in TermsTo(theory, m - 1)
    BY <1>3, ArgsBelow
  <2>2. depth + 1 \in 0..(depth + 1) /\ ((depth + 1) # 0 => (depth + 1) - 1 \in 0..(depth + 1))
    BY <1>3
  <2> HIDE DEF U
  <2> QED BY <2>1, <2>2 DEF U
<1>9. ASSUME NEW t \in U, NEW e \in pending, Awaits(U, graph, e, t)
      PROVE  Awaits(U, h, e, t)
  <2>1. \A i \in DOMAIN t.args : e.args[i] \in ToSet(terms)
    BY <1>7, <1>9, ElementAt DEF NodeOver, Awaits
  <2>2. \A i \in DOMAIN t.args : t.args[i] \in U
    BY <1>8
  <2>3. \A i \in DOMAIN t.args : h[e.args[i]] \in Lookup(U, h)[t.args[i]]
    BY <1>3, <1>5, <1>9, <2>1, <2>2, LookupStays DEF Awaits
  <2> QED BY <1>9, <2>3 DEF Awaits
<1>10. ASSUME NEW t \in U, Awaits(U, h, edge, t) PROVE Known(U, h, typed', t)
  <2>1. PICK u \in DOMAIN h : h[u] = key /\ Canonical(h, u) = Canonical(h, edge)
    BY <1>4 DEF HasNode
  <2>2. NodeOver(terms', u) /\ NodeOver(terms', edge)
    BY <1>4, <1>7, <2>1, TermsAreNodes, NodeOverMore DEF Graph, Grown
  <2>3. h \in [ToSet(terms') -> ToSet(terms')] /\ h[h[u]] = h[u]
    BY <1>4, <2>1 DEF Graph
  <2>4. /\ u.op = edge.op /\ DOMAIN u.args = DOMAIN edge.args
        /\ \A i \in DOMAIN edge.args : h[u.args[i]] = h[edge.args[i]]
    BY <2>1, <2>2, <2>3, CanonicalIs
  <2>5. h[u] \in LookupStep(h, Lookup(U, h), t)
    BY <1>10, <2>1, <2>4 DEF LookupStep, Awaits
  <2>6. h[key] \in Lookup(U, h)[t]
    BY <1>6, <2>1, <2>3, <2>5 DEF Looked
  <2> QED BY <1>4, <2>6 DEF Known
<1>11. ASSUME NEW t \in U
       PROVE  Known(U, h, typed', t) \/ \E e \in pending' : Awaits(U, h, e, t)
  <2>1. CASE Known(U, graph, typed, t)
    <3>1. Known(U, h, typed, t)
      BY <1>3, <1>5, <2>1, KnownStays
    <3> QED BY <1>4, <3>1 DEF Known
  <2>2. CASE \E e \in pending : Awaits(U, graph, e, t)
    <3>1. PICK e \in pending : Awaits(U, h, e, t)
      BY <1>9, <2>2
    <3>2. CASE e = edge
      BY <1>10, <3>1, <3>2
    <3>3. CASE e # edge
      BY <1>1, <3>1, <3>3
    <3> QED BY <3>2, <3>3
  <2> QED BY <1>2, <2>1, <2>2 DEF AllAwaited
<1> QED BY <1>11 DEF AllAwaited

LEMMA NextCreated ==
  ASSUME CreatedInv, [Next]_vars
  PROVE  CreatedInv'
<1>1. TermInv /\ TermInv'
  BY NextTerm DEF CreatedInv
<1>2. /\ theory \in Theories /\ depth \in Nat /\ Graph(terms, graph) /\ typed \subseteq ToSet(terms)
  <2>1. theory.depth \in Nat
    BY <1>1, TermAssumption DEF TermInv
  <2> QED BY <1>1, <2>1 DEF TermInv, ValuesFit, PhasesFit
<1>3. ASSUME NEW h, Graph(terms, h), Coarser(graph, h), NEW n \in Nat, AllKnown(theory, n, graph, typed)
      PROVE  AllKnown(theory, n, h, typed)
  BY <1>2, <1>3, CoarserWithin, KnownStays DEF AllKnown
<1>4. CASE Unite
  <2>1. /\ phase = "rewriting" /\ Graph(terms, graph') /\ Coarser(graph, graph')
        /\ UNCHANGED <<theory, terms, typed, depth, phase>>
    BY <1>1, <1>4, UniteIs DEF Unite
  <2>2. AllKnown(theory, depth, graph', typed)
    BY <1>2, <1>3, <2>1 DEF CreatedInv
  <2> QED BY <1>1, <2>1, <2>2 DEF CreatedInv
<1>5. CASE BeginDepth
  <2>1. AllAwaited(theory, depth + 1, graph', typed, pending')
    BY <1>5, BeginCreated
  <2>2. phase' = "creating" /\ UNCHANGED <<theory, typed, depth>>
    BY <1>5 DEF BeginDepth
  <2> QED BY <1>1, <2>1, <2>2 DEF CreatedInv
<1>6. CASE Create
  <2>1. phase' \in {"creating", "panicked"} /\ UNCHANGED <<theory, depth>>
    BY <1>6 DEF Create
  <2>2. phase' # "panicked" => AllAwaited(theory, depth + 1, graph', typed', pending')
    BY <1>6, CreateCreated
  <2> QED BY <1>1, <2>1, <2>2 DEF CreatedInv
<1>7. CASE EndDepth
  <2>1. /\ phase = "creating" /\ pending = {} /\ graph' = Rebuild(terms, graph)
        /\ depth' = depth + 1 /\ phase' = "rewriting"
        /\ UNCHANGED <<theory, terms, typed>>
    BY <1>7 DEF EndDepth
  <2>2. Graph(terms, graph') /\ Coarser(graph, graph')
    BY <1>2, <2>1, RebuildIs
  <2>3. AllKnown(theory, depth + 1, graph, typed)
    BY <2>1 DEF CreatedInv, AllAwaited, AllKnown
  <2>4. AllKnown(theory, depth + 1, graph', typed)
    BY <1>2, <1>3, <2>2, <2>3
  <2> QED BY <1>1, <2>1, <2>4 DEF CreatedInv
<1>9. CASE FixKeys
  <2>1. /\ phase = "rewriting" /\ graph' \in Left
        /\ UNCHANGED <<theory, terms, typed, depth, phase>>
    BY <1>9 DEF FixKeys
  <2>2. Graph(terms, graph') /\ Coarser(graph, graph')
    BY <1>1, <2>1, LeftIs
  <2>3. AllKnown(theory, depth, graph', typed)
    BY <1>2, <1>3, <2>1, <2>2 DEF CreatedInv
  <2> QED BY <1>1, <2>1, <2>3 DEF CreatedInv
<1>8. CASE UNCHANGED vars
  BY <1>1, <1>8 DEF CreatedInv, vars
<1> QED BY <1>4, <1>5, <1>6, <1>7, <1>8, <1>9 DEF Next

\* After each depth the graph has all terms up to that depth, with types and
\* values, although increase_depth applies the functions to one class for many
\* terms and saturation merges classes in between (thesy.rs, increase_depth).
THEOREM TermsAreCreated == Spec => []AllTermsCreated
<1>1. CreatedInv => AllTermsCreated
  <2> DEFINE T == TermsTo(theory, depth)
  <2> SUFFICES ASSUME CreatedInv, phase = "rewriting", NEW t \in T
               PROVE  \E c \in Lookup(T, graph)[t] : /\ c \in {graph[k] : k \in typed}
                                                     /\ c \in {graph[k] : k \in DOMAIN example_ids}
    BY DEF AllTermsCreated
  <2>1. PICK k \in typed : graph[k] \in Lookup(T, graph)[t]
    BY DEF CreatedInv, AllKnown, Known
  <2>2. PICK j \in DOMAIN example_ids : graph[k] = graph[j]
    BY DEF CreatedInv, TermInv, TypedHaveValues
  <2> HIDE DEF T
  <2> QED BY <2>1, <2>2
<1>2. Init => CreatedInv
  BY InitCreated
<1>3. CreatedInv /\ [Next]_vars => CreatedInv'
  BY NextCreated
<1> QED BY <1>1, <1>2, <1>3, PTL DEF Spec
=============================================================================
