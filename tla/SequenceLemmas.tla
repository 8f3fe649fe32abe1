---------------------------- MODULE SequenceLemmas ----------------------------
(***************************************************************************)
(* Facts the specifications need and the library has no theorem for: that  *)
(* a set of numbers has a least one and a step can be repeated; about      *)
(* sequences, what Reverse, Front, Last, RemoveAt and Append leave, the    *)
(* two halves of a concatenation, and what FlattenSeq joins.               *)
(***************************************************************************)
EXTENDS Integers, SequencesExt, SequenceTheorems, NaturalsInduction,
        WellFoundedInduction, TLAPS

\* Cutting a concatenation where it was joined gives its parts back.
LEMMA HalvesOfConcat ==
  ASSUME NEW S, NEW s \in Seq(S), NEW t \in Seq(S)
  PROVE  /\ SubSeq(s \o t, 1, Len(s)) = s
         /\ SubSeq(s \o t, Len(s) + 1, Len(s \o t)) = t
<1> DEFINE st == s \o t
<1>1. st \in Seq(S) /\ Len(st) = Len(s) + Len(t)
  BY ConcatProperties
<1>2. \A i \in 1..Len(s) : st[i] = s[i]
  BY ConcatProperties, LenProperties
<1>3. \A i \in 1..Len(t) : st[Len(s) + i] = t[i]
  BY ConcatProperties, LenProperties
<1>4. SubSeq(st, 1, Len(s)) = s
  <2>1. s = [i \in 1..Len(s) |-> s[i]]
    BY LenProperties
  <2>2. SubSeq(st, 1, Len(s)) = [i \in 1..Len(s) |-> st[i]]
    BY <1>1, LenProperties, SubSeqProperties, SubSeqFull
  <2> QED BY <2>1, <2>2, <1>2
<1>5. SubSeq(st, Len(s) + 1, Len(st)) = t
  OBVIOUS
<1> QED BY <1>4, <1>5

\* Reversing keeps the length and the elements.
LEMMA ReverseProperties ==
  ASSUME NEW S, NEW s \in Seq(S)
  PROVE  /\ Reverse(s) \in Seq(S)
         /\ Len(Reverse(s)) = Len(s)
         /\ \A i \in 1..Len(s) : Reverse(s)[i] = s[Len(s) - i + 1]
         /\ Range(Reverse(s)) = Range(s)
<1>1. Len(s) \in Nat /\ s \in [1..Len(s) -> S] /\ DOMAIN s = 1..Len(s)
  BY LenProperties
<1>2. Reverse(s) = [i \in 1..Len(s) |-> s[(Len(s) - i) + 1]]
  BY DEF Reverse
<1>3. \A i \in 1..Len(s) : s[(Len(s) - i) + 1] \in S
  BY <1>1
<1>4. Reverse(s) \in Seq(S)
  BY <1>1, <1>2, <1>3
<1>5. Len(Reverse(s)) = Len(s) /\ DOMAIN Reverse(s) = 1..Len(s)
  BY <1>1, <1>2, <1>4, LenProperties
<1>6. \A i \in 1..Len(s) : Reverse(s)[i] = s[Len(s) - i + 1]
  BY <1>2
<1>7. \A x \in Range(s) : x \in Range(Reverse(s))
  <2> SUFFICES ASSUME NEW i \in 1..Len(s)
               PROVE  \E j \in 1..Len(s) : Reverse(s)[j] = s[i]
    BY <1>1, <1>5 DEF Range
  <2> WITNESS Len(s) - i + 1 \in 1..Len(s)
  <2> QED BY <1>1, <1>6
<1>8. \A x \in Range(Reverse(s)) : x \in Range(s)
  BY <1>1, <1>5, <1>6 DEF Range
<1> QED BY <1>4, <1>5, <1>6, <1>7, <1>8

\* The reverse of a concatenation joins the reverses in the other order.
LEMMA ReverseConcat ==
  ASSUME NEW S, NEW s \in Seq(S), NEW t \in Seq(S)
  PROVE  Reverse(s \o t) = Reverse(t) \o Reverse(s)
<1> DEFINE st == s \o t
           rs == Reverse(s)
           rt == Reverse(t)
           n  == Len(s) + Len(t)
<1>0. Len(s) \in Nat /\ Len(t) \in Nat
  BY LenProperties
<1>1. /\ st \in Seq(S) /\ Len(st) = n
      /\ \A i \in 1..n : st[i] = IF i <= Len(s) THEN s[i] ELSE t[i - Len(s)]
  BY LenProperties, ConcatProperties
<1>2. /\ Reverse(st) \in Seq(S) /\ Len(Reverse(st)) = n
      /\ \A i \in 1..n : Reverse(st)[i] = st[n - i + 1]
  <2> HIDE DEF st, n
  <2> QED BY <1>1, ReverseProperties
<1>3. /\ rs \in Seq(S) /\ Len(rs) = Len(s)
      /\ \A i \in 1..Len(s) : rs[i] = s[Len(s) - i + 1]
      /\ rt \in Seq(S) /\ Len(rt) = Len(t)
      /\ \A i \in 1..Len(t) : rt[i] = t[Len(t) - i + 1]
  BY ReverseProperties
<1> HIDE DEF st, rs, rt
<1>4. /\ rt \o rs \in Seq(S) /\ Len(rt \o rs) = n
      /\ \A i \in 1..n :
           (rt \o rs)[i] = IF i <= Len(t) THEN rt[i] ELSE rs[i - Len(t)]
  <2>1. Len(rt) + Len(rs) = n
    BY <1>0, <1>3
  <2> QED BY <2>1, <1>3, ConcatProperties
<1>5. ASSUME NEW i \in 1..n PROVE Reverse(st)[i] = (rt \o rs)[i]
  <2>1. n - i + 1 \in 1..n
    BY <1>0
  <2>2. Reverse(st)[i] = IF n - i + 1 <= Len(s) THEN s[n - i + 1]
                         ELSE t[n - i + 1 - Len(s)]
    BY <2>1, <1>0, <1>1, <1>2
  <2>3. CASE i <= Len(t)
    <3>1. (rt \o rs)[i] = t[Len(t) - i + 1]
      BY <2>3, <1>0, <1>3, <1>4
    <3> QED BY <3>1, <2>2, <2>3, <1>0
  <2>4. CASE i > Len(t)
    <3>1. i - Len(t) \in 1..Len(s)
      BY <2>4, <1>0
    <3>2. (rt \o rs)[i] = rs[i - Len(t)]
      BY <2>4, <1>0, <1>4
    <3>3. rs[i - Len(t)] = s[Len(s) - (i - Len(t)) + 1]
      BY <3>1, <1>3
    <3> QED BY <3>2, <3>3, <2>2, <2>4, <1>0
  <2>5. i <= Len(t) \/ i > Len(t)
    BY <1>0
  <2> QED BY <2>3, <2>4, <2>5
<1>6. Reverse(st) = rt \o rs
  <2> HIDE DEF n
  <2> QED BY <1>2, <1>4, <1>5, SeqEqual
<1> QED BY <1>6 DEF st, rs, rt

\* Popping: the last element, and what comes before it.
LEMMA FrontLastProperties ==
  ASSUME NEW S, NEW s \in Seq(S), s # <<>>
  PROVE  /\ Front(s) \in Seq(S)
         /\ Len(Front(s)) = Len(s) - 1
         /\ \A i \in 1..Len(s) - 1 : Front(s)[i] = s[i]
         /\ Last(s) = s[Len(s)]
         /\ Last(s) \in S
         /\ Range(s) = Range(Front(s)) \union {Last(s)}
<1>1. Len(s) \in Nat \ {0} /\ DOMAIN s = 1..Len(s)
  BY EmptySeq, LenProperties
<1>2. \A i \in 1..Len(s) - 1 : s[i] \in S
  BY <1>1, ElementOfSeq
<1>3. /\ Front(s) \in Seq(S) /\ Len(Front(s)) = Len(s) - 1
      /\ \A i \in 1..Len(s) - 1 : Front(s)[i] = s[i]
  BY <1>1, <1>2, SubSeqProperties DEF Front
<1>4. Last(s) = s[Len(s)] /\ Last(s) \in S
  BY <1>1, ElementOfSeq DEF Last
<1>5. DOMAIN Front(s) = 1..Len(s) - 1
  BY <1>3, LenProperties
<1>6. Range(s) = Range(Front(s)) \union {Last(s)}
  BY <1>1, <1>3, <1>4, <1>5 DEF Range
<1> QED BY <1>3, <1>4, <1>6

\* Removing one element: only that one goes.
LEMMA RemoveAtProperties ==
  ASSUME NEW S, NEW s \in Seq(S), NEW i \in 1..Len(s)
  PROVE  /\ RemoveAt(s, i) \in Seq(S)
         /\ \A j \in 1..Len(s) : j # i => s[j] \in Range(RemoveAt(s, i))
<1> DEFINE f == SubSeq(s, 1, i - 1)
           b == SubSeq(s, i + 1, Len(s))
<1>1. Len(s) \in Nat /\ \A j \in 1..Len(s) : s[j] \in S
  BY LenProperties, ElementOfSeq
<1>2. f \in Seq(S) /\ Len(f) = i - 1 /\ \A j \in 1..i - 1 : f[j] = s[j]
  BY <1>1, SubSeqProperties
<1>3. /\ b \in Seq(S) /\ Len(b) = Len(s) - i
      /\ \A j \in 1..Len(s) - i : b[j] = s[i + j]
  BY <1>1, SubSeqProperties
<1>4. RemoveAt(s, i) = f \o b
  BY DEF RemoveAt
<1> HIDE DEF f, b
<1>5. /\ f \o b \in Seq(S)
      /\ Range(f \o b) = Range(f) \union Range(b)
  BY <1>2, <1>3, ConcatProperties, RangeConcatenation
<1>6. ASSUME NEW j \in 1..Len(s), j # i PROVE s[j] \in Range(f \o b)
  <2>1. CASE j < i
    <3>1. j \in DOMAIN f /\ f[j] = s[j]
      BY <2>1, <1>1, <1>2, LenProperties
    <3> QED BY <3>1, <1>5 DEF Range
  <2>2. CASE j > i
    <3>1. j - i \in 1..Len(s) - i
      BY <2>2, <1>1
    <3>2. j - i \in DOMAIN b /\ b[j - i] = s[j]
      BY <3>1, <1>1, <1>3, LenProperties
    <3> QED BY <3>2, <1>5 DEF Range
  <2> QED BY <2>1, <2>2, <1>6
<1> QED BY <1>4, <1>5, <1>6

\* Writing the last element keeps the others.
LEMMA ReplaceLast ==
  ASSUME NEW S, NEW s \in Seq(S), s # <<>>, NEW f \in S
  PROVE  /\ Front(s) \o <<f>> \in Seq(S)
         /\ Len(Front(s) \o <<f>>) = Len(s)
         /\ \A i \in 1..Len(s) : (Front(s) \o <<f>>)[i] = IF i = Len(s) THEN f ELSE s[i]
<1>1. /\ Front(s) \in Seq(S) /\ Len(Front(s)) = Len(s) - 1
      /\ \A i \in 1..Len(s) - 1 : Front(s)[i] = s[i]
  BY FrontLastProperties
<1>2. Len(s) \in Nat /\ Len(s) >= 1
  BY EmptySeq, LenProperties
<1> HIDE DEF Front
<1> QED BY <1>1, <1>2

\* A sequence with one more element.
LEMMA OneMoreIs ==
  ASSUME NEW S, NEW s \in Seq(S), NEW x \in S
  PROVE  /\ s \o <<x>> \in Seq(S) /\ Len(s \o <<x>>) = Len(s) + 1
         /\ (s \o <<x>>)[Len(s) + 1] = x
         /\ \A i \in 1..Len(s) : (s \o <<x>>)[i] = s[i]
OBVIOUS

\* Appending an element keeps the others.
LEMMA AppendIs ==
  ASSUME NEW S, NEW s \in Seq(S), NEW x
  PROVE  /\ Append(s, x)[Len(s) + 1] = x
         /\ \A i \in 1..Len(s) : Append(s, x)[i] = s[i]
<1>1. s \in Seq(S \union {x}) /\ x \in S \union {x}
  OBVIOUS
<1> QED BY <1>1

\* What a sequence holds is of its kind.
LEMMA ElementAt ==
  ASSUME NEW S, NEW s \in Seq(S)
  PROVE  /\ \A i \in DOMAIN s : s[i] \in S
         /\ \A i \in 1..Len(s) : s[i] \in S
OBVIOUS

\* A sequence of elements of T is a sequence of T.
LEMMA ElementsInSeq ==
  ASSUME NEW S, NEW s \in Seq(S), NEW T, \A i \in 1..Len(s) : s[i] \in T
  PROVE  s \in Seq(T)
OBVIOUS

\* A set of numbers that is not empty has a least number.
LEMMA LeastNat ==
  ASSUME NEW S \in SUBSET Nat, S # {}
  PROVE  \E m \in S : \A y \in S : m <= y
<1> DEFINE less == {p \in Nat \X Nat : p[1] < p[2]}
<1>1. IsWellFoundedOn(less, Nat)
  BY NatLessThanWellFounded DEF OpToRel
<1>2. PICK m \in S : \A y \in S : <<y, m>> \notin less
  <2> HIDE DEF less
  <2> QED BY <1>1, WFMin
<1>3. \A y \in S : m <= y
  <2> SUFFICES ASSUME NEW y \in S, ~(m <= y) PROVE FALSE
    OBVIOUS
  <2>1. y < m /\ <<y, m>> \in Nat \X Nat
    OBVIOUS
  <2> QED BY <1>2, <2>1
<1> QED BY <1>3

\* f has x and then, n times, what a step makes of the one before.
Iterates(f, x, n, Step) == f[0] = x /\ \A i \in 1..n : f[i] = Step[i][f[i - 1]]

\* What each step makes of the result of the one before exists.
LEMMA StepByStep ==
  ASSUME NEW X, NEW x \in X, NEW n \in Nat, NEW Step \in [1..n -> [X -> X]]
  PROVE  \E f \in [0..n -> X] : Iterates(f, x, n, Step)
<1> DEFINE Goes(f, m) == f[0] = x /\ \A i \in 1..m : f[i] = Step[i][f[i - 1]]
           bad == {m \in 0..n : ~\E f \in [0..m -> X] : Goes(f, m)}
<1>1. ASSUME bad # {} PROVE FALSE
  <2>1. PICK m \in bad : \A y \in bad : m <= y
    <3>1. bad \in SUBSET Nat
      OBVIOUS
    <3> HIDE DEF bad
    <3> QED BY <1>1, <3>1, LeastNat
  <2>2. m # 0
    <3> DEFINE f == [i \in 0..0 |-> x]
    <3>1. f \in [0..0 -> X] /\ Goes(f, 0)
      OBVIOUS
    <3> HIDE DEF Goes, f
    <3> QED BY <3>1
  <2>3. m \in 1..n /\ m - 1 \in 0..n /\ m - 1 \notin bad
    BY <2>1, <2>2
  <2>4. PICK f \in [0..m - 1 -> X] : Goes(f, m - 1)
    BY <2>3
  <2> DEFINE g == [i \in 0..m |-> IF i = m THEN Step[m][f[m - 1]] ELSE f[i]]
  <2>5. Step[m][f[m - 1]] \in X
    BY <2>3
  <2>6. g \in [0..m -> X]
    BY <2>3, <2>5
  <2>7. ASSUME NEW i \in 1..m PROVE g[i] = Step[i][g[i - 1]]
    <3>1. CASE i = m
      <4>1. g[i] = Step[m][f[m - 1]] /\ g[i - 1] = f[m - 1]
        BY <2>3, <3>1
      <4> QED BY <3>1, <4>1
    <3>2. CASE i # m
      <4>1. i \in 1..m - 1 /\ i - 1 \in 0..m - 1
        BY <2>3, <3>2
      <4>2. g[i] = f[i] /\ g[i - 1] = f[i - 1]
        BY <2>3, <4>1
      <4> QED BY <2>4, <4>1, <4>2
    <3> QED BY <3>1, <3>2
  <2>8. Goes(g, m)
    <3>1. g[0] = x
      BY <2>3, <2>4
    <3> HIDE DEF g
    <3> QED BY <2>7, <3>1
  <2> HIDE DEF Goes, g
  <2> QED BY <2>1, <2>6, <2>8
<1>2. n \notin bad
  BY <1>1
<1> QED BY <1>2 DEF Iterates

\* f has what is joined after each part of ss.
Joins(f, ss) == f[0] = <<>> /\ \A i \in 1..Len(ss) : f[i] = f[i - 1] \o ss[i]

\* FlattenSeq, step by step.
LEMMA FlattenSteps ==
  ASSUME NEW S, NEW ss \in Seq(Seq(S))
  PROVE  \E f \in [0..Len(ss) -> Seq(S)] : Joins(f, ss) /\ FlattenSeq(ss) = f[Len(ss)]
<1> DEFINE n == Len(ss)
           X == Seq(S)
           empty == <<>>
           Step == [i \in 1..n |-> [s \in X |-> s \o ss[i]]]
           Is(h) == h = [i \in 1..n |-> IF i = 1 THEN ss[i] ELSE h[i - 1] \o ss[i]]
<1>1. n \in Nat /\ \A i \in 1..n : ss[i] \in X
  BY LenProperties, ElementOfSeq
<1>2. empty \in X /\ \A i \in 1..n : \A s \in X : s \o ss[i] \in X
  BY <1>1, ConcatProperties
<1>3. Step \in [1..n -> [X -> X]] /\ \A i \in 1..n : \A s \in X : Step[i][s] = s \o ss[i]
  BY <1>2
<1> HIDE DEF Step, empty, X, n
<1>4. PICK f \in [0..n -> X] : Iterates(f, empty, n, Step)
  <2>1. n \in Nat /\ empty \in X /\ Step \in [1..n -> [X -> X]]
    BY <1>1, <1>2, <1>3
  <2> QED BY <2>1, StepByStep
<1>5. \A i \in 1..n : f[i] = f[i - 1] \o ss[i]
  <2> TAKE i \in 1..n
  <2>1. i - 1 \in 0..n
    BY <1>1
  <2> QED BY <1>3, <1>4, <2>1 DEF Iterates
<1>6. FlattenSeq(ss) = f[n]
  <2>1. CASE n = 0
    <3>1. ss = <<>>
      BY <2>1, EmptySeq DEF n
    <3> QED BY <1>4, <2>1, <3>1 DEF FlattenSeq, empty, n, Iterates
  <2>2. CASE n # 0
    <3>1. \A i \in 1..n : f[i] = IF i = 1 THEN ss[i] ELSE f[i - 1] \o ss[i]
      <4>1. 1 \in 1..n /\ f[1] = empty \o ss[1]
        <5>1. 1 \in 1..n /\ 1 - 1 = 0
          BY <1>1, <2>2
        <5> QED BY <5>1, <1>4, <1>5 DEF Iterates
      <4>2. f[1] = ss[1]
        BY <1>1, <4>1, ConcatEmptySeq DEF empty, X
      <4> QED BY <1>5, <4>2
    <3> DEFINE h == [i \in 1..n |-> f[i]]
    <3>2. Is(h)
      <4>1. ASSUME NEW i \in 1..n
            PROVE  f[i] = IF i = 1 THEN ss[i] ELSE h[i - 1] \o ss[i]
        <5>1. CASE i = 1
          BY <3>1, <5>1
        <5>2. CASE i # 1
          <6>1. i - 1 \in 1..n
            BY <1>1, <5>2
          <6> QED BY <3>1, <5>2, <6>1
        <5> QED BY <5>1, <5>2
      <4> QED BY <4>1
    <3> DEFINE flatten == CHOOSE g : Is(g)
    <3>3. Is(flatten)
      <4> HIDE DEF Is, h
      <4> QED BY <3>2
    <3>4. FlattenSeq(ss) = flatten[n]
      BY <2>2 DEF FlattenSeq, n
    <3>5. \A i \in 1..n : flatten[i] = IF i = 1 THEN ss[i] ELSE flatten[i - 1] \o ss[i]
      <4> HIDE DEF flatten
      <4> DEFINE k == [i \in 1..n |-> IF i = 1 THEN ss[i] ELSE flatten[i - 1] \o ss[i]]
      <4>1. flatten = k
        BY <3>3
      <4>2. \A i \in 1..n : k[i] = IF i = 1 THEN ss[i] ELSE flatten[i - 1] \o ss[i]
        OBVIOUS
      <4> HIDE DEF k
      <4> QED BY <4>1, <4>2
    <3> HIDE DEF flatten, h
    <3> DEFINE differ == {i \in 1..n : flatten[i] # f[i]}
    <3>6. ASSUME differ # {} PROVE FALSE
      <4>1. PICK m \in differ : \A y \in differ : m <= y
        <5>1. differ \in SUBSET Nat
          BY <1>1
        <5> HIDE DEF differ
        <5> QED BY <3>6, <5>1, LeastNat
      <4>2. m # 1
        BY <1>1, <3>1, <3>5, <4>1
      <4>3. m - 1 \in 1..n /\ m - 1 \notin differ
        BY <1>1, <4>1, <4>2
      <4> QED BY <3>1, <3>5, <4>1, <4>2, <4>3
    <3>7. n \in 1..n
      BY <1>1, <2>2
    <3> QED BY <3>4, <3>6, <3>7
  <2> QED BY <2>1, <2>2
<1> QED BY <1>4, <1>5, <1>6 DEF n, X, empty, Iterates, Joins
\* FlattenSeq has the elements of all its parts, one part after the other.
LEMMA FlattenIs ==
  ASSUME NEW S, NEW ss \in Seq(Seq(S))
  PROVE  /\ FlattenSeq(ss) \in Seq(S)
         /\ ToSet(FlattenSeq(ss)) = UNION {ToSet(ss[i]) : i \in DOMAIN ss}
         /\ \A i, j \in DOMAIN ss : \A v \in ToSet(ss[i]) \cap ToSet(ss[j]) :
              i # j => \E a, b \in DOMAIN FlattenSeq(ss) :
                         a # b /\ FlattenSeq(ss)[a] = v /\ FlattenSeq(ss)[b] = v
<1> DEFINE n == Len(ss)
           flat == FlattenSeq(ss)
<1>1. PICK f \in [0..n -> Seq(S)] : Joins(f, ss) /\ flat = f[n]
  BY FlattenSteps
<1> DEFINE before(i) == f[i - 1]
<1>2. n \in Nat /\ DOMAIN ss = 1..n /\ \A i \in 1..n : ss[i] \in Seq(S)
  BY LenProperties, ElementOfSeq
<1>3. \A i \in 0..n : /\ f[i] \in Seq(S) /\ Len(f[i]) \in Nat
                      /\ DOMAIN f[i] = 1..Len(f[i])
  BY LenProperties
<1>4. \A i \in 1..n : Len(ss[i]) \in Nat /\ DOMAIN ss[i] = 1..Len(ss[i])
  BY <1>2, LenProperties
<1> HIDE DEF n, flat
<1>5. ASSUME NEW i \in 1..n
      PROVE  /\ i \in 0..n /\ i - 1 \in 0..n /\ n \in i..n /\ n \in 0..n
             /\ before(i) = f[i - 1] /\ before(i) \in Seq(S) /\ Len(before(i)) \in Nat
             /\ f[i] = before(i) \o ss[i]
  <2>1. i \in 0..n /\ i - 1 \in 0..n /\ n \in i..n /\ n \in 0..n
    BY <1>2
  <2>2. f[i] = f[i - 1] \o ss[i]
    BY <1>1 DEF Joins, n
  <2> QED BY <2>1, <2>2, <1>3
<1> HIDE DEF before
<1>6. ASSUME NEW i \in 1..n
      PROVE  /\ Len(f[i]) = Len(before(i)) + Len(ss[i])
             /\ \A k \in 1..Len(before(i)) : f[i][k] = before(i)[k]
             /\ \A k \in 1..Len(ss[i]) : f[i][Len(before(i)) + k] = ss[i][k]
  <2>1. before(i) \in Seq(S) /\ ss[i] \in Seq(S)
    BY <1>2, <1>5
  <2>2. f[i] = before(i) \o ss[i]
    BY <1>5
  <2>3. Len(before(i)) \in Nat /\ Len(ss[i]) \in Nat
    BY <1>4, <1>5
  <2> QED BY <2>1, <2>2, <2>3, ConcatProperties
\* What is there stays there.
<1> DEFINE Keeps(i, m) ==
      Len(f[i]) <= Len(f[m]) /\ \A k \in 1..Len(f[i]) : f[m][k] = f[i][k]
<1>7. ASSUME NEW i \in 0..n, NEW m \in i..n PROVE Keeps(i, m)
  <2> DEFINE bad == {j \in i..n : ~Keeps(i, j)}
  <2>1. ASSUME bad # {} PROVE FALSE
    <3>1. PICK j \in bad : \A y \in bad : j <= y
      <4>1. bad \in SUBSET Nat
        BY <1>2
      <4> HIDE DEF bad
      <4> QED BY <2>1, <4>1, LeastNat
    <3>2. j # i
      <4>1. Keeps(i, i)
        BY <1>3
      <4> HIDE DEF Keeps
      <4> QED BY <3>1, <4>1
    <3>3. j \in 1..n /\ j - 1 \in i..n /\ j - 1 \in 0..n /\ j \in 0..n
      BY <1>2, <3>1, <3>2
    <3>4. Keeps(i, j - 1)
      <4> HIDE DEF Keeps
      <4> QED BY <1>2, <3>1, <3>3
    <3>5. Len(f[i]) \in Nat /\ Len(before(j)) \in Nat /\ Len(ss[j]) \in Nat
      BY <1>3, <1>4, <1>5, <3>3
    <3>6. Len(f[i]) <= Len(before(j)) /\ \A k \in 1..Len(f[i]) : before(j)[k] = f[i][k]
      <4>1. before(j) = f[j - 1]
        BY <1>5, <3>3
      <4> QED BY <3>4, <4>1
    <3>7. Keeps(i, j)
      <4>1. Len(f[i]) <= Len(f[j])
        BY <1>6, <3>3, <3>5, <3>6
      <4>2. ASSUME NEW k \in 1..Len(f[i]) PROVE f[j][k] = f[i][k]
        <5>1. k \in 1..Len(before(j))
          BY <3>5, <3>6
        <5> QED BY <1>6, <3>3, <3>6, <5>1
      <4> QED BY <4>1, <4>2
    <3> HIDE DEF Keeps
    <3> QED BY <3>1, <3>7
  <2> HIDE DEF Keeps
  <2> QED BY <2>1
<1>8. ASSUME NEW i \in 1..n, NEW k \in 1..Len(ss[i])
      PROVE  /\ Len(before(i)) + k \in 1..Len(f[i])
             /\ Len(before(i)) + k \in DOMAIN flat
             /\ flat[Len(before(i)) + k] = ss[i][k]
  <2>1. i \in 0..n /\ n \in i..n /\ n \in 0..n
    BY <1>5
  <2>2. Len(f[i]) \in Nat /\ Len(before(i)) \in Nat /\ Len(ss[i]) \in Nat
    BY <1>3, <1>4, <1>5, <2>1
  <2>3. Len(before(i)) + k \in 1..Len(f[i]) /\ f[i][Len(before(i)) + k] = ss[i][k]
    <3>1. /\ Len(f[i]) = Len(before(i)) + Len(ss[i])
          /\ \A m \in 1..Len(ss[i]) : f[i][Len(before(i)) + m] = ss[i][m]
      BY <1>6
    <3> HIDE DEF before
    <3> QED BY <2>2, <3>1
  <2>4. Keeps(i, n)
    <3> HIDE DEF Keeps
    <3> QED BY <1>7, <2>1
  <2>5. DOMAIN flat = 1..Len(f[n]) /\ Len(f[n]) \in Nat
    BY <1>1, <1>3, <2>1
  <2> QED BY <1>1, <2>2, <2>3, <2>4, <2>5
<1>9. ASSUME NEW i \in 1..n PROVE ToSet(ss[i]) \subseteq ToSet(flat)
  <2>1. ASSUME NEW k \in 1..Len(ss[i]) PROVE ss[i][k] \in ToSet(flat)
    <3> DEFINE a == Len(before(i)) + k
    <3>1. a \in DOMAIN flat /\ flat[a] = ss[i][k]
      BY <1>8
    <3> HIDE DEF a
    <3> QED BY <3>1 DEF ToSet
  <2> QED BY <1>4, <2>1 DEF ToSet
<1> DEFINE Known(m) == \A k \in 1..Len(f[m]) : \E i \in 1..m : f[m][k] \in ToSet(ss[i])
<1>10. ASSUME NEW m \in 0..n PROVE Known(m)
  <2> DEFINE bad == {j \in 0..n : ~Known(j)}
  <2>1. ASSUME bad # {} PROVE FALSE
    <3>1. PICK j \in bad : \A y \in bad : j <= y
      <4>1. bad \in SUBSET Nat
        BY <1>2
      <4> HIDE DEF bad
      <4> QED BY <2>1, <4>1, LeastNat
    <3>2. j # 0
      <4>1. Len(f[0]) = 0
        BY <1>1 DEF Joins
      <4>2. Known(0)
        BY <4>1
      <4> HIDE DEF Known
      <4> QED BY <3>1, <4>2
    <3>3. j \in 1..n /\ j - 1 \in 0..n
      BY <1>2, <3>1, <3>2
    <3>4. Known(j - 1)
      <4> HIDE DEF Known
      <4> QED BY <1>2, <3>1, <3>3
    <3>5. Len(before(j)) \in Nat /\ Len(ss[j]) \in Nat
      BY <1>4, <1>5, <3>3
    <3>6. \A k \in 1..Len(before(j)) : \E i \in 1..j : before(j)[k] \in ToSet(ss[i])
      <4>1. before(j) = f[j - 1]
        BY <1>5, <3>3
      <4>2. 1..j - 1 \subseteq 1..j
        BY <3>3
      <4> QED BY <3>4, <4>1, <4>2
    <3>7. ASSUME NEW k \in 1..Len(f[j])
          PROVE  \E i \in 1..j : f[j][k] \in ToSet(ss[i])
      <4>1. CASE k <= Len(before(j))
        <5>1. k \in 1..Len(before(j))
          BY <3>5, <4>1
        <5>2. f[j][k] = before(j)[k]
          BY <1>6, <3>3, <5>1
        <5> QED BY <3>6, <5>1, <5>2
      <4>2. CASE k > Len(before(j))
        <5> DEFINE l == k - Len(before(j))
        <5>1. l \in 1..Len(ss[j]) /\ Len(before(j)) + l = k
          BY <1>6, <3>3, <3>5, <4>2
        <5> HIDE DEF l
        <5>2. f[j][k] = ss[j][l] /\ l \in DOMAIN ss[j]
          BY <1>4, <1>6, <3>3, <5>1
        <5>3. f[j][k] \in ToSet(ss[j])
          BY <5>2 DEF ToSet
        <5>4. j \in 1..j
          BY <3>3
        <5> QED BY <5>3, <5>4
      <4>3. k <= Len(before(j)) \/ k > Len(before(j))
        BY <3>5
      <4> QED BY <4>1, <4>2, <4>3
    <3>8. Known(j)
      BY <3>7
    <3> HIDE DEF Known
    <3> QED BY <3>1, <3>8
  <2> HIDE DEF Known
  <2> QED BY <2>1
<1>11. flat \in Seq(S)
  BY <1>1, <1>2, <1>3
<1>12. ToSet(flat) = UNION {ToSet(ss[i]) : i \in 1..n}
  <2>1. ASSUME NEW v \in ToSet(flat) PROVE \E i \in 1..n : v \in ToSet(ss[i])
    <3>1. n \in 0..n /\ DOMAIN flat = 1..Len(f[n])
      BY <1>1, <1>2, <1>3
    <3>2. PICK k \in 1..Len(f[n]) : v = flat[k]
      BY <3>1 DEF ToSet
    <3>3. Known(n)
      <4> HIDE DEF Known
      <4> QED BY <1>10, <3>1
    <3> QED BY <1>1, <3>2, <3>3
  <2> QED BY <1>9, <2>1
<1>13. ASSUME NEW i \in 1..n, NEW j \in 1..n, i < j,
              NEW v \in ToSet(ss[i]) \cap ToSet(ss[j])
       PROVE  \E a, b \in DOMAIN flat : a # b /\ flat[a] = v /\ flat[b] = v
  <2>1. PICK k \in 1..Len(ss[i]) : v = ss[i][k]
    BY <1>4 DEF ToSet
  <2>2. PICK l \in 1..Len(ss[j]) : v = ss[j][l]
    BY <1>4 DEF ToSet
  <2>3. i \in 0..n /\ j - 1 \in 0..n /\ j - 1 \in i..n /\ before(j) = f[j - 1]
    BY <1>2, <1>5, <1>13
  <2>4. /\ Len(f[i]) \in Nat /\ Len(before(i)) \in Nat /\ Len(before(j)) \in Nat
        /\ Len(ss[i]) \in Nat /\ Len(ss[j]) \in Nat
    BY <1>3, <1>4, <2>3
  <2>5. Keeps(i, j - 1)
    <3> HIDE DEF Keeps
    <3> QED BY <1>7, <2>3
  <2>6. Len(f[i]) <= Len(before(j))
    BY <2>3, <2>5
  <2>7. Len(before(i)) + k # Len(before(j)) + l
    <3>1. Len(before(i)) + k \in 1..Len(f[i])
      BY <1>8
    <3> QED BY <2>4, <2>6, <3>1
  <2> DEFINE a == Len(before(i)) + k
             b == Len(before(j)) + l
  <2>8. /\ a \in DOMAIN flat /\ flat[a] = v
        /\ b \in DOMAIN flat /\ flat[b] = v
    BY <1>8, <2>1, <2>2
  <2>9. a # b
    BY <2>7
  <2> HIDE DEF a, b
  <2> QED BY <2>8, <2>9
<1>14. ASSUME NEW i \in 1..n, NEW j \in 1..n, i # j,
              NEW v \in ToSet(ss[i]) \cap ToSet(ss[j])
       PROVE  \E a, b \in DOMAIN flat : a # b /\ flat[a] = v /\ flat[b] = v
  <2>1. i < j \/ j < i
    BY <1>14
  <2>2. v \in ToSet(ss[j]) \cap ToSet(ss[i])
    OBVIOUS
  <2> QED BY <1>13, <2>1, <2>2
<1> QED BY <1>2, <1>11, <1>12, <1>14 DEF flat

\* Two parts are joined.
LEMMA FlattenPair ==
  ASSUME NEW S, NEW s \in Seq(S), NEW t \in Seq(S)
  PROVE  FlattenSeq(<<s, t>>) = s \o t
<1> DEFINE ss == <<s, t>>
<1>1. ss \in Seq(Seq(S)) /\ Len(ss) = 2 /\ ss[1] = s /\ ss[2] = t
  OBVIOUS
<1> HIDE DEF ss
<1>2. PICK f \in [0..2 -> Seq(S)] : Joins(f, ss) /\ FlattenSeq(ss) = f[2]
  <2>1. \E f \in [0..Len(ss) -> Seq(S)] : Joins(f, ss) /\ FlattenSeq(ss) = f[Len(ss)]
    BY <1>1, FlattenSteps
  <2> QED BY <1>1, <2>1
<1>3. f[1] = f[0] \o ss[1] /\ f[2] = f[1] \o ss[2]
  <2>1. 1 \in 1..2 /\ 2 \in 1..2 /\ 1 - 1 = 0 /\ 2 - 1 = 1
    OBVIOUS
  <2> QED BY <1>1, <1>2, <2>1 DEF Joins
<1>4. f[1] = s
  BY <1>1, <1>2, <1>3, ConcatEmptySeq DEF Joins
<1> QED BY <1>1, <1>2, <1>3, <1>4 DEF ss

\* One part is what is joined.
LEMMA FlattenOne ==
  ASSUME NEW S, NEW s \in Seq(S)
  PROVE  FlattenSeq(<<s>>) = s
<1> DEFINE ss == <<s>>
<1>1. ss \in Seq(Seq(S)) /\ Len(ss) = 1 /\ ss[1] = s
  OBVIOUS
<1> HIDE DEF ss
<1>2. PICK f \in [0..1 -> Seq(S)] : Joins(f, ss) /\ FlattenSeq(ss) = f[1]
  <2>1. \E f \in [0..Len(ss) -> Seq(S)] : Joins(f, ss) /\ FlattenSeq(ss) = f[Len(ss)]
    BY <1>1, FlattenSteps
  <2> QED BY <1>1, <2>1
<1>3. f[1] = f[0] \o ss[1]
  <2>1. 1 \in 1..1 /\ 1 - 1 = 0
    OBVIOUS
  <2> QED BY <1>1, <1>2, <2>1 DEF Joins
<1>4. FlattenSeq(ss) = s
  BY <1>1, <1>2, <1>3, ConcatEmptySeq DEF Joins
<1> QED BY <1>4 DEF ss

\* Parts that come after others are joined after them.
LEMMA FlattenConcat ==
  ASSUME NEW S, NEW ss \in Seq(Seq(S)), NEW tt \in Seq(Seq(S))
  PROVE  FlattenSeq(ss \o tt) = FlattenSeq(ss) \o FlattenSeq(tt)
<1> DEFINE st == ss \o tt
           m == Len(ss)
           n == Len(tt)
<1>1. st \in Seq(Seq(S)) /\ m \in Nat /\ n \in Nat /\ Len(st) = m + n
  BY ConcatProperties, LenProperties
<1>2. /\ \A i \in 1..m : st[i] = ss[i] /\ ss[i] \in Seq(S)
      /\ \A i \in 1..n : st[m + i] = tt[i] /\ tt[i] \in Seq(S)
  BY ConcatProperties, LenProperties, ElementOfSeq
<1>3. PICK f \in [0..m -> Seq(S)] : Joins(f, ss) /\ FlattenSeq(ss) = f[m]
  BY FlattenSteps
<1>4. PICK g \in [0..n -> Seq(S)] : Joins(g, tt) /\ FlattenSeq(tt) = g[n]
  BY FlattenSteps
<1> HIDE DEF st
<1>5. PICK h \in [0..m + n -> Seq(S)] : Joins(h, st) /\ FlattenSeq(st) = h[m + n]
  BY <1>1, FlattenSteps
<1> HIDE DEF m, n
<1> DEFINE bad == {i \in 0..m : h[i] # f[i]}
<1>6. ASSUME bad # {} PROVE FALSE
  <2>1. PICK k \in bad : \A y \in bad : k <= y
    <3>1. bad \in SUBSET Nat
      BY <1>1
    <3> HIDE DEF bad
    <3> QED BY <1>6, <3>1, LeastNat
  <2>2. k # 0
    BY <1>3, <1>5, <2>1 DEF Joins
  <2>3. k \in 1..m /\ k \in 1..m + n /\ k - 1 \in 0..m /\ k - 1 \notin bad
    BY <1>1, <2>1, <2>2
  <2>4. h[k] = h[k - 1] \o st[k] /\ f[k] = f[k - 1] \o ss[k]
    BY <1>1, <1>3, <1>5, <2>3 DEF Joins, m
  <2>5. h[k - 1] = f[k - 1]
    BY <2>3
  <2> QED BY <1>2, <2>1, <2>3, <2>4, <2>5
<1>7. h[m] = f[m]
  <2>1. m \in 0..m
    BY <1>1
  <2>2. bad = {}
    BY <1>6
  <2> QED BY <2>1, <2>2
<1> HIDE DEF bad
<1> DEFINE more == {i \in 0..n : h[m + i] # f[m] \o g[i]}
<1>8. ASSUME more # {} PROVE FALSE
  <2>1. PICK k \in more : \A y \in more : k <= y
    <3>1. more \in SUBSET Nat
      BY <1>1
    <3> HIDE DEF more
    <3> QED BY <1>8, <3>1, LeastNat
  <2>2. m \in 0..m /\ f[m] \in Seq(S)
    BY <1>1
  <2>3. k # 0
    <3>1. f[m] \o g[0] = f[m]
      BY <1>4, <2>2, ConcatEmptySeq DEF Joins
    <3>2. m + 0 = m
      BY <1>1
    <3>3. k = 0 => h[m + k] = f[m] \o g[k]
      BY <1>7, <3>1, <3>2
    <3> QED BY <2>1, <3>3
  <2>4. /\ k \in 1..n /\ m + k \in 1..m + n /\ k - 1 \in 0..n
        /\ (m + k) - 1 = m + (k - 1) /\ k - 1 \notin more
    <3>1. k \in 0..n
      BY <2>1
    <3>2. k \in 1..n /\ k - 1 \in 0..n /\ ~(k <= k - 1)
      BY <1>1, <2>3, <3>1
    <3>3. k - 1 \notin more
      BY <2>1, <3>2
    <3> HIDE DEF more
    <3> QED BY <1>1, <3>2, <3>3
  <2>5. h[m + k] = h[m + (k - 1)] \o st[m + k] /\ g[k] = g[k - 1] \o tt[k]
    <3>1. h[m + k] = h[(m + k) - 1] \o st[m + k]
      BY <1>1, <1>5, <2>4 DEF Joins
    <3>2. g[k] = g[k - 1] \o tt[k]
      BY <1>4, <2>4 DEF Joins, n
    <3> QED BY <2>4, <3>1, <3>2
  <2>6. h[m + (k - 1)] = f[m] \o g[k - 1]
    BY <2>4
  <2>7. g[k - 1] \in Seq(S) /\ tt[k] \in Seq(S) /\ st[m + k] = tt[k]
    BY <1>2, <2>4
  <2>8. h[m + k] = f[m] \o g[k]
    <3>1. (f[m] \o g[k - 1]) \o tt[k] = f[m] \o (g[k - 1] \o tt[k])
      <4> DEFINE a == f[m]
                 b == g[k - 1]
                 c == tt[k]
      <4>1. a \in Seq(S) /\ b \in Seq(S) /\ c \in Seq(S)
        BY <2>2, <2>7
      <4> HIDE DEF a, b, c
      <4>2. (a \o b) \o c = a \o (b \o c)
        BY ONLY <4>1, ConcatAssociative, SMTT(60)
      <4> QED BY <4>2 DEF a, b, c
    <3> QED BY <2>5, <2>6, <2>7, <3>1
  <2> QED BY <2>1, <2>8
<1>9. h[m + n] = f[m] \o g[n]
  <2>1. n \in 0..n
    BY <1>1
  <2>2. more = {}
    BY <1>8
  <2> QED BY <2>1, <2>2
<1> QED BY <1>3, <1>4, <1>5, <1>9 DEF st
===============================================================================
