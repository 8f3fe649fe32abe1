---------------------------- MODULE DefinitionsProofs ----------------------------
(***************************************************************************)
(* That reading files that include each other gives what one reads in the  *)
(* text with the included files in place (Definitions), and that what the  *)
(* program makes of it before it explores is right: every goal inducts on  *)
(* each of its variables, and every term of the initial graph is given     *)
(* the type of its term (Configuration).                                   *)
(***************************************************************************)
EXTENDS Configuration, SequenceLemmas, FiniteSetTheorems

(***************************************************************************)
(* Selecting from a sequence.                                              *)
(***************************************************************************)
\* What Selected joins.
Pieces(s, I) == [i \in DOMAIN s |-> IF i \in I THEN <<s[i]>> ELSE <<>>]

\* The parts that are joined: one element, or none.
LEMMA PiecesAre ==
  ASSUME NEW S, NEW s \in Seq(S), NEW I
  PROVE  /\ Pieces(s, I) \in Seq(Seq(S)) /\ Len(Pieces(s, I)) = Len(s)
         /\ \A i \in 1..Len(s) : Pieces(s, I)[i] = IF i \in I THEN <<s[i]>> ELSE <<>>
<1> DEFINE n == Len(s)
           P(i) == IF i \in I THEN <<s[i]>> ELSE <<>>
<1>1. n \in Nat /\ DOMAIN s = 1..n
  BY LenProperties
<1>2. \A i \in 1..n : P(i) \in Seq(S)
  BY <1>1
<1>3. Pieces(s, I) = [i \in 1..n |-> P(i)]
  BY <1>1 DEF Pieces
<1> HIDE DEF n, P
<1>4. /\ [i \in 1..n |-> P(i)] \in Seq(Seq(S)) /\ Len([i \in 1..n |-> P(i)]) = n
      /\ \A i \in 1..n : [j \in 1..n |-> P(j)][i] = P(i)
  BY <1>1, <1>2
<1> QED BY <1>3, <1>4 DEF n, P

\* What is selected is there, at the places to select.
LEMMA SelectedIs ==
  ASSUME NEW S, NEW s \in Seq(S), NEW I
  PROVE  /\ Selected(s, I) \in Seq(S)
         /\ ToSet(Selected(s, I)) = {s[i] : i \in I \cap DOMAIN s}
<1> DEFINE ps == Pieces(s, I)
<1>1. /\ ps \in Seq(Seq(S)) /\ Len(ps) = Len(s) /\ DOMAIN ps = DOMAIN s
      /\ \A i \in DOMAIN s : ps[i] = IF i \in I THEN <<s[i]>> ELSE <<>>
  <2>1. /\ ps \in Seq(Seq(S)) /\ Len(ps) = Len(s)
        /\ \A i \in 1..Len(s) : ps[i] = IF i \in I THEN <<s[i]>> ELSE <<>>
    BY PiecesAre
  <2> HIDE DEF ps
  <2> QED BY <2>1, LenProperties
<1> HIDE DEF ps
<1>2. Selected(s, I) = FlattenSeq(ps)
  BY DEF Selected, ps, Pieces
<1>3. FlattenSeq(ps) \in Seq(S) /\ ToSet(FlattenSeq(ps)) = UNION {ToSet(ps[i]) : i \in DOMAIN ps}
  BY <1>1, FlattenIs
<1>4. \A i \in DOMAIN s : ToSet(ps[i]) = IF i \in I THEN {s[i]} ELSE {}
  <2>1. ASSUME NEW i \in DOMAIN s PROVE ToSet(ps[i]) = IF i \in I THEN {s[i]} ELSE {}
    <3>1. CASE i \in I
      <4>1. ps[i] = <<s[i]>>
        BY <1>1, <3>1
      <4>2. DOMAIN <<s[i]>> = {1} /\ <<s[i]>>[1] = s[i]
        OBVIOUS
      <4> QED BY <3>1, <4>1, <4>2 DEF ToSet
    <3>2. CASE i \notin I
      <4>1. ps[i] = <<>>
        BY <1>1, <3>2
      <4>2. \A k : k \notin DOMAIN <<>>
        OBVIOUS
      <4> QED BY <3>2, <4>1, <4>2 DEF ToSet
    <3> QED BY <3>1, <3>2
  <2> QED BY <2>1
<1>5. UNION {ToSet(ps[i]) : i \in DOMAIN ps} = {s[i] : i \in I \cap DOMAIN s}
  BY <1>1, <1>4
<1> QED BY <1>2, <1>3, <1>5

\* Only the places there are count.
LEMMA SelectedSame ==
  ASSUME NEW s, NEW I, NEW J, \A i \in DOMAIN s : i \in I <=> i \in J
  PROVE  Selected(s, I) = Selected(s, J)
BY DEF Selected

\* Selecting from a sequence that was joined is selecting from both parts.
LEMMA SelectedConcat ==
  ASSUME NEW S, NEW s \in Seq(S), NEW t \in Seq(S), NEW I, NEW J,
         \A k \in DOMAIN t : k \in J <=> Len(s) + k \in I
  PROVE  Selected(s \o t, I) = Selected(s, I) \o Selected(t, J)
<1> DEFINE u == s \o t
           a == Pieces(s, I)
           b == Pieces(t, J)
           c == Pieces(u, I)
<1>1. u \in Seq(S) /\ Len(u) = Len(s) + Len(t)
  BY ConcatProperties
<1>2. /\ a \in Seq(Seq(S)) /\ Len(a) = Len(s)
      /\ \A i \in 1..Len(s) : a[i] = IF i \in I THEN <<s[i]>> ELSE <<>>
  BY PiecesAre
<1>3. /\ b \in Seq(Seq(S)) /\ Len(b) = Len(t)
      /\ \A i \in 1..Len(t) : b[i] = IF i \in J THEN <<t[i]>> ELSE <<>>
  BY PiecesAre
<1>4. /\ c \in Seq(Seq(S)) /\ Len(c) = Len(u)
      /\ \A i \in 1..Len(u) : c[i] = IF i \in I THEN <<u[i]>> ELSE <<>>
  BY <1>1, PiecesAre
<1>5. /\ \A i \in 1..Len(s) : u[i] = s[i]
      /\ \A i \in 1..Len(t) : u[Len(s) + i] = t[i]
  BY ConcatProperties
<1>6. \A i \in 1..Len(t) : i \in J <=> Len(s) + i \in I
  BY LenProperties
<1>7. Selected(u, I) = FlattenSeq(c) /\ Selected(s, I) = FlattenSeq(a) /\ Selected(t, J) = FlattenSeq(b)
  BY DEF Selected, Pieces
<1> HIDE DEF u, a, b, c
<1>8. c = a \o b
  <2>1. Len(s) \in Nat /\ Len(t) \in Nat
    BY LenProperties
  <2>2. /\ a \o b \in Seq(Seq(S)) /\ Len(a \o b) = Len(s) + Len(t)
        /\ \A i \in 1..Len(s) : (a \o b)[i] = a[i]
        /\ \A i \in 1..Len(t) : (a \o b)[Len(s) + i] = b[i]
    <3>1. a \in Seq(Seq(S)) /\ b \in Seq(Seq(S))
      BY <1>2, <1>3
    <3>2. /\ a \o b \in Seq(Seq(S)) /\ Len(a \o b) = Len(a) + Len(b)
          /\ \A i \in 1..Len(a) : (a \o b)[i] = a[i]
          /\ \A i \in 1..Len(b) : (a \o b)[Len(a) + i] = b[i]
      BY ONLY <3>1, ConcatProperties, SMTT(60)
    <3> QED BY <1>2, <1>3, <3>2
  <2>3. ASSUME NEW i \in 1..Len(c) PROVE c[i] = (a \o b)[i]
    <3>1. CASE i \in 1..Len(s)
      <4>1. i \in 1..Len(u)
        BY <1>4, <2>3
      <4>2. c[i] = (IF i \in I THEN <<u[i]>> ELSE <<>>) /\ a[i] = (IF i \in I THEN <<s[i]>> ELSE <<>>)
        BY <1>2, <1>4, <3>1, <4>1
      <4>3. u[i] = s[i] /\ (a \o b)[i] = a[i]
        BY <1>5, <2>2, <3>1
      <4> QED BY <4>2, <4>3
    <3>2. CASE i \notin 1..Len(s)
      <4>1. PICK k \in 1..Len(t) : i = Len(s) + k
        <5>1. i - Len(s) \in 1..Len(t) /\ i = Len(s) + (i - Len(s))
          BY <1>1, <1>4, <2>1, <3>2
        <5> QED BY <5>1
      <4>2. i \in 1..Len(u)
        BY <1>4, <2>3
      <4>3. c[i] = IF i \in I THEN <<u[i]>> ELSE <<>>
        BY <1>4, <4>2
      <4>4. b[k] = IF k \in J THEN <<t[k]>> ELSE <<>>
        BY <1>3
      <4>5. u[i] = t[k] /\ (k \in J <=> i \in I) /\ (a \o b)[i] = b[k]
        BY <1>5, <1>6, <2>2, <4>1
      <4> QED BY <4>3, <4>4, <4>5
    <3> QED BY <3>1, <3>2
  <2> HIDE DEF c
  <2> QED BY <1>1, <1>4, <2>2, <2>3, SeqEqual
<1>9. FlattenSeq(a \o b) = FlattenSeq(a) \o FlattenSeq(b)
  BY <1>2, <1>3, FlattenConcat
<1> QED BY <1>7, <1>8, <1>9 DEF u

\* Of nothing, and of one.
LEMMA SelectedFew ==
  /\ \A I : Selected(<<>>, I) = <<>>
  /\ \A x : \A I : Selected(<<x>>, I) = IF 1 \in I THEN <<x>> ELSE <<>>
<1>1. ASSUME NEW I PROVE Selected(<<>>, I) = <<>>
  <2>1. [i \in DOMAIN <<>> |-> IF i \in I THEN <<<<>>[i]>> ELSE <<>>] = <<>>
    OBVIOUS
  <2> QED BY <2>1, EmptySeq DEF Selected, FlattenSeq
<1>2. ASSUME NEW x, NEW I PROVE Selected(<<x>>, I) = IF 1 \in I THEN <<x>> ELSE <<>>
  <2> DEFINE p == IF 1 \in I THEN <<x>> ELSE <<>>
  <2>1. [i \in DOMAIN <<x>> |-> IF i \in I THEN <<<<x>>[i]>> ELSE <<>>] = <<p>>
    OBVIOUS
  <2>2. p \in Seq({x})
    <3>1. <<x>> \in Seq({x}) /\ <<>> \in Seq({x})
      OBVIOUS
    <3> QED BY <3>1
  <2> HIDE DEF p
  <2>3. FlattenSeq(<<p>>) = p
    BY <2>2, FlattenOne
  <2> QED BY <2>1, <2>3 DEF Selected, p
<1> QED BY <1>1, <1>2

(***************************************************************************)
(* Definitions are told apart by their keys.                               *)
(***************************************************************************)
KeysOf(field, s) == {Key(field, s[i]) : i \in DOMAIN s}

\* Those of t with a key that is not in B.
Fresh(field, B, t) == Selected(t, {k \in DOMAIN t : Key(field, t[k]) \notin B})

\* Only those whose key is not in B are left.
LEMMA FreshIs ==
  ASSUME NEW S, NEW t \in Seq(S), NEW field, NEW B
  PROVE  /\ Fresh(field, B, t) \in Seq(S)
         /\ ToSet(Fresh(field, B, t)) = {x \in ToSet(t) : Key(field, x) \notin B}
<1> DEFINE I == {k \in DOMAIN t : Key(field, t[k]) \notin B}
<1>1. Selected(t, I) \in Seq(S) /\ ToSet(Selected(t, I)) = {t[k] : k \in I \cap DOMAIN t}
  BY SelectedIs
<1>2. {t[k] : k \in I \cap DOMAIN t} = {x \in ToSet(t) : Key(field, x) \notin B}
  BY DEF ToSet
<1> QED BY <1>1, <1>2 DEF Fresh

\* Those of what is joined are those of both parts.
LEMMA FreshConcat ==
  ASSUME NEW S, NEW s \in Seq(S), NEW t \in Seq(S), NEW field, NEW B
  PROVE  Fresh(field, B, s \o t) = Fresh(field, B, s) \o Fresh(field, B, t)
<1> DEFINE u == s \o t
           I == {k \in DOMAIN u : Key(field, u[k]) \notin B}
           J == {k \in DOMAIN s : Key(field, s[k]) \notin B}
           K == {k \in DOMAIN t : Key(field, t[k]) \notin B}
           L == {k \in DOMAIN t : Len(s) + k \in I}
<1>1. /\ Len(s) \in Nat /\ DOMAIN s = 1..Len(s) /\ Len(t) \in Nat /\ DOMAIN t = 1..Len(t)
      /\ DOMAIN u = 1..(Len(s) + Len(t))
  BY ConcatProperties, LenProperties
<1>2. /\ \A i \in 1..Len(s) : u[i] = s[i]
      /\ \A i \in 1..Len(t) : u[Len(s) + i] = t[i]
  BY ConcatProperties
<1>3. Selected(u, I) = Selected(s, I) \o Selected(t, L)
  <2>1. \A k \in DOMAIN t : k \in L <=> Len(s) + k \in I
    OBVIOUS
  <2> HIDE DEF I, L
  <2>2. Selected(s \o t, I) = Selected(s, I) \o Selected(t, L)
    BY <2>1, SelectedConcat, SMTT(30)
  <2> QED BY <2>2 DEF u
<1> HIDE DEF u
<1>4. Selected(s, I) = Selected(s, J)
  <2>1. \A i \in DOMAIN s : i \in I <=> i \in J
    BY <1>1, <1>2
  <2> HIDE DEF I, J
  <2> QED BY <2>1, SelectedSame
<1>5. Selected(t, L) = Selected(t, K)
  <2>1. \A i \in DOMAIN t : i \in L <=> i \in K
    <3> TAKE i \in DOMAIN t
    <3>1. Len(s) + i \in DOMAIN u /\ u[Len(s) + i] = t[i]
      BY <1>1, <1>2
    <3> QED BY <3>1
  <2> HIDE DEF L, K
  <2> QED BY <2>1, SelectedSame
<1> QED BY <1>3, <1>4, <1>5 DEF Fresh, u

\* Of what is selected, those with a key that is not in B.
LEMMA FreshSelected ==
  ASSUME NEW S, NEW t \in Seq(S), NEW field, NEW B, NEW J
  PROVE  Fresh(field, B, Selected(t, J))
           = Selected(t, {k \in DOMAIN t : k \in J /\ Key(field, t[k]) \notin B})
<1> DEFINE K == {k \in DOMAIN t : k \in J /\ Key(field, t[k]) \notin B}
           n == Len(t)
           a == Pieces(t, J)
           b == Pieces(t, K)
<1>1. n \in Nat /\ DOMAIN t = 1..n /\ \A i \in 1..n : t[i] \in S
  BY LenProperties, ElementOfSeq
<1>2. /\ a \in Seq(Seq(S)) /\ Len(a) = n
      /\ \A i \in 1..n : a[i] = IF i \in J THEN <<t[i]>> ELSE <<>>
  BY PiecesAre
<1>3. /\ b \in Seq(Seq(S)) /\ Len(b) = n
      /\ \A i \in 1..n : b[i] = IF i \in K THEN <<t[i]>> ELSE <<>>
  BY PiecesAre
<1>4. Selected(t, J) = FlattenSeq(a) /\ Selected(t, K) = FlattenSeq(b)
  BY DEF Selected, Pieces
<1> HIDE DEF a, b, n
<1>5. PICK f \in [0..n -> Seq(S)] : Joins(f, a) /\ FlattenSeq(a) = f[n]
  <2>1. \E f \in [0..Len(a) -> Seq(S)] : Joins(f, a) /\ FlattenSeq(a) = f[Len(a)]
    BY <1>2, FlattenSteps
  <2> QED BY <1>2, <2>1
<1>6. PICK g \in [0..n -> Seq(S)] : Joins(g, b) /\ FlattenSeq(b) = g[n]
  <2>1. \E g \in [0..Len(b) -> Seq(S)] : Joins(g, b) /\ FlattenSeq(b) = g[Len(b)]
    BY <1>3, FlattenSteps
  <2> QED BY <1>3, <2>1
<1>7. ASSUME NEW i \in 1..n PROVE Fresh(field, B, a[i]) = b[i]
  <2>1. i \in K <=> i \in J /\ Key(field, t[i]) \notin B
    BY <1>1
  <2> HIDE DEF K
  <2>2. CASE i \in J
    <3> DEFINE I == {k \in DOMAIN <<t[i]>> : Key(field, <<t[i]>>[k]) \notin B}
    <3>1. a[i] = <<t[i]>>
      BY <1>2, <2>2
    <3>2. 1 \in I <=> Key(field, t[i]) \notin B
      OBVIOUS
    <3>3. Fresh(field, B, <<t[i]>>) = Selected(<<t[i]>>, I)
      BY DEF Fresh
    <3> HIDE DEF I
    <3>4. Selected(<<t[i]>>, I) = IF 1 \in I THEN <<t[i]>> ELSE <<>>
      BY SelectedFew
    <3> QED BY <1>3, <2>1, <2>2, <3>1, <3>2, <3>3, <3>4
  <2>3. CASE i \notin J
    BY <1>2, <1>3, <2>1, <2>3, SelectedFew DEF Fresh
  <2> QED BY <2>2, <2>3
<1> HIDE DEF K
<1> DEFINE bad == {i \in 0..n : Fresh(field, B, f[i]) # g[i]}
<1>8. ASSUME bad # {} PROVE FALSE
  <2>1. PICK k \in bad : \A y \in bad : k <= y
    <3>1. bad \in SUBSET Nat
      BY <1>1
    <3> HIDE DEF bad
    <3> QED BY <1>8, <3>1, LeastNat
  <2>2. k # 0
    BY <1>5, <1>6, <2>1, SelectedFew DEF Joins, Fresh
  <2>3. k \in 1..n /\ k - 1 \in 0..n /\ k - 1 \notin bad
    BY <1>1, <2>1, <2>2
  <2>4. f[k] = f[k - 1] \o a[k] /\ g[k] = g[k - 1] \o b[k]
    BY <1>2, <1>3, <1>5, <1>6, <2>3 DEF Joins
  <2>5. Fresh(field, B, f[k - 1]) = g[k - 1]
    BY <2>3
  <2>6. f[k - 1] \in Seq(S) /\ a[k] \in Seq(S)
    BY <1>2, <2>3, ElementOfSeq
  <2>7. Fresh(field, B, f[k - 1] \o a[k]) = Fresh(field, B, f[k - 1]) \o Fresh(field, B, a[k])
    <3> DEFINE x == f[k - 1]
               y == a[k]
    <3>1. x \in Seq(S) /\ y \in Seq(S)
      BY <2>6
    <3> HIDE DEF x, y
    <3>2. Fresh(field, B, x \o y) = Fresh(field, B, x) \o Fresh(field, B, y)
      BY <3>1, FreshConcat, SMTT(30)
    <3> QED BY <3>2 DEF x, y
  <2> QED BY <1>7, <2>1, <2>3, <2>4, <2>5, <2>7
<1>9. Fresh(field, B, f[n]) = g[n]
  <2>1. n \in 0..n
    BY <1>1
  <2>2. bad = {}
    BY <1>8
  <2> QED BY <2>1, <2>2
<1> QED BY <1>4, <1>5, <1>6, <1>9 DEF K

\* The places of s with a key that is not there before.
New(field, s) == {i \in DOMAIN s : \A k \in 1..(i - 1) : Key(field, s[k]) # Key(field, s[i])}

\* No key is lost by keeping the first of each, and nothing is added.
LEMMA FirstsIs ==
  ASSUME NEW S, NEW s \in Seq(S), NEW field
  PROVE  /\ Firsts(field, s) \in Seq(S)
         /\ ToSet(Firsts(field, s)) \subseteq ToSet(s)
         /\ KeysOf(field, Firsts(field, s)) = KeysOf(field, s)
<1> DEFINE I == New(field, s)
           r == Firsts(field, s)
<1>1. r \in Seq(S) /\ ToSet(r) = {s[i] : i \in I \cap DOMAIN s}
  BY SelectedIs DEF Firsts, New
<1>2. DOMAIN s = 1..Len(s) /\ Len(s) \in Nat
  BY LenProperties
<1>3. ASSUME NEW i \in DOMAIN s PROVE \E j \in I : Key(field, s[j]) = Key(field, s[i])
  <2> DEFINE same == {j \in DOMAIN s : Key(field, s[j]) = Key(field, s[i])}
  <2>1. same \in SUBSET Nat /\ same # {}
    BY <1>2
  <2> HIDE DEF same
  <2>2. PICK j \in same : \A y \in same : j <= y
    BY <2>1, LeastNat
  <2>3. j \in DOMAIN s /\ Key(field, s[j]) = Key(field, s[i])
    BY DEF same
  <2>4. ASSUME NEW k \in 1..(j - 1) PROVE Key(field, s[k]) # Key(field, s[j])
    <3>1. k \in DOMAIN s /\ ~(j <= k)
      BY <1>2, <2>3
    <3>2. k \notin same
      BY <2>2, <3>1
    <3> QED BY <2>3, <3>1, <3>2 DEF same
  <2> QED BY <2>3, <2>4 DEF New
<1>4. \A j \in I : j \in DOMAIN s
  BY DEF New
<1> HIDE DEF I, r
<1>5. KeysOf(field, r) = {Key(field, x) : x \in ToSet(r)}
  BY DEF KeysOf, ToSet
<1>6. KeysOf(field, s) = {Key(field, x) : x \in ToSet(s)}
  BY DEF KeysOf, ToSet
<1>7. ToSet(r) \subseteq ToSet(s)
  BY <1>1 DEF ToSet
<1>8. \A x \in ToSet(s) : \E y \in ToSet(r) : Key(field, y) = Key(field, x)
  BY <1>1, <1>3, <1>4 DEF ToSet
<1>9. KeysOf(field, r) = KeysOf(field, s)
  BY <1>5, <1>6, <1>7, <1>8
<1> QED BY <1>1, <1>7, <1>9 DEF r

\* The first of each in what is joined: those of the first part, and those of
\* the second with a key the first has not.
LEMMA FirstsConcat ==
  ASSUME NEW S, NEW s \in Seq(S), NEW t \in Seq(S), NEW field
  PROVE  Firsts(field, s \o t)
           = Firsts(field, s) \o Fresh(field, KeysOf(field, Firsts(field, s)), Firsts(field, t))
<1> DEFINE u == s \o t
           B == KeysOf(field, s)
           I == New(field, u)
           J == New(field, s)
           K == {k \in DOMAIN t : k \in New(field, t) /\ Key(field, t[k]) \notin B}
           L == {k \in DOMAIN t : Len(s) + k \in I}
<1>1. /\ Len(s) \in Nat /\ DOMAIN s = 1..Len(s) /\ Len(t) \in Nat /\ DOMAIN t = 1..Len(t)
      /\ DOMAIN u = 1..(Len(s) + Len(t))
  BY ConcatProperties, LenProperties
<1>2. /\ \A i \in 1..Len(s) : u[i] = s[i]
      /\ \A i \in 1..Len(t) : u[Len(s) + i] = t[i]
  BY ConcatProperties
<1>3. Selected(u, I) = Selected(s, I) \o Selected(t, L)
  <2>1. \A k \in DOMAIN t : k \in L <=> Len(s) + k \in I
    OBVIOUS
  <2> HIDE DEF I, L
  <2>2. Selected(s \o t, I) = Selected(s, I) \o Selected(t, L)
    BY <2>1, SelectedConcat, SMTT(30)
  <2> QED BY <2>2 DEF u
<1> HIDE DEF u
<1>4. Selected(s, I) = Selected(s, J)
  <2>1. \A i \in DOMAIN s : i \in I <=> i \in J
    <3> TAKE i \in DOMAIN s
    <3>1. i \in DOMAIN u /\ u[i] = s[i] /\ \A k \in 1..(i - 1) : u[k] = s[k]
      BY <1>1, <1>2
    <3> QED BY <3>1 DEF New
  <2> HIDE DEF I, J
  <2> QED BY <2>1, SelectedSame
<1>5. Selected(t, L) = Selected(t, K)
  <2>1. \A i \in DOMAIN t : i \in L <=> i \in K
    <3> TAKE i \in DOMAIN t
    <3> DEFINE n == Len(s) + i
               Old(k) == Key(field, u[k]) = Key(field, t[i])
    <3>1. n \in DOMAIN u /\ u[n] = t[i]
      BY <1>1, <1>2
    <3>2. i \in L <=> \A k \in 1..(n - 1) : ~Old(k)
      BY <3>1 DEF New
    <3>3. (\A k \in 1..(n - 1) : ~Old(k))
            <=> (\A k \in 1..Len(s) : ~Old(k)) /\ (\A k \in 1..(i - 1) : ~Old(Len(s) + k))
      <4> HIDE DEF Old
      <4>1. ASSUME \A k \in 1..Len(s) : ~Old(k), \A k \in 1..(i - 1) : ~Old(Len(s) + k),
                   NEW k \in 1..(n - 1)
            PROVE  ~Old(k)
        <5>1. CASE k \in 1..Len(s)
          BY <4>1, <5>1
        <5>2. CASE k \notin 1..Len(s)
          <6>1. k - Len(s) \in 1..(i - 1) /\ Len(s) + (k - Len(s)) = k
            BY <1>1, <5>2
          <6> QED BY <4>1, <6>1
        <5> QED BY <5>1, <5>2
      <4>2. \A k \in 1..Len(s) : k \in 1..(n - 1)
        BY <1>1
      <4>3. \A k \in 1..(i - 1) : Len(s) + k \in 1..(n - 1)
        BY <1>1
      <4> HIDE DEF n
      <4> QED BY <4>1, <4>2, <4>3
    <3>4. (\A k \in 1..Len(s) : ~Old(k)) <=> Key(field, t[i]) \notin B
      BY <1>1, <1>2 DEF KeysOf
    <3>5. (\A k \in 1..(i - 1) : ~Old(Len(s) + k)) <=> i \in New(field, t)
      <4>1. \A k \in 1..(i - 1) : k \in 1..Len(t)
        BY <1>1
      <4> QED BY <1>2, <4>1 DEF New
    <3>6. i \in K <=> i \in New(field, t) /\ Key(field, t[i]) \notin B
      OBVIOUS
    <3> HIDE DEF Old, L, K, B
    <3> QED BY <3>2, <3>3, <3>4, <3>5, <3>6
  <2> HIDE DEF L, K
  <2> QED BY <2>1, SelectedSame
<1>6. Fresh(field, B, Selected(t, New(field, t))) = Selected(t, K)
  <2> HIDE DEF B
  <2> QED BY FreshSelected
<1>7. KeysOf(field, Firsts(field, s)) = B
  BY FirstsIs
<1>8. /\ Firsts(field, u) = Selected(u, I) /\ Firsts(field, s) = Selected(s, J)
      /\ Firsts(field, t) = Selected(t, New(field, t))
  BY DEF Firsts, New
<1> HIDE DEF I, J, K, L, B
<1> QED BY <1>3, <1>4, <1>5, <1>6, <1>7, <1>8 DEF u

\* Joining sequences of at most one element.
LEMMA FewJoined ==
  ASSUME NEW x, NEW y
  PROVE  <<>> \o <<>> = <<>> /\ <<x>> \o <<>> = <<x>> /\ <<>> \o <<y>> = <<y>>
         /\ <<x>> \o <<y>> = <<x, y>>
<1> DEFINE a == <<x>>
           b == <<y>>
<1>1. /\ a \in Seq({x, y}) /\ Len(a) = 1 /\ a[1] = x
      /\ b \in Seq({x, y}) /\ Len(b) = 1 /\ b[1] = y
      /\ <<x, y>> \in Seq({x, y}) /\ Len(<<x, y>>) = 2 /\ <<x, y>>[1] = x /\ <<x, y>>[2] = y
      /\ <<>> \in Seq({x, y})
  OBVIOUS
<1> HIDE DEF a, b
<1>2. /\ a \o b \in Seq({x, y}) /\ Len(a \o b) = Len(a) + Len(b)
      /\ \A i \in 1..Len(a) : (a \o b)[i] = a[i]
      /\ \A i \in 1..Len(b) : (a \o b)[Len(a) + i] = b[i]
  BY ONLY <1>1, ConcatProperties, SMTT(60)
<1>3. Len(a \o b) = 2 /\ (a \o b)[1] = x /\ (a \o b)[2] = y
  <2>1. 1 \in 1..1 /\ 1 + 1 = 2
    OBVIOUS
  <2> QED BY <1>1, <1>2, <2>1
<1>4. a \o b = <<x, y>>
  <2> DEFINE c == <<x, y>>
             d == a \o b
  <2>1. c \in Seq({x, y}) /\ Len(c) = 2 /\ c[1] = x /\ c[2] = y
    BY <1>1
  <2>2. d \in Seq({x, y}) /\ Len(d) = 2 /\ d[1] = x /\ d[2] = y
    BY <1>2, <1>3
  <2> HIDE DEF c, d
  <2>3. \A i \in 1..Len(d) : d[i] = c[i]
    <3>1. \A i \in 1..2 : i = 1 \/ i = 2
      OBVIOUS
    <3> QED BY <2>1, <2>2, <3>1
  <2>4. d = c
    BY <2>1, <2>2, <2>3, SeqEqual
  <2> QED BY <2>4 DEF c, d
<1>5. <<>> \o <<>> = <<>> /\ a \o <<>> = a /\ <<>> \o b = b
  BY <1>1, ConcatEmptySeq
<1> QED BY <1>4, <1>5 DEF a, b

\* The first of each in nothing, in one, and in two with other keys.
LEMMA FirstsOfFew ==
  ASSUME NEW field
  PROVE  /\ Firsts(field, <<>>) = <<>>
         /\ \A x : Firsts(field, <<x>>) = <<x>>
         /\ \A x, y : Key(field, x) # Key(field, y) => Firsts(field, <<x, y>>) = <<x, y>>
<1>1. Firsts(field, <<>>) = <<>>
  BY SelectedFew DEF Firsts
<1>2. ASSUME NEW x PROVE Firsts(field, <<x>>) = <<x>>
  <2> DEFINE I == New(field, <<x>>)
  <2>1. 1 \in I
    BY DEF New
  <2>2. Firsts(field, <<x>>) = Selected(<<x>>, I)
    BY DEF Firsts, New
  <2> HIDE DEF I
  <2> QED BY <2>1, <2>2, SelectedFew
<1>3. ASSUME NEW x, NEW y, Key(field, x) # Key(field, y)
      PROVE  Firsts(field, <<x, y>>) = <<x, y>>
  <2> DEFINE B == KeysOf(field, <<x>>)
             I == {k \in DOMAIN <<y>> : Key(field, <<y>>[k]) \notin B}
  <2>1. <<x>> \in Seq({x, y}) /\ <<y>> \in Seq({x, y}) /\ <<x, y>> = <<x>> \o <<y>>
    <3>1. <<x>> \in Seq({x, y}) /\ <<y>> \in Seq({x, y})
      OBVIOUS
    <3>2. <<x, y>> = <<x>> \o <<y>>
      BY FewJoined
    <3> QED BY <3>1, <3>2
  <2>2. Firsts(field, <<x>> \o <<y>>)
          = Firsts(field, <<x>>) \o Fresh(field, KeysOf(field, Firsts(field, <<x>>)), Firsts(field, <<y>>))
    BY <2>1, FirstsConcat
  <2>3. Firsts(field, <<x>>) = <<x>> /\ Firsts(field, <<y>>) = <<y>>
    BY <1>2
  <2>4. Fresh(field, B, <<y>>) = Selected(<<y>>, I)
    BY DEF Fresh
  <2>5. 1 \in I
    BY <1>3 DEF KeysOf
  <2> HIDE DEF I
  <2>6. Selected(<<y>>, I) = <<y>>
    BY <2>5, SelectedFew
  <2> QED BY <2>1, <2>2, <2>3, <2>4, <2>6 DEF B
<1> QED BY <1>1, <1>2, <1>3

(***************************************************************************)
(* What the lines of a text define.                                        *)
(***************************************************************************)
\* What a line defines has no key twice.
LEMMA LineDefines ==
  ASSUME NEW t \in Theories, NEW l \in AllLines(t), NEW field \in Fields
  PROVE  LET ds == DefinitionsOf(l)[field]
         IN ds \in Seq(ToSet(ds)) /\ Firsts(field, ds) = ds
<1> DEFINE ds == DefinitionsOf(l)[field]
<1>1. PICK f \in DOMAIN t : l \in ToSet(t[f])
  BY DEF AllLines
<1>2. IsRule(l) => l.name \in Seq(STRING)
  BY <1>1, LinesAssumption DEF IsRule
<1>3. \/ ds = <<>>
      \/ \E x : ds = <<x>>
      \/ \E x, y : ds = <<x, y>> /\ Key(field, x) # Key(field, y)
  <2>1. CASE l.op \in {"datatype", "declare-fun", "prove"}
    <3>1. CASE l.op = "datatype"
      BY <3>1 DEF DefinitionsOf, NoDefinitions, Fields, IsRule
    <3>2. CASE l.op = "declare-fun"
      BY <3>2 DEF DefinitionsOf, NoDefinitions, Fields, IsRule
    <3>3. CASE l.op = "prove"
      BY <3>3 DEF DefinitionsOf, NoDefinitions, Fields, IsRule
    <3> QED BY <2>1, <3>1, <3>2, <3>3
  <2>2. CASE IsRule(l) /\ field # "rws"
    BY <2>2 DEF DefinitionsOf, NoDefinitions, Fields, IsRule
  <2>3. CASE IsRule(l) /\ field = "rws"
    <3>1. ds = RulesOf(l)
      BY <2>3 DEF DefinitionsOf, NoDefinitions, IsRule
    <3>2. CASE l.op # "<=>"
      BY <3>1, <3>2 DEF RulesOf
    <3>3. CASE l.op = "<=>"
      <4> DEFINE x == Rw(l.name, l.lhs, l.rhs)
                 y == Rw(Append(l.name, "rev"), l.rhs, l.lhs)
      <4>1. ds = (IF l.legal THEN <<x>> ELSE <<>>) \o (IF l.revLegal THEN <<y>> ELSE <<>>)
        BY <3>1, <3>3 DEF RulesOf
      <4>2. Key(field, x) = l.name /\ Key(field, y) = Append(l.name, "rev")
        BY <2>3 DEF Key, Rw
      <4>3. l.name # Append(l.name, "rev")
        <5>1. l.name \in Seq(STRING)
          BY <1>2, <2>3
        <5>2. Len(Append(l.name, "rev")) = Len(l.name) + 1 /\ Len(l.name) \in Nat
          BY <5>1
        <5> QED BY <5>2
      <4> HIDE DEF x, y
      <4>4. /\ <<>> \o <<>> = <<>> /\ <<x>> \o <<>> = <<x>> /\ <<>> \o <<y>> = <<y>>
            /\ <<x>> \o <<y>> = <<x, y>>
        BY FewJoined
      <4> QED BY <4>1, <4>2, <4>3, <4>4
    <3> QED BY <3>2, <3>3
  <2>4. CASE l.op \notin {"datatype", "declare-fun", "prove"} /\ ~IsRule(l)
    BY <2>4 DEF DefinitionsOf, NoDefinitions, Fields
  <2> QED BY <2>1, <2>2, <2>3, <2>4
<1> HIDE DEF ds
<1>4. Firsts(field, ds) = ds
  BY <1>3, FirstsOfFew
<1>5. ds \in Seq(ToSet(ds))
  <2>1. CASE ds = <<>>
    BY <2>1
  <2>2. ASSUME NEW x, ds = <<x>> PROVE ds \in Seq(ToSet(ds))
    <3>1. DOMAIN ds = {1} /\ ds[1] = x /\ ds \in Seq({x})
      BY <2>2
    <3>2. ToSet(ds) = {x}
      BY <3>1 DEF ToSet
    <3> QED BY <3>1, <3>2
  <2>3. ASSUME NEW x, NEW y, ds = <<x, y>> PROVE ds \in Seq(ToSet(ds))
    <3>1. DOMAIN ds = {1, 2} /\ ds[1] = x /\ ds[2] = y /\ ds \in Seq({x, y})
      BY <2>3
    <3>2. ToSet(ds) = {x, y}
      BY <3>1 DEF ToSet
    <3> QED BY <3>1, <3>2
  <2> QED BY <1>3, <2>1, <2>2, <2>3
<1> QED BY <1>4, <1>5 DEF ds

\* All that the lines of t define.
Defined(t) == UNION {UNION {ToSet(DefinitionsOf(l)[field]) : field \in Fields} : l \in AllLines(t)}

\* What All joins.
Parts(field, text) == [i \in DOMAIN text |-> DefinitionsOf(text[i])[field]]

\* The parts are sequences of definitions.
LEMMA PartsAre ==
  ASSUME NEW t \in Theories, NEW text \in Seq(AllLines(t)), NEW field \in Fields
  PROVE  /\ Parts(field, text) \in Seq(Seq(Defined(t))) /\ Len(Parts(field, text)) = Len(text)
         /\ \A i \in 1..Len(text) : Parts(field, text)[i] = DefinitionsOf(text[i])[field]
<1> DEFINE n == Len(text)
           P(i) == DefinitionsOf(text[i])[field]
<1>1. n \in Nat /\ DOMAIN text = 1..n /\ \A i \in 1..n : text[i] \in AllLines(t)
  BY LenProperties, ElementOfSeq
<1>2. ASSUME NEW i \in 1..n PROVE P(i) \in Seq(Defined(t))
  <2>1. P(i) \in Seq(ToSet(P(i)))
    BY <1>1, LineDefines
  <2>2. ToSet(P(i)) \subseteq Defined(t)
    BY <1>1 DEF Defined
  <2> HIDE DEF P
  <2>3. \A k \in 1..Len(P(i)) : P(i)[k] \in Defined(t)
    BY <2>1, <2>2, ElementAt
  <2> QED BY <2>1, <2>3, ElementsInSeq
<1>3. Parts(field, text) = [i \in 1..n |-> P(i)]
  BY <1>1 DEF Parts
<1> HIDE DEF n, P
<1>4. /\ [i \in 1..n |-> P(i)] \in Seq(Seq(Defined(t))) /\ Len([i \in 1..n |-> P(i)]) = n
      /\ \A i \in 1..n : [j \in 1..n |-> P(j)][i] = P(i)
  BY <1>1, <1>2
<1> QED BY <1>3, <1>4 DEF n, P

\* All that the lines of a text define, and nothing else.
LEMMA AllIs ==
  ASSUME NEW t \in Theories, NEW text \in Seq(AllLines(t)), NEW field \in Fields
  PROVE  /\ All(field, text) \in Seq(Defined(t))
         /\ ToSet(All(field, text))
              = UNION {ToSet(DefinitionsOf(l)[field]) : l \in ToSet(text)}
<1> DEFINE ps == Parts(field, text)
<1>1. /\ ps \in Seq(Seq(Defined(t))) /\ Len(ps) = Len(text)
      /\ \A i \in 1..Len(text) : ps[i] = DefinitionsOf(text[i])[field]
  BY PartsAre
<1>2. All(field, text) = FlattenSeq(ps)
  BY DEF All, Parts
<1> HIDE DEF ps
<1>3. DOMAIN ps = 1..Len(text) /\ DOMAIN text = 1..Len(text)
  BY <1>1, LenProperties
<1>4. /\ FlattenSeq(ps) \in Seq(Defined(t))
      /\ ToSet(FlattenSeq(ps)) = UNION {ToSet(ps[i]) : i \in DOMAIN ps}
  BY <1>1, FlattenIs
<1>5. UNION {ToSet(ps[i]) : i \in DOMAIN ps}
        = UNION {ToSet(DefinitionsOf(l)[field]) : l \in ToSet(text)}
  <2>1. \A i \in DOMAIN text : ToSet(ps[i]) = ToSet(DefinitionsOf(text[i])[field])
    BY <1>1, <1>3
  <2>2. \A x : x \in ToSet(text) <=> \E i \in DOMAIN text : x = text[i]
    BY DEF ToSet
  <2> QED BY <1>3, <2>1, <2>2
<1> QED BY <1>2, <1>4, <1>5

\* A text and another define what both do.
LEMMA AllConcat ==
  ASSUME NEW t \in Theories, NEW s \in Seq(AllLines(t)), NEW u \in Seq(AllLines(t)),
         NEW field \in Fields
  PROVE  All(field, s \o u) = All(field, s) \o All(field, u)
<1> DEFINE su == s \o u
           a == Parts(field, s)
           b == Parts(field, u)
           c == Parts(field, su)
<1>1. su \in Seq(AllLines(t)) /\ Len(su) = Len(s) + Len(u) /\ Len(s) \in Nat /\ Len(u) \in Nat
  BY ConcatProperties, LenProperties
<1>2. /\ a \in Seq(Seq(Defined(t))) /\ Len(a) = Len(s)
      /\ \A i \in 1..Len(s) : a[i] = DefinitionsOf(s[i])[field]
  BY PartsAre
<1>3. /\ b \in Seq(Seq(Defined(t))) /\ Len(b) = Len(u)
      /\ \A i \in 1..Len(u) : b[i] = DefinitionsOf(u[i])[field]
  BY PartsAre
<1>4. /\ c \in Seq(Seq(Defined(t))) /\ Len(c) = Len(su)
      /\ \A i \in 1..Len(su) : c[i] = DefinitionsOf(su[i])[field]
  BY <1>1, PartsAre
<1>5. /\ \A i \in 1..Len(s) : su[i] = s[i]
      /\ \A i \in 1..Len(u) : su[Len(s) + i] = u[i]
  BY ConcatProperties
<1>6. All(field, su) = FlattenSeq(c) /\ All(field, s) = FlattenSeq(a) /\ All(field, u) = FlattenSeq(b)
  BY DEF All, Parts
<1> HIDE DEF su, a, b, c
<1>7. c = a \o b
  <2>1. a \in Seq(Seq(Defined(t))) /\ b \in Seq(Seq(Defined(t)))
    BY <1>2, <1>3
  <2>2. /\ a \o b \in Seq(Seq(Defined(t))) /\ Len(a \o b) = Len(a) + Len(b)
        /\ \A i \in 1..Len(a) : (a \o b)[i] = a[i]
        /\ \A i \in 1..Len(b) : (a \o b)[Len(a) + i] = b[i]
    BY ONLY <2>1, ConcatProperties, SMTT(60)
  <2>3. ASSUME NEW i \in 1..Len(c) PROVE c[i] = (a \o b)[i]
    <3>1. CASE i \in 1..Len(s)
      <4>1. i \in 1..Len(su)
        BY <1>4, <2>3
      <4>2. c[i] = DefinitionsOf(su[i])[field] /\ a[i] = DefinitionsOf(s[i])[field] /\ su[i] = s[i]
        BY <1>2, <1>4, <1>5, <3>1, <4>1
      <4>3. (a \o b)[i] = a[i]
        BY <1>2, <2>2, <3>1
      <4> QED BY <4>2, <4>3
    <3>2. CASE i \notin 1..Len(s)
      <4>1. PICK k \in 1..Len(u) : i = Len(s) + k
        <5>1. i - Len(s) \in 1..Len(u) /\ i = Len(s) + (i - Len(s))
          BY <1>1, <1>4, <3>2
        <5> QED BY <5>1
      <4>2. i \in 1..Len(su)
        BY <1>4, <2>3
      <4>3. c[i] = DefinitionsOf(su[i])[field] /\ b[k] = DefinitionsOf(u[k])[field]
        BY <1>3, <1>4, <4>2
      <4>4. su[i] = u[k] /\ (a \o b)[i] = b[k]
        BY <1>2, <1>3, <1>5, <2>2, <4>1
      <4> QED BY <4>3, <4>4
    <3> QED BY <3>1, <3>2
  <2>4. Len(c) = Len(a \o b)
    BY <1>1, <1>2, <1>3, <1>4, <2>2
  <2> QED BY <1>4, <2>2, <2>3, <2>4, SeqEqual
<1>8. FlattenSeq(a \o b) = FlattenSeq(a) \o FlattenSeq(b)
  BY <1>2, <1>3, FlattenConcat
<1> QED BY <1>6, <1>7, <1>8 DEF su

\* What a text of one line defines, and one of none.
LEMMA LineReads ==
  ASSUME NEW t \in Theories, NEW l \in AllLines(t)
  PROVE  Reads(DefinitionsOf(l), <<l>>)
<1> SUFFICES ASSUME NEW field \in Fields
             PROVE  DefinitionsOf(l)[field] = Firsts(field, All(field, <<l>>))
  BY DEF Reads
<1> DEFINE ds == DefinitionsOf(l)[field]
<1>1. ds \in Seq(ToSet(ds)) /\ Firsts(field, ds) = ds
  BY LineDefines
<1>2. [i \in DOMAIN <<l>> |-> DefinitionsOf(<<l>>[i])[field]] = <<ds>>
  OBVIOUS
<1>3. All(field, <<l>>) = FlattenSeq(<<ds>>)
  BY <1>2 DEF All
<1> HIDE DEF ds
<1>4. FlattenSeq(<<ds>>) = ds
  BY <1>1, FlattenOne
<1> QED BY <1>1, <1>3, <1>4 DEF ds

\* A text without lines defines nothing.
LEMMA NothingReads == Reads(NoDefinitions, <<>>)
<1> SUFFICES ASSUME NEW field \in Fields
             PROVE  NoDefinitions[field] = Firsts(field, All(field, <<>>))
  BY DEF Reads
<1>1. NoDefinitions[field] = <<>>
  BY DEF NoDefinitions, Fields
<1>2. [i \in DOMAIN <<>> |-> DefinitionsOf(<<>>[i])[field]] = <<>>
  OBVIOUS
<1>3. All(field, <<>>) = <<>>
  BY <1>2, EmptySeq DEF All, FlattenSeq
<1> QED BY <1>1, <1>3, FirstsOfFew

\* Merging keeps what is there and adds what has a new key.
LEMMA MergeIs ==
  ASSUME NEW a, NEW b, NEW field \in Fields, DOMAIN a[field] = 1..Len(a[field])
  PROVE  Merge(a, b)[field] = a[field] \o Fresh(field, KeysOf(field, a[field]), b[field])
<1>1. ASSUME NEW xs, NEW ys, field # "conjectures"
      PROVE  NewNames(xs, ys) = Fresh(field, KeysOf(field, xs), ys)
  <2> DEFINE I == {k \in DOMAIN ys : \A i \in DOMAIN xs : xs[i].name # ys[k].name}
             J == {k \in DOMAIN ys : Key(field, ys[k]) \notin KeysOf(field, xs)}
  <2>1. I = J
    BY <1>1 DEF Key, KeysOf
  <2>2. NewNames(xs, ys) = Selected(ys, I) /\ Fresh(field, KeysOf(field, xs), ys) = Selected(ys, J)
    BY DEF NewNames, Fresh
  <2> HIDE DEF I, J
  <2> QED BY <2>1, <2>2
<1>2. ASSUME NEW xs, NEW ys, DOMAIN xs = 1..Len(xs), field = "conjectures"
      PROVE  NewGoals(xs, ys) = Fresh(field, KeysOf(field, xs), ys)
  <2> DEFINE I == {k \in DOMAIN ys : ~Contains(xs, ys[k])}
             J == {k \in DOMAIN ys : Key(field, ys[k]) \notin KeysOf(field, xs)}
  <2>1. I = J
    <3>1. DOMAIN xs = 1..Len(xs)
      BY <1>2
    <3> QED BY <1>2, <3>1 DEF Key, KeysOf, Contains
  <2>2. NewGoals(xs, ys) = Selected(ys, I) /\ Fresh(field, KeysOf(field, xs), ys) = Selected(ys, J)
    BY DEF NewGoals, Fresh
  <2> HIDE DEF I, J
  <2> QED BY <2>1, <2>2
<1>3. CASE field = "functions"
  <2>1. Merge(a, b)[field] = a[field] \o NewNames(a[field], b[field])
    BY <1>3 DEF Merge
  <2> QED BY <1>1, <1>3, <2>1
<1>4. CASE field = "datatypes"
  <2>1. Merge(a, b)[field] = a[field] \o NewNames(a[field], b[field])
    BY <1>4 DEF Merge
  <2> QED BY <1>1, <1>4, <2>1
<1>5. CASE field = "rws"
  <2>1. Merge(a, b)[field] = a[field] \o NewNames(a[field], b[field])
    BY <1>5 DEF Merge
  <2> QED BY <1>1, <1>5, <2>1
<1>6. CASE field = "conjectures"
  <2>1. Merge(a, b)[field] = a[field] \o NewGoals(a[field], b[field])
    BY <1>6 DEF Merge
  <2> QED BY <1>2, <1>6, <2>1
<1> QED BY <1>3, <1>4, <1>5, <1>6 DEF Fields

\* Merging what two texts define is reading one after the other.
LEMMA MergeReads ==
  ASSUME NEW t \in Theories, NEW s \in Seq(AllLines(t)), NEW u \in Seq(AllLines(t)),
         NEW a, NEW b, Reads(a, s), Reads(b, u)
  PROVE  Reads(Merge(a, b), s \o u)
<1>1. \A field \in Fields : /\ All(field, s) \in Seq(Defined(t))
                            /\ Firsts(field, All(field, s)) \in Seq(Defined(t))
                            /\ a[field] = Firsts(field, All(field, s))
  BY AllIs, FirstsIs DEF Reads
<1> SUFFICES ASSUME NEW field \in Fields
             PROVE  Merge(a, b)[field] = Firsts(field, All(field, s \o u))
  BY DEF Reads
<1> DEFINE x == All(field, s)
           y == All(field, u)
<1>2. x \in Seq(Defined(t)) /\ y \in Seq(Defined(t)) /\ All(field, s \o u) = x \o y
  BY AllIs, AllConcat
<1>3. a[field] = Firsts(field, x) /\ b[field] = Firsts(field, y)
  BY DEF Reads
<1>4. Merge(a, b)[field] = a[field] \o Fresh(field, KeysOf(field, a[field]), b[field])
  <2>1. DOMAIN a[field] = 1..Len(a[field])
    BY <1>1, LenProperties
  <2> QED BY <2>1, MergeIs
<1> HIDE DEF x, y
<1>5. Firsts(field, x \o y)
        = Firsts(field, x) \o Fresh(field, KeysOf(field, Firsts(field, x)), Firsts(field, y))
  BY <1>2, FirstsConcat
<1> QED BY <1>2, <1>3, <1>4, <1>5

(***************************************************************************)
(* The text with the included files in place.                              *)
(***************************************************************************)
\* The files whose lines stand in the place of a line.
IsRead(t, l) == l.op = "include" /\ l.file \in DOMAIN t /\ ~IsError(t, l.file)

\* What stands in place of the lines of file f.
Placed(t, text, f) == [i \in DOMAIN t[f] |-> InPlace(t, text, t[f][i])]

\* The lines of a file are lines of the theory.
LEMMA LinesAre ==
  ASSUME NEW t \in Theories, NEW f \in DOMAIN t
  PROVE  /\ Len(t[f]) \in Nat /\ DOMAIN t[f] = 1..Len(t[f])
         /\ \A i \in DOMAIN t[f] : t[f][i] \in AllLines(t)
<1>1. t[f] \in Seq(ToSet(t[f]))
  BY LinesAssumption
<1>2. \A i \in DOMAIN t[f] : t[f][i] \in AllLines(t)
  BY DEF AllLines, ToSet
<1> HIDE DEF AllLines
<1> QED BY <1>1, <1>2, LenProperties

\* Lines stand in the place of a line.
LEMMA InPlaceIs ==
  ASSUME NEW t \in Theories, NEW text \in [DOMAIN t -> Seq(AllLines(t))], NEW l \in AllLines(t)
  PROVE  InPlace(t, text, l) \in Seq(AllLines(t))
<1>1. <<l>> \in Seq(AllLines(t)) /\ <<>> \in Seq(AllLines(t))
  OBVIOUS
<1> QED BY <1>1 DEF InPlace

\* Joined, what stands in the place of the lines of a file is a text.
LEMMA PlacedIs ==
  ASSUME NEW t \in Theories, NEW text \in [DOMAIN t -> Seq(AllLines(t))], NEW f \in DOMAIN t
  PROVE  /\ Placed(t, text, f) \in Seq(Seq(AllLines(t)))
         /\ Len(Placed(t, text, f)) = Len(t[f])
         /\ FlattenSeq(Placed(t, text, f)) \in Seq(AllLines(t))
<1> DEFINE n == Len(t[f])
           P(i) == InPlace(t, text, t[f][i])
<1>1. n \in Nat /\ DOMAIN t[f] = 1..n /\ \A i \in 1..n : t[f][i] \in AllLines(t)
  BY LinesAre
<1>2. \A i \in 1..n : P(i) \in Seq(AllLines(t))
  BY <1>1, InPlaceIs
<1>3. Placed(t, text, f) = [i \in 1..n |-> P(i)]
  BY <1>1 DEF Placed
<1> HIDE DEF P
<1>4. [i \in 1..n |-> P(i)] \in Seq(Seq(AllLines(t))) /\ Len([i \in 1..n |-> P(i)]) = n
  BY <1>1, <1>2
<1> QED BY <1>3, <1>4, FlattenIs

\* The text of a file depends on that of the files read in it only.
LEMMA PlacedSame ==
  ASSUME NEW t, NEW a, NEW b, NEW f \in DOMAIN t,
         \A i \in DOMAIN t[f] : IsRead(t, t[f][i]) => a[t[f][i].file] = b[t[f][i].file]
  PROVE  Placed(t, a, f) = Placed(t, b, f)
<1>1. \A i \in DOMAIN t[f] : InPlace(t, a, t[f][i]) = InPlace(t, b, t[f][i])
  BY DEF InPlace, IsRead
<1> QED BY <1>1 DEF Placed

\* As no file includes itself, however indirectly, there is a text.
LEMMA TextExists ==
  ASSUME NEW t \in Theories
  PROVE  \E text \in [DOMAIN t -> Seq(AllLines(t))] :
           text = [f \in DOMAIN t |-> FlattenSeq(Placed(t, text, f))]
<1> DEFINE D == DOMAIN t
           Texts == [D -> Seq(AllLines(t))]
           N == Cardinality(D) + 1
           Body(text) == [f \in D |-> FlattenSeq(Placed(t, text, f))]
           Step == [i \in 1..N |-> [text \in Texts |-> Body(text)]]
           start == [f \in D |-> <<>>]
<1>1. IsFiniteSet(D) /\ \E rank \in [D -> 0..Cardinality(D)] : Ranks(t, rank)
  BY NoCircleAssumption
<1>2. PICK rank \in [D -> 0..Cardinality(D)] : Ranks(t, rank)
  BY <1>1
<1>3. Cardinality(D) \in Nat /\ N \in Nat
  BY <1>1, FS_CardinalityType
<1>4. \A text \in Texts : Body(text) \in Texts
  BY PlacedIs
<1>5. start \in Texts
  OBVIOUS
<1>6. Step \in [1..N -> [Texts -> Texts]]
  BY <1>4
<1> HIDE DEF N, Texts, Step, start
<1>7. PICK g \in [0..N -> Texts] : Iterates(g, start, N, Step)
  BY <1>3, <1>5, <1>6, StepByStep
<1>8. ASSUME NEW i \in 1..N PROVE i - 1 \in 0..N /\ i \in 0..N /\ g[i] = Body(g[i - 1])
  <2>1. i - 1 \in 0..N /\ i \in 0..N
    BY <1>3
  <2>2. g[i] = Step[i][g[i - 1]]
    BY <1>7 DEF Iterates
  <2> HIDE DEF Body
  <2> QED BY <2>1, <2>2 DEF Step
<1> HIDE DEF Body
\* After i steps the texts of the files of a rank below i are right.
<1> DEFINE Right(i) == \A f \in D : rank[f] < i => Body(g[i])[f] = g[i][f]
           bad == {i \in 0..N : ~Right(i)}
<1>9. ASSUME bad # {} PROVE FALSE
  <2>1. PICK m \in bad : \A y \in bad : m <= y
    <3>1. bad \in SUBSET Nat
      BY <1>3
    <3> HIDE DEF bad
    <3> QED BY <1>9, <3>1, LeastNat
  <2>2. m # 0
    <3>1. \A f \in D : ~(rank[f] < 0)
      BY <1>2, <1>3
    <3> QED BY <2>1, <3>1
  <2>3. m \in 1..N /\ m - 1 \in 0..N /\ m - 1 \notin bad
    <3>1. m \in 1..N /\ m - 1 \in 0..N /\ ~(m <= m - 1)
      BY <1>3, <2>1, <2>2
    <3> QED BY <2>1, <3>1
  <2>4. Right(m - 1) /\ ~Right(m)
    BY <2>1, <2>3
  <2>5. PICK f \in D : rank[f] < m /\ Body(g[m])[f] # g[m][f]
    BY <2>4
  <2>6. g[m] = Body(g[m - 1])
    BY <1>8, <2>3
  <2>7. ASSUME NEW i \in DOMAIN t[f], IsRead(t, t[f][i])
        PROVE  g[m][t[f][i].file] = g[m - 1][t[f][i].file]
    <3> DEFINE h == t[f][i].file
    <3>1. h \in D /\ rank[h] < rank[f]
      BY <1>2, <2>7 DEF IsRead, Ranks
    <3>2. rank[h] < m - 1
      BY <1>2, <1>3, <2>3, <2>5, <3>1
    <3> QED BY <2>4, <2>6, <3>1, <3>2
  <2>8. Placed(t, g[m], f) = Placed(t, g[m - 1], f)
    BY <2>7, PlacedSame
  <2>9. \A text : Body(text)[f] = FlattenSeq(Placed(t, text, f))
    BY DEF Body
  <2> QED BY <2>5, <2>6, <2>8, <2>9
<1>10. Right(N)
  <2>1. N \in 0..N
    BY <1>3
  <2>2. bad = {}
    BY <1>9
  <2> QED BY <2>1, <2>2
<1>11. \A f \in D : Body(g[N])[f] = g[N][f]
  <2>1. \A f \in D : rank[f] < N
    BY <1>2, <1>3 DEF N
  <2> QED BY <1>10, <2>1
<1>12. g[N] \in Texts
  BY <1>3
<1>13. Body(g[N]) = g[N]
  BY <1>11, <1>12 DEF Texts, Body
<1> QED BY <1>12, <1>13 DEF Texts, Body

\* Whatever is a text has lines of the files.
LEMMA TextHasLines ==
  ASSUME NEW t \in Theories, NEW text,
         text = [f \in DOMAIN t |-> FlattenSeq(Placed(t, text, f))]
  PROVE  text \in [DOMAIN t -> Seq(AllLines(t))]
<1> DEFINE D == DOMAIN t
           S == Seq(AllLines(t))
           mended == [f \in D |-> IF text[f] \in S THEN text[f] ELSE <<>>]
<1>1. PICK rank \in [D -> 0..Cardinality(D)] : Ranks(t, rank)
  BY NoCircleAssumption
<1>2. mended \in [D -> Seq(AllLines(t))]
  OBVIOUS
<1>3. \A f \in D : text[f] \in S => mended[f] = text[f]
  OBVIOUS
<1>4. \A f \in D : FlattenSeq(Placed(t, mended, f)) \in S
  <2> HIDE DEF mended
  <2> QED BY <1>2, PlacedIs
<1> HIDE DEF mended, S
<1> DEFINE bad == {rank[f] : f \in {h \in D : text[h] \notin S}}
<1>5. ASSUME bad # {} PROVE FALSE
  <2>1. PICK m \in bad : \A y \in bad : m <= y
    <3>1. bad \in SUBSET Nat
      <4>1. \A f \in D : rank[f] \in Nat
        BY <1>1
      <4> QED BY <4>1
    <3> HIDE DEF bad
    <3> QED BY <1>5, <3>1, LeastNat
  <2>2. PICK f \in D : text[f] \notin S /\ m = rank[f]
    BY <2>1
  <2>3. ASSUME NEW i \in DOMAIN t[f], IsRead(t, t[f][i])
        PROVE  text[t[f][i].file] = mended[t[f][i].file]
    <3> DEFINE h == t[f][i].file
    <3>1. h \in D /\ rank[h] < rank[f]
      BY <1>1, <2>3 DEF IsRead, Ranks
    <3>2. ~(rank[f] <= rank[h])
      <4>1. rank[h] \in Int /\ rank[f] \in Int
        BY <1>1, <3>1
      <4> QED BY <3>1, <4>1
    <3>3. text[h] \in S
      BY <2>1, <2>2, <3>1, <3>2
    <3> QED BY <1>3, <3>1, <3>3
  <2>4. Placed(t, text, f) = Placed(t, mended, f)
    BY <2>3, PlacedSame
  <2>5. text[f] = FlattenSeq(Placed(t, text, f))
    OBVIOUS
  <2> QED BY <1>4, <2>2, <2>4, <2>5
<1>6. \A f \in D : text[f] \in S
  BY <1>5
<1> QED BY <1>6 DEF S

\* Text(t) is the text that there is.
LEMMA TextIs ==
  ASSUME NEW t \in Theories
  PROVE  /\ Text(t) \in [DOMAIN t -> Seq(AllLines(t))]
         /\ \A f \in DOMAIN t : Text(t)[f] = FlattenSeq(Placed(t, Text(t), f))
<1> DEFINE Solves(text) == text = [f \in DOMAIN t |-> FlattenSeq(Placed(t, text, f))]
<1>1. Text(t) = CHOOSE text : Solves(text)
  BY DEF Text, Placed
<1>2. \E text : Solves(text)
  BY TextExists
<1>3. Solves(Text(t))
  BY <1>1, <1>2
<1>4. \A f \in DOMAIN t : Text(t)[f] = FlattenSeq(Placed(t, Text(t), f))
  BY <1>3
<1>5. Text(t) \in [DOMAIN t -> Seq(AllLines(t))]
  BY <1>3, TextHasLines
<1> QED BY <1>4, <1>5

(***************************************************************************)
(* Definitions that are what a text gives, with splitters that unblock.    *)
(***************************************************************************)
Lawful(t, ds, text) ==
  /\ DOMAIN ds = Fields \cup {"case_splitters"}
  /\ Reads(ds, text)
  /\ \A s \in ds.case_splitters : Unblocks(t, ds, s)

\* Definitions are kept in sequences.
LEMMA ReadsSequences ==
  ASSUME NEW t \in Theories, NEW text \in Seq(AllLines(t)), NEW ds, Reads(ds, text),
         NEW field \in Fields
  PROVE  /\ ds[field] \in Seq(Defined(t))
         /\ DOMAIN ds[field] = 1..Len(ds[field])
         /\ \A x : Contains(ds[field], x) <=> x \in ToSet(ds[field])
<1>1. ds[field] \in Seq(Defined(t))
  BY AllIs, FirstsIs DEF Reads
<1>2. DOMAIN ds[field] = 1..Len(ds[field])
  BY <1>1, LenProperties
<1> QED BY <1>1, <1>2 DEF Contains, ToSet

\* What is defined, some file declares.
LEMMA ReadsDeclared ==
  ASSUME NEW t \in Theories, NEW text \in Seq(AllLines(t)), NEW ds, Reads(ds, text)
  PROVE  /\ \A f \in ToSet(ds.functions) : f \in Declared(t, "declare-fun", f.name)
         /\ \A d \in ToSet(ds.datatypes) : d \in Declared(t, "datatype", d.name)
         /\ \A c \in ToSet(ds.conjectures) : \E l \in AllLines(t) : l.op = "prove" /\ c = l.def
<1>1. ASSUME NEW field \in Fields, NEW x \in ToSet(ds[field])
      PROVE  \E l \in AllLines(t) : x \in ToSet(DefinitionsOf(l)[field])
  <2> DEFINE all == All(field, text)
  <2>1. all \in Seq(Defined(t))
        /\ ToSet(all) = UNION {ToSet(DefinitionsOf(l)[field]) : l \in ToSet(text)}
    BY AllIs
  <2>2. ds[field] = Firsts(field, all)
    BY DEF Reads
  <2> HIDE DEF all
  <2>3. ToSet(Firsts(field, all)) \subseteq ToSet(all)
    BY <2>1, FirstsIs
  <2>4. \A l \in ToSet(text) : l \in AllLines(t)
    BY ElementAt DEF ToSet
  <2> QED BY <1>1, <2>1, <2>2, <2>3, <2>4
<1>2. ASSUME NEW l \in AllLines(t)
      PROVE  /\ \A x \in ToSet(DefinitionsOf(l).functions) : l.op = "declare-fun" /\ x = l.def
             /\ \A x \in ToSet(DefinitionsOf(l).datatypes) : l.op = "datatype" /\ x = l.def
             /\ \A x \in ToSet(DefinitionsOf(l).conjectures) : l.op = "prove" /\ x = l.def
  <2>1. \A x : x \notin ToSet(<<>>)
    BY DEF ToSet
  <2>2. \A x, y : x \in ToSet(<<y>>) => x = y
    BY DEF ToSet
  <2>3. /\ DefinitionsOf(l).functions = IF l.op = "declare-fun" THEN <<l.def>> ELSE <<>>
        /\ DefinitionsOf(l).datatypes = IF l.op = "datatype" THEN <<l.def>> ELSE <<>>
        /\ DefinitionsOf(l).conjectures = IF l.op = "prove" THEN <<l.def>> ELSE <<>>
    <3>1. CASE l.op = "datatype"
      BY <3>1 DEF DefinitionsOf, NoDefinitions, IsRule
    <3>2. CASE l.op = "declare-fun"
      BY <3>2 DEF DefinitionsOf, NoDefinitions, IsRule
    <3>3. CASE l.op = "prove"
      BY <3>3 DEF DefinitionsOf, NoDefinitions, IsRule
    <3>4. CASE IsRule(l)
      BY <3>4 DEF DefinitionsOf, NoDefinitions, IsRule
    <3>5. CASE l.op \notin {"datatype", "declare-fun", "prove"} /\ ~IsRule(l)
      BY <3>5 DEF DefinitionsOf, NoDefinitions
    <3> QED BY <3>1, <3>2, <3>3, <3>4, <3>5
  <2> QED BY <2>1, <2>2, <2>3
<1>3. "functions" \in Fields /\ "datatypes" \in Fields /\ "conjectures" \in Fields
  BY DEF Fields
<1>4. ASSUME NEW f \in ToSet(ds.functions) PROVE f \in Declared(t, "declare-fun", f.name)
  <2>1. PICK l \in AllLines(t) : f \in ToSet(DefinitionsOf(l).functions)
    BY <1>1, <1>3
  <2>2. l.op = "declare-fun" /\ f = l.def
    BY <1>2, <2>1
  <2> QED BY <2>2 DEF Declared
<1>5. ASSUME NEW d \in ToSet(ds.datatypes) PROVE d \in Declared(t, "datatype", d.name)
  <2>1. PICK l \in AllLines(t) : d \in ToSet(DefinitionsOf(l).datatypes)
    BY <1>1, <1>3
  <2>2. l.op = "datatype" /\ d = l.def
    BY <1>2, <2>1
  <2> QED BY <2>2 DEF Declared
<1>6. ASSUME NEW c \in ToSet(ds.conjectures)
      PROVE  \E l \in AllLines(t) : l.op = "prove" /\ c = l.def
  <2>1. PICK l \in AllLines(t) : c \in ToSet(DefinitionsOf(l).conjectures)
    BY <1>1, <1>3
  <2> QED BY <1>2, <2>1
<1> QED BY <1>4, <1>5, <1>6

\* After merging there is one of each key.
LEMMA MergeHas ==
  ASSUME NEW t \in Theories, NEW s \in Seq(AllLines(t)), NEW u \in Seq(AllLines(t)),
         NEW a, NEW b, Reads(a, s), Reads(b, u), NEW field \in Fields
  PROVE  /\ ToSet(a[field]) \subseteq ToSet(Merge(a, b)[field])
         /\ \A y \in ToSet(b[field]) :
              \E z \in ToSet(Merge(a, b)[field]) : Key(field, z) = Key(field, y)
<1> DEFINE x == a[field]
           y == Fresh(field, KeysOf(field, x), b[field])
           S == Defined(t)
<1>1. x \in Seq(S) /\ b[field] \in Seq(S)
  BY ReadsSequences
<1>2. DOMAIN a[field] = 1..Len(a[field])
  BY ReadsSequences
<1>3. Merge(a, b)[field] = x \o y
  BY <1>2, MergeIs
<1> HIDE DEF x, S
<1>4. /\ y \in Seq(S)
      /\ ToSet(y) = {z \in ToSet(b[field]) : Key(field, z) \notin KeysOf(field, x)}
  BY <1>1, FreshIs
<1> HIDE DEF y
<1>5. ToSet(x) \cup ToSet(y) \subseteq ToSet(x \o y)
  <2>1. /\ DOMAIN x = 1..Len(x) /\ DOMAIN y = 1..Len(y) /\ Len(x) \in Nat /\ Len(y) \in Nat
        /\ DOMAIN (x \o y) = 1..(Len(x) + Len(y))
    BY <1>1, <1>4, ConcatProperties, LenProperties
  <2>2. /\ \A i \in 1..Len(x) : (x \o y)[i] = x[i]
        /\ \A i \in 1..Len(y) : (x \o y)[Len(x) + i] = y[i]
    BY <1>1, <1>4, ConcatProperties
  <2>3. \A i \in 1..Len(x) : i \in 1..(Len(x) + Len(y))
    BY <2>1
  <2>4. \A i \in 1..Len(y) : Len(x) + i \in 1..(Len(x) + Len(y))
    BY <2>1
  <2> QED BY <2>1, <2>2, <2>3, <2>4 DEF ToSet
<1>6. KeysOf(field, x) = {Key(field, z) : z \in ToSet(x)}
  BY DEF KeysOf, ToSet
<1>7. ASSUME NEW w \in ToSet(b[field])
      PROVE  \E z \in ToSet(x \o y) : Key(field, z) = Key(field, w)
  <2>1. CASE Key(field, w) \in KeysOf(field, x)
    BY <1>5, <1>6, <2>1
  <2>2. CASE Key(field, w) \notin KeysOf(field, x)
    BY <1>4, <1>5, <2>2
  <2> QED BY <2>1, <2>2
<1> QED BY <1>3, <1>5, <1>7 DEF x

\* A splitter that unblocks its function does so in what is merged, too.
LEMMA MergeUnblocks ==
  ASSUME NEW t \in Theories, NEW s \in Seq(AllLines(t)), NEW u \in Seq(AllLines(t)),
         NEW a, NEW b, Reads(a, s), Reads(b, u),
         NEW x, Unblocks(t, a, x) \/ Unblocks(t, b, x)
  PROVE  Unblocks(t, Merge(a, b), x)
<1> DEFINE c == Merge(a, b)
<1>1. s \o u \in Seq(AllLines(t)) /\ Reads(c, s \o u)
  BY MergeReads, ConcatProperties
<1>2. "functions" \in Fields /\ "datatypes" \in Fields
  BY DEF Fields
<1>3. PICK o \in {a, b} : Unblocks(t, o, x)
  OBVIOUS
<1>4. \E text \in Seq(AllLines(t)) : Reads(o, text)
  BY <1>3
<1>5. /\ \A f \in ToSet(o.functions) : f \in Declared(t, "declare-fun", f.name)
      /\ \A d \in ToSet(o.datatypes) : d \in Declared(t, "datatype", d.name)
      /\ \A d : Contains(o.datatypes, d) <=> d \in ToSet(o.datatypes)
  BY <1>2, <1>4, ReadsDeclared, ReadsSequences
<1>6. /\ \A f \in ToSet(c.functions) : f \in Declared(t, "declare-fun", f.name)
      /\ \A d \in ToSet(c.datatypes) : d \in Declared(t, "datatype", d.name)
      /\ \A d : Contains(c.datatypes, d) <=> d \in ToSet(c.datatypes)
  <2> HIDE DEF c
  <2> QED BY <1>1, <1>2, ReadsDeclared, ReadsSequences
<1>7. /\ \A f \in ToSet(o.functions) : \E g \in ToSet(c.functions) : g.name = f.name
      /\ \A d \in ToSet(o.datatypes) : \E e \in ToSet(c.datatypes) : e.name = d.name
  <2>1. ASSUME NEW field \in Fields, NEW y \in ToSet(o[field])
        PROVE  \E z \in ToSet(c[field]) : Key(field, z) = Key(field, y)
    BY <1>3, <2>1, MergeHas
  <2>2. \A y : Key("functions", y) = y.name /\ Key("datatypes", y) = y.name
    BY DEF Key
  <2> HIDE DEF c
  <2> QED BY <1>2, <2>1, <2>2
<1> HIDE DEF c
<1>8. PICK f \in ToSet(o.functions) :
        /\ f.name = x.op
        /\ Agreed(t, "declare-fun", f.name) /\ Agreed(t, "datatype", f.params[x.root]) =>
             \A d \in Declared(t, "datatype", f.params[x.root]) :
               /\ Contains(o.datatypes, d) /\ x.cases = d.constructors
               /\ \A k \in d.constructors :
                    \E p \in AllPats(t) : p.op = x.op /\ p.args[x.root] = k
  BY <1>3 DEF Unblocks
<1>9. PICK g \in ToSet(c.functions) : g.name = f.name
  BY <1>7
<1>10. ASSUME Agreed(t, "declare-fun", g.name), Agreed(t, "datatype", g.params[x.root]),
              NEW d \in Declared(t, "datatype", g.params[x.root])
       PROVE  /\ Contains(c.datatypes, d) /\ x.cases = d.constructors
              /\ \A k \in d.constructors :
                   \E p \in AllPats(t) : p.op = x.op /\ p.args[x.root] = k
  <2>1. f = g
    BY <1>5, <1>6, <1>9, <1>10 DEF Agreed
  <2>2. /\ Contains(o.datatypes, d) /\ x.cases = d.constructors
        /\ \A k \in d.constructors :
             \E p \in AllPats(t) : p.op = x.op /\ p.args[x.root] = k
    BY <1>8, <1>10, <2>1
  <2>3. PICK e \in ToSet(c.datatypes) : e.name = d.name
    BY <1>5, <1>7, <2>2
  <2>4. d.name = g.params[x.root]
    BY <1>10 DEF Declared
  <2>5. e = d
    BY <1>6, <1>10, <2>3, <2>4 DEF Agreed
  <2> QED BY <1>6, <2>2, <2>3, <2>5
<1>11. Unblocks(t, c, x)
  BY <1>8, <1>9, <1>10 DEF Unblocks
<1> QED BY <1>11 DEF c

\* What is merged is lawful again.
LEMMA MergeLawful ==
  ASSUME NEW t \in Theories, NEW s \in Seq(AllLines(t)), NEW u \in Seq(AllLines(t)),
         NEW a, NEW b, Lawful(t, a, s), Lawful(t, b, u)
  PROVE  Lawful(t, Merge(a, b), s \o u)
<1>1. Reads(a, s) /\ Reads(b, u)
  BY DEF Lawful
<1>2. Reads(Merge(a, b), s \o u)
  BY <1>1, MergeReads
<1>3. DOMAIN Merge(a, b) = Fields \cup {"case_splitters"}
  BY DEF Merge, Fields
<1>4. ASSUME NEW x \in Merge(a, b).case_splitters PROVE Unblocks(t, Merge(a, b), x)
  <2>1. x \in a.case_splitters \/ x \in b.case_splitters
    BY DEF Merge
  <2>2. Unblocks(t, a, x) \/ Unblocks(t, b, x)
    BY <2>1 DEF Lawful
  <2> QED BY <1>1, <2>2, MergeUnblocks
<1> QED BY <1>2, <1>3, <1>4 DEF Lawful

\* No definitions are those of no lines.
LEMMA NothingLawful == ASSUME NEW t PROVE Lawful(t, NoDefinitions, <<>>)
<1>1. DOMAIN NoDefinitions = Fields \cup {"case_splitters"} /\ NoDefinitions.case_splitters = {}
  BY DEF NoDefinitions, Fields
<1> QED BY <1>1, NothingReads DEF Lawful

\* The definitions of a line have no splitters.
LEMMA LineLawful ==
  ASSUME NEW t \in Theories, NEW l \in AllLines(t)
  PROVE  Lawful(t, DefinitionsOf(l), <<l>>)
<1>1. DOMAIN DefinitionsOf(l) = Fields \cup {"case_splitters"} /\ DefinitionsOf(l).case_splitters = {}
  <2>1. CASE l.op = "datatype"
    BY <2>1 DEF DefinitionsOf, NoDefinitions, IsRule, Fields
  <2>2. CASE l.op = "declare-fun"
    BY <2>2 DEF DefinitionsOf, NoDefinitions, IsRule, Fields
  <2>3. CASE l.op = "prove"
    BY <2>3 DEF DefinitionsOf, NoDefinitions, IsRule, Fields
  <2>4. CASE IsRule(l)
    BY <2>4 DEF DefinitionsOf, NoDefinitions, IsRule, Fields
  <2>5. CASE l.op \notin {"datatype", "declare-fun", "prove"} /\ ~IsRule(l)
    BY <2>5 DEF DefinitionsOf, NoDefinitions, Fields
  <2> QED BY <2>1, <2>2, <2>3, <2>4, <2>5
<1> QED BY <1>1, LineReads DEF Lawful

\* The splitters that are computed at the end of a file unblock.
LEMMA SplittersAre ==
  ASSUME NEW t \in Theories, NEW text \in Seq(AllLines(t)), NEW ds, Reads(ds, text),
         NEW pats, ToSet(pats) \subseteq AllPats(t), NEW s \in SplittersOf(ds, pats)
  PROVE  Unblocks(t, ds, s)
<1>f. PICK f \in ToSet(ds.functions) :
        s \in UNION {UNION {IF PatsFor(f, pats) # {} /\ Relevant(f, i, d, pats)
                            THEN SplittersBy(f, i, d, pats) ELSE {} :
                              d \in ToSet(ds.datatypes)} : i \in DOMAIN f.params}
  BY DEF SplittersOf
<1>i. PICK i \in DOMAIN f.params :
        s \in UNION {IF PatsFor(f, pats) # {} /\ Relevant(f, i, d, pats)
                     THEN SplittersBy(f, i, d, pats) ELSE {} : d \in ToSet(ds.datatypes)}
  BY <1>f
<1>d. PICK d \in ToSet(ds.datatypes) :
        s \in IF PatsFor(f, pats) # {} /\ Relevant(f, i, d, pats)
              THEN SplittersBy(f, i, d, pats) ELSE {}
  BY <1>i
<1>1. Relevant(f, i, d, pats) /\ s \in SplittersBy(f, i, d, pats)
  BY <1>d
<1>2. s.op = f.name /\ s.root = i /\ s.cases = d.constructors
  <2>1. \E c : s = [op |-> f.name, args |-> c, root |-> i, cases |-> d.constructors]
    BY <1>1 DEF SplittersBy
  <2> QED BY <2>1
<1>3. d \in Declared(t, "datatype", d.name)
  BY ReadsDeclared
<1>4. Contains(ds.datatypes, d)
  BY ReadsSequences DEF Fields
<1>5. d.name = f.params[i]
      /\ \A c \in d.constructors : \E p \in AllPats(t) : p.op = f.name /\ p.args[i] = c
  BY <1>1 DEF Relevant, PatsFor
<1>6. ASSUME Agreed(t, "datatype", f.params[s.root]),
             NEW e \in Declared(t, "datatype", f.params[s.root])
      PROVE  /\ Contains(ds.datatypes, e) /\ s.cases = e.constructors
             /\ \A c \in e.constructors :
                  \E p \in AllPats(t) : p.op = s.op /\ p.args[s.root] = c
  <2>1. e = d
    BY <1>2, <1>3, <1>5, <1>6 DEF Agreed
  <2> QED BY <1>2, <1>4, <1>5, <2>1
<1> QED BY <1>2, <1>6 DEF Unblocks

(***************************************************************************)
(* A file that is being read.                                              *)
(***************************************************************************)
\* The text of the lines that have been read.
UpTo(t, fr) ==
  FlattenSeq([i \in 1..(fr.next - 1) |-> InPlace(t, Text(t), t[fr.file][i])])

FrameOK(t, fr) ==
  /\ DOMAIN fr = {"file", "next", "defs", "pats"}
  /\ fr.file \in DOMAIN t
  /\ fr.next \in 1..(Len(t[fr.file]) + 1)
  /\ \A i \in 1..(fr.next - 1) : ~Conditional(t[fr.file][i])
  /\ Lawful(t, fr.defs, UpTo(t, fr))
  /\ fr.pats \in Seq(AllPats(t))

\* A file that no line of has been read.
LEMMA StartOK ==
  ASSUME NEW t \in Theories, NEW file \in DOMAIN t
  PROVE  FrameOK(t, Frame(file))
<1> DEFINE fr == Frame(file)
<1>1. /\ DOMAIN fr = {"file", "next", "defs", "pats"}
      /\ fr.file = file /\ fr.next = 1 /\ fr.defs = NoDefinitions /\ fr.pats = <<>>
  BY DEF Frame
<1> HIDE DEF fr
<1>2. Len(t[file]) \in Nat
  BY LinesAre
<1>3. fr.next \in 1..(Len(t[fr.file]) + 1) /\ fr.next - 1 = 0
  BY <1>1, <1>2
<1>4. UpTo(t, fr) = <<>>
  <2>1. [i \in 1..(fr.next - 1) |-> InPlace(t, Text(t), t[fr.file][i])] = <<>>
    BY <1>3
  <2> QED BY <2>1, EmptySeq DEF UpTo, FlattenSeq
<1>5. Lawful(t, fr.defs, UpTo(t, fr))
  BY <1>1, <1>4, NothingLawful
<1>6. \A i : i \notin 1..(fr.next - 1)
  BY <1>3
<1>7. fr.pats \in Seq(AllPats(t))
  BY <1>1
<1> QED BY <1>1, <1>3, <1>5, <1>6, <1>7 DEF FrameOK, fr

\* One more line is read.
LEMMA UpToNext ==
  ASSUME NEW t \in Theories, NEW f \in DOMAIN t, NEW n \in 1..Len(t[f]),
         NEW a, a.file = f, a.next = n, NEW b, b.file = f, b.next = n + 1
  PROVE  /\ UpTo(t, a) \in Seq(AllLines(t))
         /\ InPlace(t, Text(t), t[f][n]) \in Seq(AllLines(t))
         /\ UpTo(t, b) = UpTo(t, a) \o InPlace(t, Text(t), t[f][n])
<1> DEFINE S == Seq(AllLines(t))
           P(i) == InPlace(t, Text(t), t[f][i])
           m == n - 1
           x == [i \in 1..m |-> P(i)]
           y == [i \in 1..n |-> P(i)]
<1>1. m \in Nat /\ n \in Nat /\ n = m + 1 /\ \A i \in 1..n : t[f][i] \in AllLines(t)
  BY LinesAre
<1>2. \A i \in 1..n : P(i) \in S
  BY <1>1, TextIs, InPlaceIs
<1>3. UpTo(t, a) = FlattenSeq(x) /\ UpTo(t, b) = FlattenSeq(y)
  BY DEF UpTo
<1> HIDE DEF P, S, m
<1>4. /\ x \in Seq(S) /\ Len(x) = m /\ \A i \in 1..m : x[i] = P(i)
      /\ y \in Seq(S) /\ Len(y) = n /\ \A i \in 1..n : y[i] = P(i)
      /\ <<P(n)>> \in Seq(S)
  BY <1>1, <1>2
<1> HIDE DEF x, y
<1>5. y = x \o <<P(n)>>
  <2>1. /\ x \o <<P(n)>> \in Seq(S) /\ Len(x \o <<P(n)>>) = Len(x) + 1
        /\ (x \o <<P(n)>>)[Len(x) + 1] = P(n)
        /\ \A i \in 1..Len(x) : (x \o <<P(n)>>)[i] = x[i]
    <3>1. P(n) \in S
      BY <1>1, <1>2
    <3> QED BY <1>4, <3>1, OneMoreIs
  <2>2. \A i \in 1..Len(y) : y[i] = (x \o <<P(n)>>)[i]
    <3>1. \A i \in 1..n : i \in 1..m \/ i = m + 1
      BY <1>1
    <3> QED BY <1>1, <1>4, <2>1, <3>1
  <2> QED BY <1>1, <1>4, <2>1, <2>2, SeqEqual
<1>6. FlattenSeq(x \o <<P(n)>>) = FlattenSeq(x) \o FlattenSeq(<<P(n)>>)
  BY <1>4, FlattenConcat DEF S
<1>7. P(n) \in S /\ FlattenSeq(<<P(n)>>) = P(n)
  BY <1>1, <1>2, FlattenOne DEF S
<1>8. FlattenSeq(x) \in S
  BY <1>4, FlattenIs DEF S
<1> QED BY <1>3, <1>5, <1>6, <1>7, <1>8 DEF P, S

\* A line that is not an error has been read, with what stands in its place.
LEMMA AfterOK ==
  ASSUME NEW t \in Theories, NEW fr, FrameOK(t, fr), fr.next <= Len(t[fr.file]),
         ~Conditional(t[fr.file][fr.next]),
         NEW ds, Lawful(t, ds, InPlace(t, Text(t), t[fr.file][fr.next])),
         NEW ps \in Seq(AllPats(t))
  PROVE  FrameOK(t, After(fr, ds, ps)) /\ After(fr, ds, ps).file = fr.file
<1> DEFINE new == After(fr, ds, ps)
           f == fr.file
           n == fr.next
<1>1. /\ DOMAIN new = {"file", "next", "defs", "pats"}
      /\ new.file = f /\ new.next = n + 1
      /\ new.defs = Merge(fr.defs, ds) /\ new.pats = fr.pats \o ps
  BY DEF After, FrameOK
<1> HIDE DEF new
<1>2. f \in DOMAIN t /\ Len(t[f]) \in Nat /\ n \in 1..Len(t[f])
  <2>1. f \in DOMAIN t /\ n \in 1..(Len(t[f]) + 1) /\ n <= Len(t[f])
    BY DEF FrameOK
  <2>2. Len(t[f]) \in Nat
    BY <2>1, LinesAre
  <2> QED BY <2>1, <2>2
<1>3. /\ UpTo(t, fr) \in Seq(AllLines(t))
      /\ InPlace(t, Text(t), t[f][n]) \in Seq(AllLines(t))
      /\ UpTo(t, new) = UpTo(t, fr) \o InPlace(t, Text(t), t[f][n])
  <2>1. fr.file = f /\ fr.next = n /\ new.file = f /\ new.next = n + 1
    BY <1>1
  <2> HIDE DEF f, n
  <2> QED BY <1>2, <2>1, UpToNext, SMTT(30)
<1>4. Lawful(t, new.defs, UpTo(t, new))
  <2>1. Lawful(t, fr.defs, UpTo(t, fr))
    BY DEF FrameOK
  <2> QED BY <1>1, <1>3, <2>1, MergeLawful
<1>5. n + 1 \in 1..(Len(t[f]) + 1) /\ \A i \in 1..n : i \in 1..(n - 1) \/ i = n
  BY <1>2
<1>6. \A i \in 1..n : ~Conditional(t[f][i])
  BY <1>5 DEF FrameOK
<1>7. (n + 1) - 1 = n
  BY <1>2
<1>8. new.pats \in Seq(AllPats(t))
  <2>1. fr.pats \in Seq(AllPats(t))
    BY DEF FrameOK
  <2> QED BY <1>1, <2>1, ConcatProperties
<1> QED BY <1>1, <1>2, <1>4, <1>5, <1>6, <1>7, <1>8 DEF FrameOK, new

\* At its end a file is no error, and gives what its text does.
LEMMA EndOK ==
  ASSUME NEW t \in Theories, NEW fr, FrameOK(t, fr), fr.next > Len(t[fr.file])
  PROVE  /\ ~IsError(t, fr.file)
         /\ Lawful(t, [fr.defs EXCEPT !.case_splitters = @ \cup SplittersOf(fr.defs, fr.pats)],
                   Text(t)[fr.file])
         /\ Text(t)[fr.file] \in Seq(AllLines(t))
<1> DEFINE f == fr.file
           new == SplittersOf(fr.defs, fr.pats)
           ds == [fr.defs EXCEPT !.case_splitters = @ \cup new]
<1>1. f \in DOMAIN t /\ Len(t[f]) \in Nat /\ DOMAIN t[f] = 1..Len(t[f]) /\ fr.next - 1 = Len(t[f])
  <2>1. f \in DOMAIN t /\ fr.next \in 1..(Len(t[f]) + 1)
    BY DEF FrameOK
  <2>2. Len(t[f]) \in Nat /\ DOMAIN t[f] = 1..Len(t[f])
    BY <2>1, LinesAre
  <2> QED BY <2>1, <2>2
<1>2. ~IsError(t, f)
  BY <1>1 DEF FrameOK, IsError
<1>3. UpTo(t, fr) = Text(t)[f] /\ Text(t)[f] \in Seq(AllLines(t))
  BY <1>1, TextIs DEF UpTo, Placed
<1>4. Lawful(t, fr.defs, Text(t)[f])
  BY <1>3 DEF FrameOK
<1> HIDE DEF new
<1>5. /\ DOMAIN ds = DOMAIN fr.defs
      /\ ds.functions = fr.defs.functions /\ ds.datatypes = fr.defs.datatypes
      /\ \A field \in Fields : ds[field] = fr.defs[field]
      /\ ds.case_splitters = fr.defs.case_splitters \cup new
  BY <1>4 DEF Lawful, Fields
<1> HIDE DEF ds
<1>6. Reads(ds, Text(t)[f])
  BY <1>4, <1>5 DEF Lawful, Reads
<1>7. ASSUME NEW s \in ds.case_splitters PROVE Unblocks(t, ds, s)
  <2>1. Unblocks(t, fr.defs, s)
    <3>1. CASE s \in fr.defs.case_splitters
      BY <1>4, <3>1 DEF Lawful
    <3>2. CASE s \in new
      <4>1. ToSet(fr.pats) \subseteq AllPats(t)
        <5>1. fr.pats \in Seq(AllPats(t))
          BY DEF FrameOK
        <5> QED BY <5>1, ElementAt DEF ToSet
      <4>2. Reads(fr.defs, Text(t)[f])
        BY <1>4 DEF Lawful
      <4> QED BY <1>3, <3>2, <4>1, <4>2, SplittersAre DEF new
    <3> QED BY <1>5, <3>1, <3>2
  <2> QED BY <1>5, <2>1 DEF Unblocks
<1>8. Lawful(t, ds, Text(t)[f])
  BY <1>4, <1>5, <1>6, <1>7 DEF Lawful
<1> QED BY <1>2, <1>3, <1>8 DEF ds, new

(***************************************************************************)
(* The files that are being read.                                          *)
(***************************************************************************)
\* The frame stands at a line that includes the file.
Stands(t, fr, file) ==
  /\ fr.next <= Len(t[fr.file])
  /\ t[fr.file][fr.next].op = "include" /\ t[fr.file][fr.next].file = file

\* The files that include others have a higher rank than these.
Descends(t, st) ==
  \A rank \in [DOMAIN t -> 0..Cardinality(DOMAIN t)] : Ranks(t, rank) =>
    \A j, k \in 1..Len(st) : j < k => rank[st[k].file] < rank[st[j].file]

StackOK(t, st) ==
  /\ st \in Seq(ToSet(st))
  /\ \A k \in 1..Len(st) : FrameOK(t, st[k])
  /\ \A k \in 2..Len(st) : Stands(t, st[k - 1], st[k].file)
  /\ st # <<>> => st[1].file = Main
  /\ Descends(t, st)

\* A sequence is one of its own elements.
LEMMA OwnSet ==
  ASSUME NEW S, NEW s \in Seq(S)
  PROVE  s \in Seq(ToSet(s))
<1>1. \A i \in 1..Len(s) : s[i] \in ToSet(s)
  BY LenProperties DEF ToSet
<1> QED BY <1>1, ElementsInSeq

\* The frame on top is replaced.
LEMMA PutOK ==
  ASSUME NEW t \in Theories, NEW st, StackOK(t, st), st # <<>>,
         NEW fr, FrameOK(t, fr), fr.file = Last(st).file
  PROVE  /\ StackOK(t, Append(Front(st), fr))
         /\ Append(Front(st), fr) # <<>>
<1> DEFINE S == ToSet(st) \cup {fr}
           n == Len(st)
           new == Append(Front(st), fr)
<1>1. st \in Seq(S)
  <2>1. st \in Seq(ToSet(st))
    BY DEF StackOK
  <2>2. \A i \in 1..Len(st) : st[i] \in S
    BY <2>1, ElementAt
  <2> HIDE DEF S
  <2> QED BY <2>1, <2>2, ElementsInSeq
<1>2. fr \in S
  OBVIOUS
<1> HIDE DEF S
<1>3. n \in Nat /\ n # 0
  BY <1>1, EmptySeq, LenProperties
<1>4. /\ Front(st) \in Seq(S) /\ Len(Front(st)) = n - 1 /\ Last(st) = st[n]
      /\ \A i \in 1..(n - 1) : Front(st)[i] = st[i]
  BY <1>1, FrontLastProperties
<1>5. /\ new \in Seq(S) /\ Len(new) = n /\ new[n] = fr
      /\ \A i \in 1..(n - 1) : new[i] = st[i]
  <2>1. /\ new \in Seq(S) /\ Len(new) = Len(Front(st)) + 1
        /\ new[Len(Front(st)) + 1] = fr
        /\ \A i \in 1..Len(Front(st)) : new[i] = Front(st)[i]
    BY <1>2, <1>4, AppendProperties
  <2> QED BY <1>3, <1>4, <2>1
<1> HIDE DEF new
<1>6. \A i \in 1..n : i = n \/ i \in 1..(n - 1)
  BY <1>3
<1>7. \A i \in 1..n : new[i].file = st[i].file /\ FrameOK(t, new[i])
  BY <1>4, <1>5, <1>6 DEF StackOK
<1>8. ASSUME NEW k \in 2..n PROVE Stands(t, new[k - 1], new[k].file)
  <2>1. k \in 1..n /\ k - 1 \in 1..(n - 1)
    BY <1>3
  <2>2. Stands(t, st[k - 1], st[k].file)
    BY DEF StackOK
  <2> QED BY <1>5, <1>7, <2>1, <2>2
<1>9. Descends(t, new)
  <2>1. Descends(t, st)
    BY DEF StackOK
  <2> QED BY <1>5, <1>7, <2>1 DEF Descends
<1>10. new # <<>> /\ new[1].file = Main
  <2>1. 1 \in 1..n
    BY <1>3
  <2>2. st[1].file = Main
    BY DEF StackOK
  <2> QED BY <1>3, <1>5, <1>7, <2>1, <2>2, EmptySeq
<1>11. new \in Seq(ToSet(new))
  BY <1>5, OwnSet
<1> QED BY <1>5, <1>7, <1>8, <1>9, <1>10, <1>11 DEF StackOK, new

\* The frame on top is removed.
LEMMA PopOK ==
  ASSUME NEW t \in Theories, NEW st, StackOK(t, st), st # <<>>
  PROVE  /\ StackOK(t, Front(st))
         /\ Front(st) = <<>> => Last(st).file = Main
         /\ Front(st) # <<>> =>
              Stands(t, Last(Front(st)), Last(st).file) /\ FrameOK(t, Last(Front(st)))
         /\ FrameOK(t, Last(st))
<1> DEFINE S == ToSet(st)
           n == Len(st)
           new == Front(st)
<1>1. st \in Seq(S)
  BY DEF StackOK
<1> HIDE DEF S
<1>2. n \in Nat /\ n # 0
  BY <1>1, EmptySeq, LenProperties
<1>3. /\ new \in Seq(S) /\ Len(new) = n - 1 /\ Last(st) = st[n]
      /\ \A i \in 1..(n - 1) : new[i] = st[i]
  BY <1>1, FrontLastProperties
<1> HIDE DEF new
<1>4. \A i \in 1..(n - 1) : i \in 1..n
  BY <1>2
<1>5. n \in 1..n /\ FrameOK(t, st[n])
  BY <1>2 DEF StackOK
<1>6. \A i \in 1..(n - 1) : FrameOK(t, new[i])
  BY <1>3, <1>4 DEF StackOK
<1>7. ASSUME NEW k \in 2..(n - 1) PROVE Stands(t, new[k - 1], new[k].file)
  <2>1. k \in 2..n /\ k \in 1..(n - 1) /\ k - 1 \in 1..(n - 1)
    BY <1>2
  <2>2. Stands(t, st[k - 1], st[k].file)
    BY <2>1 DEF StackOK
  <2> QED BY <1>3, <2>1, <2>2
<1>8. Descends(t, new)
  <2>1. Descends(t, st)
    BY DEF StackOK
  <2> QED BY <1>3, <1>4, <2>1 DEF Descends
<1>9. st[1].file = Main
  BY DEF StackOK
<1>10. CASE new = <<>>
  <2>1. n = 1
    BY <1>2, <1>3, <1>10, EmptySeq
  <2>2. \A k : k \notin 1..(n - 1) /\ k \notin 2..(n - 1)
    BY <2>1
  <2>3. new \in Seq(ToSet(new))
    BY <1>3, OwnSet
  <2> QED BY <1>3, <1>5, <1>6, <1>7, <1>8, <1>9, <1>10, <2>1, <2>3 DEF StackOK, new
<1>11. CASE new # <<>>
  <2>1. n - 1 # 0
    BY <1>3, <1>11, EmptySeq
  <2>2. 1 \in 1..(n - 1) /\ n - 1 \in 1..(n - 1) /\ n \in 2..n
    <3> HIDE DEF n
    <3>1. n >= 2
      BY <1>2, <2>1
    <3> QED BY <1>2, <3>1
  <2>3. Last(new) = st[n - 1] /\ FrameOK(t, Last(new))
    <3>1. Last(new) = new[Len(new)]
      BY DEF Last
    <3> QED BY <1>3, <1>6, <2>2, <3>1
  <2>4. Stands(t, Last(new), Last(st).file)
    BY <1>3, <2>2, <2>3 DEF StackOK
  <2>5. new \in Seq(ToSet(new))
    BY <1>3, OwnSet
  <2>6. new[1].file = Main
    BY <1>3, <1>9, <2>2
  <2> QED BY <1>3, <1>5, <1>6, <1>7, <1>8, <1>11, <2>3, <2>4, <2>5, <2>6 DEF StackOK, new
<1> QED BY <1>10, <1>11

\* A frame is added for the file that the one on top includes.
LEMMA PushOK ==
  ASSUME NEW t \in Theories, NEW st, StackOK(t, st), st # <<>>,
         NEW file \in DOMAIN t, Stands(t, Last(st), file)
  PROVE  StackOK(t, Append(st, Frame(file))) /\ Append(st, Frame(file)) # <<>>
<1> DEFINE fr == Frame(file)
           S == ToSet(st) \cup {fr}
           n == Len(st)
           new == Append(st, fr)
<1>1. st \in Seq(S)
  <2>1. st \in Seq(ToSet(st))
    BY DEF StackOK
  <2>2. \A i \in 1..Len(st) : st[i] \in S
    BY <2>1, ElementAt
  <2> HIDE DEF S
  <2> QED BY <2>1, <2>2, ElementsInSeq
<1>2. fr \in S
  OBVIOUS
<1>3. fr.file = file /\ FrameOK(t, fr)
  BY StartOK DEF Frame
<1> HIDE DEF S, fr
<1>4. n \in Nat /\ n # 0 /\ Last(st) = st[n]
  BY <1>1, EmptySeq, LenProperties DEF Last
<1>5. /\ new \in Seq(S) /\ Len(new) = n + 1 /\ new[n + 1] = fr
      /\ \A i \in 1..n : new[i] = st[i]
  BY <1>1, <1>2, AppendProperties
<1> HIDE DEF new
<1>6. \A i \in 1..(n + 1) : i = n + 1 \/ i \in 1..n
  BY <1>4
<1>7. \A i \in 1..(n + 1) : FrameOK(t, new[i])
  BY <1>3, <1>5, <1>6 DEF StackOK
<1>8. ASSUME NEW k \in 2..(n + 1) PROVE Stands(t, new[k - 1], new[k].file)
  <2>1. CASE k = n + 1
    <3>1. k - 1 = n /\ n \in 1..n
      BY <1>4, <2>1
    <3> QED BY <1>3, <1>4, <1>5, <2>1, <3>1
  <2>2. CASE k # n + 1
    <3>1. k \in 2..n /\ k \in 1..n /\ k - 1 \in 1..n
      BY <1>4, <2>2
    <3>2. Stands(t, st[k - 1], st[k].file)
      BY <3>1 DEF StackOK
    <3> QED BY <1>5, <3>1, <3>2
  <2> QED BY <2>1, <2>2
<1>9. Descends(t, new)
  <2> SUFFICES ASSUME NEW rank \in [DOMAIN t -> 0..Cardinality(DOMAIN t)], Ranks(t, rank),
                      NEW j \in 1..(n + 1), NEW k \in 1..(n + 1), j < k
               PROVE  rank[new[k].file] < rank[new[j].file]
    BY <1>5 DEF Descends
  <2>1. \A f \in DOMAIN t : rank[f] \in Int
    OBVIOUS
  <2>2. \A i \in 1..n : st[i].file \in DOMAIN t
    BY DEF StackOK, FrameOK
  <2>3. j \in 1..n /\ n \in 1..n /\ (j # n => j < n)
    BY <1>4
  <2>4. \A i \in 1..n : i < n => rank[st[n].file] < rank[st[i].file]
    BY <2>3 DEF StackOK, Descends
  <2>5. CASE k = n + 1
    <3>1. rank[file] < rank[st[n].file]
      <4> DEFINE f == st[n].file
                 i == st[n].next
      <4>1. f \in DOMAIN t /\ i \in DOMAIN t[f]
        <5>1. f \in DOMAIN t /\ i \in 1..(Len(t[f]) + 1) /\ i <= Len(t[f])
          BY <1>4, <2>3 DEF StackOK, FrameOK, Stands
        <5>2. Len(t[f]) \in Nat /\ DOMAIN t[f] = 1..Len(t[f])
          BY <5>1, LinesAre
        <5> QED BY <5>1, <5>2
      <4>2. t[f][i].op = "include" /\ t[f][i].file = file
        BY <1>4 DEF Stands
      <4> QED BY <4>1, <4>2 DEF Ranks
    <3>2. new[k].file = file /\ new[j] = st[j]
      BY <1>3, <1>5, <2>3, <2>5
    <3>3. rank[file] \in Int /\ rank[st[n].file] \in Int /\ rank[st[j].file] \in Int
      BY <2>1, <2>2, <2>3
    <3>4. j = n \/ rank[st[n].file] < rank[st[j].file]
      BY <2>3, <2>4
    <3> QED BY <3>1, <3>2, <3>3, <3>4
  <2>6. CASE k # n + 1
    <3>1. k \in 1..n
      BY <1>6, <2>6
    <3>2. Descends(t, st)
      BY DEF StackOK
    <3> QED BY <1>5, <2>3, <3>1, <3>2 DEF Descends
  <2> QED BY <2>5, <2>6
<1>10. new # <<>> /\ new[1].file = Main
  <2>1. 1 \in 1..n /\ n + 1 # 0
    BY <1>4
  <2>2. st[1].file = Main
    BY DEF StackOK
  <2> QED BY <1>5, <2>1, <2>2, EmptySeq
<1>11. new \in Seq(ToSet(new))
  BY <1>5, OwnSet
<1> QED BY <1>5, <1>7, <1>8, <1>9, <1>10, <1>11 DEF StackOK, new, fr

\* What a file gives goes to the file that includes it.
LEMMA ReturnOK ==
  ASSUME NEW t \in Theories, NEW st, StackOK(t, st), st # <<>>, Front(st) # <<>>,
         NEW ds, Lawful(t, ds, IF IsError(t, Last(st).file) THEN <<>> ELSE Text(t)[Last(st).file])
  PROVE  LET new == Append(Front(Front(st)), After(Last(Front(st)), ds, <<>>))
         IN StackOK(t, new) /\ new # <<>>
<1> DEFINE below == Front(st)
           fr == Last(below)
           file == Last(st).file
           l == t[fr.file][fr.next]
<1>1. StackOK(t, below) /\ Stands(t, fr, file) /\ FrameOK(t, fr) /\ FrameOK(t, Last(st))
  BY PopOK
<1>2. file \in DOMAIN t
  BY <1>1 DEF FrameOK
<1>3. fr.next <= Len(t[fr.file]) /\ l.op = "include" /\ l.file = file
  BY <1>1 DEF Stands
<1>4. InPlace(t, Text(t), l) = IF IsError(t, file) THEN <<>> ELSE Text(t)[file]
  BY <1>2, <1>3 DEF InPlace
<1>5. ~Conditional(l)
  BY <1>3 DEF Conditional
<1>6. Lawful(t, ds, InPlace(t, Text(t), l))
  BY <1>4
<1> HIDE DEF below, fr, file
<1>7. FrameOK(t, After(fr, ds, <<>>)) /\ After(fr, ds, <<>>).file = fr.file
  <2>1. <<>> \in Seq(AllPats(t))
    OBVIOUS
  <2> QED BY <1>1, <1>3, <1>5, <1>6, <2>1, AfterOK
<1>8. /\ StackOK(t, Append(Front(below), After(fr, ds, <<>>)))
      /\ Append(Front(below), After(fr, ds, <<>>)) # <<>>
  <2>1. below # <<>>
    BY DEF below
  <2>2. fr = Last(below)
    BY DEF fr
  <2> HIDE DEF l
  <2> QED BY <1>1, <1>7, <2>1, <2>2, PutOK
<1> QED BY <1>8 DEF below, fr

\* The patterns of a rule are among those of the theory.
LEMMA PatsAre ==
  ASSUME NEW t, NEW l \in AllLines(t), IsRule(l)
  PROVE  PatsOf(l) \in Seq(AllPats(t))
<1> DEFINE a == IF Leaf(l.lhs) THEN <<>> ELSE <<l.lhs>>
           b == IF l.op # "<=>" \/ Leaf(l.rhs) THEN <<>> ELSE <<l.rhs>>
           S == {l.lhs, l.rhs}
<1>1. a \in Seq(S) /\ b \in Seq(S)
  <2>1. <<>> \in Seq(S) /\ <<l.lhs>> \in Seq(S) /\ <<l.rhs>> \in Seq(S)
    OBVIOUS
  <2> QED BY <2>1
<1>2. PatsOf(l) = a \o b
  BY DEF PatsOf
<1> HIDE DEF a, b, S
<1>3. PatsOf(l) \in Seq(S)
  BY <1>1, <1>2, ConcatProperties
<1>4. PatsOf(l) \in Seq(ToSet(PatsOf(l)))
  BY <1>3, OwnSet
<1>5. \A i \in 1..Len(PatsOf(l)) : PatsOf(l)[i] \in AllPats(t)
  <2>1. ToSet(PatsOf(l)) \subseteq AllPats(t)
    BY DEF AllPats
  <2> QED BY <1>4, <2>1, ElementAt
<1> QED BY <1>4, <1>5, ElementsInSeq

(***************************************************************************)
(* The invariant.                                                          *)
(***************************************************************************)
Inv ==
  /\ theory \in Theories
  /\ StackOK(theory, stack)
  /\ status \in {"parsing", "parsed", "failed", "panicked"}
  /\ (stack = <<>>) <=> (status \in {"parsed", "failed"})
  /\ FailsOnlyByItself
  /\ status = "parsed" => Lawful(theory, defs, Text(theory)[Main])

\* At the start no line has been read.
LEMMA InitInv == Init => Inv
<1> SUFFICES ASSUME Init PROVE Inv
  OBVIOUS
<1>1. theory \in Theories /\ Main \in DOMAIN theory /\ status = "parsing"
  BY MainAssumption DEF Init
<1> DEFINE fr == Frame(Main)
<1>2. FrameOK(theory, fr) /\ fr.file = Main
  BY <1>1, StartOK DEF Frame
<1>3. stack = <<fr>>
  BY DEF Init
<1> HIDE DEF fr
<1>4. stack \in Seq({fr}) /\ Len(stack) = 1 /\ stack[1] = fr /\ stack # <<>>
  BY <1>3
<1>5. stack \in Seq(ToSet(stack))
  BY <1>4, OwnSet
<1>6. \A k \in 1..1 : k = 1
  OBVIOUS
<1>7. \A k : k \notin 2..1
  OBVIOUS
<1>8. Descends(theory, stack)
  <2>1. \A j, k \in 1..1 : ~(j < k)
    OBVIOUS
  <2> QED BY <1>4, <2>1 DEF Descends
<1>9. StackOK(theory, stack)
  BY <1>2, <1>4, <1>5, <1>6, <1>7, <1>8 DEF StackOK
<1> QED BY <1>1, <1>4, <1>9 DEF Inv, FailsOnlyByItself

\* The line that is to be read.
LEMMA AtLineIs ==
  ASSUME Inv, NEW ops, AtLine(ops)
  PROVE  /\ status = "parsing" /\ stack # <<>> /\ FrameOK(theory, Top)
         /\ Top.file \in DOMAIN theory /\ Current \in AllLines(theory)
         /\ Top.next <= Len(theory[Top.file]) /\ Current = theory[Top.file][Top.next]
         /\ Top.next \in DOMAIN theory[Top.file] /\ Current.op \in ops
<1>1. status = "parsing" /\ stack # <<>> /\ theory \in Theories /\ StackOK(theory, stack)
  BY DEF Inv, AtLine
<1>2. FrameOK(theory, Top)
  BY <1>1, PopOK DEF Top
<1>3. Top.file \in DOMAIN theory /\ Top.next \in 1..(Len(theory[Top.file]) + 1)
  BY <1>2 DEF FrameOK
<1>4. /\ Top.next <= Len(theory[Top.file]) /\ Current = theory[Top.file][Top.next]
      /\ Current.op \in ops
  BY DEF AtLine, Current, Lines
<1>5. Len(theory[Top.file]) \in Nat /\ DOMAIN theory[Top.file] = 1..Len(theory[Top.file])
      /\ \A i \in DOMAIN theory[Top.file] : theory[Top.file][i] \in AllLines(theory)
  BY <1>1, <1>3, LinesAre
<1>6. Top.next \in DOMAIN theory[Top.file]
  BY <1>3, <1>4, <1>5
<1> QED BY <1>1, <1>2, <1>3, <1>4, <1>5, <1>6

\* A line is read that gives ds and ps.
LEMMA GotoInv ==
  ASSUME Inv, NEW ops, AtLine(ops), ~Conditional(Current),
         NEW ds, Lawful(theory, ds, InPlace(theory, Text(theory), Current)),
         NEW ps \in Seq(AllPats(theory)), Goto(After(Top, ds, ps))
  PROVE  Inv'
<1> DEFINE fr == After(Top, ds, ps)
<1>1. /\ status = "parsing" /\ stack # <<>> /\ FrameOK(theory, Top)
      /\ Top.next <= Len(theory[Top.file]) /\ Current = theory[Top.file][Top.next]
  BY AtLineIs
<1>2. theory \in Theories /\ StackOK(theory, stack)
  BY DEF Inv
<1>3. FrameOK(theory, fr) /\ fr.file = Top.file
  BY <1>1, <1>2, AfterOK
<1>4. /\ stack' = Append(Front(stack), fr) /\ theory' = theory /\ defs' = defs
      /\ status' = "parsing"
  BY <1>1 DEF Goto, Below
<1> HIDE DEF fr
<1>5. fr.file = Last(stack).file
  BY <1>3 DEF Top
<1>6. StackOK(theory, Append(Front(stack), fr)) /\ Append(Front(stack), fr) # <<>>
  BY <1>1, <1>2, <1>3, <1>5, PutOK
<1>7. StackOK(theory', stack') /\ stack' # <<>>
  BY <1>4, <1>6
<1> QED BY <1>2, <1>4, <1>7 DEF Inv, FailsOnlyByItself

\* The end of a file, with what it gives.
LEMMA ReturnInv ==
  ASSUME Inv, status = "parsing", theory' = theory, NEW ds, Return(ds),
         Lawful(theory, ds, IF IsError(theory, Top.file) THEN <<>> ELSE Text(theory)[Top.file]),
         Below = <<>> => \/ IsError(theory, Top.file) /\ status' = "failed"
                         \/ ~IsError(theory, Top.file) /\ status' = "parsed",
         Below # <<>> => status' = status
  PROVE  Inv'
<1>1. theory \in Theories /\ StackOK(theory, stack) /\ stack # <<>>
  BY DEF Inv
<1>2. CASE Below = <<>>
  <2>1. stack' = <<>> /\ defs' = ds
    BY <1>2 DEF Return
  <2>2. Top.file = Main
    BY <1>1, <1>2, PopOK DEF Below, Top
  <2>3. StackOK(theory, <<>>)
    BY <1>1, <1>2, PopOK DEF Below
  <2>4. StackOK(theory', stack')
    BY <2>1, <2>3
  <2>5. FailsOnlyByItself'
    BY <1>2, <2>2 DEF FailsOnlyByItself
  <2>6. status' = "parsed" => Lawful(theory', defs', Text(theory')[Main])
    BY <1>2, <2>1, <2>2
  <2> QED BY <1>1, <1>2, <2>1, <2>4, <2>5, <2>6 DEF Inv
<1>3. CASE Below # <<>>
  <2> DEFINE new == Append(Front(Front(stack)), After(Last(Front(stack)), ds, <<>>))
  <2>1. stack' = new /\ status' = "parsing"
    BY <1>3 DEF Return, Below
  <2>2. StackOK(theory, new) /\ new # <<>>
    BY <1>1, <1>3, ReturnOK DEF Below, Top
  <2> HIDE DEF new
  <2>3. StackOK(theory', stack') /\ stack' # <<>>
    BY <2>1, <2>2
  <2> QED BY <1>1, <2>1, <2>3 DEF Inv, FailsOnlyByItself
<1> QED BY <1>2, <1>3

\* Every step keeps the invariant.
LEMMA NextInv == Inv /\ [Next]_vars => Inv'
<1> SUFFICES ASSUME Inv, [Next]_vars PROVE Inv'
  OBVIOUS
<1>t. theory \in Theories /\ Main \in DOMAIN theory
  BY MainAssumption DEF Inv
<1>e. <<>> \in Seq(AllPats(theory))
  OBVIOUS
<1>1. CASE Include
  <2> DEFINE new == Append(stack, Frame(Current.file))
  <2>1. /\ status = "parsing" /\ stack # <<>>
        /\ Top.next <= Len(theory[Top.file]) /\ Current = theory[Top.file][Top.next]
        /\ Current.op = "include"
    BY <1>1, AtLineIs DEF Include
  <2>2. /\ Current.file \in DOMAIN theory /\ stack' = new
        /\ theory' = theory /\ defs' = defs /\ status' = status
    BY <1>1 DEF Include
  <2>3. StackOK(theory, stack) /\ Stands(theory, Last(stack), Current.file)
    BY <2>1 DEF Inv, Stands, Top
  <2>4. StackOK(theory, new) /\ new # <<>>
    BY <1>t, <2>1, <2>2, <2>3, PushOK
  <2> HIDE DEF new
  <2>5. StackOK(theory', stack') /\ stack' # <<>>
    BY <2>2, <2>4
  <2> QED BY <1>t, <2>1, <2>2, <2>5 DEF Inv, FailsOnlyByItself
<1>2. CASE IncludeMissing
  <2>1. AtLine({"include"}) /\ Current.op = "include" /\ Current.file \notin DOMAIN theory
    BY <1>2, AtLineIs DEF IncludeMissing
  <2>2. ~Conditional(Current)
    BY <2>1 DEF Conditional
  <2>3. InPlace(theory, Text(theory), Current) = <<>>
    BY <2>1 DEF InPlace
  <2>4. Lawful(theory, NoDefinitions, InPlace(theory, Text(theory), Current))
    BY <2>3, NothingLawful
  <2>5. Goto(After(Top, NoDefinitions, <<>>))
    BY <1>2 DEF IncludeMissing, Skip
  <2> QED BY <1>e, <2>1, <2>2, <2>4, <2>5, GotoInv
<1>3. CASE Declare
  <2> DEFINE ops == {"datatype", "declare-fun", "prove"}
  <2>1. AtLine(ops) /\ Current.op \in ops /\ Current \in AllLines(theory)
    BY <1>3, AtLineIs DEF Declare
  <2>2. ~Conditional(Current)
    BY <2>1 DEF Conditional
  <2>3. InPlace(theory, Text(theory), Current) = <<Current>>
    BY <2>1 DEF InPlace
  <2>4. Lawful(theory, DefinitionsOf(Current), InPlace(theory, Text(theory), Current))
    BY <1>t, <2>1, <2>3, LineLawful
  <2>5. Goto(After(Top, DefinitionsOf(Current), <<>>))
    BY <1>3 DEF Declare
  <2> HIDE DEF ops
  <2> QED BY <1>e, <2>1, <2>2, <2>4, <2>5, GotoInv
<1>4. CASE ReadRule
  <2> DEFINE ops == {"=>", "=|>", "<=>"}
  <2>1. /\ AtLine(ops) /\ Current.op \in ops /\ Current \in AllLines(theory)
        /\ ~Conditional(Current)
    BY <1>4, AtLineIs DEF ReadRule
  <2>2. PatsOf(Current) \in Seq(AllPats(theory))
    BY <2>1, PatsAre DEF IsRule
  <2>3. InPlace(theory, Text(theory), Current) = <<Current>>
    BY <2>1 DEF InPlace
  <2>4. Lawful(theory, DefinitionsOf(Current), InPlace(theory, Text(theory), Current))
    BY <1>t, <2>1, <2>3, LineLawful
  <2>5. Goto(After(Top, DefinitionsOf(Current), PatsOf(Current)))
    BY <1>4 DEF ReadRule
  <2> HIDE DEF ops
  <2> QED BY <2>1, <2>2, <2>4, <2>5, GotoInv
<1>5. CASE Panic
  <2>1. status = "parsing" /\ stack # <<>> /\ Refused(Current)
    BY <1>5, AtLineIs DEF Panic
  <2>2. status' = "panicked" /\ theory' = theory /\ stack' = stack /\ defs' = defs
    BY <1>5 DEF Panic
  <2>3. StackOK(theory', stack') /\ Refused(Current)'
    BY <2>1, <2>2 DEF Inv, Current, Lines, Top
  <2> QED BY <1>t, <2>1, <2>2, <2>3 DEF Inv, FailsOnlyByItself
<1>6. CASE SkipLine
  <2>1. AtLine({"other"}) /\ Current.op = "other" /\ Current \in AllLines(theory)
    BY <1>6, AtLineIs DEF SkipLine
  <2>2. ~Conditional(Current)
    BY <2>1 DEF Conditional
  <2>3. InPlace(theory, Text(theory), Current) = <<Current>>
    BY <2>1 DEF InPlace
  <2>4. DefinitionsOf(Current) = NoDefinitions
    BY <2>1 DEF DefinitionsOf, IsRule
  <2>5. Lawful(theory, NoDefinitions, InPlace(theory, Text(theory), Current))
    BY <1>t, <2>1, <2>3, <2>4, LineLawful
  <2>6. Goto(After(Top, NoDefinitions, <<>>))
    BY <1>6 DEF SkipLine, Skip
  <2> QED BY <1>e, <2>1, <2>2, <2>5, <2>6, GotoInv
<1>7. CASE Fail
  <2>1. /\ status = "parsing" /\ Top.next \in DOMAIN theory[Top.file]
        /\ Current = theory[Top.file][Top.next]
    BY <1>7, AtLineIs DEF Fail
  <2>2. IsError(theory, Top.file)
    BY <1>7, <2>1 DEF Fail, IsError
  <2>3. Lawful(theory, NoDefinitions,
               IF IsError(theory, Top.file) THEN <<>> ELSE Text(theory)[Top.file])
    BY <2>2, NothingLawful
  <2>4. /\ Return(NoDefinitions) /\ theory' = theory
        /\ Below = <<>> => status' = "failed"
        /\ Below # <<>> => status' = status
    BY <1>7 DEF Fail
  <2> QED BY <2>1, <2>2, <2>3, <2>4, ReturnInv
<1>8. CASE EndOfFile
  <2> DEFINE ds == [Top.defs EXCEPT !.case_splitters = @ \cup SplittersOf(Top.defs, Top.pats)]
  <2>1. status = "parsing" /\ Top.next > Len(theory[Top.file])
    BY <1>8 DEF EndOfFile, Lines
  <2>2. FrameOK(theory, Top)
    BY <1>t, <2>1, PopOK DEF Inv, Top
  <2>3. ~IsError(theory, Top.file) /\ Lawful(theory, ds, Text(theory)[Top.file])
    BY <1>t, <2>1, <2>2, EndOK
  <2>4. /\ Return(ds) /\ theory' = theory
        /\ Below = <<>> => status' = "parsed"
        /\ Below # <<>> => status' = status
    BY <1>8 DEF EndOfFile
  <2> HIDE DEF ds
  <2>5. Lawful(theory, ds, IF IsError(theory, Top.file) THEN <<>> ELSE Text(theory)[Top.file])
    BY <2>3
  <2> QED BY <2>1, <2>3, <2>4, <2>5, ReturnInv
<1>9. CASE UNCHANGED vars
  <2>1. theory' = theory /\ stack' = stack /\ defs' = defs /\ status' = status
    BY <1>9 DEF vars
  <2>2. FailsOnlyByItself'
    BY <2>1 DEF Inv, FailsOnlyByItself, Current, Lines, Top
  <2> QED BY <2>1, <2>2 DEF Inv
<1> QED BY <1>1, <1>2, <1>3, <1>4, <1>5, <1>6, <1>7, <1>8, <1>9 DEF Next

\* All that follows holds because of this invariant.
THEOREM Invariance == Spec => []Inv
<1> QED BY InitInv, NextInv, PTL DEF Spec

(***************************************************************************)
(* The theorems.                                                           *)
(***************************************************************************)
\* Each file is read because the one below it includes it at the line at which
\* it stands, and none while it is being read already (parse_file, parse).
THEOREM TypeCorrect == Spec => []TypeOK
<1>1. Inv => TypeOK
  <2> SUFFICES ASSUME Inv PROVE TypeOK
    OBVIOUS
  <2>1. theory \in Theories /\ StackOK(theory, stack)
    BY DEF Inv
  <2>2. DOMAIN stack = 1..Len(stack) /\ Len(stack) \in Nat
    <3>1. stack \in Seq(ToSet(stack))
      BY <2>1 DEF StackOK
    <3> QED BY <3>1, LenProperties
  <2>3. PICK rank \in [DOMAIN theory -> 0..Cardinality(DOMAIN theory)] : Ranks(theory, rank)
    BY <2>1, NoCircleAssumption
  <2> SUFFICES ASSUME NEW k \in DOMAIN stack
               PROVE  /\ stack[k].next \in 1..(Len(theory[stack[k].file]) + 1)
                      /\ \A j \in 1..(k - 1) : stack[j].file # stack[k].file
                      /\ k > 1 => Stands(theory, stack[k - 1], stack[k].file)
    BY DEF Inv, TypeOK, Stands
  <2>4. stack[k].next \in 1..(Len(theory[stack[k].file]) + 1)
    BY <2>1, <2>2 DEF StackOK, FrameOK
  <2>5. ASSUME NEW j \in 1..(k - 1) PROVE stack[j].file # stack[k].file
    <3>1. j \in 1..Len(stack) /\ k \in 1..Len(stack) /\ j < k
      BY <2>2
    <3>2. rank[stack[k].file] < rank[stack[j].file]
      BY <2>1, <2>3, <3>1 DEF StackOK, Descends
    <3>3. rank[stack[k].file] \in Int
      BY <2>1, <2>3, <3>1 DEF StackOK, FrameOK
    <3> QED BY <3>2, <3>3
  <2>6. ASSUME k > 1 PROVE Stands(theory, stack[k - 1], stack[k].file)
    <3>1. k \in 2..Len(stack)
      BY <2>2, <2>6
    <3> QED BY <2>1, <3>1 DEF StackOK
  <2> QED BY <2>4, <2>5, <2>6
<1> QED BY <1>1, Invariance, PTL

\* What is read in the end is what one reads in the text with the included
\* files in place: of each name the first definition, whichever way the files
\* include each other, and only an error of the main file is one
\* (Definitions::merge, parse, parse_file).
THEOREM IncludesAreRead == Spec => []IncludesAreSpliced
<1>1. Inv => IncludesAreSpliced
  BY DEF Inv, Lawful, IncludesAreSpliced
<1> QED BY <1>1, Invariance, PTL

\* Each case splitter takes a case for each constructor of the datatype, and
\* each case unblocks the function, where the files agree on both
\* (collect_splitters).
THEOREM SplittersAreUseful == Spec => []SplittersUnblock
<1>1. Inv => SplittersUnblock
  BY DEF Inv, Lawful, SplittersUnblock
<1> QED BY <1>1, Invariance, PTL

(***************************************************************************)
(* Goals.                                                                  *)
(***************************************************************************)
\* What a line gives as a goal.
IsGoal(c) ==
  /\ IsFiniteSet(DOMAIN c.vars)
  /\ \A e \in ToSet(c.terms) : \A node \in ToSet(e) :
       Len(node.op) = 1 /\ node = Node(node.op, node.children)

\* Variables of the same type have different numbers.
LEMMA NumbersDiffer ==
  ASSUME NEW vs, IsFiniteSet(DOMAIN vs), NEW n \in Numberings(vs)
  PROVE  /\ \A v \in DOMAIN vs : n[v] \in 1..Cardinality(DOMAIN vs)
         /\ \A v, w \in DOMAIN vs : vs[v] = vs[w] /\ n[v] = n[w] => v = w
<1>1. \A v \in DOMAIN vs : n[v] \in 1..Cardinality(DOMAIN vs)
  BY DEF Numberings
<1>2. ASSUME NEW v \in DOMAIN vs, NEW w \in DOMAIN vs, vs[v] = vs[w], n[v] = n[w]
      PROVE  v = w
  <2> DEFINE same == {u \in DOMAIN vs : vs[u] = vs[v]}
             m == Cardinality(same)
             f == [u \in same |-> n[u]]
  <2>1. {n[u] : u \in same} = 1..m
    BY DEF Numberings
  <2>2. IsFiniteSet(same) /\ m \in Nat
    BY FS_Subset, FS_CardinalityType
  <2>3. v \in same /\ w \in same
    BY <1>2
  <2> HIDE DEF same, m
  <2>4. f \in Surjection(same, 1..m)
    BY <2>1 DEF Surjection
  <2>5. IsFiniteSet(1..m) /\ Cardinality(1..m) = m
    BY <2>2, FS_Interval
  <2>6. f \in Injection(same, 1..m)
    <3> HIDE DEF f
    <3> QED BY <2>2, <2>4, <2>5, FS_SurjSameCardinalityImpliesInj DEF m
  <2> QED BY <1>2, <2>3, <2>6 DEF Injection, IsInjective
<1> QED BY <1>1, <1>2

\* The name of a placeholder.
LEMMA NameOfPh == \A type, i : get_ph(type, i).name = <<type, i>>
BY DEF get_ph, Function

\* Placeholders for the variables, where that for v has number 0.
At(vs, n, v) == [w \in DOMAIN vs |-> <<vs[w], IF w = v THEN 0 ELSE n[w]>>]

\* What stands where an operator is replaced.
LEMMA Replaced ==
  ASSUME NEW e, NEW k \in DOMAIN e, e[k] = Node(e[k].op, e[k].children), NEW by
  PROVE  ReplaceOps(e, by)[k] = IF e[k].op \in DOMAIN by THEN Node(by[e[k].op], e[k].children) ELSE e[k]
<1> DEFINE node == e[k]
<1>1. ReplaceOps(e, by)[k] = IF node.op \in DOMAIN by THEN [node EXCEPT !.op = by[node.op]] ELSE node
  BY DEF ReplaceOps
<1>2. node = [op |-> node.op, children |-> node.children]
  BY DEF Node
<1> HIDE DEF node
<1>3. [node EXCEPT !.op = by[node.op]] = [op |-> by[node.op], children |-> node.children]
  BY <1>2
<1> QED BY <1>1, <1>3 DEF Node, node

\* A variant renames the variables at once.
LEMMA VariantIs ==
  ASSUME NEW c, IsGoal(c), NEW n \in Numberings(c.vars), NEW v \in DOMAIN c.vars, NEW phs,
         phs = [w \in DOMAIN c.vars |-> get_ph(c.vars[w], n[w]).name]
  PROVE  Renamed(Renamed(c.terms, phs), [ph \in {phs[v]} |-> get_ph(c.vars[v], 0).name])
           = Renamed(c.terms, At(c.vars, n, v))
<1> DEFINE zero == [ph \in {phs[v]} |-> get_ph(c.vars[v], 0).name]
           at == At(c.vars, n, v)
<1>1. /\ DOMAIN phs = DOMAIN c.vars /\ \A w \in DOMAIN c.vars : phs[w] = <<c.vars[w], n[w]>>
      /\ DOMAIN zero = {phs[v]} /\ zero[phs[v]] = <<c.vars[v], 0>>
  <2>1. \A w \in DOMAIN c.vars : get_ph(c.vars[w], n[w]).name = <<c.vars[w], n[w]>>
    BY NameOfPh
  <2>2. get_ph(c.vars[v], 0).name = <<c.vars[v], 0>>
    BY NameOfPh
  <2>3. DOMAIN zero = {phs[v]} /\ zero[phs[v]] = get_ph(c.vars[v], 0).name
    OBVIOUS
  <2> HIDE DEF zero
  <2> QED BY <2>1, <2>2, <2>3
<1> HIDE DEF zero
<1>2. /\ DOMAIN at = DOMAIN c.vars /\ at[v] = <<c.vars[v], 0>>
      /\ \A w \in DOMAIN c.vars : w # v => at[w] = phs[w]
  BY <1>1 DEF At
<1>3. \A w \in DOMAIN c.vars : phs[w] = phs[v] => w = v
  <2>1. ASSUME NEW w \in DOMAIN c.vars, phs[w] = phs[v]
        PROVE  c.vars[w] = c.vars[v] /\ n[w] = n[v]
    <3>1. <<c.vars[w], n[w]>> = <<c.vars[v], n[v]>>
      BY <1>1, <2>1
    <3> QED BY <3>1
  <2>2. \A w \in DOMAIN c.vars : c.vars[w] = c.vars[v] /\ n[w] = n[v] => w = v
    BY NumbersDiffer DEF IsGoal
  <2> QED BY <2>1, <2>2
<1>4. \A w \in DOMAIN c.vars : Len(phs[w]) = 2
  <2>1. \A x, y : Len(<<x, y>>) = 2
    OBVIOUS
  <2>2. \A w \in DOMAIN c.vars : phs[w] = <<c.vars[w], n[w]>>
    BY <1>1
  <2> QED BY <2>1, <2>2
<1> HIDE DEF at
<1>5. ASSUME NEW i \in DOMAIN c.terms, NEW k \in DOMAIN c.terms[i]
      PROVE  ReplaceOps(ReplaceOps(c.terms[i], phs), zero)[k] = ReplaceOps(c.terms[i], at)[k]
  <2> DEFINE node == c.terms[i][k]
             once == ReplaceOps(c.terms[i], phs)
  <2>1. Len(node.op) = 1 /\ node = Node(node.op, node.children)
    BY DEF IsGoal, ToSet
  <2>2. /\ DOMAIN once = DOMAIN c.terms[i]
        /\ once[k] = IF node.op \in DOMAIN phs THEN Node(phs[node.op], node.children) ELSE node
    BY <2>1, Replaced DEF ReplaceOps
  <2>3. ReplaceOps(c.terms[i], at)[k]
          = IF node.op \in DOMAIN at THEN Node(at[node.op], node.children) ELSE node
    BY <2>1, Replaced
  <2> HIDE DEF node, once
  <2>4. ReplaceOps(once, zero)[k]
          = IF once[k].op \in DOMAIN zero THEN Node(zero[once[k].op], once[k].children) ELSE once[k]
    <3>1. once[k] = Node(once[k].op, once[k].children)
      BY <2>1, <2>2 DEF Node
    <3> QED BY <2>2, <3>1, Replaced
  <2>5. CASE node.op \notin DOMAIN c.vars
    <3>1. once[k] = node
      BY <1>1, <2>2, <2>5
    <3>2. node.op # phs[v]
      BY <1>4, <2>1
    <3>3. once[k].op \notin DOMAIN zero
      BY <1>1, <3>1, <3>2
    <3>4. ReplaceOps(once, zero)[k] = node
      BY <2>4, <3>1, <3>3
    <3>5. ReplaceOps(c.terms[i], at)[k] = node
      BY <1>2, <2>3, <2>5
    <3> QED BY <3>4, <3>5 DEF once
  <2>6. CASE node.op \in DOMAIN c.vars
    <3>1. once[k].op = phs[node.op] /\ once[k].children = node.children
      <4>1. once[k] = Node(phs[node.op], node.children)
        BY <1>1, <2>2, <2>6
      <4> QED BY <4>1 DEF Node
    <3>2. CASE node.op = v
      <4>1. once[k].op = phs[v] /\ phs[v] \in DOMAIN zero
        BY <1>1, <3>1, <3>2
      <4>2. ReplaceOps(once, zero)[k] = Node(<<c.vars[v], 0>>, node.children)
        BY <1>1, <2>4, <3>1, <4>1
      <4>3. ReplaceOps(c.terms[i], at)[k] = Node(<<c.vars[v], 0>>, node.children)
        BY <1>2, <2>3, <2>6, <3>2
      <4> QED BY <4>2, <4>3 DEF once
    <3>3. CASE node.op # v
      BY <1>1, <1>2, <1>3, <2>2, <2>3, <2>4, <2>6, <3>1, <3>3 DEF once
    <3> QED BY <3>2, <3>3
  <2> QED BY <2>5, <2>6
<1>6. ASSUME NEW i \in DOMAIN c.terms
      PROVE  ReplaceOps(ReplaceOps(c.terms[i], phs), zero) = ReplaceOps(c.terms[i], at)
  BY <1>5 DEF ReplaceOps
<1> QED BY <1>6 DEF Renamed, zero, at

\* The placeholders that make a variant for induction on v.
Renames(c, phs, v) ==
  /\ IsInjective(phs)
  /\ \A w \in DOMAIN phs : /\ phs[w][1] = c.vars[w]
                           /\ (phs[w][2] = 0) = (w = v)
Names(c) ==
  UNION {{<<c.vars[w], n>> : n \in 0..Cardinality(DOMAIN c.vars)} : w \in DOMAIN c.vars}
For(c, v) ==
  {Renamed(c.terms, phs) : phs \in {p \in [DOMAIN c.vars -> Names(c)] : Renames(c, p, v)}}
Inductive(ds, c) == {v \in DOMAIN c.vars : \E d \in ToSet(ds.datatypes) : d.name = c.vars[v]}

\* A variant is one for the variable that its induction is on.
LEMMA VariantFor ==
  ASSUME NEW c, IsGoal(c), NEW n \in Numberings(c.vars), NEW v \in DOMAIN c.vars
  PROVE  Renamed(c.terms, At(c.vars, n, v)) \in For(c, v)
<1> DEFINE at == At(c.vars, n, v)
           m == Cardinality(DOMAIN c.vars)
<1>1. /\ DOMAIN at = DOMAIN c.vars
      /\ \A w \in DOMAIN c.vars : at[w] = <<c.vars[w], IF w = v THEN 0 ELSE n[w]>>
  BY DEF At
<1>2. m \in Nat
  BY FS_CardinalityType DEF IsGoal
<1>3. /\ \A w \in DOMAIN c.vars : n[w] \in 1..m
      /\ \A u, w \in DOMAIN c.vars : c.vars[u] = c.vars[w] /\ n[u] = n[w] => u = w
  BY NumbersDiffer DEF IsGoal
<1>4. at \in [DOMAIN c.vars -> Names(c)]
  <2>1. ASSUME NEW w \in DOMAIN c.vars PROVE at[w] \in Names(c)
    <3>1. (IF w = v THEN 0 ELSE n[w]) \in 0..m
      BY <1>2, <1>3
    <3> DEFINE j == IF w = v THEN 0 ELSE n[w]
    <3>2. at[w] = <<c.vars[w], j>>
      BY <1>1
    <3> HIDE DEF j, at
    <3>3. <<c.vars[w], j>> \in Names(c)
      BY <3>1 DEF Names, j
    <3> QED BY <3>2, <3>3
  <2> QED BY <2>1 DEF At
<1> HIDE DEF at, m
<1>5. \A w \in DOMAIN c.vars : at[w][1] = c.vars[w] /\ at[w][2] = IF w = v THEN 0 ELSE n[w]
  BY <1>1
<1>6. Renames(c, at, v)
  <2>1. \A u, w \in DOMAIN at : at[u] = at[w] => u = w
    BY <1>1, <1>2, <1>3, <1>5
  <2>2. \A w \in DOMAIN at : (at[w][2] = 0) = (w = v)
    BY <1>1, <1>2, <1>3, <1>5
  <2> QED BY <1>1, <1>5, <2>1, <2>2 DEF Renames, IsInjective
<1> QED BY <1>4, <1>6 DEF For, at

\* Variants that are both for a variable are the same: neither names a variable
\* that only one of them replaces by number 0.
LEMMA VariantsAgree ==
  ASSUME NEW c, IsGoal(c), NEW n \in Numberings(c.vars),
         NEW u \in DOMAIN c.vars, NEW v \in DOMAIN c.vars,
         Renamed(c.terms, At(c.vars, n, u)) \in For(c, v)
  PROVE  Renamed(c.terms, At(c.vars, n, u)) = Renamed(c.terms, At(c.vars, n, v))
<1> DEFINE a == At(c.vars, n, u)
           b == At(c.vars, n, v)
<1>1. /\ DOMAIN a = DOMAIN c.vars /\ DOMAIN b = DOMAIN c.vars
      /\ \A w \in DOMAIN c.vars : a[w] = <<c.vars[w], IF w = u THEN 0 ELSE n[w]>>
      /\ \A w \in DOMAIN c.vars : b[w] = <<c.vars[w], IF w = v THEN 0 ELSE n[w]>>
  BY DEF At
<1>2. PICK p \in [DOMAIN c.vars -> Names(c)] :
        Renames(c, p, v) /\ Renamed(c.terms, a) = Renamed(c.terms, p)
  BY DEF For
<1>3. \A w \in DOMAIN c.vars : (p[w][2] = 0) <=> (w = v)
  BY <1>2 DEF Renames
<1>4. \A w \in DOMAIN c.vars : n[w] # 0
  BY NumbersDiffer DEF IsGoal
<1>5. \A w \in DOMAIN c.vars : (a[w][2] = 0) <=> (w = u)
  BY <1>1, <1>4
<1> HIDE DEF a, b
<1>6. ASSUME NEW i \in DOMAIN c.terms, NEW k \in DOMAIN c.terms[i]
      PROVE  ReplaceOps(c.terms[i], a)[k] = ReplaceOps(c.terms[i], b)[k]
  <2> DEFINE node == c.terms[i][k]
             op == node.op
  <2>1. node = Node(op, node.children)
    BY DEF IsGoal, ToSet
  <2>2. \A by : ReplaceOps(c.terms[i], by)[k]
                  = IF op \in DOMAIN by THEN Node(by[op], node.children) ELSE node
    BY <2>1 DEF ReplaceOps, Node
  <2>3. ReplaceOps(c.terms[i], a)[k] = ReplaceOps(c.terms[i], p)[k]
    <3>1. Renamed(c.terms, a)[i] = Renamed(c.terms, p)[i]
      BY <1>2
    <3>2. ReplaceOps(c.terms[i], a) = ReplaceOps(c.terms[i], p)
      BY <3>1 DEF Renamed
    <3> QED BY <3>2
  <2> HIDE DEF node, op
  <2>4. CASE op \notin DOMAIN c.vars
    BY <1>1, <2>2, <2>4
  <2>5. CASE op \in DOMAIN c.vars
    <3>1. a[op] = p[op]
      <4>1. Node(a[op], node.children) = Node(p[op], node.children)
        BY <1>1, <2>2, <2>3, <2>5
      <4> QED BY <4>1 DEF Node
    <3>2. (op = u) <=> (op = v)
      BY <1>3, <1>5, <2>5, <3>1
    <3>3. a[op] = b[op]
      BY <1>1, <2>5, <3>2
    <3> QED BY <1>1, <2>2, <2>5, <3>3
  <2> QED BY <2>4, <2>5
<1>7. ASSUME NEW i \in DOMAIN c.terms PROVE ReplaceOps(c.terms[i], a) = ReplaceOps(c.terms[i], b)
  BY <1>6 DEF ReplaceOps
<1> QED BY <1>7 DEF Renamed, a, b

\* The variants of a goal.
LEMMA VariantsAre ==
  ASSUME NEW ds, NEW c, IsGoal(c), NEW phs \in Placeholders(c.vars)
  PROVE  LET gs == GoalVariants(ds, c, phs)
         IN /\ gs \subseteq UNION {For(c, v) : v \in Inductive(ds, c)}
            /\ \A v \in Inductive(ds, c) : Cardinality(gs \cap For(c, v)) = 1
<1> DEFINE gs == GoalVariants(ds, c, phs)
<1>1. PICK n \in Numberings(c.vars) : phs = [w \in DOMAIN c.vars |-> get_ph(c.vars[w], n[w]).name]
  BY DEF Placeholders
<1> DEFINE R(v) == Renamed(c.terms, At(c.vars, n, v))
<1>2. \A v \in Inductive(ds, c) : v \in DOMAIN c.vars
  BY DEF Inductive
<1>3. gs = {R(v) : v \in Inductive(ds, c)}
  <2>1. \A v \in Inductive(ds, c) :
          Renamed(Renamed(c.terms, phs), [ph \in {phs[v]} |-> get_ph(c.vars[v], 0).name]) = R(v)
    <3>1. ASSUME NEW v \in DOMAIN c.vars
          PROVE  Renamed(Renamed(c.terms, phs), [ph \in {phs[v]} |-> get_ph(c.vars[v], 0).name]) = R(v)
      BY <1>1, VariantIs, SMTT(30)
    <3> QED BY <1>2, <3>1
  <2> HIDE DEF R
  <2> QED BY <2>1 DEF GoalVariants, Inductive
<1>4. \A v \in Inductive(ds, c) : R(v) \in For(c, v)
  BY <1>2, VariantFor
<1>5. \A u, v \in Inductive(ds, c) : R(u) \in For(c, v) => R(u) = R(v)
  BY <1>2, VariantsAgree
<1> HIDE DEF R, gs
<1>6. \A v \in Inductive(ds, c) : gs \cap For(c, v) = {R(v)}
  BY <1>3, <1>4, <1>5
<1>7. \A v \in Inductive(ds, c) : Cardinality(gs \cap For(c, v)) = 1
  BY <1>6, FS_Singleton
<1> QED BY <1>3, <1>4, <1>7 DEF gs

(***************************************************************************)
(* Types.                                                                  *)
(***************************************************************************)
\* The children of a node come before it.
WellFormed(e) ==
  /\ e \in Seq(ToSet(e)) /\ Len(e) > 0
  /\ \A i \in 1..Len(e) : \A j \in DOMAIN e[i].children : e[i].children[j] \in 1..(i - 1)

\* The tree at node i, when f has those at its children.
TreeAt(e, f, i) == [op |-> e[i].op, args |-> [j \in DOMAIN e[i].children |-> f[e[i].children[j]]]]

\* The tree depends on those at its children only.
LEMMA SameTree ==
  ASSUME NEW e, NEW i, NEW f, NEW g,
         \A j \in DOMAIN e[i].children : f[e[i].children[j]] = g[e[i].children[j]]
  PROVE  TreeAt(e, f, i) = TreeAt(e, g, i)
BY DEF TreeAt

\* f has the trees of all nodes.
HasTrees(e, f) == f = [i \in DOMAIN e |-> TreeAt(e, f, i)]

\* As the children come first, there are trees.
LEMMA TreesExist ==
  ASSUME NEW e, WellFormed(e)
  PROVE  \E f : HasTrees(e, f)
<1> DEFINE n == Len(e)
           Good(f, m) == f = [i \in 1..m |-> TreeAt(e, f, i)]
           bad == {m \in 0..n : ~\E f : Good(f, m)}
<1>1. n \in Nat /\ DOMAIN e = 1..n
  BY LenProperties DEF WellFormed
<1>2. ASSUME bad # {} PROVE FALSE
  <2>1. PICK m \in bad : \A y \in bad : m <= y
    <3>1. bad \in SUBSET Nat
      BY <1>1
    <3> HIDE DEF bad
    <3> QED BY <1>2, <3>1, LeastNat
  <2>2. m # 0
    <3> DEFINE f == [i \in 1..0 |-> 0]
    <3>1. Good(f, 0)
      <4>1. 1..0 = {}
        OBVIOUS
      <4> QED BY <4>1
    <3> QED BY <2>1, <3>1
  <2>3. m \in 1..n /\ m - 1 \in 0..n /\ m - 1 \notin bad
    <3>1. m \in 1..n /\ m - 1 \in 0..n /\ ~(m <= m - 1)
      BY <1>1, <2>1, <2>2
    <3> QED BY <2>1, <3>1
  <2>4. PICK f : Good(f, m - 1)
    BY <2>3
  <2> DEFINE g == [i \in 1..m |-> TreeAt(e, f, i)]
  <2>5. \A i \in 1..(m - 1) : g[i] = f[i]
    <3>1. \A i \in 1..(m - 1) : i \in 1..m
      BY <1>1, <2>3
    <3>2. \A i \in 1..(m - 1) : f[i] = TreeAt(e, f, i)
      BY <2>4
    <3> QED BY <3>1, <3>2
  <2> HIDE DEF g
  <2>6. ASSUME NEW i \in 1..m PROVE TreeAt(e, f, i) = TreeAt(e, g, i)
    <3>1. ASSUME NEW j \in DOMAIN e[i].children
          PROVE  f[e[i].children[j]] = g[e[i].children[j]]
      <4>1. e[i].children[j] \in 1..(i - 1) /\ i \in 1..n
        BY <1>1, <2>3 DEF WellFormed
      <4>2. e[i].children[j] \in 1..(m - 1)
        BY <1>1, <2>3, <4>1
      <4> QED BY <2>5, <4>2
    <3> QED BY <3>1, SameTree
  <2>7. Good(g, m)
    BY <2>6 DEF g
  <2> QED BY <2>1, <2>7
<1>3. n \in 0..n /\ n \notin bad
  BY <1>1, <1>2
<1> QED BY <1>1, <1>3 DEF HasTrees

\* TreeOf is the tree at the root.
LEMMA TreeOfIs ==
  ASSUME NEW e, WellFormed(e)
  PROVE  \E f : HasTrees(e, f) /\ TreeOf(e) = f[Len(e)]
<1> DEFINE tree == CHOOSE f : HasTrees(e, f)
<1>1. TreeOf(e) = tree[Len(e)]
  BY DEF TreeOf, TreeAt, HasTrees
<1>2. HasTrees(e, tree)
  <2>1. \E f : HasTrees(e, f)
    BY TreesExist
  <2> QED BY <2>1
<1> QED BY <1>1, <1>2

\* Where two expressions begin alike they have the same trees.
LEMMA TreesAgree ==
  ASSUME NEW a, WellFormed(a), NEW b, WellFormed(b), Len(a) <= Len(b),
         \A i \in 1..Len(a) : b[i] = a[i],
         NEW f, HasTrees(a, f), NEW g, HasTrees(b, g)
  PROVE  \A i \in 1..Len(a) : f[i] = g[i]
<1> DEFINE n == Len(a)
           bad == {i \in 1..n : f[i] # g[i]}
<1>1. n \in Nat /\ DOMAIN a = 1..n /\ \A i \in 1..n : i \in DOMAIN b
  BY LenProperties DEF WellFormed
<1>2. ASSUME bad # {} PROVE FALSE
  <2>1. PICK m \in bad : \A y \in bad : m <= y
    <3>1. bad \in SUBSET Nat
      BY <1>1
    <3> HIDE DEF bad
    <3> QED BY <1>2, <3>1, LeastNat
  <2>2. \A i \in 1..(m - 1) : f[i] = g[i]
    <3> SUFFICES ASSUME NEW i \in 1..(m - 1) PROVE f[i] = g[i]
      OBVIOUS
    <3>1. i \in 1..n /\ ~(m <= i)
      BY <1>1, <2>1
    <3> QED BY <2>1, <3>1
  <2>3. m \in 1..n /\ f[m] = TreeAt(a, f, m) /\ g[m] = TreeAt(b, g, m)
    BY <1>1, <2>1 DEF HasTrees
  <2>4. TreeAt(a, f, m) = TreeAt(a, g, m)
    <3>1. \A j \in DOMAIN a[m].children : a[m].children[j] \in 1..(m - 1)
      BY <2>3 DEF WellFormed
    <3>2. \A j \in DOMAIN a[m].children : f[a[m].children[j]] = g[a[m].children[j]]
      BY <2>2, <3>1
    <3> QED BY <3>2, SameTree
  <2>5. TreeAt(a, g, m) = TreeAt(b, g, m)
    BY <2>3 DEF TreeAt
  <2> QED BY <2>1, <2>3, <2>4, <2>5
<1> QED BY <1>2

LeafOf(type) == [op |-> type, args |-> <<>>]

\* A type with a name is a tree of one node.
LEMMA NamedIs ==
  ASSUME NEW type
  PROVE  /\ WellFormed(Named(type)) /\ Len(Named(type)) = 1
         /\ Named(type)[1] = Node(type, <<>>) /\ TreeOf(Named(type)) = LeafOf(type)
<1> DEFINE e == Named(type)
<1>1. e \in Seq({Node(type, <<>>)}) /\ Len(e) = 1 /\ DOMAIN e = {1} /\ e[1] = Node(type, <<>>)
  BY DEF Named
<1> HIDE DEF e
<1>2. DOMAIN e[1].children = {} /\ e[1].op = type
  BY <1>1 DEF Node
<1>3. WellFormed(e)
  <2>1. ToSet(e) = {Node(type, <<>>)}
    BY <1>1 DEF ToSet
  <2>2. \A i \in 1..Len(e) : DOMAIN e[i].children = {}
    BY <1>1, <1>2
  <2> QED BY <1>1, <2>1, <2>2 DEF WellFormed
<1>4. PICK f : HasTrees(e, f) /\ TreeOf(e) = f[Len(e)]
  BY <1>3, TreeOfIs
<1>5. TreeOf(e) = TreeAt(e, f, 1)
  BY <1>1, <1>4 DEF HasTrees
<1>6. TreeAt(e, f, 1) = LeafOf(type)
  BY <1>2 DEF TreeAt, LeafOf
<1> QED BY <1>1, <1>3, <1>5, <1>6 DEF e

\* Nodes that come one after the other: those of the first type, then one for
\* each other type.
LEMMA FlatTypes ==
  ASSUME NEW S, NEW types \in Seq(Seq(S)), types # <<>>,
         \A i \in 2..Len(types) : Len(types[i]) = 1
  PROVE  LET k == Len(types[1])
             flat(i) == FlattenSeq(SubSeq(types, 1, i))
         IN \A i \in 1..Len(types) :
              /\ flat(i) \in Seq(S) /\ Len(flat(i)) = k + i - 1
              /\ \A j \in 1..k : flat(i)[j] = types[1][j]
              /\ \A j \in 2..i : flat(i)[k + j - 1] = types[j][1]
<1> DEFINE n == Len(types)
           k == Len(types[1])
           flat(i) == FlattenSeq(SubSeq(types, 1, i))
           Reaches(i) == /\ flat(i) \in Seq(S) /\ Len(flat(i)) = k + i - 1
                         /\ \A j \in 1..k : flat(i)[j] = types[1][j]
                         /\ \A j \in 2..i : flat(i)[k + j - 1] = types[j][1]
           bad == {i \in 1..n : ~Reaches(i)}
<1>1. n \in Nat /\ n > 0 /\ DOMAIN types = 1..n /\ \A i \in 1..n : types[i] \in Seq(S)
  <2>1. n \in Nat /\ n > 0
    BY EmptySeq, LenProperties
  <2> QED BY <2>1, LenProperties, ElementOfSeq
<1>2. k \in Nat
  BY <1>1, LenProperties
<1>3. Reaches(1)
  <2> DEFINE t == SubSeq(types, 1, 1)
             u == <<types[1]>>
  <2>1. t = u
    <3>1. t \in Seq(Seq(S)) /\ Len(t) = 1 /\ t[1] = types[1]
      BY <1>1, SubSeqProperties
    <3>2. types[1] \in Seq(S)
      BY <1>1
    <3>3. u \in Seq(Seq(S)) /\ Len(u) = 1 /\ u[1] = types[1]
      BY <3>2
    <3> HIDE DEF t, u
    <3> QED BY <3>1, <3>3, SeqEqual
  <2>2. flat(1) = types[1]
    <3>1. types[1] \in Seq(S)
      BY <1>1
    <3>2. FlattenSeq(<<types[1]>>) = types[1]
      BY <3>1, FlattenOne
    <3> QED BY <2>1, <3>2
  <2>3. k + 1 - 1 = k /\ 2..1 = {}
    BY <1>2
  <2> HIDE DEF flat
  <2> QED BY <1>1, <2>2, <2>3
<1>4. ASSUME NEW i \in 2..n, Reaches(i - 1) PROVE Reaches(i)
  <2> DEFINE s == SubSeq(types, 1, i - 1)
             x == types[i]
  <2>1. i \in 1..n /\ i - 1 \in 1..n /\ i - 1 \in Nat
    BY <1>1
  <2>2. SubSeq(types, 1, i) = s \o <<x>> /\ s \in Seq(Seq(S)) /\ <<x>> \in Seq(Seq(S))
    <3>1. s \in Seq(Seq(S)) /\ Len(s) = i - 1 /\ \A j \in 1..(i - 1) : s[j] = types[j]
      BY <1>1, <2>1, SubSeqProperties
    <3>2. /\ SubSeq(types, 1, i) \in Seq(Seq(S)) /\ Len(SubSeq(types, 1, i)) = i
          /\ \A j \in 1..i : SubSeq(types, 1, i)[j] = types[j]
      BY <1>1, <2>1, SubSeqProperties
    <3>3. x \in Seq(S)
      BY <1>1, <2>1
    <3> DEFINE t == SubSeq(types, 1, i)
    <3> HIDE DEF s, t, x
    <3>4. s \o <<x>> \in Seq(Seq(S)) /\ Len(s \o <<x>>) = Len(s) + 1
          /\ (s \o <<x>>)[Len(s) + 1] = x
          /\ \A j \in 1..Len(s) : (s \o <<x>>)[j] = s[j]
      BY <3>1, <3>3, OneMoreIs
    <3> DEFINE u == s \o <<x>>
    <3>5. \A j \in 1..i : t[j] = u[j]
      <4>1. ASSUME NEW j \in 1..i PROVE t[j] = u[j]
        <5>1. CASE j = i
          BY <2>1, <3>1, <3>2, <3>4, <5>1 DEF x, t
        <5>2. CASE j # i
          <6>1. j \in 1..(i - 1)
            BY <2>1, <5>2
          <6> QED BY <3>1, <3>2, <3>4, <6>1 DEF t
        <5> QED BY <5>1, <5>2
      <4> QED BY <4>1
    <3>6. t \in Seq(Seq(S)) /\ Len(t) = i
      BY <3>2 DEF t
    <3>7. u \in Seq(Seq(S)) /\ Len(u) = i
      BY <2>1, <3>1, <3>4
    <3> HIDE DEF u
    <3>8. t = u
      BY <3>5, <3>6, <3>7, SeqEqual
    <3>9. <<x>> \in Seq(Seq(S))
      BY <3>3
    <3> QED BY <3>1, <3>8, <3>9 DEF t, u
  <2>3. flat(i) = flat(i - 1) \o x
    <3>1. x \in Seq(S)
      BY <1>1, <2>1
    <3> HIDE DEF s, x
    <3>2. FlattenSeq(s \o <<x>>) = FlattenSeq(s) \o FlattenSeq(<<x>>)
      BY <2>2, FlattenConcat
    <3>3. FlattenSeq(<<x>>) = x
      BY <3>1, FlattenOne
    <3> QED BY <2>2, <3>2, <3>3 DEF s
  <2>4. x \in Seq(S) /\ Len(x) = 1 /\ x[1] = types[i][1]
    BY <1>1, <2>1
  <2> DEFINE a == flat(i - 1)
             b == flat(i)
  <2>5. /\ a \in Seq(S) /\ Len(a) = k + (i - 1) - 1
        /\ \A j \in 1..k : a[j] = types[1][j]
        /\ \A j \in 2..(i - 1) : a[k + j - 1] = types[j][1]
    BY <1>4
  <2>6. b = a \o x
    BY <2>3
  <2> HIDE DEF a, b, x
  <2>7. /\ b \in Seq(S) /\ Len(b) = Len(a) + 1 /\ b[Len(a) + 1] = x[1]
        /\ \A j \in 1..Len(a) : b[j] = a[j]
    <3> DEFINE c == a \o x
    <3>1. a \in Seq(S) /\ x \in Seq(S)
      BY <2>4, <2>5
    <3>2. /\ c \in Seq(S) /\ Len(c) = Len(a) + Len(x)
          /\ \A j \in 1..Len(a) : c[j] = a[j]
          /\ \A j \in 1..Len(x) : c[Len(a) + j] = x[j]
      BY ONLY <3>1, ConcatProperties, SMTT(30)
    <3> HIDE DEF c
    <3> QED BY <2>4, <2>6, <3>2 DEF c
  <2>8. Len(b) = k + i - 1 /\ Len(a) + 1 = k + i - 1 /\ Len(a) \in Nat
    BY <1>2, <2>1, <2>5, <2>7, SMTT(30)
  <2>9. \A j \in 1..k : b[j] = types[1][j]
    <3>1. \A j \in 1..k : j \in 1..Len(a)
      BY <1>2, <2>1, <2>5
    <3> QED BY <2>5, <2>7, <3>1
  <2>10. ASSUME NEW j \in 2..i PROVE b[k + j - 1] = types[j][1]
    <3>1. CASE j = i
      BY <2>4, <2>7, <2>8, <3>1
    <3>2. CASE j # i
      <4>1. j \in 2..(i - 1) /\ k + j - 1 \in 1..Len(a)
        BY <1>2, <2>1, <2>5, <3>2
      <4> QED BY <2>5, <2>7, <4>1
    <3> QED BY <3>1, <3>2
  <2> QED BY <2>7, <2>8, <2>9, <2>10 DEF b
<1> HIDE DEF Reaches
<1>5. ASSUME bad # {} PROVE FALSE
  <2>1. PICK m \in bad : \A y \in bad : m <= y
    <3>1. bad \in SUBSET Nat
      BY <1>1
    <3> HIDE DEF bad
    <3> QED BY <1>5, <3>1, LeastNat
  <2>2. m # 1
    BY <1>3, <2>1
  <2>3. m \in 2..n /\ m - 1 \in 1..n /\ ~(m <= m - 1)
    BY <1>1, <2>1, <2>2
  <2>4. Reaches(m - 1)
    BY <2>1, <2>3
  <2> QED BY <1>4, <2>1, <2>3, <2>4
<1>6. \A i \in 1..n : Reaches(i)
  BY <1>5
<1> QED BY <1>6 DEF Reaches

\* The arrow, as a tree, over the first type and names of others.
ArrowTree(first, m, x) == [op |-> "->", args |-> [i \in 1..m |-> IF i = 1 THEN first ELSE LeafOf(x[i])]]

\* The types of parameters and of a result are m types, of which the later
\* ones are the names in x.
Strung(ps, r, types, m, x) ==
  /\ ps # <<>> /\ types = Append(ps, r) /\ types \in Seq(ToSet(types))
  /\ m = Len(types) /\ m > 0
  /\ WellFormed(types[1]) /\ \A i \in 2..m : types[i] = Named(x[i])

\* get_type is right when only the first type has children.
LEMMA GetTypeIs ==
  ASSUME NEW ps, NEW r, NEW types, NEW m, NEW x, Strung(ps, r, types, m, x)
  PROVE  /\ WellFormed(GetType(ps, r))
         /\ TreeOf(GetType(ps, r)) = ArrowTree(TreeOf(types[1]), m, x)
<1> DEFINE k == Len(types[1])
           flat == FlattenSeq(types)
           root == Node("->", [i \in DOMAIN types |-> NodesUpTo(types, i)])
           e == GetType(ps, r)
           S == UNION {ToSet(types[i]) : i \in DOMAIN types}
<1>0. /\ ps # <<>> /\ types = Append(ps, r) /\ types \in Seq(ToSet(types))
      /\ m = Len(types) /\ m > 0
      /\ WellFormed(types[1]) /\ \A i \in 2..m : types[i] = Named(x[i])
  BY DEF Strung
<1>1. m \in Nat /\ m > 0 /\ DOMAIN types = 1..m /\ k \in Nat /\ k > 0
  BY <1>0, LenProperties DEF WellFormed
<1> HIDE DEF k
<1>2. e = Append(flat, root)
  BY <1>0 DEF GetType
<1>3. \A i \in 1..m : WellFormed(types[i])
  <2>1. \A i \in 1..m : i = 1 \/ i \in 2..m
    BY <1>1
  <2>2. \A i \in 2..m : WellFormed(types[i])
    BY <1>0, NamedIs
  <2> QED BY <1>0, <2>1, <2>2
<1>4. types \in Seq(Seq(S)) /\ types # <<>>
  <2>1. ASSUME NEW i \in 1..Len(types) PROVE types[i] \in Seq(S)
    <3> DEFINE t == types[i]
    <3>1. t \in Seq(ToSet(t))
      BY <1>0, <1>3 DEF WellFormed
    <3>2. ToSet(t) \subseteq S
      BY <1>1
    <3> HIDE DEF t, S
    <3>3. \A j \in 1..Len(t) : t[j] \in S
      BY <3>1, <3>2, ElementAt
    <3>4. t \in Seq(S)
      BY <3>1, <3>3, ElementsInSeq
    <3> QED BY <3>4 DEF t
  <2>2. types # <<>>
    BY <1>0, <1>1
  <2> HIDE DEF S
  <2> QED BY <1>0, <2>1, <2>2, ElementsInSeq
<1> HIDE DEF S, e
<1>5. \A i \in 2..m : Len(types[i]) = 1 /\ types[i][1] = Node(x[i], <<>>)
  BY <1>0, NamedIs
<1>6. \A i \in 1..m :
        LET f == FlattenSeq(SubSeq(types, 1, i))
        IN /\ f \in Seq(S) /\ Len(f) = k + i - 1
           /\ \A j \in 1..k : f[j] = types[1][j]
           /\ \A j \in 2..i : f[k + j - 1] = types[j][1]
  <2>1. m = Len(types) /\ \A i \in 2..Len(types) : Len(types[i]) = 1
    BY <1>0, <1>5
  <2> HIDE DEF S
  <2>2. \A i \in 1..Len(types) :
          /\ FlattenSeq(SubSeq(types, 1, i)) \in Seq(S)
          /\ Len(FlattenSeq(SubSeq(types, 1, i))) = Len(types[1]) + i - 1
          /\ \A j \in 1..Len(types[1]) : FlattenSeq(SubSeq(types, 1, i))[j] = types[1][j]
          /\ \A j \in 2..i : FlattenSeq(SubSeq(types, 1, i))[Len(types[1]) + j - 1] = types[j][1]
    BY <1>4, <2>1, FlatTypes
  <2> QED BY ONLY <2>1, <2>2 DEF k
<1>7. SubSeq(types, 1, m) = types
  <2> DEFINE t == SubSeq(types, 1, m)
  <2>1. t \in Seq(Seq(S)) /\ Len(t) = m /\ \A j \in 1..m : t[j] = types[j]
    BY <1>0, <1>1, <1>4, SubSeqProperties
  <2> HIDE DEF t
  <2>2. t = types
    BY <1>0, <1>4, <2>1, SeqEqual
  <2> QED BY <2>2 DEF t
<1>8. /\ flat \in Seq(S) /\ Len(flat) = k + m - 1
      /\ \A j \in 1..k : flat[j] = types[1][j]
      /\ \A j \in 2..m : flat[k + j - 1] = Node(x[j], <<>>)
  <2>1. m \in 1..m
    BY <1>1
  <2>2. /\ flat \in Seq(S) /\ Len(flat) = k + m - 1
        /\ \A j \in 1..k : flat[j] = types[1][j]
        /\ \A j \in 2..m : flat[k + j - 1] = types[j][1]
    <3>1. LET f == FlattenSeq(SubSeq(types, 1, m))
          IN /\ f \in Seq(S) /\ Len(f) = k + m - 1
             /\ \A j \in 1..k : f[j] = types[1][j]
             /\ \A j \in 2..m : f[k + j - 1] = types[j][1]
      BY <1>6, <2>1
    <3> QED BY <1>7, <3>1
  <2> HIDE DEF flat
  <2> QED BY <1>5, <2>2
<1>9. DOMAIN root.children = 1..m /\ root.op = "->" /\ \A i \in 1..m : root.children[i] = k + i - 1
  <2>1. \A i \in 1..m : NodesUpTo(types, i) = k + i - 1
    BY <1>6 DEF NodesUpTo
  <2> QED BY <1>1, <2>1 DEF Node
<1> HIDE DEF root, flat
<1> DEFINE T == S \cup {root}
<1>10. /\ e \in Seq(T) /\ Len(e) = k + m /\ e[k + m] = root
       /\ \A j \in 1..k : e[j] = types[1][j]
       /\ \A j \in 2..m : e[k + j - 1] = Node(x[j], <<>>)
  <2>1. flat \in Seq(T) /\ root \in T
    BY <1>8
  <2> HIDE DEF T
  <2>2. e \in Seq(T) /\ Len(e) = Len(flat) + 1 /\ e[Len(flat) + 1] = root
        /\ \A j \in 1..Len(flat) : e[j] = flat[j]
    BY <1>2, <2>1, AppendProperties
  <2>3. Len(flat) + 1 = k + m
    BY <1>1, <1>8
  <2>4. \A j \in 1..k : j \in 1..Len(flat)
    BY <1>1, <1>8
  <2>5. \A j \in 2..m : k + j - 1 \in 1..Len(flat)
    BY <1>1, <1>8
  <2> QED BY <1>8, <2>2, <2>3, <2>4, <2>5
<1> HIDE DEF T
<1>11. \A i \in 1..(k + m) : i \in 1..k \/ (\E j \in 2..m : i = k + j - 1) \/ i = k + m
  <2> SUFFICES ASSUME NEW i \in 1..(k + m), i \notin 1..k, i # k + m
               PROVE  \E j \in 2..m : i = k + j - 1
    OBVIOUS
  <2>1. i - k + 1 \in 2..m /\ i = k + (i - k + 1) - 1
    BY <1>1
  <2> QED BY <2>1
<1>12. WellFormed(e)
  <2>1. e \in Seq(ToSet(e))
    BY <1>10, OwnSet
  <2>2. ASSUME NEW i \in 1..(k + m), NEW j \in DOMAIN e[i].children
        PROVE  e[i].children[j] \in 1..(i - 1)
    <3>1. CASE i \in 1..k
      BY <1>0, <1>10, <2>2, <3>1 DEF WellFormed, k
    <3>2. CASE \E h \in 2..m : i = k + h - 1
      <4>1. PICK h \in 2..m : i = k + h - 1
        BY <3>2
      <4>3. e[i] = Node(x[h], <<>>)
        BY <1>10, <4>1
      <4>2. DOMAIN e[i].children = {}
        BY <4>3 DEF Node
      <4> QED BY <2>2, <4>2
    <3>3. CASE i = k + m
      <4>1. j \in 1..m /\ e[i].children[j] = k + j - 1
        BY <1>9, <1>10, <2>2, <3>3
      <4>2. k + j - 1 \in 1..(k + m - 1)
        BY <1>1, <4>1
      <4>3. i - 1 = k + m - 1
        BY <1>1, <3>3
      <4> QED BY <4>1, <4>2, <4>3
    <3> QED BY <1>11, <3>1, <3>2, <3>3
  <2>3. Len(e) = k + m /\ k + m > 0
    BY <1>1, <1>10
  <2> QED BY <2>1, <2>2, <2>3 DEF WellFormed
<1>13. PICK f : HasTrees(e, f) /\ TreeOf(e) = f[Len(e)]
  BY <1>12, TreeOfIs
<1>14. PICK g : HasTrees(types[1], g) /\ TreeOf(types[1]) = g[k]
  BY <1>0, TreeOfIs DEF k
<1>15. DOMAIN e = 1..(k + m)
  BY <1>10, LenProperties
<1>16. f[k] = TreeOf(types[1])
  <2>1. \A i \in 1..k : g[i] = f[i]
    <3> DEFINE a == types[1]
    <3>0. Len(a) = k
      BY DEF k
    <3>1. WellFormed(a) /\ Len(a) <= Len(e) /\ \A i \in 1..Len(a) : e[i] = a[i]
      <4>1. WellFormed(a)
        BY <1>0
      <4>2. \A i \in 1..Len(a) : e[i] = a[i]
        BY <1>10, <3>0
      <4>3. k <= k + m
        BY <1>1
      <4> HIDE DEF a
      <4> QED BY <1>10, <3>0, <4>1, <4>2, <4>3
    <3>2. HasTrees(a, g) /\ HasTrees(e, f)
      BY <1>13, <1>14
    <3> HIDE DEF a
    <3>4. \A i \in 1..Len(a) : g[i] = f[i]
      BY <1>12, <3>1, <3>2, TreesAgree
    <3> QED BY <3>0, <3>4
  <2>2. k \in 1..k
    BY <1>1
  <2> QED BY <1>14, <2>1, <2>2
<1>17. \A j \in 2..m : f[k + j - 1] = LeafOf(x[j])
  <2> SUFFICES ASSUME NEW j \in 2..m PROVE f[k + j - 1] = LeafOf(x[j])
    OBVIOUS
  <2>1. k + j - 1 \in 1..(k + m)
    BY <1>1
  <2>2. f[k + j - 1] = TreeAt(e, f, k + j - 1)
    BY <1>13, <1>15, <2>1 DEF HasTrees
  <2>3. e[k + j - 1].op = x[j] /\ DOMAIN e[k + j - 1].children = {}
    <3>1. e[k + j - 1] = Node(x[j], <<>>)
      BY <1>10
    <3> QED BY <3>1 DEF Node
  <2> QED BY <2>2, <2>3 DEF TreeAt, LeafOf
<1>18. TreeOf(e) = TreeAt(e, f, k + m)
  <2>1. k + m \in 1..(k + m)
    BY <1>1
  <2> QED BY <1>10, <1>13, <1>15, <2>1 DEF HasTrees
<1>19. TreeAt(e, f, k + m) = ArrowTree(TreeOf(types[1]), m, x)
  <2>1. TreeAt(e, f, k + m) = [op |-> "->", args |-> [j \in 1..m |-> f[k + j - 1]]]
    <3>1. \A j \in 1..m : f[root.children[j]] = f[k + j - 1]
      BY <1>9
    <3> QED BY <1>9, <1>10, <3>1 DEF TreeAt
  <2>2. ASSUME NEW j \in 1..m
        PROVE  f[k + j - 1] = IF j = 1 THEN TreeOf(types[1]) ELSE LeafOf(x[j])
    <3>1. CASE j = 1
      <4>1. k + j - 1 = k
        BY <1>1, <3>1
      <4> QED BY <1>16, <3>1, <4>1
    <3>2. CASE j # 1
      <4>1. j \in 2..m
        BY <1>1, <3>2
      <4> QED BY <1>17, <3>2, <4>1
    <3> QED BY <3>1, <3>2
  <2> QED BY <2>1, <2>2 DEF ArrowTree
<1> QED BY <1>12, <1>18, <1>19 DEF e

\* The names of the types an arrow is made of, each as an expression.
NamedTypes(a) == [i \in DOMAIN a |-> Named(a[i])]

LEMMA NamedTypesAre ==
  ASSUME NEW a, a \in Seq(ToSet(a)), Len(a) > 1
  PROVE  LET types == NamedTypes(a)
         IN /\ types \in Seq(ToSet(types)) /\ Len(types) = Len(a)
            /\ \A i \in 1..Len(a) : types[i] = Named(a[i])
            /\ Front(types) # <<>> /\ Append(Front(types), Last(types)) = types
            /\ Front(types) = [i \in 1..(Len(a) - 1) |-> Named(a[i])]
            /\ Last(types) = Named(a[Len(a)])
<1> DEFINE types == NamedTypes(a)
           n == Len(a)
           S == ToSet(types)
<1>1. n \in Nat /\ DOMAIN a = 1..n
  BY LenProperties
<1>2. types = [i \in 1..n |-> Named(a[i])]
  BY <1>1 DEF NamedTypes
<1>3. \A i \in 1..n : types[i] \in S
  BY <1>2 DEF ToSet
<1> HIDE DEF types, S
<1>4. types \in Seq(S) /\ Len(types) = n
  <2>1. types \in [1..n -> S]
    BY <1>2, <1>3
  <2> HIDE DEF n
  <2> QED BY <1>1, <2>1
<1>5. types # <<>> /\ n > 1
  BY <1>4
<1> HIDE DEF n
<1>6. /\ Front(types) \in Seq(S) /\ Len(Front(types)) = n - 1
      /\ \A i \in 1..(n - 1) : Front(types)[i] = types[i]
      /\ Last(types) = types[n] /\ Last(types) \in S
  BY <1>4, <1>5, FrontLastProperties
<1> DEFINE front == Front(types)
           last == Last(types)
           whole == Append(front, last)
<1>7. whole = types
  <2> HIDE DEF front, last
  <2>1. front \in Seq(S) /\ last \in S /\ Len(front) = n - 1
    BY <1>6 DEF front, last
  <2>2. whole \in Seq(S) /\ Len(whole) = n /\ whole[n] = last
        /\ \A i \in 1..(n - 1) : whole[i] = front[i]
    BY <1>1, <2>1, AppendProperties
  <2>3. \A i \in 1..n : whole[i] = types[i]
    <3>1. \A i \in 1..n : i = n \/ i \in 1..(n - 1)
      BY <1>1
    <3> HIDE DEF whole
    <3> QED BY <1>6, <2>2, <3>1 DEF front, last
  <2> HIDE DEF whole
  <2> QED BY <1>4, <2>2, <2>3, SeqEqual
<1>8. front # <<>>
  <2>1. Len(front) > 0
    BY <1>1, <1>5, <1>6
  <2> HIDE DEF front
  <2> QED BY <2>1
<1>9. front = [i \in 1..(n - 1) |-> Named(a[i])]
  <2>1. DOMAIN front = 1..(n - 1)
    BY <1>6, LenProperties
  <2>2. front = [i \in 1..(n - 1) |-> front[i]]
    <3>1. front \in Seq(S)
      BY <1>6
    <3> HIDE DEF front
    <3> QED BY <2>1, <3>1
  <2>3. \A i \in 1..(n - 1) : front[i] = Named(a[i])
    <3>1. \A i \in 1..(n - 1) : i \in 1..n
      BY <1>1
    <3> QED BY <1>2, <1>6, <3>1
  <2> HIDE DEF front
  <2> QED BY <2>2, <2>3
<1>10. last = Named(a[n]) /\ \A i \in 1..n : types[i] = Named(a[i])
  <2>1. n \in 1..n
    BY <1>1, <1>5
  <2> QED BY <1>2, <1>6, <2>1
<1> QED BY <1>4, <1>7, <1>8, <1>9, <1>10 DEF types, n, S

\* A type, as a tree, is what its name says.
LEMMA ExprIs ==
  ASSUME NEW type
  PROVE  WellFormed(Expr(type)) /\ TreeOf(Expr(type)) = DeclaredTree(type)
<1>1. CASE type \notin DOMAIN Arrows
  BY <1>1, NamedIs DEF Expr, DeclaredTree, LeafOf
<1>2. CASE type \in DOMAIN Arrows
  <2> DEFINE a == Arrows[type]
             types == NamedTypes(a)
             n == Len(a)
  <2>1. a \in Seq(ToSet(a)) /\ n > 1 /\ n \in Nat /\ DOMAIN a = 1..n
    BY <1>2, ArrowsAssumption, LenProperties
  <2>2. Expr(type) = GetType(Front(types), Last(types))
    BY <1>2 DEF Expr, NamedTypes
  <2> HIDE DEF types
  <2>3. /\ types \in Seq(ToSet(types)) /\ Len(types) = n
        /\ \A i \in 1..n : types[i] = Named(a[i])
        /\ Front(types) # <<>> /\ Append(Front(types), Last(types)) = types
    BY <2>1, NamedTypesAre DEF types
  <2> HIDE DEF a, n
  <2>4. WellFormed(types[1]) /\ TreeOf(types[1]) = LeafOf(a[1])
    <3>1. 1 \in 1..n
      BY <2>1
    <3> QED BY <2>3, <3>1, NamedIs
  <2>5. \A i \in 2..n : types[i] = Named(a[i])
    <3>1. \A i \in 2..n : i \in 1..n
      BY <2>1
    <3> QED BY <2>3, <3>1
  <2>6. /\ WellFormed(Expr(type))
        /\ TreeOf(Expr(type)) = ArrowTree(TreeOf(types[1]), n, a)
    <3> DEFINE ps == Front(types)
               r == Last(types)
    <3>1. ps # <<>> /\ types = Append(ps, r) /\ n = Len(types) /\ n > 0
      BY <2>1, <2>3
    <3>2. Expr(type) = GetType(ps, r)
      BY <2>2
    <3> HIDE DEF ps, r
    <3>3. Strung(ps, r, types, n, a)
      BY <2>3, <2>4, <2>5, <3>1 DEF Strung
    <3> QED BY <3>2, <3>3, GetTypeIs
  <2>7. ArrowTree(LeafOf(a[1]), n, a) = DeclaredTree(type)
    BY <1>2, <2>1 DEF ArrowTree, DeclaredTree, Leafs, LeafOf, a
  <2> QED BY <2>4, <2>6, <2>7
<1> QED BY <1>1, <1>2

\* get_type is right for a function that takes no function after its first
\* parameter and returns none.
LEMMA TypeOfIs ==
  ASSUME NEW f, f.params \in Seq(ToSet(f.params)), f.ret \notin DOMAIN Arrows,
         \A i \in 2..Len(f.params) : f.params[i] \notin DOMAIN Arrows
  PROVE  TypeOf(f) = DeclaredType(f)
<1> DEFINE ps == f.params
           n == Len(ps)
           exprs == [i \in DOMAIN ps |-> Expr(ps[i])]
           ret == Expr(f.ret)
           types == Append(exprs, ret)
           x == Append(ps, f.ret)
<1>1. n \in Nat /\ DOMAIN ps = 1..n
  BY LenProperties
<1>2. TypeOf(f) = TreeOf(GetType(exprs, ret))
  BY DEF TypeOf
<1>3. CASE ps = <<>>
  <2>1. exprs = <<>>
    BY <1>3
  <2>2. TypeOf(f) = TreeOf(ret)
    BY <1>2, <2>1 DEF GetType
  <2> QED BY <1>3, <2>2, ExprIs DEF DeclaredType
<1>4. CASE ps # <<>>
  <2> DEFINE T == ToSet(ps) \cup {f.ret}
             U == {Expr(t) : t \in T}
             m == n + 1
  <2>1. x \in Seq(T) /\ Len(x) = m /\ x[m] = f.ret /\ \A i \in 1..n : x[i] = ps[i]
    <3> HIDE DEF ps, n
    <3>1. ps \in Seq(T) /\ f.ret \in T /\ Len(ps) = n
      BY <1>1 DEF ps, n
    <3> HIDE DEF T
    <3> QED BY <3>1, AppendProperties
  <2>2. exprs \in Seq(U) /\ Len(exprs) = n /\ ret \in U
    <3>1. \A i \in 1..n : Expr(ps[i]) \in U
      BY <1>1, ElementAt
    <3>2. exprs = [i \in 1..n |-> Expr(ps[i])] /\ ret \in U
      BY <1>1
    <3> HIDE DEF ps, n, U, exprs
    <3>3. exprs \in [1..n -> U]
      BY <3>1, <3>2
    <3> QED BY <1>1, <3>2, <3>3
  <2>3. types \in Seq(U) /\ Len(types) = m /\ types[m] = ret
        /\ \A i \in 1..n : types[i] = exprs[i]
    <3> HIDE DEF exprs, ret, U, n
    <3> QED BY <2>2, AppendProperties
  <2>4. \A i \in 1..m : i = m \/ i \in 1..n
    BY <1>1
  <2>5. \A i \in 1..m : types[i] = Expr(x[i])
    <3>1. \A i \in 1..n : exprs[i] = Expr(ps[i])
      BY <1>1
    <3> HIDE DEF exprs, types, x, ps, n
    <3> QED BY <2>1, <2>3, <2>4, <3>1
  <2>6. \A i \in 2..m : x[i] \notin DOMAIN Arrows
    <3>1. \A i \in 2..m : i = m \/ i \in 2..n
      BY <1>1
    <3>2. \A i \in 2..n : x[i] = ps[i]
      <4>1. \A i \in 2..n : i \in 1..n
        BY <1>1
      <4> HIDE DEF x, ps, n
      <4> QED BY <2>1, <4>1
    <3> HIDE DEF x, m
    <3> QED BY <2>1, <3>1, <3>2 DEF m
  <2>7. n > 0 /\ exprs # <<>>
    <3>1. n > 0
      BY <1>1, <1>4, EmptySeq
    <3> HIDE DEF exprs, n
    <3> QED BY <2>2, <3>1
  <2>8. types \in Seq(ToSet(types))
    <3> HIDE DEF types, U
    <3> QED BY <2>3, OwnSet
  <2>9. DeclaredType(f) = [op |-> "->", args |-> [i \in 1..m |-> DeclaredTree(x[i])]]
    <3>1. DOMAIN x = 1..m
      BY <2>1, LenProperties
    <3>2. DeclaredType(f) = [op |-> "->", args |-> [i \in DOMAIN x |-> DeclaredTree(x[i])]]
      BY <1>4 DEF DeclaredType
    <3> HIDE DEF x, m
    <3> QED BY <3>1, <3>2
  <2> HIDE DEF x, types, exprs, ret, m
  <2>10. m \in Nat /\ m > 0 /\ 1 \in 1..m /\ \A i \in 2..m : i \in 1..m
    BY <1>1, <2>7 DEF m
  <2>11. \A i \in 2..m : types[i] = Named(x[i]) /\ DeclaredTree(x[i]) = LeafOf(x[i])
    BY <2>5, <2>6, <2>10 DEF Expr, DeclaredTree, LeafOf
  <2>12. WellFormed(types[1]) /\ TreeOf(types[1]) = DeclaredTree(x[1])
    BY <2>5, <2>10, ExprIs
  <2>13. TreeOf(GetType(exprs, ret)) = ArrowTree(TreeOf(types[1]), m, x)
    <3>1. types = Append(exprs, ret) /\ m = Len(types)
      BY <2>3 DEF types
    <3>2. \A i \in 2..m : types[i] = Named(x[i])
      BY <2>11
    <3>3. Strung(exprs, ret, types, m, x)
      BY <2>7, <2>8, <2>10, <2>12, <3>1, <3>2 DEF Strung
    <3> QED BY <3>3, GetTypeIs
  <2>14. ASSUME NEW i \in 1..m
         PROVE  DeclaredTree(x[i]) = IF i = 1 THEN TreeOf(types[1]) ELSE LeafOf(x[i])
    <3>1. CASE i = 1
      BY <2>12, <3>1
    <3>2. CASE i # 1
      <4>1. i \in 2..m
        BY <2>10, <3>2
      <4> QED BY <2>11, <3>2, <4>1
    <3> QED BY <3>1, <3>2
  <2>15. DeclaredType(f) = ArrowTree(TreeOf(types[1]), m, x)
    BY <2>9, <2>14 DEF ArrowTree
  <2> QED BY <1>2, <2>13, <2>15
<1> QED BY <1>3, <1>4

\* A placeholder has the type it is for, and only one for a function type has
\* parameters.
LEMMA PlaceholderIs ==
  ASSUME NEW type, NEW i
  PROVE  LET ph == get_ph(type, i)
         IN /\ TypeOf(ph) = TreeOf(Expr(type))
            /\ ph.params \in Seq(ToSet(ph.params))
            /\ type \in DOMAIN Arrows => ph.params # <<>>
            /\ type \notin DOMAIN Arrows => ph.ret = type
<1> DEFINE ph == get_ph(type, i)
<1>1. CASE type \notin DOMAIN Arrows
  <2>1. ph.params = <<>> /\ ph.ret = type
    BY <1>1 DEF get_ph, Function
  <2> HIDE DEF ph
  <2>2. TypeOf(ph) = TreeOf(Expr(type))
    BY <2>1 DEF TypeOf, GetType
  <2>3. ph.params \in Seq(ToSet(ph.params))
    BY <2>1
  <2> QED BY <1>1, <2>1, <2>2, <2>3 DEF ph
<1>2. CASE type \in DOMAIN Arrows
  <2> DEFINE a == Arrows[type]
             n == Len(a)
             types == NamedTypes(a)
  <2>1. a \in Seq(ToSet(a)) /\ n > 1 /\ n \in Nat /\ DOMAIN a = 1..n
    BY <1>2, ArrowsAssumption, LenProperties
  <2>2. ph.params = Front(a) /\ ph.ret = Last(a)
    BY <1>2 DEF get_ph, Function
  <2>3. \A j \in 1..n : Expr(a[j]) = Named(a[j])
    <3>1. \A j \in 1..n : a[j] \in ToSet(a)
      BY <2>1, ElementAt
    <3>2. \A x \in ToSet(a) : x \notin DOMAIN Arrows
      BY <1>2, ArrowsAssumption
    <3> HIDE DEF a
    <3> QED BY <3>1, <3>2 DEF Expr
  <2>4. Expr(type) = GetType(Front(types), Last(types))
    BY <1>2 DEF Expr, NamedTypes
  <2> HIDE DEF types, ph
  <2>5. /\ Front(types) = [j \in 1..(n - 1) |-> Named(a[j])]
        /\ Last(types) = Named(a[n])
    BY <2>1, NamedTypesAre DEF types
  <2> HIDE DEF a, n
  <2>6. a # <<>>
    BY <2>1 DEF n
  <2>7. /\ Front(a) \in Seq(ToSet(a)) /\ Len(Front(a)) = n - 1
        /\ \A j \in 1..(n - 1) : Front(a)[j] = a[j]
        /\ Last(a) = a[n]
    BY <2>1, <2>6, FrontLastProperties DEF n
  <2> DEFINE front == Front(a)
  <2>8. DOMAIN front = 1..(n - 1) /\ front # <<>>
    <3>1. Len(front) > 0
      BY <2>1, <2>7
    <3>2. DOMAIN front = 1..(n - 1)
      BY <2>7, LenProperties
    <3> HIDE DEF front
    <3> QED BY <3>1, <3>2
  <2>9. [j \in DOMAIN front |-> Expr(front[j])] = [j \in 1..(n - 1) |-> Named(a[j])]
    <3>1. \A j \in 1..(n - 1) : Expr(front[j]) = Named(a[j])
      <4>1. \A j \in 1..(n - 1) : j \in 1..n
        BY <2>1
      <4> QED BY <2>3, <2>7, <4>1
    <3> HIDE DEF front
    <3> QED BY <2>8, <3>1
  <2>10. Expr(Last(a)) = Named(a[n])
    <3>1. n \in 1..n
      BY <2>1
    <3> QED BY <2>3, <2>7, <3>1
  <2>11. TypeOf(ph) = TreeOf(Expr(type))
    BY <2>2, <2>4, <2>5, <2>9, <2>10 DEF TypeOf
  <2>12. front \in Seq(ToSet(front))
    <3>1. front \in Seq(ToSet(a))
      BY <2>7
    <3> HIDE DEF front
    <3> QED BY <3>1, OwnSet
  <2> QED BY <1>2, <2>2, <2>8, <2>11, <2>12 DEF ph
<1> QED BY <1>1, <1>2

\* A function type is no other type.
LEMMA ArrowsDiffer ==
  ASSUME NEW type \in DOMAIN Arrows, NEW other, TreeOf(Expr(other)) = TreeOf(Expr(type))
  PROVE  other \in DOMAIN Arrows
<1> SUFFICES ASSUME other \notin DOMAIN Arrows PROVE FALSE
  OBVIOUS
<1> DEFINE a == Arrows[type]
<1>1. DeclaredTree(other).args = <<>>
  BY DEF DeclaredTree
<1>2. DeclaredTree(type).args = [i \in DOMAIN a |-> LeafOf(a[i])]
  BY DEF DeclaredTree, Leafs, LeafOf
<1>3. a \in Seq(ToSet(a)) /\ Len(a) > 1
  BY ArrowsAssumption
<1> HIDE DEF a
<1>4. 1 \in DOMAIN a
  <2>1. DOMAIN a = 1..Len(a) /\ Len(a) \in Nat
    BY <1>3, LenProperties
  <2> QED BY <1>3, <2>1
<1>5. DOMAIN [i \in DOMAIN a |-> LeafOf(a[i])] = DOMAIN a /\ DOMAIN <<>> = {}
  OBVIOUS
<1>6. DeclaredTree(other) = DeclaredTree(type)
  BY ExprIs
<1> QED BY <1>1, <1>2, <1>4, <1>5, <1>6

(***************************************************************************)
(* What is made of the definitions.                                        *)
(***************************************************************************)
\* Definitions that a theory can give.
GoodDefs(ds) ==
  /\ \A f \in ToSet(ds.functions) : f.params \in Seq(ToSet(f.params))
  /\ \A d \in ToSet(ds.datatypes) : \A c \in d.constructors :
       d.params[c] \in Seq(ToSet(d.params[c]))
  /\ DOMAIN ds.conjectures = 1..Len(ds.conjectures)
  /\ ds.conjectures # <<>> => 1 \in DOMAIN ds.conjectures
  /\ \A i \in DOMAIN ds.conjectures : IsGoal(ds.conjectures[i])

\* A TheSy is made of the functions, the datatypes and the conjectures.
LEMMA MadeOf ==
  ASSUME NEW a, NEW b, NEW opts, a.functions = b.functions, a.datatypes = b.datatypes,
         a.conjectures = b.conjectures
  PROVE  NewTheSy(a, opts) = NewTheSy(b, opts)
<1>1. Dict(a) = Dict(b)
  BY DEF Dict
<1>2. Goals(a, opts.proof_mode) = Goals(b, opts.proof_mode)
  BY DEF Goals, GoalVariants
<1>3. Provers(a) = Provers(b)
  BY DEF Provers
<1>4. CreateExampleIds(a, Dict(a), opts.ph_count) = CreateExampleIds(b, Dict(b), opts.ph_count)
  BY <1>1 DEF CreateExampleIds
<1> QED BY <1>1, <1>2, <1>3, <1>4 DEF NewTheSy

\* The parameters of a function come in a sequence.
LEMMA ParamsAre ==
  ASSUME NEW ds, GoodDefs(ds), NEW ph_count, NEW f \in GraphFunctions(Dict(ds), ph_count)
  PROVE  f.params \in Seq(ToSet(f.params))
<1>1. CASE f \in Bools
  <2>1. f.params = <<>>
    BY <1>1 DEF Bools, Function
  <2> QED BY <2>1
<1>2. CASE \E g \in ToSet(ds.functions) : f = Function(<<g.name>>, g.params, g.ret)
  BY <1>2 DEF Function, GoodDefs
<1>3. CASE \E d \in ToSet(ds.datatypes) : \E c \in d.constructors :
             f = Function(<<c>>, d.params[c], d.name)
  BY <1>3 DEF Function, GoodDefs
<1>4. CASE \E type, i : f = get_ph(type, i)
  BY <1>4, PlaceholderIs
<1>5. f \in Dict(ds) => \/ \E g \in ToSet(ds.functions) : f = Function(<<g.name>>, g.params, g.ret)
                        \/ \E d \in ToSet(ds.datatypes) : \E c \in d.constructors :
                             f = Function(<<c>>, d.params[c], d.name)
  BY DEF Dict, Constructors
<1>6. f \in CollectPhs(Dict(ds), ph_count) => \E type, i : f = get_ph(type, i)
  BY DEF CollectPhs
<1> QED BY <1>1, <1>2, <1>3, <1>4, <1>5, <1>6 DEF GraphFunctions

\* The parts of a TheSy.
TheSyOf(th, ds, opts) ==
  /\ th.dict = Dict(ds)
  /\ th.searchers = CreateSearchers(th.dict)
  /\ th.typed = CreateTyped(th.dict, opts.ph_count)
  /\ th.example_ids = CreateExampleIds(ds, th.dict, opts.ph_count)
  /\ th.apply_rws = CreateApplyRws(th.dict, opts.ph_count)
  /\ th.goals \in Goals(ds, opts.proof_mode)

LEMMA NewTheSyIs ==
  ASSUME NEW ds, NEW opts, NEW th \in NewTheSy(ds, opts)
  PROVE  TheSyOf(th, ds, opts)
BY DEF NewTheSy, TheSyOf

\* What has been read can be made a TheSy of.
LEMMA ReadIsGood == Inv /\ status = "parsed" => GoodDefs(defs)
<1> SUFFICES ASSUME Inv, status = "parsed" PROVE GoodDefs(defs)
  OBVIOUS
<1> DEFINE text == Text(theory)[Main]
<1>1. theory \in Theories /\ Reads(defs, text)
  BY DEF Inv, Lawful
<1>2. text \in Seq(AllLines(theory))
  BY <1>1, TextIs, MainAssumption
<1> HIDE DEF text
<1>3. /\ \A f \in ToSet(defs.functions) : f \in Declared(theory, "declare-fun", f.name)
      /\ \A d \in ToSet(defs.datatypes) : d \in Declared(theory, "datatype", d.name)
      /\ \A c \in ToSet(defs.conjectures) :
           \E l \in AllLines(theory) : l.op = "prove" /\ c = l.def
  BY <1>1, <1>2, ReadsDeclared, SMTT(30)
<1>4. \A f \in ToSet(defs.functions) : f.params \in Seq(ToSet(f.params))
  <2> SUFFICES ASSUME NEW f \in ToSet(defs.functions) PROVE f.params \in Seq(ToSet(f.params))
    OBVIOUS
  <2>1. PICK l \in AllLines(theory) : l.op = "declare-fun" /\ f = l.def
    BY <1>3 DEF Declared
  <2> QED BY <1>1, <2>1, DeclarationsAssumption
<1>5. \A d \in ToSet(defs.datatypes) : \A c \in d.constructors :
        d.params[c] \in Seq(ToSet(d.params[c]))
  <2> SUFFICES ASSUME NEW d \in ToSet(defs.datatypes), NEW c \in d.constructors
               PROVE  d.params[c] \in Seq(ToSet(d.params[c]))
    OBVIOUS
  <2>1. PICK l \in AllLines(theory) : l.op = "datatype" /\ d = l.def
    BY <1>3 DEF Declared
  <2> QED BY <1>1, <2>1, DeclarationsAssumption
<1> DEFINE cs == defs.conjectures
<1>6. cs \in Seq(Defined(theory)) /\ DOMAIN cs = 1..Len(cs)
  <2>1. "conjectures" \in Fields
    BY DEF Fields
  <2> QED BY <1>1, <1>2, <2>1, ReadsSequences
<1>7. cs # <<>> => 1 \in DOMAIN cs
  <2> HIDE DEF cs
  <2>1. Len(cs) \in Nat /\ (cs # <<>> => Len(cs) > 0)
    BY <1>6, LenProperties, EmptySeq
  <2> QED BY <1>6, <2>1
<1>8. \A i \in DOMAIN cs : IsGoal(cs[i])
  <2> SUFFICES ASSUME NEW i \in DOMAIN cs PROVE IsGoal(cs[i])
    OBVIOUS
  <2>1. cs[i] \in ToSet(cs)
    BY DEF ToSet
  <2>2. PICK l \in AllLines(theory) : l.op = "prove" /\ cs[i] = l.def
    BY <1>3, <2>1
  <2> QED BY <1>1, <2>2, DeclarationsAssumption DEF IsGoal
<1> QED BY <1>4, <1>5, <1>6, <1>7, <1>8 DEF GoodDefs

(***************************************************************************)
(* The invariant.                                                          *)
(***************************************************************************)
ConfigInv ==
  /\ program \in {"reading", "configured", "created", "running", "ended", "panicked"}
  /\ program = "reading" => Inv
  /\ program \in {"configured", "created", "running"} => GoodDefs(defs) /\ args \in CliOpts
  /\ HasTheSy => TheSyOf(thesy, defs, args)

LEMMA InitConfigInv == InitProgram => ConfigInv
BY InitInv DEF InitProgram, ConfigInv, HasTheSy

LEMMA NextConfigInv == ConfigInv /\ [NextProgram]_all_vars => ConfigInv'
<1> SUFFICES ASSUME ConfigInv, [NextProgram]_all_vars PROVE ConfigInv'
  OBVIOUS
<1>1. CASE Read
  <2>1. Inv /\ Next /\ program' = "reading"
    BY <1>1 DEF Read, ConfigInv, config_vars
  <2>2. Inv'
    BY <2>1, NextInv
  <2> QED BY <2>1, <2>2 DEF ConfigInv, HasTheSy
<1>2. CASE Configure
  <2>1. Inv /\ args' \in CliOpts /\ UNCHANGED <<theory, stack, defs, status>>
    BY <1>2 DEF Configure, ConfigInv, vars
  <2>2. CASE status = "parsed"
    <3>1. program' = "configured"
      BY <1>2, <2>2 DEF Configure
    <3>2. GoodDefs(defs)
      BY <2>1, <2>2, ReadIsGood
    <3>3. GoodDefs(defs)'
      BY <2>1, <3>2 DEF GoodDefs
    <3> QED BY <2>1, <3>1, <3>3 DEF ConfigInv, HasTheSy
  <2>3. CASE status # "parsed"
    <3>1. program' = "panicked"
      BY <1>2, <2>3 DEF Configure
    <3> QED BY <3>1 DEF ConfigInv, HasTheSy
  <2> QED BY <2>2, <2>3
<1>3. CASE CreateTheSy
  <2>1. /\ program' = "created" /\ args' = args /\ defs' = defs
        /\ thesy' \in NewTheSy(defs, args) /\ GoodDefs(defs) /\ args \in CliOpts
    BY <1>3 DEF CreateTheSy, ConfigInv, vars
  <2>2. TheSyOf(thesy', defs, args)
    BY <2>1, NewTheSyIs
  <2> QED BY <2>1, <2>2 DEF ConfigInv, HasTheSy
<1>4. CASE NoExamplePanic
  BY <1>4 DEF NoExamplePanic, ConfigInv, HasTheSy
<1>5. CASE CheckEquiv
  BY <1>5 DEF CheckEquiv, ConfigInv, HasTheSy
<1>6. CASE Run
  <2>1. /\ program' = "running" /\ args' = args /\ defs' = [defs EXCEPT !.case_splitters = {}]
        /\ thesy' \in NewTheSy(defs, args) /\ GoodDefs(defs) /\ args \in CliOpts
    BY <1>6 DEF Run, ConfigInv, vars
  <2>2. /\ defs'.functions = defs.functions /\ defs'.datatypes = defs.datatypes
        /\ defs'.conjectures = defs.conjectures
    BY <2>1
  <2>3. thesy' \in NewTheSy(defs', args)
    BY <2>1, <2>2, MadeOf
  <2>4. TheSyOf(thesy', defs', args)
    BY <2>3, NewTheSyIs
  <2>5. GoodDefs(defs')
    BY <2>1, <2>2 DEF GoodDefs
  <2> QED BY <2>1, <2>4, <2>5 DEF ConfigInv, HasTheSy
<1>7. CASE UNCHANGED all_vars
  <2>1. UNCHANGED <<theory, stack, defs, status>> /\ UNCHANGED <<program, args, thesy>>
    BY <1>7 DEF all_vars, vars, config_vars
  <2>2. Inv => Inv'
    BY <2>1, NextInv DEF vars
  <2> QED BY <2>1, <2>2 DEF ConfigInv, HasTheSy
<1> QED BY <1>1, <1>2, <1>3, <1>4, <1>5, <1>6, <1>7 DEF NextProgram

\* What a TheSy is made of stays what was read.
THEOREM ConfigInvariance == SpecProgram => []ConfigInv
<1> QED BY InitConfigInv, NextConfigInv, PTL DEF SpecProgram

(***************************************************************************)
(* The theorems about the program.                                         *)
(***************************************************************************)
\* Every goal is proved by an induction on each of its variables.
LEMMA GoalsAre == ConfigInv => GoalsInductOnEachVariable
<1> SUFFICES ASSUME ConfigInv, HasTheSy, NEW gs \in thesy.goals
             PROVE  /\ gs # <<>>
                    /\ DOMAIN gs = DOMAIN defs.conjectures
                    /\ \A i \in DOMAIN gs :
                         LET c == defs.conjectures[i]
                         IN /\ gs[i] \subseteq UNION {For(c, v) : v \in Inductive(defs, c)}
                            /\ \A v \in Inductive(defs, c) : Cardinality(gs[i] \cap For(c, v)) = 1
  BY DEF GoalsInductOnEachVariable, Datatypes, Inductive, For, Names, Renames
<1> DEFINE cs == defs.conjectures
           Variants(i) == {GoalVariants(defs, cs[i], phs) : phs \in Placeholders(cs[i].vars)}
<1>1. thesy.goals \in Goals(defs, args.proof_mode) /\ GoodDefs(defs)
  BY DEF ConfigInv, HasTheSy, TheSyOf
<1>2. cs # <<>> /\ DOMAIN gs = DOMAIN cs /\ \A i \in DOMAIN cs : gs[i] \in Variants(i)
  BY <1>1 DEF Goals
<1>3. gs # <<>>
  <2>1. 1 \in DOMAIN gs
    BY <1>1, <1>2 DEF GoodDefs
  <2>2. DOMAIN <<>> = {}
    OBVIOUS
  <2> QED BY <2>1, <2>2
<1>4. ASSUME NEW i \in DOMAIN gs
      PROVE  LET c == cs[i]
             IN /\ gs[i] \subseteq UNION {For(c, v) : v \in Inductive(defs, c)}
                /\ \A v \in Inductive(defs, c) : Cardinality(gs[i] \cap For(c, v)) = 1
  <2> DEFINE c == cs[i]
  <2>1. IsGoal(c)
    BY <1>1, <1>2 DEF GoodDefs
  <2>2. PICK phs \in Placeholders(c.vars) : gs[i] = GoalVariants(defs, c, phs)
    BY <1>2
  <2> HIDE DEF c
  <2>3. LET vs == GoalVariants(defs, c, phs)
        IN /\ vs \subseteq UNION {For(c, v) : v \in Inductive(defs, c)}
           /\ \A v \in Inductive(defs, c) : Cardinality(vs \cap For(c, v)) = 1
    BY <2>1, VariantsAre
  <2> QED BY <2>2, <2>3 DEF c
<1> QED BY <1>2, <1>3, <1>4

\* Types in the graph.
LEMMA TypedIs == ConfigInv => TypedAsDeclared
<1> DEFINE funs == GraphFunctions(thesy.dict, args.ph_count)
<1> SUFFICES ASSUME ConfigInv, HasTheSy, NEW f \in funs,
                    \A i \in 2..Len(f.params) : f.params[i] \notin DOMAIN Arrows,
                    f.ret \notin DOMAIN Arrows,
                    \A g \in funs : g.name = f.name => g = f
             PROVE  {p[2] : p \in {q \in thesy.typed : q[1] = f.name}} = {DeclaredType(f)}
  BY DEF TypedAsDeclared
<1>1. thesy.dict = Dict(defs) /\ GoodDefs(defs)
  BY DEF ConfigInv, HasTheSy, TheSyOf
<1>2. thesy.typed = {<<g.name, TypeOf(g)>> : g \in funs}
  BY DEF ConfigInv, HasTheSy, TheSyOf, CreateTyped
<1>3. f.params \in Seq(ToSet(f.params))
  BY <1>1, ParamsAre
<1>4. TypeOf(f) = DeclaredType(f)
  BY <1>3, TypeOfIs
<1> HIDE DEF funs
<1> DEFINE x == <<f.name, TypeOf(f)>>
<1>5. {q \in thesy.typed : q[1] = f.name} = {x}
  BY <1>2
<1>6. x[2] = DeclaredType(f)
  BY <1>4
<1> HIDE DEF x
<1> QED BY <1>5, <1>6

\* Arguments in the graph.
LEMMA AppliedIs == ConfigInv => EveryFunctionCanBeApplied
<1> DEFINE dict == thesy.dict
           k == args.ph_count
           funs == GraphFunctions(dict, k)
<1> SUFFICES ASSUME ConfigInv, HasTheSy, k > 0,
                    NEW f \in DOMAIN thesy.searchers, NEW i \in DOMAIN thesy.searchers[f]
             PROVE  LET type == thesy.searchers[f][i]
                    IN /\ NamesOf(type) # {}
                       /\ \A d \in Datatypes : type = d.name => IndVar(d) \in NamesOf(type)
                       /\ type \in DOMAIN Arrows => NamesOf(type) \subseteq thesy.apply_rws \cup Values
  BY DEF EveryFunctionCanBeApplied
<1> DEFINE type == thesy.searchers[f][i]
<1>1. TheSyOf(thesy, defs, args) /\ args \in CliOpts
  BY DEF ConfigInv, HasTheSy
<1>2. k \in Nat /\ 0 \in 0..(k - 1)
  BY <1>1, OptionsAssumption
<1>3. thesy.typed = {<<g.name, TypeOf(g)>> : g \in funs}
  BY <1>1 DEF TheSyOf, CreateTyped
<1>4. \E g \in dict : type \in ToSet(g.params)
  <2>1. thesy.searchers = [n \in {g.name : g \in {h \in dict : h.params # <<>>}} |->
                             (CHOOSE g \in dict : g.name = n).params]
    BY <1>1 DEF TheSyOf, CreateSearchers
  <2> DEFINE g == CHOOSE h \in dict : h.name = f
  <2>2. \E h \in dict : h.name = f
    BY <2>1
  <2>3. g \in dict
    BY <2>2
  <2>4. thesy.searchers[f] = g.params
    BY <2>1
  <2> HIDE DEF g
  <2> QED BY <2>3, <2>4 DEF ToSet
<1> DEFINE ph == get_ph(type, 0)
<1>5. ph \in CollectPhs(dict, k) /\ ph \in funs
  <2>1. type \in UNION {ToSet(g.params) : g \in dict}
    BY <1>4
  <2>2. ph \in CollectPhs(dict, k)
    BY <1>2, <2>1 DEF CollectPhs
  <2> QED BY <2>2 DEF GraphFunctions
<1>6. ph.name \in NamesOf(type)
  <2>1. TypeOf(ph) = TreeOf(Expr(type))
    BY PlaceholderIs
  <2> DEFINE p == <<ph.name, TypeOf(ph)>>
  <2>2. p \in thesy.typed
    BY <1>3, <1>5
  <2>3. p[1] = ph.name /\ p[2] = TreeOf(Expr(type))
    BY <2>1
  <2> HIDE DEF p, type, ph
  <2> QED BY <2>2, <2>3 DEF NamesOf
<1>7. \A d \in Datatypes : type = d.name => IndVar(d) \in NamesOf(type)
  BY <1>6 DEF IndVar
<1>8. ASSUME type \in DOMAIN Arrows, NEW n \in NamesOf(type) PROVE n \in thesy.apply_rws \cup Values
  <2>1. PICK g \in funs : n = g.name /\ TypeOf(g) = TreeOf(Expr(type))
    <3> HIDE DEF type, funs
    <3> QED BY <1>3, <1>8 DEF NamesOf
  <2>2. CASE g.params # <<>>
    <3>1. g \notin Bools
      BY <2>2 DEF Bools, Function
    <3>2. g \in dict \cup CollectPhs(dict, k)
      BY <3>1 DEF GraphFunctions
    <3>3. thesy.apply_rws = CreateApplyRws(dict, k)
      BY <1>1 DEF TheSyOf
    <3> HIDE DEF dict, k, type
    <3> QED BY <2>1, <2>2, <3>2, <3>3 DEF CreateApplyRws
  <2>3. CASE g.params = <<>>
    <3>1. TypeOf(g) = TreeOf(Expr(g.ret))
      BY <2>3 DEF TypeOf, GetType
    <3>2. g.ret \in DOMAIN Arrows
      <4> HIDE DEF type
      <4> QED BY <1>8, <2>1, <3>1, ArrowsDiffer
    <3>3. g \notin Bools
      <4>1. \A h \in Bools : h.ret = "Bool"
        BY DEF Bools, Function
      <4> QED BY <3>2, <4>1, BoolAssumption
    <3>4. g \notin CollectPhs(dict, k)
      <4> SUFFICES ASSUME NEW t, NEW j, g = get_ph(t, j) PROVE FALSE
        BY DEF CollectPhs
      <4>1. t \notin DOMAIN Arrows
        BY <2>3, PlaceholderIs
      <4>2. g.ret = t
        BY <4>1, PlaceholderIs
      <4> QED BY <3>2, <4>1, <4>2
    <3>5. g \in dict
      BY <3>3, <3>4 DEF GraphFunctions
    <3> QED BY <2>1, <2>3, <3>2, <3>5 DEF Values
  <2> QED BY <2>2, <2>3
<1> QED BY <1>6, <1>7, <1>8

\* Translations in the graph.
LEMMA TranslatedIs == ConfigInv => ArgumentsAreTranslated
<1> DEFINE funs == GraphFunctions(thesy.dict, args.ph_count)
           names == {g.name : g \in funs}
<1> SUFFICES ASSUME ConfigInv, HasTheSy, NEW d \in Datatypes
             PROVE  LET ids == thesy.example_ids[d]
                    IN /\ {p[1] : p \in thesy.typed} \cup {IndVar(d)} = DOMAIN ids
                       /\ \A n \in DOMAIN ids : ids[n] = IF n = IndVar(d) THEN Examples(d)
                                                         ELSE [i \in DOMAIN Examples(d) |-> n]
  BY DEF ArgumentsAreTranslated
<1>1. thesy.typed = {<<g.name, TypeOf(g)>> : g \in funs}
  BY DEF ConfigInv, HasTheSy, TheSyOf, CreateTyped
<1>2. thesy.example_ids[d] = [n \in names \cup {IndVar(d)} |->
                                IF n = IndVar(d) THEN Examples(d)
                                ELSE [i \in DOMAIN Examples(d) |-> n]]
  BY DEF ConfigInv, HasTheSy, TheSyOf, CreateExampleIds, Datatypes
<1>3. {p[1] : p \in thesy.typed} = names
  <2> HIDE DEF funs
  <2>1. \A g : <<g.name, TypeOf(g)>>[1] = g.name
    OBVIOUS
  <2>2. \A p \in thesy.typed : p[1] \in names
    BY <1>1, <2>1
  <2>3. \A g \in funs : g.name \in {p[1] : p \in thesy.typed}
    BY <1>1, <2>1
  <2> QED BY <2>2, <2>3
<1> HIDE DEF names
<1> QED BY <1>2, <1>3

\* For each conjecture that is to be proved there is a goal in its place: for
\* each variable of a datatype one induction on that variable, in which all
\* variables are kept apart and are placeholders of their types
\* (new_with_ph).
THEOREM GoalsAreInductions == SpecProgram => []GoalsInductOnEachVariable
<1> QED BY GoalsAre, ConfigInvariance, PTL

\* The initial graph holds what exploration needs: terms of the types they are
\* declared with, an argument for each parameter, and a value on every example
\* (create_graph_example_ids, create_sygue_serchers, create_apply_rws).
THEOREM GraphFits == SpecProgram => []InitialGraphFits
<1>1. ConfigInv => InitialGraphFits
  BY TypedIs, AppliedIs, TranslatedIs DEF InitialGraphFits
<1> QED BY <1>1, ConfigInvariance, PTL
=============================================================================
