----------------------------- MODULE TheSyProofs -----------------------------
(***************************************************************************)
(* Proofs about the exploration loop (TheSy), for every dictionary, depth, *)
(* rule set, list of goals and prover.                                     *)
(***************************************************************************)
EXTENDS TheSy, SequenceLemmas, FiniteSetTheorems, TLAPS

-----------------------------------------------------------------------------
(* The sorted vector of conjectures.                                       *)

\* There are finitely many conjectures.
LEMMA ConjectureFinite == IsFiniteSet(Conjecture)
<1> DEFINE Pairs == (Terms \X Terms) \X Datatypes
           Flat  == [p \in Pairs |-> <<p[1][1], p[1][2], p[2]>>]
           All   == {Flat[p] : p \in Pairs}
<1>1. IsFiniteSet(Terms)
  BY TermsAssumption, FS_Interval DEF Terms
<1>2. IsFiniteSet(Pairs)
  BY <1>1, FS_Product, TermsAssumption
<1>3. Flat \in Surjection(Pairs, All)
  BY DEF Surjection
<1>4. IsFiniteSet(All)
  BY <1>2, <1>3, FS_Surjection
<1>5. Conjecture \subseteq All
  <2> SUFFICES ASSUME NEW c \in Conjecture PROVE c \in All
    OBVIOUS
  <2>1. <<<<c[1], c[2]>>, c[3]>> \in Pairs
    BY DEF Conjecture
  <2>2. Flat[<<<<c[1], c[2]>>, c[3]>>] = c
    BY <2>1 DEF Conjecture
  <2> QED BY <2>1, <2>2
<1> QED BY <1>4, <1>5, FS_Subset

\* The order the conjectures are sorted by is a strict total order.
LEMMA BeforeIsOrder ==
  ASSUME NEW ord \in TieOrders,
         NEW b \in Conjecture, NEW c \in Conjecture, NEW e \in Conjecture
  PROVE  /\ ~Before(ord, c, c)
         /\ Before(ord, b, c) /\ Before(ord, c, e) => Before(ord, b, e)
         /\ c # e => Before(ord, c, e) \/ Before(ord, e, c)
<1>1. /\ ord \in [Conjecture -> Nat]
      /\ \A x, y \in Conjecture : ord[x] = ord[y] => x = y
  BY TermsAssumption
<1>2. \A x \in Conjecture :
        /\ ord[x] \in Nat /\ Cost[x[1]] \in Nat /\ Cost[x[2]] \in Nat
  BY <1>1, TermsAssumption DEF Conjecture
<1>3. c # e => ord[c] # ord[e]
  BY <1>1
<1> QED BY <1>2, <1>3 DEF Before, Simpler

\* What SortedUp chooses: position i holds the conjecture with i - 1 before it.
LEMMA SortedUpProperties ==
  ASSUME NEW S \in SUBSET Conjecture, NEW ord \in TieOrders
  PROVE  /\ SortedUp(S, ord) \in Seq(S)
         /\ Range(SortedUp(S, ord)) = S
         /\ \A i, j \in 1..Len(SortedUp(S, ord)) :
              i < j => ~Simpler(SortedUp(S, ord)[j], SortedUp(S, ord)[i])
<1> DEFINE n == Cardinality(S)
           Below(c) == {e \in S : Before(ord, e, c)}
           rank == [c \in S |-> Cardinality(Below(c))]
           s == SortedUp(S, ord)
<1>1. IsFiniteSet(S) /\ n \in Nat
  BY ConjectureFinite, FS_Subset, FS_CardinalityType
<1>2. ASSUME NEW c \in S
      PROVE  /\ IsFiniteSet(Below(c))
             /\ Cardinality(Below(c)) \in Int
             /\ Cardinality(Below(c)) \in 0..n - 1
  <2>1. Below(c) \in SUBSET S /\ c \notin Below(c)
    BY BeforeIsOrder
  <2>2. IsFiniteSet(Below(c)) /\ Cardinality(Below(c)) <= n /\ Cardinality(Below(c)) # n
    BY <1>1, <2>1, FS_Subset
  <2>3. Cardinality(Below(c)) \in Nat
    BY <2>2, FS_CardinalityType
  <2> QED BY <1>1, <2>2, <2>3
<1>3. ASSUME NEW c \in S, NEW e \in S, Before(ord, c, e)
      PROVE  rank[c] < rank[e]
  <2>1. Below(c) \in SUBSET Below(e)
    BY <1>3, BeforeIsOrder
  <2>2. c \in Below(e) /\ c \notin Below(c)
    BY <1>3, BeforeIsOrder
  <2>3. /\ Cardinality(Below(c)) <= Cardinality(Below(e))
        /\ Cardinality(Below(c)) # Cardinality(Below(e))
    BY <1>2, <2>1, <2>2, FS_Subset
  <2>4. Cardinality(Below(c)) \in Int /\ Cardinality(Below(e)) \in Int
    <3> HIDE DEF Below, n
    <3> QED BY <1>2
  <2> QED BY <2>3, <2>4
<1>4. rank \in [S -> 0..n - 1]
  BY <1>2
<1> HIDE DEF rank
<1>5. rank \in Injection(S, 0..n - 1)
  <2>1. \A c, e \in S : rank[c] = rank[e] => c = e
    <3> SUFFICES ASSUME NEW c \in S, NEW e \in S, c # e PROVE rank[c] # rank[e]
      OBVIOUS
    <3>1. rank[c] \in Int /\ rank[e] \in Int
      BY <1>1, <1>4
    <3>2. rank[c] < rank[e] \/ rank[e] < rank[c]
      BY <1>3, BeforeIsOrder
    <3> QED BY <3>1, <3>2
  <2> QED BY <1>4, <2>1 DEF Injection, IsInjective
<1>6. IsFiniteSet(0..n - 1) /\ Cardinality(0..n - 1) = n
  BY <1>1, FS_Interval
<1>7. rank \in Surjection(S, 0..n - 1)
  BY <1>1, <1>5, <1>6, FS_Injection
<1>8. \A i \in 1..n : \E c \in S : Cardinality(Below(c)) = i - 1
  <2> TAKE i \in 1..n
  <2>1. i - 1 \in 0..n - 1
    BY <1>1
  <2>2. PICK c \in S : rank[c] = i - 1
    BY <2>1, <1>7 DEF Surjection
  <2> QED BY <2>2 DEF rank
<1>9. \A i \in 1..n : s[i] = CHOOSE c \in S : Cardinality(Below(c)) = i - 1
  BY DEF SortedUp
<1>10. \A i \in 1..n : s[i] \in S /\ rank[s[i]] = i - 1
  <2> TAKE i \in 1..n
  <2>1. s[i] \in S /\ Cardinality(Below(s[i])) = i - 1
    <3> HIDE DEF Below, s
    <3> QED BY <1>8, <1>9
  <2> QED BY <2>1 DEF rank
<1>11. s \in Seq(S) /\ Len(s) = n /\ DOMAIN s = 1..n
  <2>1. s \in [1..n -> S]
    <3> DEFINE chosen(i) == CHOOSE c \in S : Cardinality(Below(c)) = i - 1
    <3>1. s = [i \in 1..n |-> chosen(i)]
      BY DEF SortedUp
    <3>2. \A i \in 1..n : chosen(i) \in S
      BY <1>9, <1>10
    <3> HIDE DEF s, n, chosen
    <3> QED BY <3>1, <3>2
  <2> QED BY <1>1, <2>1, SeqDef, LenProperties
<1>12. Range(s) = S
  <2>1. \A c \in S : \E i \in 1..n : s[i] = c
    <3> TAKE c \in S
    <3>1. rank[c] \in 0..n - 1
      BY <1>4
    <3>0. rank[c] + 1 \in 1..n
      BY <3>1, <1>1
    <3> WITNESS rank[c] + 1 \in 1..n
    <3>2. rank[s[rank[c] + 1]] = rank[c] /\ s[rank[c] + 1] \in S
      BY <1>1, <1>10, <3>1
    <3> QED BY <3>2, <1>5 DEF Injection, IsInjective
  <2> QED BY <2>1, <1>10, <1>11 DEF Range
<1>13. ASSUME NEW i \in 1..n, NEW j \in 1..n, i < j
       PROVE  ~Simpler(s[j], s[i])
  <2> SUFFICES ASSUME Simpler(s[j], s[i]) PROVE FALSE
    OBVIOUS
  <2>1. Before(ord, s[j], s[i])
    BY DEF Before
  <2>2. rank[s[j]] < rank[s[i]]
    BY <2>1, <1>3, <1>10
  <2> QED BY <2>2, <1>10, <1>13, <1>1
<1> HIDE DEF s, n
<1> QED BY <1>11, <1>12, <1>13 DEF s

\* What get_conjectures returns: exactly the open conjectures, the simplest
\* last.
LEMMA GetConjecturesProperties ==
  ASSUME NEW f, NEW n, NEW s \in GetConjectures(f, n)
  PROVE  /\ s \in Seq(Conjecture)
         /\ Range(s) = OpenConjectures(f, n)
         /\ \A i, j \in 1..Len(s) : i < j => ~Simpler(s[i], s[j])
<1> DEFINE S == OpenConjectures(f, n)
<1>1. PICK ord \in TieOrders : s = SortedDown(S, ord)
  BY DEF GetConjectures
<1>2. S \in SUBSET Conjecture
  BY DEF OpenConjectures
<1> DEFINE up == SortedUp(S, ord)
<1>3. /\ up \in Seq(S) /\ Range(up) = S
      /\ \A i, j \in 1..Len(up) : i < j => ~Simpler(up[j], up[i])
  <2> HIDE DEF S
  <2> QED BY <1>2, SortedUpProperties
<1>4. s = Reverse(up)
  BY <1>1 DEF SortedDown
<1> HIDE DEF S, up
<1>5. /\ s \in Seq(S) /\ Len(s) = Len(up) /\ Range(s) = S
      /\ \A i \in 1..Len(up) : s[i] = up[Len(up) - i + 1]
  BY <1>3, <1>4, ReverseProperties
<1>6. s \in Seq(Conjecture)
  BY <1>2, <1>5, SeqMonotonic
<1>7. ASSUME NEW i \in 1..Len(s), NEW j \in 1..Len(s), i < j
      PROVE  ~Simpler(s[i], s[j])
  <2>1. Len(up) \in Nat
    BY <1>3, LenProperties
  <2>2. /\ Len(up) - i + 1 \in 1..Len(up) /\ Len(up) - j + 1 \in 1..Len(up)
        /\ Len(up) - j + 1 < Len(up) - i + 1
    BY <1>5, <1>7, <2>1
  <2> QED BY <2>2, <1>3, <1>5
<1> QED BY <1>5, <1>6, <1>7 DEF S

\* The elements of Range, by position.
LEMMA RangeByIndex ==
  ASSUME NEW S, NEW s \in Seq(S)
  PROVE  /\ DOMAIN s = 1..Len(s) /\ Len(s) \in Nat
         /\ Range(s) = {s[i] : i \in 1..Len(s)}
         /\ \A i \in 1..Len(s) : s[i] \in S
BY LenProperties, ElementOfSeq, RangeEquality

-----------------------------------------------------------------------------
(* The rule vector.                                                        *)

\* Inserting a lemma's rules one by one at new_rules_index puts them, newest
\* first, between the system rules and the rules found before.
LEMMA InsertKeepsLayout ==
  ASSUME NEW fs \in Seq(Rule), NEW new \in Seq(Rule)
  PROVE  InsertRules(OrigRules \o SystemRws \o Reverse(fs), new)
           = OrigRules \o SystemRws \o Reverse(fs \o new)
<1> DEFINE base == OrigRules \o SystemRws
           rf   == Reverse(fs)
           rn   == Reverse(new)
<1>1. base \in Seq(Rule) /\ Len(base) = NewRulesIndex
  BY RulesAssumption, ConcatProperties DEF NewRulesIndex
<1>2. rf \in Seq(Rule) /\ rn \in Seq(Rule) /\ Reverse(fs \o new) = rn \o rf
  BY ReverseProperties, ReverseConcat
<1> HIDE DEF base, rf, rn
<1>3. /\ SubSeq(base \o rf, 1, NewRulesIndex) = base
      /\ SubSeq(base \o rf, NewRulesIndex + 1, Len(base \o rf)) = rf
  BY <1>1, <1>2, HalvesOfConcat
<1>4. InsertRules(base \o rf, new) = (base \o rn) \o rf
  BY <1>3 DEF InsertRules, rn
<1>5. (base \o rn) \o rf = base \o (rn \o rf)
  <2>1. base \in Seq(Rule) /\ rn \in Seq(Rule) /\ rf \in Seq(Rule)
    BY <1>1, <1>2
  <2> QED BY ONLY <2>1, ConcatAssociative, SMTT(60)
<1> QED BY <1>2, <1>4, <1>5 DEF base, rf

\* Removing system_rws.len() rules at system_rws_start removes the system rules.
LEMMA RemoveKeepsLayout ==
  ASSUME NEW fs \in Seq(Rule)
  PROVE  RemoveSystemRules(OrigRules \o SystemRws \o Reverse(fs))
           = OrigRules \o Reverse(fs)
<1> DEFINE base == OrigRules \o SystemRws
           rf   == Reverse(fs)
<1>1. base \in Seq(Rule) /\ Len(base) = SystemStart + Len(SystemRws)
  BY RulesAssumption, ConcatProperties DEF SystemStart
<1>2. rf \in Seq(Rule) /\ SystemRws \o rf \in Seq(Rule)
  BY RulesAssumption, ReverseProperties, ConcatProperties
<1>3. base \o rf = OrigRules \o (SystemRws \o rf)
  BY <1>2, RulesAssumption, ConcatAssociative, SMTT(30)
<1> HIDE DEF rf
<1>4. SubSeq(OrigRules \o (SystemRws \o rf), 1, SystemStart) = OrigRules
  BY <1>2, RulesAssumption, HalvesOfConcat DEF SystemStart
<1> HIDE DEF base
<1>5. SubSeq(base \o rf, SystemStart + Len(SystemRws) + 1, Len(base \o rf)) = rf
  BY <1>1, <1>2, HalvesOfConcat
<1>6. RemoveSystemRules(base \o rf) = OrigRules \o rf
  BY <1>3, <1>4, <1>5 DEF RemoveSystemRules
<1> QED BY <1>6 DEF base, rf

-----------------------------------------------------------------------------
(* Types, and the layout of the rule vector.  Neither is inductive alone:  *)
(* that `rules' is a sequence of rules after an insertion needs the vector *)
(* to be at least as long as new_rules_index, and the system rules are     *)
(* pushed at the end only because nothing was found yet.                   *)

NothingFoundYet == pc = "start" => found = <<>>
Inv == TypeOK /\ RulesLayout /\ NothingFoundYet

\* Where the prefix of the rule vector has the system rules.
LEMMA LayoutWithSystemRules ==
  ASSUME RulesLayout, pc \notin {"start", "done"}
  PROVE  rules = OrigRules \o SystemRws \o Reverse(found)
BY DEF RulesLayout

\* Learning a lemma keeps both, wherever run goes on from there.
LEMMA LearnKeepsInv ==
  ASSUME Inv, pc \notin {"start", "done"}, pc' \notin {"start", "done"},
         NEW l \in Lemma, Learn(l)
  PROVE  rules' \in Seq(Rule) /\ found' \in Seq(Rule) /\ RulesLayout'
<1>1. found \in Seq(Rule) /\ RulesOf[l] \in Seq(Rule)
  BY RulesAssumption DEF Inv, TypeOK
<1>2. found' = found \o RulesOf[l] /\ found' \in Seq(Rule)
  BY <1>1, ConcatProperties DEF Learn
<1>3. rules' = OrigRules \o SystemRws \o Reverse(found')
  <2>1. rules = OrigRules \o SystemRws \o Reverse(found)
    BY LayoutWithSystemRules DEF Inv
  <2> QED BY <2>1, <1>1, <1>2, InsertKeepsLayout DEF Learn
<1>4. rules' \in Seq(Rule)
  BY <1>2, <1>3, RulesAssumption, ConcatProperties, ReverseProperties
<1>5. RulesLayout'
  BY <1>3 DEF RulesLayout
<1> QED BY <1>2, <1>4, <1>5

\* What the prover may prove is an equation rules can be built from.
LEMMA OutcomesAreLemmas ==
  ASSUME NEW c \in Conjecture
  PROVE  Outcomes(c) \subseteq Lemma
<1>1. EquationOf(c) \in Equation
  BY DEF EquationOf, Equation, Conjecture
<1> QED BY <1>1, RulesAssumption DEF Outcomes

\* run starts with the caller's rules and nothing found.
LEMMA InitInv == Init => Inv
<1> SUFFICES ASSUME Init PROVE Inv
  OBVIOUS
<1>1. Reverse(<<>>) = <<>> /\ OrigRules \o <<>> = OrigRules
  BY RulesAssumption, ReverseProperties, EmptySeq, ConcatEmptySeq
<1>2. RulesLayout
  BY <1>1, RulesAssumption, ConcatEmptySeq DEF Init, RulesLayout
<1>3. /\ <<>> \in Seq(Rule) /\ <<>> \in Seq(Conjecture)
      /\ <<>> \in Seq(SUBSET Lemma)
  BY EmptySeq
<1>4. goals \in Seq(SUBSET Lemma)
  BY <1>3, GoalsAssumption DEF Init
<1>5. depth \in 0..MaxDepth /\ find \in [Terms -> Terms]
  BY TermsAssumption DEF Init
<1>6. TypeOK
  BY <1>3, <1>4, <1>5, RulesAssumption
  DEF Init, TypeOK, Labels, Callers
<1>7. NothingFoundYet
  BY DEF Init, NothingFoundYet
<1> QED BY <1>2, <1>6, <1>7 DEF Inv

\* Inv is inductive: every step keeps types and layout, and the steps that
\* move the boundaries of the vector are Begin, Learn's users and Finish.
LEMMA NextInv == Inv /\ [Next]_vars => Inv'
<1> SUFFICES ASSUME Inv, [Next]_vars PROVE Inv'
  OBVIOUS
<1>t. /\ pc \in Labels /\ ret \in Callers
      /\ rules \in Seq(Rule) /\ found \in Seq(Rule)
      /\ goals \in Seq(SUBSET Lemma)
      /\ depth \in 0..MaxDepth
      /\ find \in [Terms -> Terms]
      /\ conjs \in Seq(Conjecture) /\ before \in Seq(Conjecture)
      /\ after \subseteq Conjecture
      /\ changed \in BOOLEAN
      /\ tried \subseteq Conjecture
  BY DEF Inv, TypeOK
<1>l. ASSUME rules' = rules, found' = found,
             pc \notin {"start", "done"}, pc' \notin {"start", "done"}
      PROVE  RulesLayout' /\ NothingFoundYet'
  BY <1>l DEF Inv, RulesLayout, NothingFoundYet
<1>g. \A f, n : \A s \in GetConjectures(f, n) : s \in Seq(Conjecture)
  BY GetConjecturesProperties
<1>m. \A f, n : Merged(f, n) \subseteq [Terms -> Terms]
  BY DEF Merged
<1>1. CASE Begin
  <2>1. /\ pc = "start" /\ pc' = "goals" /\ ret' = "explore"
        /\ found = <<>> /\ found' = <<>> /\ rules' = rules \o SystemRws
    BY <1>1 DEF Begin, CallProveGoals, Inv, NothingFoundYet
  <2>2. rules = OrigRules /\ Reverse(<<>>) = <<>>
    <3>1. Reverse(<<>>) = <<>>
      BY <2>1, <1>t, ReverseProperties, EmptySeq
    <3>2. rules = OrigRules \o <<>> \o <<>>
      BY <2>1, <3>1 DEF Inv, RulesLayout
    <3> QED BY <3>1, <3>2, RulesAssumption, ConcatEmptySeq
  <2>3. RulesLayout' /\ NothingFoundYet'
    <3>1. OrigRules \o SystemRws \in Seq(Rule)
      BY RulesAssumption, ConcatProperties
    <3>2. OrigRules \o SystemRws \o <<>> = OrigRules \o SystemRws
      BY <3>1, ConcatEmptySeq
    <3> QED BY <2>1, <2>2, <3>2 DEF RulesLayout, NothingFoundYet
  <2>4. TypeOK'
    <3>1. rules' \in Seq(Rule)
      BY <2>1, <1>t, RulesAssumption, ConcatProperties
    <3> QED BY <1>1, <1>t, <2>1, <3>1 DEF Begin, TypeOK, Labels, Callers
  <2> QED BY <2>3, <2>4 DEF Inv
<1>2. CASE Deepen
  <2>1. find' \in [Terms -> Terms] /\ depth' \in 0..MaxDepth
    BY <1>2, <1>m, <1>t, TermsAssumption DEF Deepen
  <2>2. TypeOK'
    BY <1>2, <1>t, <2>1 DEF Deepen, TypeOK, Labels
  <2> QED BY <1>2, <1>l, <2>2 DEF Deepen, Inv
<1>3. CASE Collect
  <2>1. conjs' \in Seq(Conjecture)
    BY <1>3, <1>g DEF Collect
  <2>2. TypeOK'
    BY <1>3, <1>t, <2>1 DEF Collect, TypeOK, Labels
  <2> QED BY <1>3, <1>l, <2>2 DEF Collect, Inv
<1>4. CASE Reduce
  <2>1. find' \in [Terms -> Terms] /\ conjs' \in Seq(Conjecture)
    BY <1>4, <1>g, <1>m DEF Reduce
  <2>2. TypeOK'
    BY <1>4, <1>t, <2>1 DEF Reduce, TypeOK, Labels
  <2> QED BY <1>4, <1>l, <2>2 DEF Reduce, Inv
<1>5. CASE EndOfDepth
  <2>1. TypeOK'
    BY <1>5, <1>t DEF EndOfDepth, TypeOK, Labels
  <2> QED BY <1>5, <1>l, <2>1 DEF EndOfDepth, Inv
<1>6. CASE Finish
  <2>1. /\ pc = "explore" /\ pc' = "done" /\ found' = found
        /\ rules' = OrigRules \o Reverse(found)
    BY <1>6, <1>t, RemoveKeepsLayout, LayoutWithSystemRules DEF Finish, Inv
  <2>2. RulesLayout' /\ NothingFoundYet'
    BY <2>1, RulesAssumption, ConcatEmptySeq DEF RulesLayout, NothingFoundYet
  <2>3. rules' \in Seq(Rule)
    BY <2>1, <1>t, RulesAssumption, ReverseProperties, ConcatProperties
  <2>4. TypeOK'
    BY <1>6, <1>t, <2>3 DEF Finish, TypeOK, Labels, Terminal
  <2> QED BY <2>2, <2>4 DEF Inv
<1>7. ASSUME NEW i \in DOMAIN goals, NEW l \in goals[i], ProveGoal(i, l)
      PROVE  Inv'
  <2>1. i \in 1..Len(goals) /\ l \in Lemma
    BY <1>t, RangeByIndex
  <2>2. pc = "goals" /\ pc' = "goals" /\ Learn(l)
    BY <1>7 DEF ProveGoal
  <2>3. rules' \in Seq(Rule) /\ found' \in Seq(Rule) /\ RulesLayout'
    BY <2>1, <2>2, LearnKeepsInv
  <2>4. goals' \in Seq(SUBSET Lemma)
    BY <1>7, <1>t, <2>1, RemoveAtProperties DEF ProveGoal
  <2>5. TypeOK'
    BY <1>7, <1>t, <2>3, <2>4 DEF ProveGoal, TypeOK
  <2> QED BY <2>2, <2>3, <2>5 DEF Inv, NothingFoundYet
<1>8. CASE ReturnFromProveGoals
  <2>1. pc = "goals" /\ pc' \in Callers \union {"stopped"}
    BY <1>8, <1>t DEF ReturnFromProveGoals
  <2>2. TypeOK'
    BY <1>8, <2>1, <1>t
    DEF ReturnFromProveGoals, TypeOK, Labels, Terminal, Callers
  <2> QED BY <1>8, <1>l, <2>1, <2>2 DEF ReturnFromProveGoals, Inv, Callers
<1>9. CASE PopRejected
  <2>1. Front(conjs) \in Seq(Conjecture) /\ Last(conjs) \in Conjecture
    BY <1>9, <1>t, FrontLastProperties DEF PopRejected
  <2>2. TypeOK'
    BY <1>9, <1>t, <2>1 DEF PopRejected, TypeOK
  <2> QED BY <1>9, <1>l, <2>2 DEF PopRejected, Inv
<1>10. ASSUME NEW l \in Lemma, PopProved(l) PROVE Inv'
  <2>1. Front(conjs) \in Seq(Conjecture)
    BY <1>10, <1>t, FrontLastProperties DEF PopProved
  <2>2. pc = "induct" /\ pc' = "goals" /\ ret' = "reduce" /\ Learn(l)
    BY <1>10 DEF PopProved, CallProveGoals
  <2>3. rules' \in Seq(Rule) /\ found' \in Seq(Rule) /\ RulesLayout'
    BY <2>2, LearnKeepsInv
  <2>4. TypeOK'
    BY <1>10, <1>t, <2>1, <2>2, <2>3 DEF PopProved, TypeOK, Labels, Callers
  <2> QED BY <2>2, <2>3, <2>4 DEF Inv, NothingFoundYet
<1>11. CASE NoRewritePanic
  <2>1. pc \in {"induct", "split"} /\ pc' = "panicked"
    BY <1>11 DEF NoRewritePanic
  <2>2. TypeOK'
    BY <1>11, <1>t, <2>1 DEF NoRewritePanic, TypeOK, Labels, Terminal
  <2> QED BY <1>11, <1>l, <2>1, <2>2 DEF NoRewritePanic, Inv
<1>12. CASE CaseSplit
  <2>1. before' \in Seq(Conjecture)
    BY <1>12, <1>g, ReverseProperties DEF CaseSplit
  <2>2. find' \in [Terms -> Terms] /\ after' \subseteq Conjecture
    BY <1>12, <1>m DEF CaseSplit, OpenConjectures
  <2>3. TypeOK'
    BY <1>12, <1>t, <2>1, <2>2 DEF CaseSplit, TypeOK, Labels
  <2> QED BY <1>12, <1>l, <2>3 DEF CaseSplit, Inv
<1>13. CASE SkipOpen \/ SkipKnownOrUnproved
  <2>1. Tail(before) \in Seq(Conjecture)
    BY <1>13, <1>t, HeadTailProperties DEF SkipOpen, SkipKnownOrUnproved
  <2>2. TypeOK'
    BY <1>13, <1>t, <2>1 DEF SkipOpen, SkipKnownOrUnproved, TypeOK
  <2> QED BY <1>13, <1>l, <2>2 DEF SkipOpen, SkipKnownOrUnproved, Inv
<1>14. CASE EndOfSplit
  <2>1. find' \in [Terms -> Terms]
    BY <1>14, <1>m, <1>t DEF EndOfSplit
  <2>2. TypeOK'
    BY <1>14, <1>t, <2>1 DEF EndOfSplit, TypeOK, Labels
  <2> QED BY <1>14, <1>l, <2>2 DEF EndOfSplit, Inv
<1>15. ASSUME NEW l \in Lemma, ProveSplitRule(l) PROVE Inv'
  <2>1. Tail(before) \in Seq(Conjecture)
    BY <1>15, <1>t, HeadTailProperties DEF ProveSplitRule
  <2>2. pc = "split" /\ pc' = "goals" /\ ret' = "split" /\ Learn(l)
    BY <1>15 DEF ProveSplitRule, CallProveGoals
  <2>3. rules' \in Seq(Rule) /\ found' \in Seq(Rule) /\ RulesLayout'
    BY <2>2, LearnKeepsInv
  <2>4. TypeOK'
    BY <1>15, <1>t, <2>1, <2>2, <2>3 DEF ProveSplitRule, TypeOK, Labels, Callers
  <2> QED BY <2>2, <2>3, <2>4 DEF Inv, NothingFoundYet
<1>16. CASE UNCHANGED vars
  BY <1>16 DEF vars, Inv, TypeOK, RulesLayout, NothingFoundYet
<1> QED BY <1>1, <1>2, <1>3, <1>4, <1>5, <1>6, <1>7, <1>8, <1>9, <1>10, <1>11,
           <1>12, <1>13, <1>14, <1>15, <1>16 DEF Next, Returned

\* The inductive invariant holds throughout run.
LEMMA InvHolds == Spec => []Inv
BY InitInv, NextInv, PTL DEF Spec

\* Every variable of run keeps its type.
THEOREM TypeCorrect == Spec => []TypeOK
BY InvHolds, PTL DEF Inv

\* The rule vector is the caller's rules, the system rules and the rules found,
\* the newest first: each insertion at new_rules_index and each removal at
\* system_rws_start hits what it is meant to (thesy.rs 485-490, 537-541,
\* 556-558).
THEOREM LayoutKept == Spec => []RulesLayout
BY InvHolds, PTL DEF Inv

-----------------------------------------------------------------------------
(* The goals.                                                              *)

\* Only prove_goals removes a goal, and it never returns to run with none left.
LEMMA NextStops == Inv /\ StopsWithTheGoals /\ [Next]_vars => StopsWithTheGoals'
<1> SUFFICES ASSUME Inv, StopsWithTheGoals, [Next]_vars PROVE StopsWithTheGoals'
  OBVIOUS
<1> USE DEF StopsWithTheGoals, AllGoalsProved
<1>1. CASE Begin
  BY <1>1 DEF Begin, CallProveGoals
<1>2. CASE Deepen
  BY <1>2 DEF Deepen
<1>3. CASE Collect \/ Reduce \/ EndOfDepth \/ CaseSplit \/ EndOfSplit
  BY <1>3 DEF Collect, Reduce, EndOfDepth, CaseSplit, EndOfSplit
<1>4. CASE Finish
  BY <1>4 DEF Finish
<1>5. ASSUME NEW i \in DOMAIN goals, NEW l \in goals[i], ProveGoal(i, l)
      PROVE  StopsWithTheGoals'
  BY <1>5 DEF ProveGoal
<1>6. CASE ReturnFromProveGoals
  BY <1>6 DEF ReturnFromProveGoals, Inv, TypeOK, Callers
<1>7. CASE PopRejected \/ NoRewritePanic \/ SkipOpen \/ SkipKnownOrUnproved
  BY <1>7 DEF PopRejected, NoRewritePanic, SkipOpen, SkipKnownOrUnproved
<1>8. ASSUME NEW l \in Lemma, PopProved(l) \/ ProveSplitRule(l)
      PROVE  StopsWithTheGoals'
  BY <1>8 DEF PopProved, ProveSplitRule, CallProveGoals
<1>9. CASE UNCHANGED vars
  BY <1>9 DEF vars
<1> QED BY <1>1, <1>2, <1>3, <1>4, <1>5, <1>6, <1>7, <1>8, <1>9 DEF Next, Returned

\* run stops early exactly when its last goal was proved (thesy.rs 494, 507,
\* 543, 647-651).
THEOREM StopsExactlyWithGoals == Spec => []StopsWithTheGoals
<1>1. Init => StopsWithTheGoals
  BY DEF Init, StopsWithTheGoals, Terminal
<1> QED BY <1>1, InvHolds, NextStops, PTL DEF Spec

\* Goals are accounted for when the goals left shrink by one proved goal and
\* the rules found only grow.
LEMMA NextAccounted == Inv /\ GoalsAccounted /\ [Next]_vars => GoalsAccounted'
<1> SUFFICES ASSUME Inv, GoalsAccounted, [Next]_vars, ProofMode,
                    NEW k \in DOMAIN Goals
             PROVE  \/ Goals[k] \in Range(goals')
                    \/ \E l \in Goals[k] : \A m \in DOMAIN RulesOf[l] :
                          RulesOf[l][m] \in Range(found')
  BY DEF GoalsAccounted, Range
<1>1. \/ Goals[k] \in Range(goals)
      \/ \E l \in Goals[k] : \A m \in DOMAIN RulesOf[l] :
            RulesOf[l][m] \in Range(found)
  BY DEF GoalsAccounted, Range
<1>2. /\ goals \in Seq(SUBSET Lemma) /\ found \in Seq(Rule)
      /\ \A l \in Lemma : RulesOf[l] \in Seq(Rule)
  BY RulesAssumption DEF Inv, TypeOK
<1>3. ASSUME NEW l \in Lemma, Learn(l)
      PROVE  Range(found') = Range(found) \union Range(RulesOf[l])
  BY <1>2, <1>3, RangeConcatenation DEF Learn
<1>4. ASSUME goals' = goals, found' = found
      PROVE  \/ Goals[k] \in Range(goals')
             \/ \E l \in Goals[k] : \A m \in DOMAIN RulesOf[l] :
                   RulesOf[l][m] \in Range(found')
  BY <1>1, <1>4
<1>5. ASSUME goals' = goals, NEW l \in Lemma, Learn(l)
      PROVE  \/ Goals[k] \in Range(goals')
             \/ \E n \in Goals[k] : \A m \in DOMAIN RulesOf[n] :
                   RulesOf[n][m] \in Range(found')
  BY <1>1, <1>3, <1>5
<1>6. ASSUME NEW i \in DOMAIN goals, NEW l \in goals[i], ProveGoal(i, l)
      PROVE  \/ Goals[k] \in Range(goals')
             \/ \E n \in Goals[k] : \A m \in DOMAIN RulesOf[n] :
                   RulesOf[n][m] \in Range(found')
  <2>1. i \in 1..Len(goals) /\ l \in Lemma
    BY <1>2, RangeByIndex
  <2>2. Range(found') = Range(found) \union Range(RulesOf[l])
    BY <1>3, <1>6, <2>1 DEF ProveGoal
  <2>3. CASE Goals[k] = goals[i]
    <3>1. \A m \in DOMAIN RulesOf[l] : RulesOf[l][m] \in Range(RulesOf[l])
      BY DEF Range
    <3> QED BY <2>2, <2>3, <3>1
  <2>4. CASE Goals[k] # goals[i] /\ Goals[k] \in Range(goals)
    <3>1. PICK j \in 1..Len(goals) : goals[j] = Goals[k] /\ j # i
      BY <2>4, <1>2, RangeByIndex
    <3>2. goals[j] \in Range(RemoveAt(goals, i))
      BY <3>1, <2>1, <1>2, RemoveAtProperties
    <3> QED BY <3>1, <3>2, <1>6 DEF ProveGoal
  <2>5. CASE Goals[k] \notin Range(goals)
    BY <2>2, <2>5, <1>1
  <2> QED BY <2>3, <2>4, <2>5
<1>7. CASE \/ Begin \/ Deepen \/ Collect \/ Reduce \/ EndOfDepth \/ Finish
           \/ ReturnFromProveGoals \/ PopRejected \/ NoRewritePanic \/ CaseSplit
           \/ SkipOpen \/ SkipKnownOrUnproved \/ EndOfSplit
  <2>1. goals' = goals /\ found' = found
    BY <1>7
    DEF Begin, Deepen, Collect, Reduce, EndOfDepth, Finish, ReturnFromProveGoals,
        PopRejected, NoRewritePanic, CaseSplit, SkipOpen, SkipKnownOrUnproved,
        EndOfSplit
  <2> QED BY <2>1, <1>4
<1>8. ASSUME NEW l \in Lemma, PopProved(l) \/ ProveSplitRule(l)
      PROVE  goals' = goals /\ Learn(l)
  BY <1>8 DEF PopProved, ProveSplitRule
<1>9. CASE UNCHANGED vars
  BY <1>4, <1>9 DEF vars
<1> QED BY <1>5, <1>6, <1>7, <1>8, <1>9 DEF Next, Returned

\* No goal is lost: it is still to be proved, or its rules were found
\* (thesy.rs 453-478, 635-646).
THEOREM EveryGoalAccounted == Spec => []GoalsAccounted
<1>1. Init => GoalsAccounted
  BY DEF Init, GoalsAccounted
<1> QED BY <1>1, InvHolds, NextAccounted, PTL DEF Spec

-----------------------------------------------------------------------------
(* The vectors of conjectures.                                             *)

\* The conjectures waiting are those of the present graph: the vector is built
\* anew on every way into the loop, and the loop itself only pops.
LEMMA NextFresh == Inv /\ PendingFresh /\ [Next]_vars => PendingFresh'
<1> SUFFICES ASSUME Inv, PendingFresh, [Next]_vars, pc' = "induct"
             PROVE  \A i \in DOMAIN conjs' :
                       conjs'[i] \in OpenConjectures(find', depth')
  BY DEF PendingFresh
<1>t. conjs \in Seq(Conjecture) /\ ret \in Callers
  BY DEF Inv, TypeOK
<1>1. ASSUME NEW f, NEW n, NEW s \in GetConjectures(f, n)
      PROVE  \A i \in DOMAIN s : s[i] \in OpenConjectures(f, n)
  BY <1>1, GetConjecturesProperties DEF Range
<1>2. CASE Collect
  BY <1>2, <1>1 DEF Collect
<1>3. CASE Reduce
  BY <1>3, <1>1 DEF Reduce
<1>4. CASE PopRejected
  <2>1. /\ Len(conjs) \in Nat /\ DOMAIN conjs = 1..Len(conjs)
        /\ DOMAIN Front(conjs) = 1..Len(conjs) - 1
        /\ \A i \in 1..Len(conjs) - 1 : Front(conjs)[i] = conjs[i]
    BY <1>4, <1>t, FrontLastProperties, LenProperties DEF PopRejected
  <2> QED BY <1>4, <2>1 DEF PopRejected, PendingFresh
<1>5. pc' # "induct" \/ Collect \/ Reduce \/ PopRejected \/ UNCHANGED vars
  BY <1>t DEF Next, Begin, Deepen, EndOfDepth, Finish, ProveGoal,
     ReturnFromProveGoals, PopProved, NoRewritePanic, CaseSplit, SkipOpen,
     SkipKnownOrUnproved, EndOfSplit, ProveSplitRule, Returned, CallProveGoals,
     Callers
<1>6. CASE UNCHANGED vars
  BY <1>6 DEF vars, PendingFresh
<1> QED BY <1>2, <1>3, <1>4, <1>5, <1>6

\* A conjecture is never tried from a vector computed before the graph changed
\* (thesy.rs 513-516, 548-549).
THEOREM ConjecturesFresh == Spec => []PendingFresh
<1>1. Init => PendingFresh
  BY DEF Init, PendingFresh
<1> QED BY <1>1, InvHolds, NextFresh, PTL DEF Spec

\* Both vectors are made sorted and only lose an end after that.
LEMMA NextSimplestFirst == Inv /\ SimplestFirst /\ [Next]_vars => SimplestFirst'
<1> SUFFICES ASSUME Inv, SimplestFirst, [Next]_vars PROVE SimplestFirst'
  OBVIOUS
<1> DEFINE Down(s) == \A i, j \in DOMAIN s : i < j => ~Simpler(s[i], s[j])
           Up(s)   == \A i, j \in DOMAIN s : i < j => ~Simpler(s[j], s[i])
<1>t. conjs \in Seq(Conjecture) /\ before \in Seq(Conjecture)
  BY DEF Inv, TypeOK
<1>u. Down(conjs) /\ Up(before)
  BY DEF SimplestFirst
<1>1. ASSUME Down(conjs'), Up(before') PROVE SimplestFirst'
  BY <1>1 DEF SimplestFirst
<1>2. ASSUME NEW f, NEW n, NEW s \in GetConjectures(f, n)
      PROVE  Down(s) /\ Up(Reverse(s))
  <2>1. /\ s \in Seq(Conjecture) /\ DOMAIN s = 1..Len(s) /\ Len(s) \in Nat
        /\ \A i, j \in 1..Len(s) : i < j => ~Simpler(s[i], s[j])
    BY <1>2, GetConjecturesProperties, LenProperties
  <2>2. /\ DOMAIN Reverse(s) = 1..Len(s)
        /\ \A i \in 1..Len(s) : Reverse(s)[i] = s[Len(s) - i + 1]
    BY <2>1, ReverseProperties, LenProperties
  <2>3. ASSUME NEW i \in 1..Len(s), NEW j \in 1..Len(s), i < j
        PROVE  ~Simpler(Reverse(s)[j], Reverse(s)[i])
    <3>1. /\ Len(s) - j + 1 \in 1..Len(s) /\ Len(s) - i + 1 \in 1..Len(s)
          /\ Len(s) - j + 1 < Len(s) - i + 1
      BY <2>1, <2>3
    <3> QED BY <3>1, <2>1, <2>2
  <2> QED BY <2>1, <2>2, <2>3
<1>3. conjs # <<>> => Down(Front(conjs))
  <2> SUFFICES ASSUME conjs # <<>> PROVE Down(Front(conjs))
    OBVIOUS
  <2>1. /\ Len(conjs) \in Nat /\ DOMAIN conjs = 1..Len(conjs)
        /\ DOMAIN Front(conjs) = 1..Len(conjs) - 1
        /\ \A i \in 1..Len(conjs) - 1 : Front(conjs)[i] = conjs[i]
    BY <1>t, FrontLastProperties, LenProperties
  <2> QED BY <1>u, <2>1
<1>4. before # <<>> => Up(Tail(before))
  <2> SUFFICES ASSUME before # <<>> PROVE Up(Tail(before))
    OBVIOUS
  <2>1. /\ Len(before) \in Nat /\ DOMAIN before = 1..Len(before)
        /\ DOMAIN Tail(before) = 1..Len(before) - 1
        /\ \A i \in 1..Len(before) - 1 : Tail(before)[i] = before[i + 1]
    BY <1>t, HeadTailProperties, LenProperties
  <2> SUFFICES ASSUME NEW i \in 1..Len(before) - 1,
                      NEW j \in 1..Len(before) - 1, i < j
               PROVE  ~Simpler(before[j + 1], before[i + 1])
    BY <2>1
  <2>2. i + 1 \in 1..Len(before) /\ j + 1 \in 1..Len(before) /\ i + 1 < j + 1
    BY <2>1
  <2> QED BY <1>u, <2>1, <2>2
<1> HIDE DEF Down, Up
<1>5. CASE \/ Begin \/ Deepen \/ EndOfDepth \/ Finish \/ ReturnFromProveGoals
           \/ NoRewritePanic \/ EndOfSplit \/ UNCHANGED vars
  BY <1>5, <1>u, <1>1
  DEF Begin, Deepen, EndOfDepth, Finish, ReturnFromProveGoals, NoRewritePanic,
      EndOfSplit, vars
<1>6. CASE Collect
  BY <1>6, <1>1, <1>2, <1>u DEF Collect
<1>7. CASE Reduce
  BY <1>7, <1>1, <1>2, <1>u DEF Reduce
<1>8. CASE CaseSplit
  BY <1>8, <1>1, <1>2, <1>u DEF CaseSplit
<1>9. CASE PopRejected
  BY <1>9, <1>1, <1>3, <1>u DEF PopRejected
<1>10. CASE SkipOpen \/ SkipKnownOrUnproved
  BY <1>10, <1>1, <1>4, <1>u DEF SkipOpen, SkipKnownOrUnproved
<1>11. ASSUME NEW l \in Lemma, PopProved(l) PROVE SimplestFirst'
  BY <1>11, <1>1, <1>3, <1>u DEF PopProved
<1>12. ASSUME NEW l \in Lemma, ProveSplitRule(l) PROVE SimplestFirst'
  BY <1>12, <1>1, <1>4, <1>u DEF ProveSplitRule
<1>13. ASSUME NEW i \in DOMAIN goals, NEW l \in goals[i], ProveGoal(i, l)
       PROVE  SimplestFirst'
  BY <1>13, <1>1, <1>u DEF ProveGoal
<1> QED BY <1>5, <1>6, <1>7, <1>8, <1>9, <1>10, <1>11, <1>12, <1>13
        DEF Next, Returned

\* Conjectures are tried from the simplest up (thesy.rs 435-437, 516, 589).
THEOREM TriedInOrder == Spec => []SimplestFirst
<1>1. Init => SimplestFirst
  BY DEF Init, SimplestFirst
<1> QED BY <1>1, InvHolds, NextSimplestFirst, PTL DEF Spec

-----------------------------------------------------------------------------
(* Exploration is complete at each depth.                                  *)

\* While the conjectures are walked, an open one was tried or is waiting; the
\* head of the loop is reached from prove_goals only before the first depth.
ExploredInv ==
  /\ pc = "induct" => OpenConjectures(find, depth) \subseteq tried \union Range(conjs)
  /\ pc = "start" => depth = 0
  /\ pc = "goals" /\ ret = "explore" => depth = 0
  /\ ExploredFully

\* A conjecture leaves the vector only by being tried, and what is tried is
\* forgotten whenever rules or graph change.
LEMMA NextExplored == Inv /\ ExploredInv /\ [Next]_vars => ExploredInv'
<1> SUFFICES ASSUME Inv, ExploredInv, [Next]_vars PROVE ExploredInv'
  OBVIOUS
<1>t. conjs \in Seq(Conjecture) /\ depth \in Nat /\ ret \in Callers
  BY TermsAssumption DEF Inv, TypeOK
<1>1. CASE Collect \/ Reduce
  <2>1. conjs' \in GetConjectures(find', depth') /\ pc' = "induct"
    BY <1>1 DEF Collect, Reduce
  <2>2. OpenConjectures(find', depth') \subseteq Range(conjs')
    BY <2>1, GetConjecturesProperties
  <2> QED BY <2>1, <2>2 DEF ExploredInv, ExploredFully
<1>2. CASE PopRejected
  <2>1. Range(conjs) = Range(conjs') \union {Last(conjs)}
    BY <1>2, <1>t, FrontLastProperties DEF PopRejected
  <2> QED BY <1>2, <2>1 DEF PopRejected, ExploredInv, ExploredFully
<1>3. CASE EndOfDepth
  <2>1. Range(conjs) = {}
    <3>1. conjs = <<>> /\ DOMAIN conjs = {}
      BY <1>3 DEF EndOfDepth
    <3> QED BY <3>1 DEF Range
  <2> QED BY <1>3, <2>1 DEF EndOfDepth, ExploredInv, ExploredFully
<1>4. CASE Begin
  BY <1>4 DEF Begin, CallProveGoals, ExploredInv, ExploredFully
<1>5. CASE Deepen
  BY <1>5 DEF Deepen, ExploredInv, ExploredFully
<1>6. CASE Finish
  BY <1>6 DEF Finish, ExploredInv, ExploredFully
<1>7. CASE ReturnFromProveGoals
  BY <1>7, <1>t DEF ReturnFromProveGoals, ExploredInv, ExploredFully, Callers
<1>8. CASE NoRewritePanic \/ CaseSplit \/ SkipOpen \/ SkipKnownOrUnproved
           \/ EndOfSplit
  BY <1>8 DEF NoRewritePanic, CaseSplit, SkipOpen, SkipKnownOrUnproved, EndOfSplit,
              ExploredInv, ExploredFully
<1>9. ASSUME NEW l \in Lemma, PopProved(l) \/ ProveSplitRule(l)
      PROVE  ExploredInv'
  BY <1>9 DEF PopProved, ProveSplitRule, CallProveGoals, ExploredInv, ExploredFully
<1>10. ASSUME NEW i \in DOMAIN goals, NEW l \in goals[i], ProveGoal(i, l)
       PROVE  ExploredInv'
  BY <1>10 DEF ProveGoal, ExploredInv, ExploredFully
<1>11. CASE UNCHANGED vars
  BY <1>11 DEF vars, ExploredInv, ExploredFully
<1> QED BY <1>1, <1>2, <1>3, <1>4, <1>5, <1>6, <1>7, <1>8, <1>9, <1>10, <1>11
        DEF Next, Returned

\* When a depth is left, what it left open was tried against its final rules
\* (thesy.rs 515-555).
THEOREM NothingLeftUntried == Spec => []ExploredFully
<1>1. Init => ExploredInv
  BY DEF Init, ExploredInv, ExploredFully
<1>2. ExploredInv => ExploredFully
  BY DEF ExploredInv
<1> QED BY <1>1, <1>2, InvHolds, NextExplored, PTL DEF Spec

-----------------------------------------------------------------------------
(* What is learnt is new.                                                  *)

\* If no rule gives the conjecture, no rule gives what is proved in its place.
LEMMA NewWhenGeneralized ==
  ASSUME Inv, NEW c \in Conjecture, ~Derivable(EquationOf(c)),
         NEW l \in Outcomes(c)
  PROVE  ~Derivable(l)
<1> SUFFICES ASSUME NEW i \in DOMAIN rules, l \in Derives[rules[i]]
             PROVE  FALSE
  BY DEF Derivable
<1>1. rules[i] \in Rule
  BY RangeByIndex DEF Inv, TypeOK
<1>2. l = EquationOf(c) \/ l \in Generalized[c]
  BY DEF Outcomes
<1>3. EquationOf(c) \in Derives[rules[i]]
  BY <1>1, <1>2, DerivesAssumption
<1> QED BY <1>3 DEF Derivable

\* Each step that records a lemma outside prove_goals checked it first.
LEMMA NextLearnsNew == Inv /\ [Next]_vars => LearnsNew
<1> SUFFICES ASSUME Inv, [Next]_vars, pc \in {"induct", "split"}, found' # found
             PROVE  \E l \in Lemma :
                       found' = found \o RulesOf[l] /\ ~Derivable(l)
  BY DEF LearnsNew
<1>1. ASSUME NEW l \in Lemma, PopProved(l)
      PROVE  found' = found \o RulesOf[l] /\ ~Derivable(l)
  BY <1>1 DEF PopProved, Learn
<1>2. ASSUME NEW l \in Lemma, ProveSplitRule(l)
      PROVE  found' = found \o RulesOf[l] /\ ~Derivable(l)
  <2>1. Head(before) \in Conjecture
    BY <1>2, HeadTailProperties DEF ProveSplitRule, Inv, TypeOK
  <2> QED BY <1>2, <2>1, NewWhenGeneralized DEF ProveSplitRule, Learn
<1>3. \/ found' = found \/ pc \notin {"induct", "split"}
      \/ \E l \in Lemma : PopProved(l) \/ ProveSplitRule(l)
  BY DEF Next, Begin, Deepen, Collect, Reduce, EndOfDepth, Finish, ProveGoal,
     ReturnFromProveGoals, PopRejected, NoRewritePanic, CaseSplit, SkipOpen,
     SkipKnownOrUnproved, EndOfSplit, Returned, vars
<1> QED BY <1>1, <1>2, <1>3

\* Exploration learns nothing its rules already give, also where the check
\* precedes the generalisation (thesy.rs 519-533, 594-606).
THEOREM OnlyNewLemmasLearnt == Spec => LearnsOnlyNewLemmas
<1>1. Inv /\ [Next]_vars => [LearnsNew]_vars
  BY NextLearnsNew
<1> QED BY <1>1, InvHolds, PTL DEF Spec, LearnsOnlyNewLemmas
=============================================================================
