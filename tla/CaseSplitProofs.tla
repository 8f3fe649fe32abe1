---------------------------- MODULE CaseSplitProofs ----------------------------
(***************************************************************************)
(* What CaseSplit promises, for any classes, splitters, depth and rules,   *)
(* with each of the adapters.                                              *)
(***************************************************************************)
EXTENDS CaseSplit, EGraphProofs, SequenceLemmas

-----------------------------------------------------------------------------
(* The branches.                                                           *)

\* Below, for any tree.
BelowIn(Dom, par, b) ==
  {d \in Dom : LET under[x \in Dom] == x = b \/ (x > b /\ under[par[x]])
               IN under[d]}

\* The branches below a branch are that branch and those whose parent is below.
LEMMA BelowIs ==
  ASSUME NEW Dom, NEW par, NEW b \in Dom, \A d \in Dom : d > b => par[d] \in Dom
  PROVE  /\ BelowIn(Dom, par, b) \subseteq Dom
         /\ \A d \in Dom : d \in BelowIn(Dom, par, b)
                             <=> d = b \/ (d > b /\ par[d] \in BelowIn(Dom, par, b))
<1> DEFINE IsUnder(f) == f = [x \in Dom |-> x = b \/ (x > b /\ f[par[x]])]
           under == CHOOSE f : IsUnder(f)
           Closed(S) == b \in S /\ \A x \in Dom : x > b /\ par[x] \in S => x \in S
           least == {d \in Dom : \A S \in SUBSET Dom : Closed(S) => d \in S}
           f == [x \in Dom |-> x \in least]
<1>1. BelowIn(Dom, par, b) = {d \in Dom : under[d]}
  BY DEF BelowIn
<1>2. Closed(least)
  OBVIOUS
<1>3. ASSUME NEW x \in Dom
      PROVE  x \in least <=> x = b \/ (x > b /\ par[x] \in least)
  <2>1. ASSUME x \in least, x # b, ~(x > b /\ par[x] \in least) PROVE FALSE
    <3>1. least \ {x} \in SUBSET Dom
      OBVIOUS
    <3>2. Closed(least \ {x})
      BY <1>2, <2>1
    <3> QED BY <2>1, <3>1, <3>2
  <2> HIDE DEF least
  <2> QED BY <1>2, <2>1
<1>4. IsUnder(f)
  <2> DEFINE g == [x \in Dom |-> x = b \/ (x > b /\ f[par[x]])]
  <2>1. ASSUME NEW x \in Dom
        PROVE  f[x] <=> (x = b \/ (x > b /\ f[par[x]]))
    <3>1. f[x] <=> x \in least
      OBVIOUS
    <3>2. x > b => (f[par[x]] <=> par[x] \in least)
      OBVIOUS
    <3> HIDE DEF least
    <3> QED BY <1>3, <3>1, <3>2
  <2>2. ASSUME NEW x \in Dom PROVE f[x] = g[x]
    <3>1. f[x] \in BOOLEAN /\ g[x] \in BOOLEAN
      OBVIOUS
    <3>2. g[x] <=> (x = b \/ (x > b /\ f[par[x]]))
      OBVIOUS
    <3> HIDE DEF f, g
    <3> QED BY <2>1, <3>1, <3>2
  <2>3. f = [x \in Dom |-> f[x]] /\ g = [x \in Dom |-> g[x]]
    OBVIOUS
  <2>4. f = g
    <3> HIDE DEF f, g
    <3> QED BY <2>2, <2>3
  <2> QED BY <2>4
<1>5. IsUnder(under)
  <2> HIDE DEF IsUnder, f
  <2> QED BY <1>4
<1>6. ASSUME NEW d \in Dom
      PROVE  under[d] <=> d = b \/ (d > b /\ under[par[d]])
  <2> HIDE DEF under
  <2> DEFINE g == [x \in Dom |-> x = b \/ (x > b /\ under[par[x]])]
  <2>1. under = g
    BY <1>5
  <2>2. g[d] <=> d = b \/ (d > b /\ under[par[d]])
    OBVIOUS
  <2> HIDE DEF g
  <2> QED BY <2>1, <2>2
<1>7. \A d \in Dom : d \in BelowIn(Dom, par, b) <=> under[d]
  <2> HIDE DEF under
  <2> QED BY <1>1
<1>8. \A d \in Dom : d > b => (par[d] \in BelowIn(Dom, par, b) <=> under[par[d]])
  <2> HIDE DEF under
  <2> QED BY <1>7
<1> HIDE DEF under
<1> QED BY <1>1, <1>6, <1>7, <1>8

\* What is below a branch stays below it when a branch is added.
LEMMA BelowGrows ==
  ASSUME NEW n \in Nat, NEW par, NEW more, NEW b \in 1..n,
         \A d \in 1..n : d > b => par[d] \in 1..n /\ par[d] < d,
         \A d \in 1..n : more[d] = par[d],
         more[n + 1] \in 1..n
  PROVE  /\ BelowIn(1..n, par, b) \subseteq BelowIn(1..n + 1, more, b)
         /\ more[n + 1] \in BelowIn(1..n, par, b) => n + 1 \in BelowIn(1..n + 1, more, b)
<1> DEFINE B == BelowIn(1..n, par, b)
           C == BelowIn(1..n + 1, more, b)
<1>1. B \subseteq 1..n /\ \A d \in 1..n : d \in B <=> d = b \/ (d > b /\ par[d] \in B)
  BY BelowIs
<1>2. \A d \in 1..n + 1 : d \in C <=> d = b \/ (d > b /\ more[d] \in C)
  <2>1. \A d \in 1..n + 1 : d > b => more[d] \in 1..n + 1
    <3> TAKE d \in 1..n + 1
    <3> QED BY d \in 1..n \/ d = n + 1
  <2> QED BY <2>1, BelowIs
<1> HIDE DEF B, C
<1>3. B \ C = {}
  <2> SUFFICES ASSUME B \ C # {} PROVE FALSE
    OBVIOUS
  <2>1. B \ C \in SUBSET Nat
    <3>1. \A d \in 1..n : d \in Nat
      OBVIOUS
    <3> QED BY <1>1, <3>1
  <2>2. PICK m \in B \ C : \A y \in B \ C : m <= y
    BY <2>1, LeastNat
  <2>3. m \in 1..n /\ m # b
    BY <1>1, <1>2
  <2>4. m > b /\ par[m] \in B /\ par[m] < m
    BY <1>1, <2>2, <2>3
  <2>5. par[m] \in C
    BY <1>1, <2>2, <2>3, <2>4
  <2> QED BY <1>2, <2>2, <2>3, <2>4, <2>5
<1>4. more[n + 1] \in B => n + 1 \in C
  BY <1>2, <1>3
<1> QED BY <1>3, <1>4 DEF B, C

\* What is below a branch comes after it, and the branch is below itself.
LEMMA BelowAfter ==
  ASSUME NEW n \in Nat, NEW par, NEW b \in 1..n,
         \A d \in 1..n : d > b => par[d] \in 1..n
  PROVE  /\ BelowIn(1..n, par, b) \subseteq b..n
         /\ b \in BelowIn(1..n, par, b)
<1>1. \A d \in 1..n : d \in BelowIn(1..n, par, b) =>  d = b \/ d > b
  BY BelowIs
<1>2. BelowIn(1..n, par, b) \subseteq 1..n /\ b \in BelowIn(1..n, par, b)
  BY BelowIs
<1>3. \A d \in 1..n : d = b \/ d > b => d \in b..n
  OBVIOUS
<1> QED BY <1>1, <1>2, <1>3

\* What the rebuild of another branch leaves of g.
Left(g) == IF adapter = "colored" THEN Rebuilt[g] ELSE g

\* What is left of a graph keeps its merges, and is extended by what extended
\* the graph, once that is rebuilt too.
LEMMA LeftIs ==
  ASSUME NEW f \in Graph, NEW g \in Graph
  PROVE  /\ Left(f) \in Graph /\ Extends(Left(f), f)
         /\ adapter = "colored" => Left(f) \in Congruent
         /\ Left(f) \in {f, Rebuilt[f]} /\ Left(Rebuilt[f]) = Rebuilt[f]
         /\ Extends(g, f) /\ (adapter = "colored" => g \in Congruent) => Extends(g, Left(f))
BY RebuiltIs, RebuiltMonotone, ExtendsOrder DEF Left

\* A graph and what another adds to it.
LEMMA JoinIs ==
  ASSUME NEW f \in Graph, NEW g \in Graph
  PROVE  Join(f, g) \in Graph /\ Extends(Join(f, g), f)
<1>1. {<<x, g[x]>> : x \in Class} \in SUBSET (Class \X Class)
  BY GraphIs
<1> QED BY <1>1, MergeAllIs DEF Join

\* branchout adds a branch and writes no other, except that the colored adapter
\* rebuilds them.
LEMMA BranchoutIs ==
  ASSUME branches \in Seq(Graph), NEW g \in Graph, Branchout(g)
  PROVE  /\ branches' \in Seq(Graph) /\ Len(branches') = Len(branches) + 1
         /\ branches'[Len(branches) + 1] = g
         /\ \A d \in DOMAIN branches : branches'[d] = Left(branches[d])
<1>1. /\ RebuildOthers(branches) \in Seq(Graph)
      /\ Len(RebuildOthers(branches)) = Len(branches)
      /\ \A d \in DOMAIN branches : RebuildOthers(branches)[d] = Left(branches[d])
  <2>1. CASE adapter = "colored"
    <3>1. \A d \in 1..Len(branches) : Rebuilt[branches[d]] \in Graph
      BY RebuiltIs
    <3> QED BY <2>1, <3>1 DEF RebuildOthers, Left
  <2>2. CASE adapter # "colored"
    BY <2>2 DEF RebuildOthers, Left
  <2> QED BY <2>1, <2>2
<1>2. branches' = Append(RebuildOthers(branches), g)
  BY DEF Branchout
<1> QED BY <1>1, <1>2

\* Unions in branch b write it and, where the graph is shared, what is below
\* it; they keep what is merged, and with the colored adapter all is rebuilt.
LEMMA UniteIs ==
  ASSUME branches \in Seq(Graph), NEW b \in DOMAIN branches, NEW g \in Graph,
         Extends(g, branches[b]), CheckoutAndUnite(b, g)
  PROVE  /\ branches' \in Seq(Graph) /\ Len(branches') = Len(branches)
         /\ branches'[b] = Rebuilt[g]
         /\ \A d \in DOMAIN branches :
              /\ Extends(branches'[d], branches[d])
              /\ adapter = "colored" => branches'[d] \in Congruent
              /\ d # b /\ ~(Shared /\ d \in Below(b)) => branches'[d] = Left(branches[d])
<1> DEFINE joined(d) == IF d = b THEN Rebuilt[g]
                        ELSE IF Shared /\ d \in Below(b) THEN Join(branches[d], g)
                        ELSE branches[d]
           united == [d \in DOMAIN branches |-> joined(d)]
<1>1. ASSUME NEW d \in DOMAIN branches
      PROVE  joined(d) \in Graph /\ Extends(joined(d), branches[d])
  BY RebuiltIs, RebuiltMonotone, JoinIs, ExtendsOrder
<1>2. branches' = RebuildOthers(united)
  <2>1. [[d \in DOMAIN branches |-> IF d = b THEN g
                   ELSE IF Shared /\ d \in Below(b) THEN Join(branches[d], g)
                   ELSE branches[d]] EXCEPT ![b] = Rebuilt[@]]
        = united
    OBVIOUS
  <2> HIDE DEF united
  <2> QED BY <2>1 DEF CheckoutAndUnite
<1> HIDE DEF joined
<1>3. united \in Seq(Graph) /\ Len(united) = Len(branches)
  BY <1>1
<1>4. /\ branches' \in Seq(Graph) /\ Len(branches') = Len(branches)
      /\ \A d \in DOMAIN branches : branches'[d] = Left(joined(d))
  <2>1. CASE adapter = "colored"
    <3>1. \A d \in DOMAIN branches : Rebuilt[joined(d)] \in Graph
      BY <1>1, RebuiltIs
    <3>2. branches' = [d \in DOMAIN branches |-> Rebuilt[joined(d)]]
      BY <1>2, <2>1 DEF RebuildOthers
    <3> QED BY <2>1, <3>1, <3>2 DEF Left
  <2>2. CASE adapter # "colored"
    BY <1>2, <1>3, <2>2 DEF RebuildOthers, Left
  <2> QED BY <2>1, <2>2
<1>5. ASSUME NEW d \in DOMAIN branches
      PROVE  /\ Extends(branches'[d], branches[d])
             /\ adapter = "colored" => branches'[d] \in Congruent
             /\ d # b /\ ~(Shared /\ d \in Below(b)) => branches'[d] = Left(branches[d])
  <2>1. branches[d] \in Graph
    OBVIOUS
  <2>2. /\ Extends(Left(joined(d)), joined(d)) /\ Left(joined(d)) \in Graph
        /\ adapter = "colored" => Left(joined(d)) \in Congruent
    BY <1>1, LeftIs
  <2>3. Extends(branches'[d], branches[d])
    BY <1>1, <1>4, <2>1, <2>2, ExtendsOrder
  <2>4. d # b /\ ~(Shared /\ d \in Below(b)) => joined(d) = branches[d]
    BY DEF joined
  <2> QED BY <1>4, <2>2, <2>3, <2>4
<1>6. branches'[b] = Rebuilt[g]
  <2>1. joined(b) = Rebuilt[g]
    BY DEF joined
  <2> QED BY <1>4, <2>1, LeftIs
<1> QED BY <1>4, <1>5, <1>6

-----------------------------------------------------------------------------
(* The splitters.                                                          *)

\* The splitters are splits; a splitter updated to a graph, and then to one that
\* extends it, is the splitter updated to the second.
LEMMA UpdateIs ==
  ASSUME NEW s \in Split, NEW g \in Graph
  PROVE  /\ Update(s, g) \in Split
         /\ \A h \in Graph : Extends(h, g) => Update(Update(s, g), h) = Update(s, h)
<1>1. /\ s.root \in Class /\ s.splits \in Seq(Class)
      /\ \A i \in DOMAIN s.splits : s.splits[i] \in Class
  BY DEF Split
<1>2. g \in [Class -> Class]
  BY GraphIs
<1>3. [i \in DOMAIN s.splits |-> g[s.splits[i]]] \in Seq(Class)
  BY <1>1, <1>2
<1>4. Update(s, g) \in Split
  BY <1>1, <1>2, <1>3 DEF Update, Split
<1>5. ASSUME NEW h \in Graph, Extends(h, g)
      PROVE  Update(Update(s, g), h) = Update(s, h)
  <2>1. h[g[s.root]] = h[s.root] /\ \A i \in DOMAIN s.splits : h[g[s.splits[i]]] = h[s.splits[i]]
    BY <1>1, <1>5 DEF Extends
  <2> QED BY <2>1 DEF Update
<1> QED BY <1>4, <1>5

\* What the searchers find are splits.
LEMMA FindSplittersIs ==
  ASSUME NEW g \in Graph
  PROVE  FindSplitters(g) \subseteq Split
<1>1. \A p \in Patterns : [root |-> p.root, splits |-> p.splits] \in Split
  BY PatternsAssumption DEF Split
<1> QED BY <1>1, UpdateIs DEF FindSplitters

\* What a call begins with: none of the splitters it takes up was known.
LEMMA CallIs ==
  ASSUME NEW depth, NEW known \in SUBSET Split, NEW g \in Graph, NEW branch
  PROVE  LET f == Call(depth, known, g, branch) IN
         /\ f = [depth |-> depth, known |-> f.known, todo |-> f.todo, branch |-> branch,
                 began |-> g, split |-> Idle, concls |-> <<>>, cases |-> <<>>]
         /\ f.known \subseteq Split /\ f.todo \subseteq Split
         /\ depth = 0 => f.todo = {}
         /\ \A s \in known : Update(s, g) \in f.known \ f.todo
<1> DEFINE canonical == {Update(s, g) : s \in known}
           found == IF depth = 0 THEN {} ELSE FindSplitters(Rebuilt[g])
<1>1. found \subseteq Split
  BY RebuiltIs, FindSplittersIs
<1>2. canonical \subseteq Split
  BY UpdateIs
<1>3. Call(depth, known, g, branch) = Frame(depth, canonical \union found, found \ canonical, g, branch)
  BY DEF Call
<1>4. \A s \in known : Update(s, g) \in canonical
  OBVIOUS
<1>5. depth = 0 => found = {}
  OBVIOUS
<1> HIDE DEF canonical, found
<1> QED BY <1>1, <1>2, <1>3, <1>4, <1>5 DEF Frame

-----------------------------------------------------------------------------
(* The inductive invariant.                                                *)

\* The branches make a tree.
Tree == \A d \in DOMAIN branches : parent[d] < d /\ (d > 1 => parent[d] >= 1)

\* A call with a split has a conclusion for each case that is done, and one that
\* has an inner call is in the middle of a case, whose branch the inner call has.
ShapeOf(i) ==
  LET f == stack[i] IN
  /\ Len(f.split) <= 1
  /\ f.depth = 0 => f.todo = {} /\ f.split = Idle
  /\ f.split # Idle => /\ Len(f.concls) <= Len(Head(f.split).splits)
                       /\ i = Len(stack) => Len(f.cases) = Len(f.concls)
  /\ i < Len(stack) => /\ f.split # Idle
                       /\ Len(f.concls) < Len(Head(f.split).splits)
                       /\ Len(f.cases) = Len(f.concls) + 1
                       /\ f.cases[Len(f.cases)] = stack[i + 1].branch
Shape == \A i \in DOMAIN stack : ShapeOf(i)

\* The branch of an inner call is newer.
Order ==
  /\ stack # <<>> => stack[1].branch = 1
  /\ \A i, j \in DOMAIN stack : i < j => stack[i].branch < stack[j].branch

\* What is checked out: the branch of the call, or that of its case done last.
At ==
  checkout = IF stack = <<>> THEN 1
             ELSE IF Top.split = Idle \/ Top.cases = <<>> THEN Top.branch
             ELSE Last(Top.cases)

\* The branch of a case is made below the branch of the call and, as nothing
\* checks that out again, below the branches of the cases before.
CasesNested(f) ==
  \A k \in DOMAIN f.cases :
    /\ f.branch < f.cases[k] /\ f.cases[k] \in BelowIn(DOMAIN branches, parent, f.branch)
    /\ Extends(branches[f.cases[k]], branches[f.branch])
    /\ \A l \in DOMAIN f.cases : k < l =>
         f.cases[k] < f.cases[l] /\ Extends(branches[f.cases[l]], branches[f.cases[k]])
Nested == \A i \in DOMAIN stack : stack[i].split # Idle => CasesNested(stack[i])

\* Nothing is merged in the branch of a case that is done.
CasesConcluded(f) ==
  \A k \in DOMAIN f.concls :
    /\ branches[f.cases[k]] \in {f.concls[k], Rebuilt[f.concls[k]]}
    /\ \A l \in DOMAIN f.concls : k < l => Extends(f.concls[l], f.concls[k])
Concluded == \A i \in DOMAIN stack : stack[i].split # Idle => CasesConcluded(stack[i])

\* In the branch of a call, the cases of the calls around it are assumed.
Assumes(f, g) ==
  g[Head(f.split).root] = g[Head(f.split).splits[Len(f.concls) + 1]]
Assumed == \A i, j \in DOMAIN stack : i < j => Assumes(stack[i], branches[stack[j].branch])

\* With the colored adapter only the branch of a case that was not looked into
\* may have to be rebuilt, until the next one is.
ColoredClean ==
  adapter = "colored" =>
    \A d \in DOMAIN branches :
      \/ branches[d] \in Congruent
      \/ /\ d = checkout
         /\ stack # <<>> => Top.depth = 0 \/ (Top.split # Idle /\ Top.cases # <<>>)

\* A call knows the splitters known around it, as they are in the graph it was
\* made with, and takes up none of them.
KnowsAll(i, j) ==
  \A s \in stack[i].known :
    /\ Update(s, stack[j].began) \in stack[j].known
    /\ Update(s, stack[j].began)
         \notin stack[j].todo \union {stack[j].split[k] : k \in DOMAIN stack[j].split}
Known ==
  \A j \in DOMAIN stack :
    /\ Extends(branches[stack[j].branch], stack[j].began)
    /\ \A i \in DOMAIN stack : i < j => KnowsAll(i, j)

Inv ==
  /\ TypeOK /\ Tree /\ Shape /\ Order /\ At
  /\ Nested /\ Concluded /\ Assumed /\ ColoredClean /\ Known

-----------------------------------------------------------------------------
(* What each step does to the stack.                                       *)

\* The parts of a call.
LEMMA FrameIs ==
  ASSUME TypeOK, NEW i \in DOMAIN stack
  PROVE  LET f == stack[i] IN
         /\ f = [depth |-> f.depth, known |-> f.known, todo |-> f.todo, branch |-> f.branch,
                 began |-> f.began, split |-> f.split, concls |-> f.concls, cases |-> f.cases]
         /\ f.depth \in 0..SplitDepth /\ f.known \subseteq Split /\ f.todo \subseteq Split
         /\ f.branch \in DOMAIN branches /\ f.began \in Graph /\ f.split \in Seq(Split)
         /\ f.concls \in Seq(Graph) /\ f.cases \in Seq(DOMAIN branches)
<1>1. stack[i] \in Frames
  BY DEF TypeOK
<1> QED BY <1>1 DEF Frames

\* The last call.
LEMMA TopIs ==
  ASSUME TypeOK, stack # <<>>
  PROVE  /\ Len(stack) \in Nat /\ Len(stack) >= 1 /\ DOMAIN stack = 1..Len(stack)
         /\ Len(stack) \in DOMAIN stack
         /\ Top = stack[Len(stack)]
<1>1. stack \in Seq(Frames)
  BY DEF TypeOK
<1>2. Len(stack) \in Nat /\ Len(stack) >= 1
  BY <1>1, EmptySeq, LenProperties
<1> QED BY <1>1, <1>2 DEF Top, Last

\* A call that takes up a split.
LEMMA TakeSplitIs ==
  ASSUME TypeOK, NEW s, TakeSplit(s)
  PROVE  /\ stack # <<>> /\ Top.split = Idle /\ s \in Top.todo
         /\ \E S : stack' \in Seq(S)
         /\ Len(stack') = Len(stack) /\ DOMAIN stack' = DOMAIN stack
         /\ \A i \in DOMAIN stack : i # Len(stack) => stack'[i] = stack[i]
         /\ stack'[Len(stack)] =
              [depth |-> Top.depth, known |-> Top.known, todo |-> Top.todo \ {s},
               branch |-> Top.branch, began |-> Top.began, split |-> <<s>>,
               concls |-> <<>>, cases |-> <<>>]
         /\ UNCHANGED egraph
<1> DEFINE f == [Top EXCEPT !.todo = @ \ {s}, !.split = <<s>>, !.concls = <<>>, !.cases = <<>>]
           S == Frames \union {f}
<1>1. stack # <<>> /\ stack' = Front(stack) \o <<f>>
  BY DEF TakeSplit, SetTop
<1>2. stack \in Seq(S)
  BY DEF TypeOK
<1>3. f = [depth |-> Top.depth, known |-> Top.known, todo |-> Top.todo \ {s},
           branch |-> Top.branch, began |-> Top.began, split |-> <<s>>,
           concls |-> <<>>, cases |-> <<>>]
  <2>1. Top = [depth |-> Top.depth, known |-> Top.known, todo |-> Top.todo,
               branch |-> Top.branch, began |-> Top.began, split |-> Top.split,
               concls |-> Top.concls, cases |-> Top.cases]
    BY <1>1, TopIs, FrameIs
  <2> DEFINE none == <<>>
  <2>2. f = [Top EXCEPT !.todo = @ \ {s}, !.split = <<s>>, !.concls = none, !.cases = none]
    OBVIOUS
  <2> HIDE DEF f, none
  <2>3. f = [depth |-> Top.depth, known |-> Top.known, todo |-> Top.todo \ {s},
             branch |-> Top.branch, began |-> Top.began, split |-> <<s>>,
             concls |-> none, cases |-> none]
    BY <2>1, <2>2
  <2> QED BY <2>3 DEF none
<1> HIDE DEF f
<1>4. /\ stack' \in Seq(S) /\ Len(stack') = Len(stack)
      /\ \A i \in 1..Len(stack) : stack'[i] = IF i = Len(stack) THEN f ELSE stack[i]
  BY <1>1, <1>2, ReplaceLast
<1>5. Len(stack) \in DOMAIN stack /\ DOMAIN stack = 1..Len(stack) /\ DOMAIN stack' = 1..Len(stack')
  BY <1>1, <1>4, TopIs
<1> QED BY <1>3, <1>4, <1>5 DEF TakeSplit

\* A call whose cases are done.
LEMMA MergeConclusionsIs ==
  ASSUME TypeOK, MergeConclusions
  PROVE  /\ stack # <<>> /\ Top.split # Idle /\ AllCasesDone
         /\ \E S : stack' \in Seq(S)
         /\ Len(stack') = Len(stack) /\ DOMAIN stack' = DOMAIN stack
         /\ \A i \in DOMAIN stack : i # Len(stack) => stack'[i] = stack[i]
         /\ stack'[Len(stack)] =
              [depth |-> Top.depth, known |-> Top.known, todo |-> Top.todo,
               branch |-> Top.branch, began |-> Top.began, split |-> Idle,
               concls |-> Top.concls, cases |-> Top.cases]
<1> DEFINE f == [Top EXCEPT !.split = Idle]
           S == Frames \union {f}
<1>1. stack # <<>> /\ stack' = Front(stack) \o <<f>>
  BY DEF MergeConclusions, SetTop
<1>2. stack \in Seq(S)
  BY DEF TypeOK
<1>3. f = [depth |-> Top.depth, known |-> Top.known, todo |-> Top.todo,
           branch |-> Top.branch, began |-> Top.began, split |-> Idle,
           concls |-> Top.concls, cases |-> Top.cases]
  <2>1. Top = [depth |-> Top.depth, known |-> Top.known, todo |-> Top.todo,
               branch |-> Top.branch, began |-> Top.began, split |-> Top.split,
               concls |-> Top.concls, cases |-> Top.cases]
    BY <1>1, TopIs, FrameIs
  <2> QED BY <2>1
<1> HIDE DEF f
<1>4. /\ stack' \in Seq(S) /\ Len(stack') = Len(stack)
      /\ \A i \in 1..Len(stack) : stack'[i] = IF i = Len(stack) THEN f ELSE stack[i]
  BY <1>1, <1>2, ReplaceLast
<1>5. Len(stack) \in DOMAIN stack /\ DOMAIN stack = 1..Len(stack) /\ DOMAIN stack' = 1..Len(stack')
  BY <1>1, <1>4, TopIs
<1> QED BY <1>3, <1>4, <1>5 DEF MergeConclusions

\* An inner call that returns.
LEMMA ReturnIs ==
  ASSUME TypeOK, Return
  PROVE  /\ stack # <<>> /\ Top.split = Idle
         /\ UNCHANGED egraph
         /\ Len(stack) = 1 => stack' = <<>>
         /\ Len(stack) # 1 =>
              /\ Len(stack) - 1 \in DOMAIN stack
              /\ \E S : stack' \in Seq(S)
              /\ Len(stack') = Len(stack) - 1 /\ DOMAIN stack' = 1..Len(stack) - 1
              /\ \A i \in 1..Len(stack) - 2 : stack'[i] = stack[i]
              /\ LET f == stack[Len(stack) - 1] IN
                 stack'[Len(stack) - 1] =
                   [depth |-> f.depth, known |-> f.known, todo |-> f.todo,
                    branch |-> f.branch, began |-> f.began, split |-> f.split,
                    concls |-> Append(f.concls, Current), cases |-> f.cases]
<1>1. stack # <<>> /\ Top.split = Idle /\ UNCHANGED egraph
  BY DEF Return
<1>2. Len(stack) \in Nat /\ Len(stack) >= 1 /\ DOMAIN stack = 1..Len(stack)
  BY <1>1, TopIs
<1>3. ASSUME Len(stack) = 1 PROVE stack' = <<>>
  BY <1>3 DEF Return
<1>4. ASSUME Len(stack) # 1
      PROVE  /\ Len(stack) - 1 \in DOMAIN stack
             /\ \E S : stack' \in Seq(S)
             /\ Len(stack') = Len(stack) - 1 /\ DOMAIN stack' = 1..Len(stack) - 1
             /\ \A i \in 1..Len(stack) - 2 : stack'[i] = stack[i]
             /\ LET f == stack[Len(stack) - 1] IN
                stack'[Len(stack) - 1] =
                  [depth |-> f.depth, known |-> f.known, todo |-> f.todo,
                   branch |-> f.branch, began |-> f.began, split |-> f.split,
                   concls |-> Append(f.concls, Current), cases |-> f.cases]
  <2> DEFINE rest == Front(stack)
             f == [Last(rest) EXCEPT !.concls = Append(@, Current)]
             S == Frames \union {f}
             n == Len(stack) - 1
  <2>1. stack' = Front(rest) \o <<f>>
    BY <1>4 DEF Return
  <2>2. stack \in Seq(Frames)
    BY DEF TypeOK
  <2>3. rest \in Seq(Frames) /\ Len(rest) = n /\ \A i \in 1..n : rest[i] = stack[i]
    BY <1>1, <2>2, FrontLastProperties
  <2>4. n \in DOMAIN stack /\ n \in Nat /\ n >= 1
    BY <1>2, <1>4
  <2>5. Last(rest) = stack[n] /\ rest # <<>>
    BY <2>3, <2>4 DEF Last
  <2>6. f = LET e == stack[n] IN
            [depth |-> e.depth, known |-> e.known, todo |-> e.todo,
             branch |-> e.branch, began |-> e.began, split |-> e.split,
             concls |-> Append(e.concls, Current), cases |-> e.cases]
    <3> DEFINE e == stack[n]
    <3>1. e = [depth |-> e.depth, known |-> e.known, todo |-> e.todo, branch |-> e.branch,
               began |-> e.began, split |-> e.split, concls |-> e.concls, cases |-> e.cases]
      BY <2>4, FrameIs
    <3>2. f = [e EXCEPT !.concls = Append(@, Current)]
      BY <2>5
    <3> HIDE DEF e, f
    <3>3. f = [depth |-> e.depth, known |-> e.known, todo |-> e.todo,
               branch |-> e.branch, began |-> e.began, split |-> e.split,
               concls |-> Append(e.concls, Current), cases |-> e.cases]
      BY <3>1, <3>2
    <3> QED BY <3>3 DEF e
  <2>7. rest \in Seq(S)
    BY <2>3
  <2> HIDE DEF rest, f
  <2>8. /\ stack' \in Seq(S) /\ Len(stack') = n
        /\ \A i \in 1..n : stack'[i] = IF i = n THEN f ELSE rest[i]
    BY <2>1, <2>3, <2>5, <2>7, ReplaceLast
  <2>9. DOMAIN stack' = 1..n
    BY <2>8
  <2>10. \A i \in 1..Len(stack) - 2 : i \in 1..n /\ i # n
    BY <2>4
  <2>11. stack'[n] = f
    BY <2>4, <2>8
  <2>12. \A i \in 1..Len(stack) - 2 : stack'[i] = stack[i]
    BY <2>3, <2>8, <2>10
  <2> QED BY <2>4, <2>6, <2>8, <2>9, <2>11, <2>12
<1> QED BY <1>1, <1>3, <1>4

\* A call that begins a case: the graph of the case has what is merged in the
\* branch checked out, and the root of the split merged with the case.
LEMMA NextCaseIs ==
  ASSUME TypeOK, Shape, NextCase
  PROVE  /\ stack # <<>> /\ Top.split # Idle /\ Top.depth >= 1
         /\ Len(Top.concls) < Len(Head(Top.split).splits) /\ Len(Top.cases) = Len(Top.concls)
         /\ checkout' = Len(branches) + 1 /\ parent' = Append(parent, checkout)
         /\ UNCHANGED fixed
         /\ branches' \in Seq(Graph) /\ Len(branches') = Len(branches) + 1
         /\ \A d \in DOMAIN branches : branches'[d] = Left(branches[d])
         /\ \E S : stack' \in Seq(S)
         /\ Len(stack') = Len(stack) + 1 /\ DOMAIN stack' = 1..Len(stack) + 1
         /\ \A i \in 1..Len(stack) - 1 : stack'[i] = stack[i]
         /\ stack'[Len(stack)] =
              [depth |-> Top.depth, known |-> Top.known, todo |-> Top.todo,
               branch |-> Top.branch, began |-> Top.began, split |-> Top.split,
               concls |-> Top.concls, cases |-> Append(Top.cases, Len(branches) + 1)]
         /\ \E g \in Graph :
              /\ Extends(g, Current) /\ Extends(g, Rebuilt[Current]) /\ Assumes(Top, g)
              /\ branches'[Len(branches) + 1] \in Graph
              /\ Extends(branches'[Len(branches) + 1], g)
              /\ Top.depth - 1 # 0 => branches'[Len(branches) + 1] \in Congruent
              /\ stack'[Len(stack) + 1] = Call(Top.depth - 1, Top.known, g, Len(branches) + 1)
<1> DEFINE n == Len(stack)
           L == Len(branches) + 1
           s == Head(Top.split)
           c == s.splits[Len(Top.concls) + 1]
<1>1. stack # <<>> /\ Top.split # Idle /\ ~AllCasesDone
  BY DEF NextCase
<1>2. n \in Nat /\ n >= 1 /\ DOMAIN stack = 1..n /\ n \in DOMAIN stack /\ Top = stack[n]
  BY <1>1, TopIs
<1>3. /\ Top.depth \in 0..SplitDepth /\ Top.known \subseteq Split
      /\ Top.split \in Seq(Split) /\ Top.concls \in Seq(Graph)
      /\ Top.cases \in Seq(DOMAIN branches)
      /\ Top = [depth |-> Top.depth, known |-> Top.known, todo |-> Top.todo,
                branch |-> Top.branch, began |-> Top.began, split |-> Top.split,
                concls |-> Top.concls, cases |-> Top.cases]
  BY <1>2, FrameIs
<1>4. /\ Top.depth # 0 /\ Len(Top.concls) <= Len(s.splits)
      /\ Len(Top.cases) = Len(Top.concls)
  BY <1>1, <1>2 DEF Shape, ShapeOf
<1>5. Top.depth >= 1 /\ Top.depth - 1 \in 0..SplitDepth
  BY <1>3, <1>4, PatternsAssumption
<1>6. s \in Split
  <2>1. Len(Top.split) >= 1
    BY <1>1, <1>3, EmptySeq, LenProperties DEF Idle
  <2> QED BY <1>3, <2>1
<1>7. s.root \in Class /\ s.splits \in Seq(Class)
  BY <1>6 DEF Split
<1>8. Len(Top.concls) \in Nat /\ Len(s.splits) \in Nat
  BY <1>3, <1>7
<1>9. Len(Top.concls) < Len(s.splits)
  BY <1>1, <1>4, <1>8 DEF AllCasesDone
<1>10. c \in Class /\ Case = c
  <2>1. Len(Top.concls) + 1 \in 1..Len(s.splits)
    BY <1>8, <1>9
  <2> QED BY <1>7, <2>1, ElementOfSeq DEF Case
<1>11. Current \in Graph /\ branches \in Seq(Graph)
  BY DEF TypeOK, Current
<1>12. PICK g \in EquivReduction(Merge(Current, s.root, c)) :
         /\ Branchout(Entered(Top.depth - 1, g))
         /\ stack' = SetTop([Top EXCEPT !.cases = Append(@, checkout')])
                       \o <<Call(Top.depth - 1, Top.known, g, checkout')>>
  BY <1>10 DEF NextCase
<1> DEFINE m == Merge(Current, s.root, c)
           e == Entered(Top.depth - 1, g)
<1>13. m \in Graph /\ Extends(m, Current) /\ m[s.root] = m[c]
  BY <1>7, <1>10, <1>11, MergeIs
<1>14. g \in Graph /\ Extends(g, Rebuilt[m])
  BY <1>12, <1>13, RewritingAssumption DEF EquivReduction
<1>15. Extends(Rebuilt[m], m) /\ Rebuilt[m] \in Graph /\ Extends(Rebuilt[m], Rebuilt[Current])
       /\ Rebuilt[Current] \in Graph
  BY <1>11, <1>13, RebuiltIs, RebuiltMonotone
<1>16. Extends(g, m) /\ Extends(g, Current) /\ Extends(g, Rebuilt[Current])
  <2>1. Extends(g, m) /\ Extends(g, Rebuilt[Current])
    <3>1. Extends(g, m)
      BY <1>13, <1>14, <1>15, ExtendsOrder
    <3> QED BY <1>14, <1>15, <3>1, ExtendsOrder
  <2> QED BY <1>11, <1>13, <1>14, <2>1, ExtendsOrder
<1>17. g[s.root] = g[c]
  BY <1>7, <1>10, <1>13, <1>14, <1>16, ExtendsMerges
<1>18. /\ e \in Graph /\ Extends(e, g)
       /\ Top.depth - 1 # 0 => e \in Congruent
  BY <1>14, RebuiltIs, ExtendsOrder DEF Entered
<1>19. /\ branches' \in Seq(Graph) /\ Len(branches') = L
       /\ branches'[L] = e
       /\ \A d \in DOMAIN branches : branches'[d] = Left(branches[d])
       /\ checkout' = L /\ parent' = Append(parent, checkout) /\ UNCHANGED fixed
  BY <1>11, <1>12, <1>18, BranchoutIs DEF Branchout
<1> DEFINE f == [Top EXCEPT !.cases = Append(@, L)]
           h == Call(Top.depth - 1, Top.known, g, L)
           S == Frames \union {f, h}
<1>20. f = [depth |-> Top.depth, known |-> Top.known, todo |-> Top.todo,
            branch |-> Top.branch, began |-> Top.began, split |-> Top.split,
            concls |-> Top.concls, cases |-> Append(Top.cases, L)]
  <2> DEFINE more == Append(Top.cases, L)
  <2>1. f = [Top EXCEPT !.cases = more]
    OBVIOUS
  <2> HIDE DEF f, more
  <2>2. f = [depth |-> Top.depth, known |-> Top.known, todo |-> Top.todo,
             branch |-> Top.branch, began |-> Top.began, split |-> Top.split,
             concls |-> Top.concls, cases |-> more]
    BY <1>3, <2>1
  <2> QED BY <2>2 DEF more
<1>21. stack' = (Front(stack) \o <<f>>) \o <<h>>
  BY <1>12, <1>19 DEF SetTop
<1> HIDE DEF f, h
<1>22. stack \in Seq(S)
  BY DEF TypeOK
<1> DEFINE t == Front(stack) \o <<f>>
<1>23. /\ t \in Seq(S) /\ Len(t) = n
       /\ \A i \in 1..n : t[i] = IF i = n THEN f ELSE stack[i]
  BY <1>1, <1>22, ReplaceLast
<1> HIDE DEF t
<1>24. /\ \E T : stack' \in Seq(T)
       /\ Len(stack') = n + 1 /\ DOMAIN stack' = 1..n + 1
       /\ stack'[n + 1] = h /\ stack'[n] = f
       /\ \A i \in 1..n - 1 : stack'[i] = stack[i]
  <2>1. stack' = t \o <<h>>
    BY <1>21 DEF t
  <2>2. stack' \in Seq(S) /\ Len(stack') = n + 1 /\ stack'[n + 1] = h
        /\ \A i \in 1..n : stack'[i] = t[i]
    <3>1. h \in S
      OBVIOUS
    <3> HIDE DEF S, n
    <3> QED BY <1>23, <2>1, <3>1, OneMoreIs
  <2>3. stack'[n] = f
    BY <1>2, <1>23, <2>2
  <2>4. \A i \in 1..n - 1 : stack'[i] = stack[i]
    <3> SUFFICES ASSUME NEW i \in 1..n - 1 PROVE stack'[i] = stack[i]
      OBVIOUS
    <3>1. n \in Nat
      BY <1>2
    <3> HIDE DEF n
    <3>2. i \in 1..n /\ i # n
      BY <3>1
    <3> QED BY <1>23, <2>2, <3>2
  <2>5. DOMAIN stack' = 1..n + 1
    BY <2>2, LenProperties
  <2> QED BY <2>2, <2>3, <2>4, <2>5
<1> HIDE DEF L, n
<1>25. Assumes(Top, g)
  BY <1>17 DEF Assumes
<1>26. \E x \in Graph :
              /\ Extends(x, Current) /\ Extends(x, Rebuilt[Current]) /\ Assumes(Top, x)
              /\ branches'[L] \in Graph
              /\ Extends(branches'[L], x)
              /\ Top.depth - 1 # 0 => branches'[L] \in Congruent
              /\ stack'[n + 1] = Call(Top.depth - 1, Top.known, x, L)
  BY <1>14, <1>16, <1>18, <1>19, <1>24, <1>25 DEF h
<1> QED BY <1>1, <1>4, <1>5, <1>9, <1>19, <1>20, <1>24, <1>26 DEF L, n

\* The groups are merged, and what else follows from that.
LEMMA GroupedIs ==
  ASSUME NEW g \in Graph, NEW classes \in SUBSET Class, NEW concls
  PROVE  /\ Grouped(g, classes, concls) \in Graph
         /\ Extends(Grouped(g, classes, concls), g)
         /\ \A x, y \in classes : SameKey(concls, x, y) =>
              Grouped(g, classes, concls)[x] = Grouped(g, classes, concls)[y]
         /\ \A w \in Graph :
              /\ Extends(w, g)
              /\ \A x, y \in classes : SameKey(concls, x, y) => w[x] = w[y]
              => Extends(w, Grouped(g, classes, concls))
<1> DEFINE pairs == {p \in classes \X classes : SameKey(concls, p[1], p[2])}
<1>1. pairs \in SUBSET (Class \X Class)
  OBVIOUS
<1>2. Grouped(g, classes, concls) = MergeAll(g, pairs)
  BY DEF Grouped
<1>3. \A x, y \in classes : SameKey(concls, x, y) => <<x, y>> \in pairs
  OBVIOUS
<1>4. \A p \in pairs : p[1] \in classes /\ p[2] \in classes /\ SameKey(concls, p[1], p[2])
  OBVIOUS
<1> HIDE DEF pairs
<1>5. \A x, y \in classes : SameKey(concls, x, y) =>
        MergeAll(g, pairs)[x] = MergeAll(g, pairs)[y]
  <2> TAKE x, y \in classes
  <2> HAVE SameKey(concls, x, y)
  <2>1. MergeAll(g, pairs)[<<x, y>>[1]] = MergeAll(g, pairs)[<<x, y>>[2]]
    BY <1>1, <1>3, MergeAllIs
  <2> QED BY <2>1
<1> QED BY <1>1, <1>2, <1>4, <1>5, MergeAllIs

\* The conclusions of a split are merged in the branch of its call.
LEMMA ConclusionsAreMerged ==
  ASSUME TypeOK, MergeConclusions
  PROVE  LET b == Top.branch
             g == Grouped(branches[b], Listed(b), Top.concls) IN
         /\ b \in DOMAIN branches /\ branches[b] \in Graph /\ Listed(b) \in SUBSET Class
         /\ g \in Graph /\ Extends(g, branches[b])
         /\ checkout' = b /\ UNCHANGED <<adapter, home, parent>>
         /\ branches' \in Seq(Graph) /\ Len(branches') = Len(branches)
         /\ branches'[b] = Rebuilt[g]
         /\ \A d \in DOMAIN branches :
              /\ Extends(branches'[d], branches[d])
              /\ adapter = "colored" => branches'[d] \in Congruent
              /\ d # b /\ ~(Shared /\ d \in Below(b)) => branches'[d] = Left(branches[d])
<1> DEFINE b == Top.branch
           g == Grouped(branches[b], Listed(b), Top.concls)
<1>1. b \in DOMAIN branches
  BY TopIs, FrameIs DEF MergeConclusions
<1>2. branches \in Seq(Graph) /\ branches[b] \in Graph
  BY <1>1 DEF TypeOK
<1>3. Listed(b) \in SUBSET Class
  BY DEF Listed
<1>4. g \in Graph /\ Extends(g, branches[b])
  BY <1>2, <1>3, GroupedIs
<1>5. CheckoutAndUnite(b, g)
  BY DEF MergeConclusions
<1> HIDE DEF b, g
<1>6. checkout' = b /\ UNCHANGED <<adapter, home, parent>>
  BY <1>5 DEF CheckoutAndUnite
<1> QED BY <1>1, <1>2, <1>3, <1>4, <1>5, <1>6, UniteIs DEF b, g

-----------------------------------------------------------------------------
(* The invariant is inductive.                                             *)

\* Nothing changes when the calls have returned.
LEMMA StutterInv == Inv /\ UNCHANGED vars => Inv'
<1> SUFFICES ASSUME Inv, UNCHANGED vars PROVE Inv'
  OBVIOUS
<1>1. UNCHANGED <<adapter, home, branches, parent, checkout, stack>>
  BY DEF vars, egraph
<1>2. TypeOK'
  BY <1>1 DEF Inv, TypeOK, Frames
<1>3. Tree' /\ Shape' /\ Order' /\ At'
  BY <1>1 DEF Inv, Tree, Shape, ShapeOf, Order, At, Top
<1>4. Nested'
  BY <1>1 DEF Inv, Nested, CasesNested
<1>5. Concluded' /\ Assumed' /\ ColoredClean' /\ Known'
  BY <1>1 DEF Inv, Concluded, CasesConcluded, Assumed, ColoredClean, Known, KnowsAll, Top
<1> QED BY <1>2, <1>3, <1>4, <1>5 DEF Inv

\* Taking up a split.
LEMMA TakeSplitInv == ASSUME Inv, NEW s, TakeSplit(s) PROVE Inv'
<1> USE DEF Inv
<1> DEFINE n == Len(stack)
           f == [depth |-> Top.depth, known |-> Top.known, todo |-> Top.todo \ {s},
                 branch |-> Top.branch, began |-> Top.began, split |-> <<s>>,
                 concls |-> <<>>, cases |-> <<>>]
<1>1. /\ stack # <<>> /\ Top.split = Idle /\ s \in Top.todo
      /\ \E S : stack' \in Seq(S)
      /\ Len(stack') = n /\ DOMAIN stack' = DOMAIN stack
      /\ \A i \in DOMAIN stack : i # n => stack'[i] = stack[i]
      /\ stack'[n] = f
      /\ UNCHANGED egraph
  BY TakeSplitIs
<1>2. UNCHANGED <<adapter, home, branches, parent, checkout>>
  BY <1>1 DEF egraph
<1>3. n \in Nat /\ n >= 1 /\ n \in DOMAIN stack /\ Top = stack[n] /\ DOMAIN stack = 1..n
  BY <1>1, TopIs
<1>4. Top' = stack'[n] /\ stack' # <<>>
  BY <1>1, <1>3 DEF Top, Last
<1>5. /\ Top.depth \in 0..SplitDepth /\ Top.known \subseteq Split /\ Top.todo \subseteq Split
      /\ Top.branch \in DOMAIN branches /\ Top.began \in Graph
  BY <1>3, FrameIs
<1>6. s \in Split /\ s.splits \in Seq(Class)
  BY <1>1, <1>5 DEF Split
<1>7. f.depth = Top.depth /\ f.known = Top.known /\ f.todo = Top.todo \ {s}
      /\ f.branch = Top.branch /\ f.began = Top.began /\ f.split = <<s>>
      /\ f.concls = <<>> /\ f.cases = <<>>
  OBVIOUS
<1>8. f \in Frames
  <2>1. <<s>> \in Seq(Split) /\ <<>> \in Seq(Graph) /\ <<>> \in Seq(DOMAIN branches)
    BY <1>6
  <2> QED BY <1>5, <2>1 DEF Frames
<1> HIDE DEF f
<1>9. TypeOK'
  <2>1. stack \in Seq(Frames)
    BY DEF TypeOK
  <2>2. ASSUME NEW i \in 1..Len(stack') PROVE stack'[i] \in Frames
    <3>1. i \in DOMAIN stack
      BY <1>1, <1>3
    <3> QED BY <1>1, <1>8, <2>1, <3>1
  <2>3. stack' \in Seq(Frames)
    <3>1. PICK S : stack' \in Seq(S)
      BY <1>1
    <3> QED BY <2>2, <3>1, ElementsInSeq
  <2>4. Frames' = Frames
    BY <1>2 DEF Frames
  <2> QED BY <1>2, <2>3, <2>4 DEF TypeOK
<1>10. Tree'
  BY <1>2 DEF Tree
<1>11. Shape'
  <2> SUFFICES ASSUME NEW i \in DOMAIN stack PROVE ShapeOf(i)'
    BY <1>1 DEF Shape
  <2>1. CASE i = n
    <3>1. f.split # Idle /\ Len(f.split) = 1 /\ Head(f.split) = s /\ Len(f.concls) = 0 /\ Len(f.cases) = 0
      BY <1>7 DEF Idle
    <3>2. f.depth # 0
      BY <1>1, <1>3, <1>7 DEF Shape, ShapeOf
    <3>3. 0 <= Len(s.splits)
      BY <1>6
    <3>4. stack'[i] = f /\ ~(i < Len(stack'))
      BY <1>1, <1>3, <2>1
    <3>5. Len(f.split) <= 1 /\ Len(f.concls) <= Len(Head(f.split).splits) /\ Len(f.cases) = Len(f.concls)
      BY <3>1, <3>3
    <3> HIDE DEF Inv, n
    <3> QED BY <3>2, <3>4, <3>5 DEF ShapeOf
  <2>2. CASE i # n
    <3>1. stack'[i] = stack[i] /\ ShapeOf(i) /\ i < n /\ i + 1 \in DOMAIN stack
      BY <1>1, <1>3, <2>2 DEF Shape
    <3>2. stack'[i + 1].branch = stack[i + 1].branch
      BY <1>1, <1>3, <1>7, <3>1
    <3> QED BY <1>1, <3>1, <3>2 DEF ShapeOf
  <2> QED BY <2>1, <2>2
<1>12. \A i \in DOMAIN stack : /\ stack'[i].branch = stack[i].branch
                              /\ stack'[i].known = stack[i].known
                              /\ stack'[i].began = stack[i].began
  BY <1>1, <1>3, <1>7
<1>13. Order'
  BY <1>1, <1>3, <1>4, <1>12 DEF Order
<1>14. At'
  BY <1>1, <1>2, <1>3, <1>4, <1>7 DEF At
<1>15. Nested'
  <2> SUFFICES ASSUME NEW i \in DOMAIN stack, stack'[i].split # Idle PROVE CasesNested(stack[i])'
    BY <1>1 DEF Nested
  <2>1. CASE i = n
    BY <1>1, <1>7, <2>1 DEF CasesNested
  <2>2. CASE i # n
    BY <1>1, <1>2, <2>2 DEF Nested, CasesNested
  <2> QED BY <2>1, <2>2
<1>16. Concluded'
  <2> SUFFICES ASSUME NEW i \in DOMAIN stack, stack'[i].split # Idle PROVE CasesConcluded(stack[i])'
    BY <1>1 DEF Concluded
  <2>1. CASE i = n
    BY <1>1, <1>7, <2>1 DEF CasesConcluded
  <2>2. CASE i # n
    BY <1>1, <1>2, <2>2 DEF Concluded, CasesConcluded
  <2> QED BY <2>1, <2>2
<1>17. Assumed'
  <2> SUFFICES ASSUME NEW i \in DOMAIN stack, NEW j \in DOMAIN stack, i < j
               PROVE  Assumes(stack'[i], branches[stack'[j].branch])
    BY <1>1, <1>2 DEF Assumed, Assumes
  <2>1. i # n
    BY <1>3
  <2> QED BY <1>1, <1>12, <2>1 DEF Assumed
<1>18. ColoredClean'
  <2>1. Top.depth # 0
    BY <1>1, <1>3 DEF Shape, ShapeOf
  <2> QED BY <1>1, <1>2, <2>1 DEF ColoredClean
<1>19. Known'
  <2> SUFFICES ASSUME NEW j \in DOMAIN stack
               PROVE  /\ Extends(branches[stack'[j].branch], stack'[j].began)
                      /\ \A i \in DOMAIN stack : i < j => KnowsAll(i, j)'
    BY <1>1, <1>2 DEF Known, Extends
  <2>1. stack'[j].todo \union {stack'[j].split[k] : k \in DOMAIN stack'[j].split}
          \subseteq stack[j].todo \union {stack[j].split[k] : k \in DOMAIN stack[j].split}
    <3>1. CASE j = n
      BY <1>1, <1>3, <1>7, <3>1
    <3>2. CASE j # n
      BY <1>1, <3>2
    <3> QED BY <3>1, <3>2
  <2> QED BY <1>12, <2>1 DEF Known, KnowsAll
<1> QED BY <1>9, <1>10, <1>11, <1>13, <1>14, <1>15, <1>16, <1>17, <1>18, <1>19

\* The first call returns.
LEMMA LastReturnInv == ASSUME Inv, Return, Len(stack) = 1 PROVE Inv'
<1>1. stack # <<>> /\ Top.split = Idle /\ UNCHANGED egraph /\ stack' = <<>>
  BY ReturnIs DEF Inv
<1>2. UNCHANGED <<adapter, home, branches, parent, checkout>>
  BY <1>1 DEF egraph
<1>3. DOMAIN stack' = {}
  BY <1>1
<1>4. TypeOK'
  <2>1. stack' \in Seq(Frames')
    BY <1>1
  <2> QED BY <1>2, <2>1 DEF Inv, TypeOK
<1>5. At'
  <2>1. Top = stack[1]
    BY <1>1, TopIs DEF Inv
  <2> QED BY <1>1, <1>2, <2>1 DEF Inv, At, Order
<1>6. Tree' /\ Shape' /\ Order'
  BY <1>1, <1>2, <1>3 DEF Inv, Tree, Shape, Order
<1>7. Nested' /\ Concluded' /\ Assumed' /\ Known'
  BY <1>3 DEF Nested, Concluded, Assumed, Known
<1>8. ColoredClean'
  BY <1>1, <1>2 DEF Inv, ColoredClean
<1> QED BY <1>4, <1>5, <1>6, <1>7, <1>8 DEF Inv

\* An inner call returns, and its caller reads the conclusions.
LEMMA InnerReturnInv == ASSUME Inv, Return, Len(stack) # 1 PROVE Inv'
<1> DEFINE n == Len(stack)
           m == Len(stack) - 1
           e == stack[m]
           new == [depth |-> e.depth, known |-> e.known, todo |-> e.todo,
                   branch |-> e.branch, began |-> e.began, split |-> e.split,
                   concls |-> Append(e.concls, Current), cases |-> e.cases]
<1>0. TypeOK
  BY DEF Inv
<1>1. /\ stack # <<>> /\ Top.split = Idle /\ UNCHANGED egraph
      /\ \E S : stack' \in Seq(S)
      /\ m \in DOMAIN stack /\ Len(stack') = m /\ DOMAIN stack' = 1..m
      /\ \A i \in 1..Len(stack) - 2 : stack'[i] = stack[i]
      /\ stack'[m] = new
  BY <1>0, ReturnIs
<1>2. UNCHANGED <<adapter, home, branches, parent, checkout>>
  BY <1>1 DEF egraph
<1>3. /\ n \in Nat /\ m \in Nat /\ m >= 1 /\ n = m + 1 /\ DOMAIN stack = 1..n
      /\ n \in DOMAIN stack /\ Top = stack[n]
  BY <1>0, <1>1, TopIs
<1>4. /\ new.depth = e.depth /\ new.known = e.known /\ new.todo = e.todo
      /\ new.branch = e.branch /\ new.began = e.began /\ new.split = e.split
      /\ new.concls = Append(e.concls, Current) /\ new.cases = e.cases
  OBVIOUS
<1>5. /\ e.depth \in 0..SplitDepth /\ e.known \subseteq Split /\ e.todo \subseteq Split
      /\ e.branch \in DOMAIN branches /\ e.began \in Graph /\ e.split \in Seq(Split)
      /\ e.concls \in Seq(Graph) /\ e.cases \in Seq(DOMAIN branches)
  BY <1>0, <1>1, FrameIs
<1>6. /\ Current \in Graph /\ Current = branches[checkout]
      /\ \A d \in DOMAIN branches : branches[d] \in Graph
  BY <1>0 DEF TypeOK, Current
<1> DEFINE c == Len(e.concls)
<1>7. /\ c \in Nat /\ new.concls \in Seq(Graph) /\ Len(new.concls) = c + 1
      /\ new.concls[c + 1] = Current /\ \A k \in 1..c : new.concls[k] = e.concls[k]
      /\ DOMAIN new.concls = 1..c + 1 /\ DOMAIN e.concls = 1..c
  BY <1>4, <1>5, <1>6
<1>8. new \in Frames
  BY <1>5, <1>7 DEF Frames
<1> HIDE DEF new, n, m, e
<1>9. \A i \in 1..m : i # m => stack'[i] = stack[i]
  <2> SUFFICES ASSUME NEW i \in 1..m, i # m PROVE stack'[i] = stack[i]
    OBVIOUS
  <2>1. i \in 1..m - 1
    BY <1>3
  <2>2. m - 1 = Len(stack) - 2
    BY <1>3 DEF n
  <2> QED BY <1>1, <2>1, <2>2
<1>10. ShapeOf(m)
  BY <1>1 DEF Inv, Shape
<1>11. /\ e.split # Idle /\ Len(e.split) <= 1 /\ e.depth # 0
       /\ c < Len(Head(e.split).splits) /\ Len(e.cases) = c + 1
       /\ e.cases[c + 1] = stack[n].branch
  <2>1. m < Len(stack) /\ m + 1 = n
    BY <1>3 DEF n
  <2> QED BY <1>10, <2>1 DEF ShapeOf, e
<1>12. checkout = stack[n].branch
  BY <1>1, <1>3 DEF Inv, At
<1>13. \A i \in 1..m : /\ stack'[i].branch = stack[i].branch
                        /\ stack'[i].known = stack[i].known
                        /\ stack'[i].began = stack[i].began
                        /\ stack'[i].todo = stack[i].todo
                        /\ stack'[i].split = stack[i].split
                        /\ stack'[i].cases = stack[i].cases
                        /\ stack'[i].depth = stack[i].depth
  BY <1>1, <1>4, <1>9 DEF e
<1>14. \A i \in 1..m : i \in DOMAIN stack
  BY <1>3
<1>15. Top' = stack'[m] /\ stack' # <<>>
  BY <1>1, <1>3 DEF Top, Last
<1>16. TypeOK'
  <2>1. PICK S : stack' \in Seq(S)
    BY <1>1
  <2>2. stack \in Seq(Frames)
    BY <1>0 DEF TypeOK
  <2>3. \A i \in 1..Len(stack') : stack'[i] \in Frames
    BY <1>1, <1>8, <1>9, <1>14, <2>2
  <2>4. stack' \in Seq(Frames)
    BY <2>1, <2>3, ElementsInSeq
  <2>5. Frames' = Frames
    BY <1>2 DEF Frames
  <2> QED BY <1>0, <1>2, <2>4, <2>5 DEF TypeOK
<1>17. Tree'
  BY <1>2 DEF Inv, Tree
<1>18. Shape'
  <2> SUFFICES ASSUME NEW i \in 1..m PROVE ShapeOf(i)'
    BY <1>1 DEF Shape
  <2>1. CASE i = m
    <3>1. Len(Head(e.split).splits) \in Nat
      <4>1. Len(e.split) >= 1
        BY <1>5, <1>11, EmptySeq, LenProperties DEF Idle
      <4>2. Head(e.split) \in Split
        BY <1>5, <4>1
      <4> QED BY <4>2 DEF Split
    <3>2. c + 1 <= Len(Head(e.split).splits)
      BY <1>7, <1>11, <3>1
    <3>3. stack'[i] = new /\ ~(i < Len(stack'))
      BY <1>1, <1>3, <2>1
    <3> QED BY <1>4, <1>7, <1>11, <3>2, <3>3 DEF ShapeOf
  <2>2. CASE i # m
    <3>1. stack'[i] = stack[i] /\ i + 1 \in 1..m /\ i < Len(stack) /\ i < Len(stack')
      BY <1>1, <1>3, <1>9, <2>2 DEF n
    <3>2. ShapeOf(i) /\ stack'[i + 1].branch = stack[i + 1].branch
      BY <1>13, <1>14, <3>1 DEF Inv, Shape
    <3> QED BY <1>1, <2>2, <3>1, <3>2 DEF ShapeOf
  <2> QED BY <2>1, <2>2
<1>19. Order'
  <2>1. DOMAIN stack' = 1..m /\ Order
    BY <1>1, <1>3 DEF Inv
  <2>2. 1 \in 1..m /\ stack # <<>>
    BY <1>1, <1>3
  <2> QED BY <2>1, <2>2, <1>13, <1>14 DEF Order
<1>20. At'
  <2>1. Last(new.cases) = stack[n].branch /\ new.cases # <<>>
    BY <1>4, <1>5, <1>7, <1>11 DEF Last
  <2> QED BY <1>1, <1>2, <1>4, <1>11, <1>12, <1>15, <2>1 DEF At
<1>21. Nested'
  <2> SUFFICES ASSUME NEW i \in 1..m, stack'[i].split # Idle PROVE CasesNested(stack[i])'
    BY <1>1 DEF Nested
  <2> QED BY <1>2, <1>13, <1>14 DEF Inv, Nested, CasesNested
<1>22. Concluded'
  <2> SUFFICES ASSUME NEW i \in 1..m, stack'[i].split # Idle PROVE CasesConcluded(stack[i])'
    BY <1>1 DEF Concluded
  <2>1. CASE i # m
    BY <1>1, <1>2, <1>9, <1>14, <2>1 DEF Inv, Concluded, CasesConcluded
  <2>2. CasesConcluded(e) /\ CasesNested(e)
    BY <1>1, <1>11 DEF Inv, Concluded, Nested, e
  <2>3. /\ branches[e.cases[c + 1]] = Current
        /\ \A k \in 1..c + 1 : e.cases[k] \in DOMAIN branches
    BY <1>5, <1>6, <1>7, <1>11, <1>12
  <2>4. ASSUME NEW k \in 1..c PROVE Extends(Current, e.concls[k])
    <3>1. k \in DOMAIN e.cases /\ c + 1 \in DOMAIN e.cases /\ k < c + 1
      BY <1>5, <1>7, <1>11
    <3>2. Extends(Current, branches[e.cases[k]])
      BY <2>2, <2>3, <3>1 DEF CasesNested
    <3>3. branches[e.cases[k]] \in {e.concls[k], Rebuilt[e.concls[k]]} /\ e.concls[k] \in Graph
      BY <1>5, <1>7, <2>2 DEF CasesConcluded
    <3>4. Extends(branches[e.cases[k]], e.concls[k]) /\ branches[e.cases[k]] \in Graph
      BY <3>3, RebuiltIs, ExtendsOrder
    <3> QED BY <1>6, <3>2, <3>3, <3>4, ExtendsOrder
  <2>5. ASSUME NEW k \in 1..c + 1
        PROVE  /\ branches[e.cases[k]] \in {new.concls[k], Rebuilt[new.concls[k]]}
               /\ \A l \in 1..c + 1 : k < l => Extends(new.concls[l], new.concls[k])
    <3>1. CASE k = c + 1
      BY <1>7, <2>3, <3>1
    <3>2. CASE k # c + 1
      <4>1. k \in 1..c /\ k \in DOMAIN e.concls
        BY <1>7, <3>2
      <4>2. \A l \in 1..c + 1 : l \in 1..c \/ l = c + 1
        BY <1>7
      <4> QED BY <1>7, <2>2, <2>4, <4>1, <4>2 DEF CasesConcluded
    <3> QED BY <3>1, <3>2
  <2>6. CASE i = m
    BY <1>1, <1>2, <1>4, <1>7, <2>5, <2>6 DEF CasesConcluded
  <2> QED BY <2>1, <2>6
<1>23. Assumed'
  <2> SUFFICES ASSUME NEW i \in 1..m, NEW j \in 1..m, i < j
               PROVE  Assumes(stack'[i], branches[stack'[j].branch])
    BY <1>1, <1>2 DEF Assumed, Assumes
  <2>1. i # m
    BY <1>3
  <2> QED BY <1>9, <1>13, <1>14, <2>1 DEF Inv, Assumed
<1>24. ColoredClean'
  <2>1. new.cases # <<>>
    BY <1>4, <1>5, <1>7, <1>11
  <2> QED BY <1>1, <1>2, <1>4, <1>11, <1>15, <2>1 DEF Inv, ColoredClean
<1>25. Known'
  <2> SUFFICES ASSUME NEW j \in 1..m
               PROVE  /\ Extends(branches[stack'[j].branch], stack'[j].began)
                      /\ \A i \in 1..m : i < j => KnowsAll(i, j)'
    BY <1>1, <1>2 DEF Known, Extends
  <2> QED BY <1>13, <1>14 DEF Inv, Known, KnowsAll
<1> QED BY <1>16, <1>17, <1>18, <1>19, <1>20, <1>21, <1>22, <1>23, <1>24, <1>25 DEF Inv

\* The branches are numbered, and the parent of a branch comes before it.
LEMMA BranchesAre ==
  ASSUME TypeOK, Tree
  PROVE  /\ Len(branches) \in Nat /\ Len(branches) >= 1
         /\ DOMAIN branches = 1..Len(branches) /\ DOMAIN parent = 1..Len(branches)
         /\ branches \in Seq(Graph) /\ \A d \in DOMAIN branches : branches[d] \in Graph
         /\ checkout \in DOMAIN branches /\ Current = branches[checkout] /\ Current \in Graph
         /\ parent \in Seq(0..Len(branches)) /\ Len(parent) = Len(branches)
         /\ \A b, d \in DOMAIN branches : d > b => parent[d] \in DOMAIN branches /\ parent[d] < d
         /\ \A b : Below(b) = BelowIn(1..Len(branches), parent, b)
<1>1. branches \in Seq(Graph) /\ branches # <<>> /\ checkout \in DOMAIN branches
  BY DEF TypeOK
<1>2. Len(branches) \in Nat /\ Len(branches) >= 1 /\ DOMAIN branches = 1..Len(branches)
  BY <1>1, EmptySeq, LenProperties
<1>3. parent \in [1..Len(branches) -> 0..Len(branches)]
  BY <1>2 DEF TypeOK
<1>4. \A d \in DOMAIN branches : branches[d] \in Graph
  BY <1>1
<1>5. ASSUME NEW b \in DOMAIN branches, NEW d \in DOMAIN branches, d > b
      PROVE  parent[d] \in DOMAIN branches /\ parent[d] < d
  <2>1. d > 1 /\ parent[d] \in 0..Len(branches)
    BY <1>2, <1>3, <1>5
  <2>2. parent[d] < d /\ parent[d] >= 1
    BY <2>1 DEF Tree
  <2> QED BY <1>2, <2>1, <2>2
<1>6. \A b : Below(b) = BelowIn(1..Len(branches), parent, b)
  BY <1>2 DEF Below, BelowIn
<1>7. parent \in Seq(0..Len(branches)) /\ Len(parent) = Len(branches)
  BY <1>2, <1>3
<1> QED BY <1>1, <1>2, <1>3, <1>4, <1>5, <1>6, <1>7 DEF Current

\* What is left of a graph extends what is left of one it extends.
LEMMA LeftMonotone ==
  ASSUME NEW f \in Graph, NEW g \in Graph, Extends(g, f)
  PROVE  Extends(Left(g), Left(f))
<1>1. CASE adapter = "colored"
  BY <1>1, RebuiltMonotone DEF Left
<1>2. CASE adapter # "colored"
  BY <1>2 DEF Left
<1> QED BY <1>1, <1>2

\* A case that is assumed in a graph is assumed in those that extend it.
LEMMA AssumesMore ==
  ASSUME TypeOK, NEW i \in DOMAIN stack, stack[i].split # Idle,
         Len(stack[i].concls) < Len(Head(stack[i].split).splits),
         NEW g \in Graph, NEW h \in Graph, Extends(h, g), Assumes(stack[i], g)
  PROVE  Assumes(stack[i], h)
<1> DEFINE f == stack[i]
           s == Head(f.split)
<1>1. f.split \in Seq(Split) /\ f.concls \in Seq(Graph)
  BY FrameIs
<1>2. s \in Split
  <2>1. Len(f.split) >= 1
    BY <1>1, EmptySeq, LenProperties DEF Idle
  <2> QED BY <1>1, <2>1
<1>3. s.root \in Class /\ s.splits \in Seq(Class)
  BY <1>2 DEF Split
<1>4. s.splits[Len(f.concls) + 1] \in Class
  <2>1. Len(f.concls) \in Nat /\ Len(s.splits) \in Nat
    BY <1>1, <1>3
  <2>2. Len(f.concls) + 1 \in 1..Len(s.splits)
    BY <2>1
  <2> QED BY <1>3, <2>2, ElementOfSeq
<1> QED BY <1>3, <1>4, ExtendsMerges DEF Assumes

\* While a split is processed, the branch checked out is below the branch of the
\* call and has all that is merged there and in the cases done.
LEMMA CurrentIs ==
  ASSUME Inv, stack # <<>>, Top.split # Idle
  PROVE  /\ checkout \in BelowIn(DOMAIN branches, parent, Top.branch) /\ Top.branch \in DOMAIN branches
         /\ Extends(Current, branches[Top.branch])
         /\ \A k \in DOMAIN Top.cases : Extends(Current, branches[Top.cases[k]])
<1>1. /\ Len(stack) \in DOMAIN stack /\ Top = stack[Len(stack)]
      /\ Top.branch \in DOMAIN branches /\ Top.cases \in Seq(DOMAIN branches)
  BY TopIs, FrameIs DEF Inv
<1>2. CasesNested(Top)
  BY <1>1 DEF Inv, Nested
<1>3. \A d \in DOMAIN branches : branches[d] \in Graph /\ Extends(branches[d], branches[d])
  BY ExtendsOrder DEF Inv, TypeOK
<1>4. CASE Top.cases = <<>>
  <2>1. checkout = Top.branch
    BY <1>4 DEF Inv, At
  <2>2. Top.branch \in BelowIn(DOMAIN branches, parent, Top.branch)
    <3>1. /\ Len(branches) \in Nat /\ Top.branch \in 1..Len(branches)
          /\ \A d \in 1..Len(branches) : d > Top.branch => parent[d] \in 1..Len(branches)
          /\ DOMAIN branches = 1..Len(branches)
      BY <1>1, BranchesAre DEF Inv
    <3> QED BY <3>1, BelowAfter
  <2> QED BY <1>1, <1>3, <1>4, <2>1, <2>2 DEF Current
<1>5. CASE Top.cases # <<>>
  <2> DEFINE c == Len(Top.cases)
  <2>1. c \in DOMAIN Top.cases /\ DOMAIN Top.cases = 1..c /\ c \in Nat
    BY <1>1, <1>5
  <2>2. checkout = Top.cases[c] /\ checkout \in DOMAIN branches
    BY <1>1, <1>5, <2>1 DEF Inv, At, Last
  <2>3. checkout \in BelowIn(DOMAIN branches, parent, Top.branch) /\ Extends(Current, branches[Top.branch])
    BY <1>2, <2>1, <2>2 DEF CasesNested, Current
  <2>4. ASSUME NEW k \in DOMAIN Top.cases PROVE Extends(Current, branches[Top.cases[k]])
    <3>1. k = c \/ k < c
      BY <2>1
    <3> QED BY <1>2, <1>3, <2>1, <2>2, <3>1 DEF CasesNested, Current
  <2> QED BY <1>1, <2>3, <2>4
<1> QED BY <1>4, <1>5

\* Beginning a case.
LEMMA NextCaseInv == ASSUME Inv, NextCase PROVE Inv'
<1> DEFINE n == Len(stack)
           N == Len(branches)
           L == Len(branches) + 1
           b == Top.branch
           new == [depth |-> Top.depth, known |-> Top.known, todo |-> Top.todo,
                   branch |-> Top.branch, began |-> Top.began, split |-> Top.split,
                   concls |-> Top.concls, cases |-> Append(Top.cases, L)]
           e == branches'[L]
           inner == stack'[n + 1]
<1>0. TypeOK /\ Tree /\ Shape
  BY DEF Inv
<1>1. /\ stack # <<>> /\ Top.split # Idle /\ Top.depth >= 1
      /\ Len(Top.concls) < Len(Head(Top.split).splits) /\ Len(Top.cases) = Len(Top.concls)
      /\ checkout' = L /\ parent' = Append(parent, checkout) /\ UNCHANGED fixed
      /\ branches' \in Seq(Graph) /\ Len(branches') = L
      /\ \A d \in DOMAIN branches : branches'[d] = Left(branches[d])
      /\ \E S : stack' \in Seq(S)
      /\ Len(stack') = n + 1 /\ DOMAIN stack' = 1..n + 1
      /\ \A i \in 1..n - 1 : stack'[i] = stack[i]
      /\ stack'[n] = new
  BY <1>0, NextCaseIs
<1>2. PICK g \in Graph :
        /\ Extends(g, Current) /\ Extends(g, Rebuilt[Current]) /\ Assumes(Top, g)
        /\ e \in Graph /\ Extends(e, g)
        /\ Top.depth - 1 # 0 => e \in Congruent
        /\ inner = Call(Top.depth - 1, Top.known, g, L)
  BY <1>0, NextCaseIs
<1>3. /\ n \in Nat /\ n >= 1 /\ DOMAIN stack = 1..n /\ n \in DOMAIN stack /\ Top = stack[n]
  BY <1>0, <1>1, TopIs
<1>4. /\ N \in Nat /\ L = N + 1 /\ DOMAIN branches = 1..N /\ DOMAIN branches' = 1..L
      /\ \A d \in DOMAIN branches : branches[d] \in Graph
      /\ checkout \in DOMAIN branches /\ Current \in Graph /\ Current = branches[checkout]
      /\ parent \in Seq(0..N) /\ Len(parent) = N /\ checkout \in 1..N
      /\ parent' = Append(parent, checkout)
      /\ \A x, d \in DOMAIN branches : d > x => parent[d] \in DOMAIN branches /\ parent[d] < d
  BY <1>0, <1>1, BranchesAre
<1>5. /\ Top.depth \in 0..SplitDepth /\ Top.known \subseteq Split /\ Top.todo \subseteq Split
      /\ Top.branch \in DOMAIN branches /\ Top.began \in Graph /\ Top.split \in Seq(Split)
      /\ Top.concls \in Seq(Graph) /\ Top.cases \in Seq(DOMAIN branches)
  BY <1>0, <1>3, FrameIs
<1>6. /\ inner.depth = Top.depth - 1 /\ inner.branch = L /\ inner.began = g
      /\ inner.split = Idle /\ inner.concls = <<>> /\ inner.cases = <<>>
      /\ inner.known \subseteq Split /\ inner.todo \subseteq Split
      /\ inner.depth = 0 => inner.todo = {}
      /\ \A s \in Top.known : Update(s, g) \in inner.known \ inner.todo
      /\ inner = [depth |-> inner.depth, known |-> inner.known, todo |-> inner.todo,
                  branch |-> inner.branch, began |-> inner.began, split |-> inner.split,
                  concls |-> inner.concls, cases |-> inner.cases]
  <2> DEFINE f == Call(Top.depth - 1, Top.known, g, L)
  <2>1. /\ f = [depth |-> Top.depth - 1, known |-> f.known, todo |-> f.todo, branch |-> L,
                began |-> g, split |-> Idle, concls |-> <<>>, cases |-> <<>>]
        /\ f.known \subseteq Split /\ f.todo \subseteq Split
        /\ Top.depth - 1 = 0 => f.todo = {}
        /\ \A s \in Top.known : Update(s, g) \in f.known \ f.todo
    BY <1>5, CallIs
  <2>2. inner = f
    BY <1>2
  <2> HIDE DEF inner, f
  <2>3. /\ f.depth = Top.depth - 1 /\ f.branch = L /\ f.began = g
        /\ f.split = Idle /\ f.concls = <<>> /\ f.cases = <<>>
    BY <2>1
  <2>4. f = [depth |-> f.depth, known |-> f.known, todo |-> f.todo,
                  branch |-> f.branch, began |-> f.began, split |-> f.split,
                  concls |-> f.concls, cases |-> f.cases]
    BY <2>1, <2>3
  <2> QED BY <2>1, <2>2, <2>3, <2>4
<1>7. /\ new.depth = Top.depth /\ new.known = Top.known /\ new.todo = Top.todo
      /\ new.branch = Top.branch /\ new.began = Top.began /\ new.split = Top.split
      /\ new.concls = Top.concls /\ new.cases = Append(Top.cases, L)
  OBVIOUS
<1> DEFINE c == Len(Top.concls)
<1>8. /\ c \in Nat /\ Len(new.cases) = c + 1 /\ new.cases[c + 1] = L
      /\ \A k \in 1..c : new.cases[k] = Top.cases[k] /\ Top.cases[k] \in DOMAIN branches
      /\ DOMAIN new.cases = 1..c + 1 /\ DOMAIN Top.cases = 1..c /\ DOMAIN Top.concls = 1..c
      /\ new.cases \in Seq(1..L)
  <2>1. Top.cases \in Seq(1..L) /\ L \in 1..L
    BY <1>4, <1>5
  <2>2. c \in Nat /\ Len(Top.cases) = c /\ DOMAIN Top.concls = 1..c
    BY <1>1, <1>5
  <2>3. new.cases = Append(Top.cases, L)
    BY <1>7
  <2>4. \A k \in 1..c : Top.cases[k] \in DOMAIN branches
    BY <1>5, <2>2, ElementAt
  <2> HIDE DEF new, c
  <2>5. new.cases \in Seq(1..L) /\ Len(new.cases) = c + 1
    BY <2>1, <2>2, <2>3
  <2>6. new.cases[c + 1] = L /\ \A k \in 1..c : new.cases[k] = Top.cases[k]
    BY <2>1, <2>2, <2>3, AppendIs
  <2>7. DOMAIN new.cases = 1..c + 1 /\ DOMAIN Top.cases = 1..c
    BY <2>1, <2>2, <2>5, LenProperties
  <2> QED BY <2>2, <2>4, <2>5, <2>6, <2>7
<1>9. adapter' = adapter /\ home' = home
  BY <1>1 DEF fixed
<1> HIDE DEF new, e, inner, n, L, N
<1>10. \A i \in 1..n : /\ i \in DOMAIN stack
                        /\ stack'[i].branch = stack[i].branch
                        /\ stack'[i].known = stack[i].known
                        /\ stack'[i].began = stack[i].began
                        /\ stack'[i].todo = stack[i].todo
                        /\ stack'[i].split = stack[i].split
                        /\ stack'[i].concls = stack[i].concls
                        /\ stack'[i].depth = stack[i].depth
  <2> SUFFICES ASSUME NEW i \in 1..n
               PROVE  /\ i \in DOMAIN stack
                      /\ stack'[i].branch = stack[i].branch
                      /\ stack'[i].known = stack[i].known
                      /\ stack'[i].began = stack[i].began
                      /\ stack'[i].todo = stack[i].todo
                      /\ stack'[i].split = stack[i].split
                      /\ stack'[i].concls = stack[i].concls
                      /\ stack'[i].depth = stack[i].depth
    OBVIOUS
  <2>1. i = n \/ i \in 1..n - 1
    BY <1>3
  <2> QED BY <1>1, <1>3, <1>7, <2>1
<1>11. \A i \in 1..n + 1 : i \in 1..n \/ i = n + 1
  BY <1>3
<1>12. \A i \in 1..n : stack[i].branch \in 1..N
  BY <1>0, <1>4, <1>10, FrameIs
<1>13. \A d \in 1..N : d \in 1..L /\ d < L
  BY <1>4
\* The graphs.
<1>14. ASSUME NEW d \in 1..N
       PROVE  branches'[d] \in Graph /\ Extends(branches'[d], branches[d])
  BY <1>1, <1>4, LeftIs
<1>15. ASSUME NEW d \in 1..N, Extends(Current, branches[d])
       PROVE  Extends(e, branches'[d]) /\ Extends(g, branches[d])
  <2>1. branches[d] \in Graph /\ branches'[d] = Left(branches[d])
    BY <1>1, <1>4
  <2>2. Extends(g, branches[d])
    BY <1>2, <1>4, <1>15, <2>1, ExtendsOrder
  <2>3. Extends(g, Rebuilt[branches[d]])
    <3>1. Extends(Rebuilt[Current], Rebuilt[branches[d]])
      BY <1>4, <1>15, <2>1, RebuiltMonotone
    <3> QED BY <1>2, <1>4, <2>1, <3>1, RebuiltIs, ExtendsOrder
  <2>4. Extends(g, branches'[d]) /\ branches'[d] \in Graph
    BY <2>1, <2>2, <2>3, LeftIs
  <2> QED BY <1>2, <2>2, <2>4, ExtendsOrder
<1>16. /\ checkout \in BelowIn(1..N, parent, b) /\ b \in 1..N
       /\ Extends(Current, branches[b])
       /\ \A k \in 1..c : Extends(Current, branches[Top.cases[k]])
  BY <1>1, <1>4, <1>8, CurrentIs
<1>17. ASSUME NEW x \in 1..N
       PROVE  /\ BelowIn(1..N, parent, x) \subseteq BelowIn(1..L, parent', x)
              /\ checkout \in BelowIn(1..N, parent, x) => L \in BelowIn(1..L, parent', x)
  <2>1. \A d \in 1..N : d > x => parent[d] \in 1..N /\ parent[d] < d
    BY <1>4
  <2>2. parent'[N + 1] \in 1..N /\ parent'[N + 1] = checkout
        /\ \A d \in 1..N : parent'[d] = parent[d]
    <3>1. Append(parent, checkout)[N + 1] = checkout
          /\ \A d \in 1..N : Append(parent, checkout)[d] = parent[d]
      <4>1. parent \in Seq(0..N) /\ Len(parent) = N
        BY <1>4
      <4> QED BY <4>1, AppendIs
    <3> QED BY <1>4, <3>1
  <2>3. /\ BelowIn(1..N, parent, x) \subseteq BelowIn(1..N + 1, parent', x)
        /\ parent'[N + 1] \in BelowIn(1..N, parent, x) => N + 1 \in BelowIn(1..N + 1, parent', x)
    <3>1. N \in Nat
      BY <1>4
    <3> HIDE DEF BelowIn
    <3> QED BY <2>1, <2>2, <3>1, BelowGrows
  <2> QED BY <1>4, <2>2, <2>3
\* The parts of the invariant.
<1>18. TypeOK'
  <2>1. PICK S : stack' \in Seq(S)
    BY <1>1
  <2>2. Frames' = [depth : 0..SplitDepth, known : SUBSET Split, todo : SUBSET Split,
                   branch : 1..L, began : Graph, split : Seq(Split),
                   concls : Seq(Graph), cases : Seq(1..L)]
    BY <1>4 DEF Frames
  <2>3. ASSUME NEW i \in 1..Len(stack') PROVE stack'[i] \in Frames'
    <3>1. CASE i = n
      <4>1. new \in Frames'
        BY <1>4, <1>5, <1>8, <2>2, <1>13 DEF new
      <4> QED BY <1>1, <3>1, <4>1
    <3>2. CASE i = n + 1
      <4>1. inner.depth \in 0..SplitDepth /\ L \in 1..L
        <5>1. Top.depth - 1 \in 0..SplitDepth
          BY <1>1, <1>5, PatternsAssumption
        <5> QED BY <1>4, <1>6, <5>1
      <4>2. Idle \in Seq(Split) /\ <<>> \in Seq(Graph) /\ <<>> \in Seq(1..L)
        BY DEF Idle
      <4>3. inner \in Frames'
        BY <1>2, <1>6, <2>2, <4>1, <4>2
      <4> QED BY <3>2, <4>3 DEF inner
    <3>3. CASE i \in 1..n - 1
      <4> DEFINE f == stack[i]
      <4>1. i \in DOMAIN stack
        BY <1>3, <3>3
      <4>2. /\ f = [depth |-> f.depth, known |-> f.known, todo |-> f.todo,
                    branch |-> f.branch, began |-> f.began, split |-> f.split,
                    concls |-> f.concls, cases |-> f.cases]
            /\ f.depth \in 0..SplitDepth /\ f.known \subseteq Split /\ f.todo \subseteq Split
            /\ f.branch \in 1..N /\ f.began \in Graph /\ f.split \in Seq(Split)
            /\ f.concls \in Seq(Graph) /\ f.cases \in Seq(1..N)
        BY <1>0, <1>4, <4>1, FrameIs
      <4> HIDE DEF f
      <4>3. f.branch \in 1..L /\ f.cases \in Seq(1..L)
        <5>1. \A k \in 1..Len(f.cases) : f.cases[k] \in 1..L
          BY <1>13, <4>2, ElementAt
        <5> QED BY <1>13, <4>2, <5>1, ElementsInSeq
      <4>4. f \in Frames'
        BY <2>2, <4>2, <4>3
      <4> QED BY <1>1, <3>3, <4>4 DEF f
    <3> QED BY <1>1, <1>3, <3>1, <3>2, <3>3
  <2>4. stack' \in Seq(Frames')
    BY <2>1, <2>3, ElementsInSeq
  <2>5. parent' \in [1..L -> 0..L]
    <3>1. parent \in Seq(0..L) /\ checkout \in 0..L
      <4>1. \A d \in 1..Len(parent) : parent[d] \in 0..L
        BY <1>4
      <4> QED BY <1>4, <4>1, ElementsInSeq
    <3>2. parent' \in Seq(0..L) /\ Len(parent') = L
      BY <1>1, <1>4, <3>1
    <3> QED BY <3>2
  <2>6. branches' \in Seq(Graph) \ {<<>>} /\ checkout' \in DOMAIN branches'
    BY <1>1, <1>4
  <2> QED BY <1>0, <1>1, <1>4, <1>9, <2>4, <2>5, <2>6 DEF TypeOK
<1>19. Tree'
  <2>1. parent'[L] = checkout /\ \A d \in 1..N : parent'[d] = parent[d]
    BY <1>1, <1>4
  <2> SUFFICES ASSUME NEW d \in 1..L PROVE parent'[d] < d /\ (d > 1 => parent'[d] >= 1)
    BY <1>4 DEF Tree
  <2>2. d \in 1..N \/ d = L
    BY <1>4
  <2>3. CASE d \in 1..N
    BY <1>0, <1>4, <2>1, <2>3 DEF Tree
  <2>4. CASE d = L
    BY <1>4, <2>1, <2>4
  <2> QED BY <2>2, <2>3, <2>4
<1>20. Shape'
  <2> SUFFICES ASSUME NEW i \in 1..n + 1 PROVE ShapeOf(i)'
    BY <1>1 DEF Shape
  <2>1. CASE i = n + 1
    <3>1. stack'[i] = inner /\ ~(i < Len(stack'))
      BY <1>1, <1>3, <2>1 DEF inner
    <3>2. Len(inner.split) <= 1 /\ (inner.depth = 0 => inner.todo = {}) /\ inner.split = Idle
      BY <1>6 DEF Idle
    <3> QED BY <3>1, <3>2 DEF ShapeOf
  <2>2. CASE i = n
    <3>1. Len(Top.split) <= 1 /\ Top.depth # 0
      BY <1>0, <1>1, <1>3, <1>5 DEF Shape, ShapeOf
    <3>2. stack'[i] = new /\ i < Len(stack') /\ i # Len(stack') /\ stack'[i + 1] = inner
      BY <1>1, <1>3, <2>2 DEF inner
    <3>3. c < Len(Head(Top.split).splits) /\ c <= Len(Head(Top.split).splits)
      <4>1. Len(Head(Top.split).splits) \in Nat
        <5>1. Len(Top.split) >= 1
          BY <1>1, <1>5, EmptySeq, LenProperties DEF Idle
        <5>2. Head(Top.split) \in Split
          BY <1>5, <5>1
        <5> QED BY <5>2 DEF Split
      <4>2. c \in Nat /\ c < Len(Head(Top.split).splits)
        BY <1>1, <1>8
      <4> QED BY <4>1, <4>2
    <3>4. new.split = Top.split /\ new.split # Idle /\ new.depth = Top.depth /\ Len(new.concls) = c
      BY <1>1, <1>7
    <3>5. Len(new.cases) = c + 1 /\ new.cases[Len(new.cases)] = stack'[i + 1].branch
      BY <1>6, <1>8, <3>2
    <3> QED BY <3>1, <3>2, <3>3, <3>4, <3>5 DEF ShapeOf
  <2>3. CASE i \in 1..n - 1
    <3>1. i \in DOMAIN stack /\ i + 1 \in 1..n /\ i < n /\ i < n + 1
      BY <1>3, <2>3
    <3>2. ShapeOf(i) /\ stack'[i + 1].branch = stack[i + 1].branch /\ stack'[i] = stack[i]
      BY <1>0, <1>1, <1>10, <2>3, <3>1 DEF Shape
    <3>3. i # n + 1
      BY <1>3, <3>1
    <3> QED BY <1>1, <3>1, <3>2, <3>3 DEF ShapeOf, n
  <2> QED BY <1>3, <2>1, <2>2, <2>3
<1>21. Order'
  <2>1. stack'[1].branch = 1
    BY <1>1, <1>3, <1>10 DEF Inv, Order
  <2>2. ASSUME NEW i \in 1..n + 1, NEW j \in 1..n + 1, i < j
        PROVE  stack'[i].branch < stack'[j].branch
    <3>1. i \in 1..n
      BY <1>3, <2>2
    <3>2. CASE j \in 1..n
      BY <1>3, <1>10, <2>2, <3>1, <3>2 DEF Inv, Order
    <3>3. CASE j = n + 1
      BY <1>6, <1>10, <1>12, <1>13, <3>1, <3>3 DEF inner
    <3> QED BY <1>11, <3>2, <3>3
  <2> QED BY <1>1, <2>1, <2>2 DEF Order
<1>22. Top' = inner /\ stack' # <<>>
  BY <1>1, <1>3 DEF Top, Last, inner
<1>23. At'
  BY <1>1, <1>6, <1>22 DEF At
<1>24. Nested'
  <2> SUFFICES ASSUME NEW i \in 1..n + 1, stack'[i].split # Idle PROVE CasesNested(stack[i])'
    BY <1>1 DEF Nested
  <2>1. i # n + 1
    BY <1>6 DEF inner
  <2>2. i \in DOMAIN stack /\ stack[i].split # Idle /\ stack[i].branch \in 1..N
    BY <1>10, <1>11, <1>12, <2>1
  <2> DEFINE f == stack[i]
  <2>3. CasesNested(f) /\ f.cases \in Seq(DOMAIN branches)
    BY <1>0, <2>2, FrameIs DEF Inv, Nested
  <2>4. ASSUME NEW k \in DOMAIN f.cases
        PROVE  /\ f.cases[k] \in 1..N /\ f.branch < f.cases[k] /\ f.cases[k] \in BelowIn(1..L, parent', f.branch)
               /\ Extends(branches'[f.cases[k]], branches'[f.branch])
               /\ \A l \in DOMAIN f.cases : k < l =>
                    /\ f.cases[k] < f.cases[l]
                    /\ Extends(branches'[f.cases[l]], branches'[f.cases[k]])
    <3>1. \A l \in DOMAIN f.cases : f.cases[l] \in 1..N
      <4> HIDE DEF f
      <4> QED BY <1>4, <2>3, ElementAt
    <3>2. \A d \in 1..N : branches[d] \in Graph /\ branches'[d] = Left(branches[d])
      BY <1>1, <1>4
    <3>3. Extends(branches'[f.cases[k]], branches'[f.branch])
      BY <2>2, <2>3, <3>1, <3>2, LeftMonotone DEF CasesNested
    <3>4. ASSUME NEW l \in DOMAIN f.cases, k < l
          PROVE  Extends(branches'[f.cases[l]], branches'[f.cases[k]])
      BY <2>3, <3>1, <3>2, <3>4, LeftMonotone DEF CasesNested
    <3>5. f.cases[k] \in BelowIn(1..L, parent', f.branch)
      BY <1>4, <1>17, <2>2, <2>3 DEF CasesNested
    <3> QED BY <2>3, <3>1, <3>3, <3>4, <3>5 DEF CasesNested
  <2>5. CASE i # n
    <3>1. stack'[i] = f
      BY <1>1, <1>3, <2>2, <2>5
    <3> HIDE DEF f
    <3> QED BY <1>4, <2>4, <3>1 DEF CasesNested
  <2>6. CASE i = n
    <3>1. f = Top /\ stack'[i] = new
      BY <1>1, <1>3, <2>6
    <3> HIDE DEF f
    <3>2. L \in BelowIn(1..L, parent', b) /\ b < L /\ new.branch = b
      BY <1>7, <1>13, <1>16, <1>17
    <3>3. Extends(e, branches'[b]) /\ \A k \in 1..c : Extends(e, branches'[Top.cases[k]])
      <4>1. \A k \in 1..c : Top.cases[k] \in 1..N
        BY <1>4, <1>8
      <4> QED BY <1>15, <1>16, <4>1
    <3>4. e = branches'[L]
      BY DEF e
    <3>5. ASSUME NEW k \in 1..c + 1
          PROVE  /\ b < new.cases[k] /\ new.cases[k] \in BelowIn(1..L, parent', b)
                 /\ Extends(branches'[new.cases[k]], branches'[b])
                 /\ \A l \in 1..c + 1 : k < l =>
                      /\ new.cases[k] < new.cases[l]
                      /\ Extends(branches'[new.cases[l]], branches'[new.cases[k]])
      <4>1. CASE k = c + 1
        <5>1. \A l \in 1..c + 1 : ~(k < l)
          BY <1>8, <4>1
        <5> QED BY <1>8, <3>2, <3>3, <3>4, <4>1, <5>1
      <4>2. CASE k # c + 1
        <5>0. k \in 1..c
          BY <1>8, <4>2
        <5>1. k \in 1..c /\ new.cases[k] = Top.cases[k] /\ Top.cases[k] \in 1..N
          BY <1>4, <1>8, <5>0
        <5>2. \A l \in 1..c + 1 : l \in 1..c \/ l = c + 1
          BY <1>8
        <5>3. \A l \in 1..c : new.cases[l] = Top.cases[l]
          BY <1>8
        <5> QED BY <1>8, <1>13, <2>4, <3>1, <3>3, <3>4, <5>1, <5>2, <5>3
      <4> QED BY <4>1, <4>2
    <3> QED BY <1>4, <1>8, <3>1, <3>2, <3>5 DEF CasesNested
  <2> QED BY <2>5, <2>6
<1>25. Concluded'
  <2> SUFFICES ASSUME NEW i \in 1..n + 1, stack'[i].split # Idle PROVE CasesConcluded(stack[i])'
    BY <1>1 DEF Concluded
  <2>1. i # n + 1
    BY <1>6 DEF inner
  <2>2. i \in 1..n /\ i \in DOMAIN stack /\ stack[i].split # Idle
    BY <1>10, <1>11, <2>1
  <2> DEFINE f == stack[i]
  <2>3. /\ CasesConcluded(f) /\ f.cases \in Seq(1..N) /\ f.concls \in Seq(Graph)
        /\ ShapeOf(i)
    BY <1>0, <1>4, <2>2, FrameIs DEF Inv, Concluded, Shape
  <2>4. Len(f.concls) <= Len(f.cases)
    <3>1. i = Len(stack) \/ i < Len(stack)
      BY <1>3, <2>2 DEF n
    <3>2. Len(f.concls) \in Nat
      BY <2>3
    <3> QED BY <2>2, <2>3, <3>1, <3>2 DEF ShapeOf
  <2>5. ASSUME NEW k \in DOMAIN f.concls
        PROVE  /\ stack'[i].cases[k] = f.cases[k]
               /\ branches'[f.cases[k]] \in {f.concls[k], Rebuilt[f.concls[k]]}
    <3>1. k \in DOMAIN f.cases
      BY <2>3, <2>4
    <3>2. f.cases[k] \in 1..N /\ f.concls[k] \in Graph
      <4> HIDE DEF f
      <4> QED BY <2>3, <2>5, <3>1, ElementAt
    <3>3. branches'[f.cases[k]] = Left(branches[f.cases[k]])
      BY <1>1, <1>4, <3>2
    <3>4. branches[f.cases[k]] \in {f.concls[k], Rebuilt[f.concls[k]]}
      BY <2>3 DEF CasesConcluded
    <3>5. branches'[f.cases[k]] \in {f.concls[k], Rebuilt[f.concls[k]]}
      BY <3>2, <3>3, <3>4, LeftIs
    <3>6. stack'[i].cases[k] = f.cases[k]
      <4>1. CASE i = n
        BY <1>1, <1>3, <1>8, <4>1
      <4>2. CASE i # n
        BY <1>1, <1>3, <2>2, <4>2
      <4> QED BY <4>1, <4>2
    <3> QED BY <3>5, <3>6
  <2>6. stack'[i].concls = f.concls
    BY <1>10, <2>2
  <2> HIDE DEF f
  <2> QED BY <2>3, <2>5, <2>6 DEF CasesConcluded
<1>26. Assumed'
  <2> SUFFICES ASSUME NEW i \in 1..n + 1, NEW j \in 1..n + 1, i < j
               PROVE  Assumes(stack'[i], branches'[stack'[j].branch])
    BY <1>1 DEF Assumed
  <2>1. i \in 1..n /\ i \in DOMAIN stack
    BY <1>3, <1>10, <1>11
  <2>2. stack[i].split # Idle /\ Len(stack[i].concls) < Len(Head(stack[i].split).splits)
    <3>1. i = n \/ i < n
      BY <1>3, <2>1
    <3> QED BY <1>0, <1>1, <1>3, <2>1, <3>1 DEF Shape, ShapeOf, n
  <2>3. \A h \in Graph : Assumes(stack[i], h) => Assumes(stack'[i], h)
    BY <1>10, <2>1 DEF Assumes
  <2>4. CASE j \in 1..n
    <3>1. Assumes(stack[i], branches[stack[j].branch])
      BY <1>3, <2>1, <2>4 DEF Inv, Assumed
    <3>2. stack[j].branch \in 1..N /\ branches[stack[j].branch] \in Graph
      BY <1>4, <1>12, <2>4
    <3>3. stack'[j].branch = stack[j].branch
      BY <1>10, <2>4
    <3> QED BY <1>0, <1>14, <2>1, <2>2, <2>3, <3>1, <3>2, <3>3, AssumesMore
  <2>5. CASE j = n + 1
    <3>1. branches'[stack'[j].branch] = e
      BY <1>6, <2>5 DEF inner, e
    <3>2. CASE i = n
      BY <1>0, <1>2, <1>3, <2>1, <2>2, <2>3, <3>1, <3>2, AssumesMore
    <3>3. CASE i # n
      <4>1. i < n
        BY <1>3, <2>1, <3>3
      <4>2. Assumes(stack[i], branches[b])
        BY <1>3, <2>1, <4>1 DEF Inv, Assumed
      <4>3. branches[b] \in Graph /\ Extends(e, branches[b])
        BY <1>2, <1>4, <1>14, <1>15, <1>16, ExtendsOrder
      <4> QED BY <1>0, <1>2, <2>1, <2>2, <2>3, <3>1, <4>2, <4>3, AssumesMore
    <3> QED BY <3>2, <3>3
  <2> QED BY <1>11, <2>4, <2>5
<1>27. ColoredClean'
  <2> SUFFICES ASSUME adapter = "colored", NEW d \in 1..L
               PROVE  \/ branches'[d] \in Congruent
                      \/ d = checkout' /\ (stack' # <<>> => Top'.depth = 0)
    BY <1>4, <1>9 DEF ColoredClean
  <2>1. CASE d \in 1..N
    <3>1. branches[d] \in Graph /\ branches'[d] = Left(branches[d])
      BY <1>1, <1>4, <2>1
    <3> QED BY <3>1, LeftIs
  <2>2. CASE d = L
    BY <1>1, <1>2, <1>5, <1>6, <1>22, <2>2 DEF e
  <2> QED BY <1>4, <2>1, <2>2
<1>28. Known'
  <2>1. ASSUME NEW j \in 1..n
        PROVE  /\ Extends(branches'[stack'[j].branch], stack'[j].began)
               /\ \A i \in 1..n + 1 : i < j => KnowsAll(i, j)'
    <3>1. Extends(branches[stack[j].branch], stack[j].began) /\ stack[j].began \in Graph
      BY <1>0, <1>3, FrameIs DEF Inv, Known
    <3>2. branches[stack[j].branch] \in Graph
      BY <1>4, <1>12
    <3>3. Extends(branches'[stack'[j].branch], stack'[j].began)
      BY <1>10, <1>12, <1>14, <3>1, <3>2, ExtendsOrder
    <3>4. ASSUME NEW i \in 1..n + 1, i < j
          PROVE  KnowsAll(i, j)'
      <4>1. i \in 1..n
        BY <1>3, <3>4
      <4>2. KnowsAll(i, j)
        BY <1>3, <3>4, <4>1 DEF Inv, Known
      <4> QED BY <1>10, <4>1, <4>2 DEF KnowsAll
    <3> QED BY <3>3, <3>4
  <2>2. Extends(branches'[stack'[n + 1].branch], stack'[n + 1].began)
    BY <1>2, <1>6 DEF e, inner
  <2>3. ASSUME NEW i \in 1..n, NEW s \in stack[i].known
        PROVE  /\ Update(s, g) \in inner.known \ inner.todo
    <3>1. CASE i = n
      BY <1>3, <1>6, <2>3, <3>1
    <3>2. CASE i # n
      <4>1. i < n /\ i \in DOMAIN stack
        BY <1>3, <3>2
      <4>2. Update(s, Top.began) \in Top.known
        BY <1>3, <4>1 DEF Inv, Known, KnowsAll
      <4>3. Extends(branches[b], Top.began)
        BY <1>3 DEF Inv, Known
      <4>4. Extends(g, Top.began)
        BY <1>2, <1>4, <1>5, <1>15, <1>16, <4>3, ExtendsOrder
      <4>5. s \in Split
        BY <1>0, <4>1, FrameIs
      <4>6. Update(Update(s, Top.began), g) = Update(s, g)
        BY <1>2, <1>5, <4>4, <4>5, UpdateIs
      <4> QED BY <1>6, <4>2, <4>6
    <3> QED BY <3>1, <3>2
  <2>4. ASSUME NEW i \in 1..n, NEW j, j = n + 1
        PROVE  KnowsAll(i, j)'
    <3>1. /\ stack'[j].began = g /\ stack'[j].known = inner.known
          /\ stack'[j].todo = inner.todo /\ stack'[j].split = <<>>
      BY <1>6, <2>4 DEF inner, Idle
    <3>2. {stack'[j].split[k] : k \in DOMAIN stack'[j].split} = {}
      BY <3>1
    <3> QED BY <1>10, <2>3, <3>1, <3>2 DEF KnowsAll
  <2> SUFFICES ASSUME NEW j \in 1..n + 1
               PROVE  /\ Extends(branches'[stack'[j].branch], stack'[j].began)
                      /\ \A i \in 1..n + 1 : i < j => KnowsAll(i, j)'
    BY <1>1 DEF Known
  <2>5. CASE j = n + 1
    <3>1. \A i \in 1..n + 1 : i < j => i \in 1..n
      BY <1>3, <2>5
    <3> QED BY <2>2, <2>4, <2>5, <3>1
  <2> QED BY <1>11, <2>1, <2>5
<1> QED BY <1>18, <1>19, <1>20, <1>21, <1>23, <1>24, <1>25, <1>26, <1>27, <1>28 DEF Inv

\* The end of a split.
LEMMA MergeConclusionsInv == ASSUME Inv, MergeConclusions PROVE Inv'
<1> DEFINE n == Len(stack)
           N == Len(branches)
           b == Top.branch
           new == [depth |-> Top.depth, known |-> Top.known, todo |-> Top.todo,
                   branch |-> Top.branch, began |-> Top.began, split |-> Idle,
                   concls |-> Top.concls, cases |-> Top.cases]
<1>0. TypeOK /\ Tree /\ Shape
  BY DEF Inv
<1>1. /\ stack # <<>> /\ Top.split # Idle /\ AllCasesDone
      /\ \E S : stack' \in Seq(S)
      /\ Len(stack') = n /\ DOMAIN stack' = DOMAIN stack
      /\ \A i \in DOMAIN stack : i # n => stack'[i] = stack[i]
      /\ stack'[n] = new
  BY <1>0, MergeConclusionsIs
<1>2. /\ n \in Nat /\ n >= 1 /\ DOMAIN stack = 1..n /\ n \in DOMAIN stack /\ Top = stack[n]
      /\ Top' = stack'[n] /\ stack' # <<>>
  <2>1. n \in Nat /\ n >= 1 /\ DOMAIN stack = 1..n /\ n \in DOMAIN stack /\ Top = stack[n]
    BY <1>0, <1>1, TopIs
  <2> QED BY <1>1, <2>1 DEF Top, Last
<1>3. /\ b \in DOMAIN branches
      /\ checkout' = b /\ UNCHANGED <<adapter, home, parent>>
      /\ branches' \in Seq(Graph) /\ Len(branches') = N
      /\ \A d \in DOMAIN branches :
           /\ Extends(branches'[d], branches[d])
           /\ adapter = "colored" => branches'[d] \in Congruent
           /\ d # b /\ ~(Shared /\ d \in Below(b)) => branches'[d] = Left(branches[d])
  BY <1>0, ConclusionsAreMerged
<1>4. /\ N \in Nat /\ N >= 1 /\ DOMAIN branches = 1..N /\ DOMAIN branches' = 1..N
      /\ \A d \in 1..N : branches[d] \in Graph /\ branches'[d] \in Graph
      /\ Below(b) = BelowIn(1..N, parent, b)
      /\ \A d \in 1..N : d > b => parent[d] \in 1..N
  <2>1. /\ N \in Nat /\ N >= 1 /\ DOMAIN branches = 1..N
        /\ \A d \in 1..N : branches[d] \in Graph
        /\ Below(b) = BelowIn(1..N, parent, b)
        /\ \A d \in 1..N : d > b => parent[d] \in 1..N
    BY <1>0, <1>3, BranchesAre
  <2> QED BY <1>3, <2>1
<1>5. /\ Top.depth \in 0..SplitDepth /\ Top.known \subseteq Split /\ Top.todo \subseteq Split
      /\ Top.began \in Graph /\ Top.concls \in Seq(Graph) /\ Top.cases \in Seq(DOMAIN branches)
  BY <1>0, <1>2, FrameIs
<1>6. /\ new.depth = Top.depth /\ new.known = Top.known /\ new.todo = Top.todo
      /\ new.branch = Top.branch /\ new.began = Top.began /\ new.split = Idle
  OBVIOUS
<1>7. new \in Frames
  <2>1. Idle \in Seq(Split)
    BY DEF Idle
  <2> QED BY <1>3, <1>5, <2>1 DEF Frames
<1> HIDE DEF new, n, N
<1>8. \A i \in 1..n : /\ stack'[i].branch = stack[i].branch
                       /\ stack'[i].known = stack[i].known
                       /\ stack'[i].began = stack[i].began
                       /\ stack'[i].todo = stack[i].todo
                       /\ stack'[i].depth = stack[i].depth
  BY <1>1, <1>2, <1>6
<1>9. ASSUME NEW i \in 1..n
      PROVE  /\ stack[i].branch \in 1..N
             /\ stack'[i].split # Idle => i < n /\ stack'[i] = stack[i]
  <2>1. stack[i].branch \in 1..N
    BY <1>0, <1>2, <1>4, FrameIs
  <2> QED BY <1>1, <1>2, <1>6, <2>1
\* What comes before the branch of the call is not written.
<1>10. ASSUME NEW d \in 1..N, d < b
       PROVE  branches'[d] = Left(branches[d])
  <2>1. Below(b) \subseteq b..N
    BY <1>3, <1>4, BelowAfter
  <2>2. d \notin Below(b)
    BY <1>3, <1>4, <1>10, <2>1
  <2> QED BY <1>3, <1>4, <1>10, <2>2
\* The cases that the calls around it have done, and their branches, come before.
<1>11. ASSUME NEW i \in 1..n, i < n
       PROVE  /\ stack[i].branch < b /\ stack[i].split # Idle
              /\ stack[i].cases \in Seq(1..N) /\ stack[i].concls \in Seq(Graph)
              /\ CasesNested(stack[i]) /\ CasesConcluded(stack[i])
              /\ Len(stack[i].cases) = Len(stack[i].concls) + 1
              /\ \A k \in 1..Len(stack[i].concls) : stack[i].cases[k] \in 1..N /\ stack[i].cases[k] < b
  <2> DEFINE f == stack[i]
             c == Len(f.concls)
  <2>1. /\ f.branch < b /\ i + 1 \in 1..n
        /\ stack[i + 1].branch <= b /\ stack[i + 1].branch \in 1..N
    <3>1. f.branch < b
      BY <1>2, <1>11 DEF Inv, Order
    <3>2. i + 1 \in 1..n /\ (i + 1 = n \/ i + 1 < n)
      BY <1>2, <1>11
    <3>3. stack[i + 1].branch = b \/ stack[i + 1].branch < b
      BY <1>2, <3>2 DEF Inv, Order
    <3>4. b \in 1..N /\ stack[i + 1].branch \in 1..N
      BY <1>3, <1>4, <1>9, <3>2
    <3> QED BY <1>4, <3>1, <3>2, <3>3, <3>4
  <2>2. f.split # Idle /\ Len(f.cases) = c + 1 /\ f.cases[c + 1] = stack[i + 1].branch
    <3>1. ShapeOf(i) /\ i < Len(stack)
      BY <1>0, <1>2, <1>11 DEF Shape, n
    <3> QED BY <3>1 DEF ShapeOf
  <2>3. f.cases \in Seq(1..N) /\ f.concls \in Seq(Graph)
    BY <1>0, <1>2, <1>4, FrameIs
  <2>4. CasesNested(f) /\ CasesConcluded(f)
    BY <1>2, <2>2 DEF Inv, Nested, Concluded
  <2> HIDE DEF f
  <2>5. c \in Nat /\ DOMAIN f.cases = 1..c + 1
    BY <2>2, <2>3
  <2>6. ASSUME NEW k \in 1..c PROVE f.cases[k] \in 1..N /\ f.cases[k] < b
    <3>1. k \in DOMAIN f.cases /\ c + 1 \in DOMAIN f.cases /\ k < c + 1
      BY <2>5
    <3>2. f.cases[k] < f.cases[c + 1]
      BY <2>4, <3>1 DEF CasesNested
    <3>3. f.cases[k] \in 1..N
      BY <2>3, <3>1, ElementAt
    <3>4. b \in 1..N
      BY <1>3, <1>4
    <3> QED BY <1>4, <2>1, <2>2, <3>2, <3>3, <3>4
  <2> QED BY <2>1, <2>2, <2>3, <2>4, <2>6 DEF f
<1>12. TypeOK'
  <2>1. PICK S : stack' \in Seq(S)
    BY <1>1
  <2>2. stack \in Seq(Frames)
    BY <1>0 DEF TypeOK
  <2>3. \A i \in 1..Len(stack') : stack'[i] \in Frames
    BY <1>1, <1>2, <1>7, <2>2
  <2>4. stack' \in Seq(Frames)
    BY <2>1, <2>3, ElementsInSeq
  <2>5. Frames' = Frames
    BY <1>4 DEF Frames
  <2>6. branches' # <<>>
    BY <1>3, <1>4
  <2> QED BY <1>0, <1>3, <1>4, <2>4, <2>5, <2>6 DEF TypeOK, N
<1>13. Tree'
  BY <1>0, <1>3, <1>4 DEF Tree
<1>14. Shape'
  <2> SUFFICES ASSUME NEW i \in 1..n PROVE ShapeOf(i)'
    BY <1>1, <1>2 DEF Shape
  <2>1. ShapeOf(i)
    BY <1>0, <1>2 DEF Shape
  <2>2. CASE i = n
    <3>1. new.depth = 0 => new.todo = {}
      BY <1>2, <1>6, <2>1, <2>2 DEF ShapeOf
    <3>2. stack'[i] = new /\ ~(i < Len(stack')) /\ Len(Idle) = 0
      BY <1>1, <1>2, <2>2 DEF Idle
    <3> QED BY <1>6, <3>1, <3>2 DEF ShapeOf
  <2>3. CASE i # n
    <3>1. stack'[i] = stack[i] /\ i + 1 \in 1..n /\ i < Len(stack) /\ i < Len(stack')
      <4>1. i + 1 \in 1..n /\ i < n
        BY <1>2, <2>3
      <4> QED BY <1>1, <1>2, <2>3, <4>1 DEF n
    <3>2. stack'[i + 1].branch = stack[i + 1].branch
      BY <1>8, <3>1
    <3> QED BY <1>1, <2>1, <2>3, <3>1, <3>2 DEF ShapeOf
  <2> QED BY <2>2, <2>3
<1>15. Order'
  BY <1>1, <1>2, <1>8 DEF Inv, Order
<1>16. At'
  BY <1>1, <1>2, <1>3, <1>6 DEF At
<1>17. Nested'
  <2> SUFFICES ASSUME NEW i \in 1..n, stack'[i].split # Idle PROVE CasesNested(stack[i])'
    BY <1>1, <1>2 DEF Nested
  <2>1. i < n /\ stack'[i] = stack[i]
    BY <1>9
  <2> DEFINE f == stack[i]
             c == Len(f.concls)
  <2>2. /\ f.branch < b /\ CasesNested(f) /\ f.cases \in Seq(1..N) /\ Len(f.cases) = c + 1
        /\ \A k \in 1..c : f.cases[k] \in 1..N /\ f.cases[k] < b
        /\ f.branch \in 1..N /\ f.concls \in Seq(Graph)
    BY <1>9, <1>11, <2>1
  <2> HIDE DEF f
  <2>3. c \in Nat /\ DOMAIN f.cases = 1..c + 1
    BY <2>2
  <2>4. \A k \in 1..c + 1 : f.cases[k] \in 1..N
    BY <2>2, <2>3, ElementAt
  \* What extends one of the branches that are not written still does.
  <2>5. ASSUME NEW d \in 1..N, d < b, NEW x \in 1..N, Extends(branches[x], branches[d])
        PROVE  Extends(branches'[x], branches'[d])
    <3>1. Extends(branches'[x], branches[d])
      BY <1>3, <1>4, <2>5, ExtendsOrder
    <3> QED BY <1>3, <1>4, <1>10, <2>5, <3>1, LeftIs
  <2>6. ASSUME NEW k \in 1..c + 1
        PROVE  /\ Extends(branches'[f.cases[k]], branches'[f.branch])
               /\ \A l \in 1..c + 1 : k < l => Extends(branches'[f.cases[l]], branches'[f.cases[k]])
    <3>1. Extends(branches'[f.cases[k]], branches'[f.branch])
      BY <2>2, <2>3, <2>4, <2>5 DEF CasesNested
    <3>2. ASSUME NEW l \in 1..c + 1, k < l
          PROVE  Extends(branches'[f.cases[l]], branches'[f.cases[k]])
      <4>1. k \in 1..c
        BY <2>3, <3>2
      <4> QED BY <2>2, <2>3, <2>4, <2>5, <3>2, <4>1 DEF CasesNested
    <3> QED BY <3>1, <3>2
  <2>7. f = stack'[i] /\ DOMAIN branches' = DOMAIN branches
    BY <1>4, <2>1 DEF f
  <2> QED BY <1>3, <2>2, <2>3, <2>6, <2>7 DEF CasesNested
<1>18. Concluded'
  <2> SUFFICES ASSUME NEW i \in 1..n, stack'[i].split # Idle PROVE CasesConcluded(stack[i])'
    BY <1>1, <1>2 DEF Concluded
  <2>1. i < n /\ stack'[i] = stack[i]
    BY <1>9
  <2> DEFINE f == stack[i]
             c == Len(f.concls)
  <2>2. /\ CasesConcluded(f) /\ f.concls \in Seq(Graph)
        /\ \A k \in 1..c : f.cases[k] \in 1..N /\ f.cases[k] < b
    BY <1>11, <2>1
  <2>3. f = stack'[i]
    BY <2>1
  <2> HIDE DEF f
  <2>4. ASSUME NEW k \in DOMAIN f.concls
        PROVE  branches'[f.cases[k]] \in {f.concls[k], Rebuilt[f.concls[k]]}
    <3>1. f.cases[k] \in 1..N /\ f.concls[k] \in Graph /\ f.cases[k] < b
      BY <2>2, ElementAt
    <3>2. branches'[f.cases[k]] = Left(branches[f.cases[k]])
      BY <1>10, <3>1
    <3>3. branches[f.cases[k]] \in {f.concls[k], Rebuilt[f.concls[k]]}
      BY <2>2 DEF CasesConcluded
    <3> QED BY <3>1, <3>2, <3>3, LeftIs
  <2> QED BY <2>2, <2>3, <2>4 DEF CasesConcluded
<1>19. Assumed'
  <2> SUFFICES ASSUME NEW i \in 1..n, NEW j \in 1..n, i < j
               PROVE  Assumes(stack'[i], branches'[stack'[j].branch])
    BY <1>1, <1>2 DEF Assumed
  <2>1. i < n /\ stack'[i] = stack[i] /\ i \in DOMAIN stack
    BY <1>1, <1>2
  <2>2. stack[i].split # Idle /\ Len(stack[i].concls) < Len(Head(stack[i].split).splits)
    BY <1>0, <2>1 DEF Shape, ShapeOf, n
  <2>3. Assumes(stack[i], branches[stack[j].branch])
    BY <1>2 DEF Inv, Assumed
  <2>4. stack[j].branch \in 1..N /\ stack'[j].branch = stack[j].branch
    BY <1>8, <1>9
  <2> QED BY <1>0, <1>3, <1>4, <2>1, <2>2, <2>3, <2>4, AssumesMore
<1>20. ColoredClean'
  BY <1>3, <1>4 DEF ColoredClean
<1>21. Known'
  <2> SUFFICES ASSUME NEW j \in 1..n
               PROVE  /\ Extends(branches'[stack'[j].branch], stack'[j].began)
                      /\ \A i \in 1..n : i < j => KnowsAll(i, j)'
    BY <1>1, <1>2 DEF Known
  <2>1. Extends(branches[stack[j].branch], stack[j].began) /\ stack[j].began \in Graph
    BY <1>0, <1>2, FrameIs DEF Inv, Known
  <2>2. Extends(branches'[stack'[j].branch], stack'[j].began)
    BY <1>3, <1>4, <1>8, <1>9, <2>1, ExtendsOrder
  <2>3. stack'[j].todo \union {stack'[j].split[k] : k \in DOMAIN stack'[j].split}
          \subseteq stack[j].todo \union {stack[j].split[k] : k \in DOMAIN stack[j].split}
    <3>1. CASE j = n
      <4>1. stack'[j].todo = stack[j].todo /\ stack'[j].split = <<>>
        BY <1>1, <1>6, <1>8, <3>1 DEF Idle
      <4> QED BY <4>1
    <3>2. CASE j # n
      BY <1>1, <1>2, <3>2
    <3> QED BY <3>1, <3>2
  <2>4. ASSUME NEW i \in 1..n, i < j PROVE KnowsAll(i, j)'
    <3>1. KnowsAll(i, j)
      BY <1>2, <2>4 DEF Inv, Known
    <3> QED BY <1>8, <2>3, <3>1 DEF KnowsAll
  <2> QED BY <2>2, <2>4
<1> QED BY <1>12, <1>13, <1>14, <1>15, <1>16, <1>17, <1>18, <1>19, <1>20, <1>21 DEF Inv

\* The first call, in a graph of its own.
LEMMA InitInv == Init => Inv
<1> SUFFICES ASSUME Init PROVE Inv
  OBVIOUS
<1>1. PICK g \in EntryGraphs : /\ InitBranches(Entered(SplitDepth, g))
                               /\ stack = <<Call(SplitDepth, {}, g, 1)>>
  BY DEF Init
<1> DEFINE e == Entered(SplitDepth, g)
           f == Call(SplitDepth, {}, g, 1)
<1>2. g \in Graph /\ SplitDepth \in Nat
  BY RewritingAssumption, PatternsAssumption
<1>3. /\ e \in Graph /\ Extends(e, g)
      /\ SplitDepth # 0 => e \in Congruent
  BY <1>2, RebuiltIs, ExtendsOrder DEF Entered
<1>4. /\ f = [depth |-> SplitDepth, known |-> f.known, todo |-> f.todo, branch |-> 1,
              began |-> g, split |-> Idle, concls |-> <<>>, cases |-> <<>>]
      /\ f.known \subseteq Split /\ f.todo \subseteq Split
      /\ SplitDepth = 0 => f.todo = {}
  <2> DEFINE none == {}
             one == 1
             h == Call(SplitDepth, none, g, one)
  <2>1. none \in SUBSET Split
    OBVIOUS
  <2>2. f = h
    OBVIOUS
  <2> HIDE DEF none, one
  <2>3. /\ h = [depth |-> SplitDepth, known |-> h.known, todo |-> h.todo, branch |-> one,
                began |-> g, split |-> Idle, concls |-> <<>>, cases |-> <<>>]
        /\ h.known \subseteq Split /\ h.todo \subseteq Split
        /\ SplitDepth = 0 => h.todo = {}
    <3>1. g \in Graph
      BY <1>2
    <3> QED BY <2>1, <3>1, CallIs
  <2> HIDE DEF f, h
  <2> QED BY <2>2, <2>3 DEF one
<1> HIDE DEF e, f
<1>5. /\ f.depth = SplitDepth /\ f.branch = 1 /\ f.began = g
      /\ f.split = Idle /\ f.concls = <<>> /\ f.cases = <<>>
  BY <1>4
<1>6. /\ branches = <<e>> /\ parent = <<0>> /\ checkout = 1
      /\ adapter \in Adapters /\ home \in {0, 1}
      /\ stack = <<f>>
  BY <1>1 DEF InitBranches, e, f
<1>7. /\ DOMAIN branches = {1} /\ branches[1] = e /\ Len(branches) = 1 /\ parent[1] = 0
      /\ DOMAIN stack = {1} /\ stack[1] = f /\ Len(stack) = 1 /\ stack # <<>> /\ Top = f
  BY <1>6 DEF Top, Last
<1>8. TypeOK
  <2>1. f \in Frames
    <3>1. Idle \in Seq(Split) /\ <<>> \in Seq(Graph) /\ <<>> \in Seq(DOMAIN branches)
      BY DEF Idle
    <3>2. SplitDepth \in 0..SplitDepth
      BY <1>2
    <3>3. f = [depth |-> f.depth, known |-> f.known, todo |-> f.todo, branch |-> f.branch,
               began |-> f.began, split |-> f.split, concls |-> f.concls, cases |-> f.cases]
      BY <1>4, <1>5
    <3>4. f.depth \in 0..SplitDepth /\ f.branch \in DOMAIN branches
      BY <1>5, <1>7, <3>2
    <3>5. f.split \in Seq(Split) /\ f.concls \in Seq(Graph) /\ f.cases \in Seq(DOMAIN branches)
      BY <1>5, <3>1
    <3> QED BY <1>2, <1>4, <1>5, <3>3, <3>4, <3>5 DEF Frames
  <2>2. branches \in Seq(Graph) /\ branches # <<>>
    BY <1>3, <1>6
  <2>3. parent \in [DOMAIN branches -> 0..Len(branches)]
    <3>1. 0 \in 0..1 /\ DOMAIN <<0>> = {1}
      OBVIOUS
    <3> QED BY <1>6, <1>7, <3>1
  <2> QED BY <1>6, <1>7, <2>1, <2>2, <2>3 DEF TypeOK
<1>9. Tree
  BY <1>7 DEF Tree
<1>10. Shape
  <2>1. Len(Idle) = 0
    BY DEF Idle
  <2> QED BY <1>4, <1>5, <1>7, <2>1 DEF Shape, ShapeOf
<1>11. Order /\ At
  BY <1>5, <1>6, <1>7 DEF Order, At
<1>12. Nested /\ Concluded /\ Assumed
  BY <1>5, <1>7 DEF Nested, Concluded, Assumed
<1>13. ColoredClean
  BY <1>3, <1>5, <1>6, <1>7 DEF ColoredClean
<1>14. Known
  BY <1>3, <1>5, <1>7 DEF Known
<1> QED BY <1>8, <1>9, <1>10, <1>11, <1>12, <1>13, <1>14 DEF Inv

\* Every step preserves the invariant.
LEMMA NextInv == Inv /\ [Next]_vars => Inv'
<1> SUFFICES ASSUME Inv, [Next]_vars PROVE Inv'
  OBVIOUS
<1>1. ASSUME NEW s, TakeSplit(s) PROVE Inv'
  BY <1>1, TakeSplitInv
<1>2. CASE NextCase
  BY <1>2, NextCaseInv
<1>3. CASE Return
  BY <1>3, LastReturnInv, InnerReturnInv
<1>4. CASE MergeConclusions
  BY <1>4, MergeConclusionsInv
<1>5. CASE UNCHANGED vars
  BY <1>5, StutterInv
<1> QED BY <1>1, <1>2, <1>3, <1>4, <1>5 DEF Next, Returned

\* The invariant holds of every run.
THEOREM Invariance == Spec => []Inv
BY InitInv, NextInv, PTL DEF Spec

-----------------------------------------------------------------------------
(* What follows.                                                           *)

\* The variables keep to their types in every run (case_split.rs 138-182).
THEOREM TypeCorrect == Spec => []TypeOK
<1>1. Inv => TypeOK
  BY DEF Inv
<1> QED BY <1>1, Invariance, PTL

\* Between two splits and at the return the branch of the call is checked out,
\* however many branches its cases made (case_split.rs 167-178).
THEOREM BranchIsRestored == Spec => []BackOnItsBranch
<1>1. Inv => BackOnItsBranch
  BY DEF Inv, At, BackOnItsBranch
<1> QED BY <1>1, Invariance, PTL

\* The calls around assume their cases in whatever is checked out
\* (case_split.rs 171-175).
THEOREM AssumptionsNest == Spec => []EnclosingCasesAssumed
<1>1. Inv => EnclosingCasesAssumed
  <2> SUFFICES ASSUME Inv, NEW i \in 1..Len(stack) - 1
               PROVE  Assumes(stack[i], Current)
    BY DEF EnclosingCasesAssumed, Assumes
  <2> DEFINE n == Len(stack)
  <2>0. TypeOK /\ Tree /\ Shape
    BY DEF Inv
  <2>1. stack # <<>>
    <3>1. stack \in Seq(Frames)
      BY <2>0 DEF TypeOK
    <3>2. Len(stack) # 0
      BY <3>1, LenProperties
    <3> QED BY <3>2
  <2>2. n \in Nat /\ DOMAIN stack = 1..n /\ n \in DOMAIN stack /\ Top = stack[n]
    BY <2>0, <2>1, TopIs
  <2>3. i \in DOMAIN stack /\ i < n
    BY <2>2
  <2>4. stack[i].split # Idle /\ Len(stack[i].concls) < Len(Head(stack[i].split).splits)
    BY <2>0, <2>3 DEF Shape, ShapeOf
  <2>5. Assumes(stack[i], branches[Top.branch])
    BY <2>2, <2>3 DEF Inv, Assumed
  <2>6. /\ Top.branch \in DOMAIN branches /\ Current \in Graph /\ Current = branches[checkout]
        /\ \A d \in DOMAIN branches : branches[d] \in Graph
    BY <2>0, <2>2, BranchesAre, FrameIs
  <2>7. Extends(Current, branches[Top.branch])
    <3>1. CASE Top.split = Idle
      BY <2>1, <2>6, <3>1, ExtendsOrder DEF Inv, At
    <3>2. CASE Top.split # Idle
      BY <2>1, <3>2, CurrentIs
    <3> QED BY <3>1, <3>2
  <2> QED BY <2>0, <2>3, <2>4, <2>5, <2>6, <2>7, AssumesMore
<1> QED BY <1>1, Invariance, PTL

\* A call takes up none of the splitters known around it, under the ids they
\* have in its graph (case_split.rs 152-161).
THEOREM SplittersAreNew == Spec => []NeverSplitAgain
<1>1. Inv => NeverSplitAgain
  BY DEF Inv, Known, KnowsAll, NeverSplitAgain
<1> QED BY <1>1, Invariance, PTL

\* What the end of a split writes: in the branch of the call what the cases
\* share, elsewhere only below that branch and where no call is at work.
LEMMA EndOfSplit ==
  ASSUME Inv, MergeConclusions
  PROVE  /\ SplitEnds /\ GainsWhatCasesShare(Top.branch)
         /\ \A d \in DOMAIN branches \ {Top.branch} :
              branches'[d] # branches[d] => d \in Below(Top.branch) \ InUse
<1> DEFINE n == Len(stack)
           N == Len(branches)
           b == Top.branch
           concls == Top.concls
           cases == Top.cases
           c == Len(concls)
           G == Grouped(branches[b], Listed(b), concls)
<1>0. TypeOK /\ Tree /\ Shape
  BY DEF Inv
<1>1. /\ stack # <<>> /\ Top.split # Idle /\ AllCasesDone
      /\ Len(stack') = n /\ DOMAIN stack' = DOMAIN stack
      /\ \A i \in DOMAIN stack : i # n => stack'[i] = stack[i]
      /\ stack'[n] =
           [depth |-> Top.depth, known |-> Top.known, todo |-> Top.todo,
            branch |-> Top.branch, began |-> Top.began, split |-> Idle,
            concls |-> Top.concls, cases |-> Top.cases]
  BY <1>0, MergeConclusionsIs
<1>2. /\ n \in Nat /\ n >= 1 /\ DOMAIN stack = 1..n /\ n \in DOMAIN stack /\ Top = stack[n]
  BY <1>0, <1>1, TopIs
<1>3. /\ b \in DOMAIN branches /\ branches[b] \in Graph /\ Listed(b) \in SUBSET Class
      /\ G \in Graph /\ Extends(G, branches[b])
      /\ checkout' = b /\ branches'[b] = Rebuilt[G]
      /\ \A d \in DOMAIN branches :
           d # b /\ ~(Shared /\ d \in Below(b)) => branches'[d] = Left(branches[d])
  BY <1>0, ConclusionsAreMerged
<1>4. /\ N \in Nat /\ N >= 1 /\ DOMAIN branches = 1..N
      /\ \A d \in 1..N : branches[d] \in Graph
      /\ Below(b) = BelowIn(1..N, parent, b)
      /\ \A d \in 1..N : d > b => parent[d] \in 1..N
  BY <1>0, <1>3, BranchesAre
<1>5. /\ concls \in Seq(Graph) /\ cases \in Seq(DOMAIN branches)
      /\ Len(cases) = c /\ c \in Nat /\ DOMAIN cases = 1..c /\ DOMAIN concls = 1..c
  <2>1. concls \in Seq(Graph) /\ cases \in Seq(DOMAIN branches)
    BY <1>0, <1>2, FrameIs
  <2>2. Len(cases) = c
    BY <1>0, <1>1, <1>2 DEF Shape, ShapeOf
  <2> QED BY <2>1, <2>2
<1>6. CasesNested(Top) /\ CasesConcluded(Top)
  BY <1>1, <1>2 DEF Inv, Nested, Concluded
<1> HIDE DEF concls, cases, n, N
\* A case has what it concluded, and what was merged before the split.
<1>7. ASSUME NEW k \in 1..c
      PROVE  /\ concls[k] \in Graph /\ branches[cases[k]] \in Graph
             /\ branches[cases[k]] \in {concls[k], Rebuilt[concls[k]]}
             /\ Extends(branches[cases[k]], concls[k])
             /\ Extends(branches[cases[k]], branches[b])
             /\ \A l \in 1..c : Extends(concls[k], concls[l]) \/ k < l
  <2>1. concls[k] \in Graph /\ branches[cases[k]] \in Graph
    <3>1. cases[k] \in DOMAIN branches
      BY <1>5, ElementAt
    <3> QED BY <1>4, <1>5, <3>1, ElementAt
  <2>2. /\ branches[cases[k]] \in {concls[k], Rebuilt[concls[k]]}
        /\ Extends(branches[cases[k]], branches[b])
    BY <1>5, <1>6 DEF CasesConcluded, CasesNested, concls, cases
  <2>3. Extends(branches[cases[k]], concls[k])
    BY <2>1, <2>2, RebuiltIs, ExtendsOrder
  <2>4. ASSUME NEW l \in 1..c, ~(k < l) PROVE Extends(concls[k], concls[l])
    <3>1. l = k \/ l < k
      BY <1>5, <2>4
    <3> QED BY <1>5, <1>6, <2>1, <3>1, ExtendsOrder DEF CasesConcluded, concls
  <2> QED BY <2>1, <2>2, <2>3, <2>4
<1>8. {branches[Top.cases[k]] : k \in DOMAIN Top.cases} = {branches[cases[k]] : k \in 1..c}
  BY <1>5 DEF cases
<1>9. Rebuilt[G] \in Graph /\ Extends(Rebuilt[G], G)
  BY <1>3, RebuiltIs
\* Nothing is merged that a case keeps apart.
<1>10. ASSUME NEW k \in 1..c PROVE Extends(Rebuilt[branches[cases[k]]], branches'[b])
  <2> DEFINE w == Rebuilt[branches[cases[k]]]
  <2>1. w \in Graph /\ w \in Congruent /\ Extends(w, branches[cases[k]])
    BY <1>7, RebuiltIs
  <2>2. Extends(w, concls[k]) /\ Extends(w, branches[b])
    BY <1>3, <1>7, <2>1, ExtendsOrder
  <2> HIDE DEF w
  <2>3. ASSUME NEW x \in Listed(b), NEW y \in Listed(b), SameKey(concls, x, y) PROVE w[x] = w[y]
    <3>1. x \in Class /\ y \in Class
      BY <1>3
    <3>2. concls[k][x] = concls[k][y]
      BY <1>5, <2>3 DEF SameKey
    <3> QED BY <1>7, <2>1, <2>2, <3>1, <3>2, ExtendsMerges
  <2>4. Extends(w, G)
    BY <1>3, <2>1, <2>2, <2>3, GroupedIs
  <2>5. Extends(w, Rebuilt[G])
    BY <1>3, <2>1, <2>4, RebuiltMonotone
  <2> QED BY <1>3, <2>5 DEF w
\* All is merged that the cases agree on.
<1>11. ASSUME NEW x \in Listed(b), NEW y \in Listed(b),
              \A k \in 1..c : branches[cases[k]][x] = branches[cases[k]][y]
       PROVE  branches'[b][x] = branches'[b][y]
  <2>0. x \in Class /\ y \in Class
    BY <1>3
  <2>1. CASE c = 0
    <3>1. SameKey(concls, x, y)
      BY <1>5, <2>1 DEF SameKey
    <3>2. G[x] = G[y]
      BY <1>3, <3>1, GroupedIs
    <3> QED BY <1>3, <1>9, <2>0, <3>2, ExtendsMerges
  <2>2. CASE c # 0
    <3>1. 1 \in 1..c
      BY <1>5, <2>2
    <3> DEFINE f == concls[1]
    <3>2. Listed(b) = Class
      BY DEF Listed
    <3>3. ASSUME NEW z \in Class PROVE G[f[z]] = G[z]
      <4>1. f[z] \in Class
        BY <1>7, <3>1, GraphIs
      <4>2. \A l \in 1..c : concls[l][f[z]] = concls[l][z]
        <5> TAKE l \in 1..c
        <5>1. Extends(concls[l], f)
          <6>1. ~(l < 1)
            BY <1>5
          <6> QED BY <1>7, <3>1, <6>1
        <5> QED BY <5>1 DEF Extends
      <4>3. SameKey(concls, f[z], z)
        BY <1>5, <4>2 DEF SameKey
      <4> QED BY <1>3, <3>2, <4>1, <4>3, GroupedIs
    <3>4. Extends(G, f) /\ f \in Graph
      BY <1>7, <3>1, <3>3 DEF Extends
    <3> HIDE DEF f
    <3>5. Extends(Rebuilt[G], f) /\ Extends(Rebuilt[G], Rebuilt[f])
      BY <1>3, <3>4, RebuiltMonotone
    <3>6. Extends(Rebuilt[G], branches[cases[1]]) /\ branches[cases[1]] \in Graph
      BY <1>7, <3>1, <3>5 DEF f
    <3>7. branches[cases[1]][x] = branches[cases[1]][y]
      BY <1>11, <3>1
    <3> QED BY <1>3, <1>9, <2>0, <3>6, <3>7, ExtendsMerges
  <2> QED BY <2>1, <2>2
<1>12. GainsWhatCasesShare(b)
  <2> DEFINE shared == {branches[Top.cases[k]] : k \in DOMAIN Top.cases}
  <2>1. \A g \in shared : Extends(Rebuilt[g], branches'[b])
    BY <1>8, <1>10
  <2>2. \A k \in 1..c : branches[cases[k]] \in shared
    BY <1>8
  <2>3. ASSUME NEW x \in Listed(b), NEW y \in Listed(b), \A g \in shared : g[x] = g[y]
        PROVE  branches'[b][x] = branches'[b][y]
    BY <1>11, <2>2, <2>3
  <2>4. b = Top.branch /\ \A x, y \in Listed(b) :
          (\A g \in shared : g[x] = g[y]) => branches'[b][x] = branches'[b][y]
    BY <2>3
  <2> QED BY <2>1, <2>4 DEF GainsWhatCasesShare
\* Elsewhere.
<1>13. ASSUME NEW d \in 1..N, d # b, branches'[d] # branches[d]
       PROVE  d \in Below(b) \ InUse
  <2>1. d \in Below(b)
    <3> SUFFICES ASSUME d \notin Below(b) PROVE FALSE
      OBVIOUS
    <3>1. branches'[d] = Left(branches[d])
      BY <1>3, <1>4, <1>13
    <3>2. adapter = "colored" /\ branches[d] \notin Congruent
      BY <1>4, <1>13, <3>1, RebuiltIs DEF Left
    <3>3. d = checkout
      BY <1>4, <3>2 DEF Inv, ColoredClean
    <3> QED BY <1>1, <1>4, <3>3, CurrentIs
  <2>2. Below(b) \subseteq b..N
    BY <1>3, <1>4, BelowAfter
  <2>3. d > b
    BY <1>3, <1>4, <1>13, <2>1, <2>2
  <2>4. ASSUME NEW i \in DOMAIN stack' PROVE d # stack'[i].branch
    <3>1. i \in 1..n /\ stack'[i].branch = stack[i].branch
      BY <1>1, <1>2
    <3>2. i = n \/ i < n
      BY <1>2, <3>1
    <3>3. stack[i].branch = b \/ stack[i].branch < b
      BY <1>2, <3>1, <3>2 DEF Inv, Order
    <3>4. stack[i].branch \in 1..N /\ b \in 1..N
      BY <1>0, <1>2, <1>3, <1>4, <3>1, FrameIs
    <3> QED BY <1>4, <2>3, <3>1, <3>3, <3>4
  <2>5. d # checkout'
    BY <1>3, <1>13
  <2> QED BY <2>1, <2>4, <2>5 DEF InUse
<1>14. SplitEnds
  BY <1>1 DEF SplitEnds
<1> QED BY <1>4, <1>12, <1>13, <1>14

\* In every run a branch that is there is written, apart from rebuilding, only
\* at the end of a split: the one of the call, which gains exactly what the
\* cases share, and with an adapter that shares the graph those below it, where
\* no call works (case_split.rs 120-136, 178-179).
THEOREM OnlySharedIsMerged == Spec => OnlySharedConclusions
<1>1. Inv /\ [Next]_vars => [WritesItsOwnBranch]_vars
  <2> SUFFICES ASSUME Inv, Next PROVE WritesItsOwnBranch \/ UNCHANGED vars
    OBVIOUS
  <2>1. CASE MergeConclusions
    BY <2>1, EndOfSplit DEF WritesItsOwnBranch
  <2>2. ASSUME branches' = branches, ~SplitEnds PROVE WritesItsOwnBranch
    BY <2>2 DEF WritesItsOwnBranch
  <2>3. ASSUME NEW s, TakeSplit(s) PROVE WritesItsOwnBranch
    BY <2>2, <2>3 DEF TakeSplit, SplitEnds, egraph
  <2>4. CASE Return
    BY <2>2, <2>4 DEF Return, SplitEnds, egraph
  <2>5. CASE NextCase
    <3>1. \A d \in DOMAIN branches : branches[d] \in Graph /\ branches'[d] = Left(branches[d])
      <4>1. TypeOK /\ Shape
        BY DEF Inv
      <4> QED BY <2>5, <4>1, NextCaseIs DEF TypeOK
    <3>2. ~SplitEnds
      BY <2>5 DEF NextCase, SplitEnds
    <3> QED BY <3>1, <3>2, LeftIs DEF WritesItsOwnBranch
  <2> QED BY <2>1, <2>3, <2>4, <2>5 DEF Next, Returned
<1> QED BY <1>1, Invariance, PTL DEF Spec, OnlySharedConclusions
=============================================================================
