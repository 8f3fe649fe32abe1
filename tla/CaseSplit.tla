------------------------------ MODULE CaseSplit ------------------------------
(***************************************************************************)
(* Case splitting (src/src/thesy/case_split.rs) over an e-graph with       *)
(* branches (src/src/adapter.rs; module Branches).                         *)
(*                                                                         *)
(* For each splitter the e-graph offers, each case gets a branch in which  *)
(* the splitter's root is merged with the case and the rules are run; the  *)
(* call recurs in that branch on the splitters the rules uncovered; what   *)
(* all the cases agree on is then merged in the branch of the call.        *)
(***************************************************************************)
EXTENDS Branches

CONSTANTS
  Patterns,     \* the matches of the splitter searchers: where they match and
                \* what they split.  Records [when, unless, root, splits]
  SplitDepth,   \* split_depth of the call of case_split
  EntryGraphs,  \* the graphs case_split is called with
  Rewritten,    \* Rewritten[g]: what run may leave of g, whatever limit stops it
  Worlds        \* what may be true of the classes: the models of the rules

Split == [root : Class, splits : Seq(Class)]

ASSUME PatternsAssumption ==
  /\ SplitDepth \in Nat
  /\ Patterns \subseteq [when : SUBSET (Class \X Class), unless : SUBSET Class,
                         root : Class, splits : Seq(Class)]

\* What Saturation shows of run, which rebuilds before anything else.
ASSUME RewritingAssumption ==
  /\ EntryGraphs \subseteq Graph /\ EntryGraphs # {}
  /\ Rewritten \in [Graph -> SUBSET Graph]
  /\ \A g \in Graph : Rewritten[g] # {}
  /\ \A g \in Graph : \A h \in Rewritten[g] : Extends(h, Rebuilt[g])

\* What is known of a graph is right in the worlds, and one of the cases of a
\* splitter is true in each of them.
ASSUME WorldsAssumption ==
  /\ Worlds \subseteq Congruent
  /\ \A w \in Worlds : \A g \in EntryGraphs : Extends(w, g)
  /\ \A w \in Worlds : \A g \in Graph : Extends(w, g) =>
        \A h \in Rewritten[g] : Extends(w, h)
  /\ \A w \in Worlds : \A p \in Patterns :
        (\A e \in p.when : w[e[1]] = w[e[2]])
          => \E i \in DOMAIN p.splits : w[p.root] = w[p.splits[i]]

VARIABLE stack  \* the calls of inner_case_split, the innermost last

vars == <<egraph, stack>>

-----------------------------------------------------------------------------
(* The splitters.                                                          *)

\* What a case splitter of the theory gives for a match: it splits the class
\* of a variable into the classes of some patterns.  `when' is what must be
\* merged for the pattern to match.
Given(when, root, splits) ==
  [when |-> when, unless |-> {}, root |-> root, splits |-> splits]

\* The splitters of system_case_splits: (ite z x y) by its condition z, unless
\* that is true or false already, and (or x y) which is true.
Ite(when, z, true, false) ==
  [Given(when, z, <<true, false>>) EXCEPT !.unless = {true, false}]
Or(when, x, y, true) == Given(when, true, <<x, y>>)

\* equiv_reduction.
EquivReduction(g) == Rewritten[g]

\* Split::update.
Update(s, g) ==
  [root |-> g[s.root], splits |-> [i \in DOMAIN s.splits |-> g[s.splits[i]]]]

\* find_splitters: what the searchers match in g, in canonical ids, once each.
FindSplitters(g) ==
  {Update([root |-> p.root, splits |-> p.splits], g) :
     p \in {q \in Patterns :
              /\ \A e \in q.when : g[e[1]] = g[e[2]]
              /\ \A x \in q.unless : g[q.root] # g[x]}}

-----------------------------------------------------------------------------
(* The calls.                                                              *)

Top       == Last(stack)
Idle      == <<>>
SetTop(f) == Front(stack) \o <<f>>

\* A call that is not at depth 0 rebuilds its graph: find_splitters does, for
\* each splitter rule, and there are some always.
Entered(depth, g) == IF depth = 0 THEN g ELSE Rebuilt[g]

Frame(depth, known, todo, g, branch) ==
  [depth |-> depth, known |-> known, todo |-> todo, branch |-> branch,
   began |-> g,               \* history: the graph the call was made with
   split |-> Idle,            \* <<the split being processed>>
   concls |-> <<>>,           \* split_conclusions: the find of each case so far
   cases |-> <<>>]            \* history: the branches of these cases

\* Faulty variant of Call: the splits known are not updated to the new graph.
CallStale(depth, known, g, branch) ==
  LET found == IF depth = 0 THEN {} ELSE FindSplitters(Rebuilt[g]) IN
  Frame(depth, known \union found, found \ known, g, branch)

\* The head of inner_case_split on graph g, checked out as `branch': it returns
\* at once at depth 0, which is to have nothing to do.  The splits known are
\* updated before the graph is rebuilt.  The order of `todo' is the order of
\* the matches, which the searchers take from hash maps.
Call(depth, known, g, branch) ==
  LET canonical == {Update(s, g) : s \in known}
      found == IF depth = 0 THEN {} ELSE FindSplitters(Rebuilt[g])
  IN Frame(depth, canonical \union found, found \ canonical, g, branch)

Init ==
  \E g \in EntryGraphs :
    /\ InitBranches(Entered(SplitDepth, g))
    /\ stack = <<Call(SplitDepth, {}, g, 1)>>

\* `for split in splitters'.
TakeSplit(s) ==
  /\ stack # <<>> /\ Top.split = Idle
  /\ s \in Top.todo
  /\ stack' = SetTop([Top EXCEPT !.todo = @ \ {s}, !.split = <<s>>,
                                 !.concls = <<>>, !.cases = <<>>])
  /\ UNCHANGED egraph

Case == Head(Top.split).splits[Len(Top.concls) + 1]
AllCasesDone == Len(Top.concls) = Len(Head(Top.split).splits)

\* Faulty variant of NextCase: branches out from the first branch.
NextCaseFromFirst ==
  /\ stack # <<>> /\ Top.split # Idle /\ ~AllCasesDone
  /\ \E g \in EquivReduction(Merge(branches[1], Head(Top.split).root, Case)) :
       /\ Branchout(Entered(Top.depth - 1, g))
       /\ stack' = SetTop([Top EXCEPT !.cases = Append(@, checkout')])
                     \o <<Call(Top.depth - 1, Top.known, g, checkout')>>

\* A case: branchout (from the branch checked out, which is the previous case's
\* after the first one), checkout, union, equiv_reduction, and the inner call.
NextCase ==
  /\ stack # <<>> /\ Top.split # Idle /\ ~AllCasesDone
  /\ \E g \in EquivReduction(Merge(Current, Head(Top.split).root, Case)) :
       /\ Branchout(Entered(Top.depth - 1, g))
       /\ stack' = SetTop([Top EXCEPT !.cases = Append(@, checkout')])
                     \o <<Call(Top.depth - 1, Top.known, g, checkout')>>

\* The call returns.  If it is an inner one, its caller reads the case's
\* conclusions from the branch that is checked out (collect_merged).
Return ==
  /\ stack # <<>> /\ Top.split = Idle /\ Top.todo = {}
  /\ stack' = IF Len(stack) = 1 THEN <<>>
              ELSE LET rest == Front(stack) IN
                   Front(rest) \o
                     <<[Last(rest) EXCEPT !.concls = Append(@, Current)]>>
  /\ UNCHANGED egraph

\* merge_conclusions: the classes listed that have the same conclusion in each
\* case, each group merged into one class.
SameKey(concls, x, y) == \A i \in DOMAIN concls : concls[i][x] = concls[i][y]

\* Faulty variant of Grouped: two classes are grouped when one case agrees.
GroupedByAny(g, classes, concls) ==
  MergeAll(g, {p \in classes \X classes :
                 \E i \in DOMAIN concls : concls[i][p[1]] = concls[i][p[2]]})

Grouped(g, classes, concls) ==
  MergeAll(g, {p \in classes \X classes : SameKey(concls, p[1], p[2])})

\* Faulty variant of MergeConclusions: without checkout(current_branch).
MergeConclusionsUnchecked ==
  /\ stack # <<>> /\ Top.split # Idle /\ AllCasesDone
  /\ CheckoutAndUnite(checkout, Grouped(Current, Listed(Top.branch), Top.concls))
  /\ stack' = SetTop([Top EXCEPT !.split = Idle])

\* Congruence is restored after the unions.
MergeConclusions ==
  /\ stack # <<>> /\ Top.split # Idle /\ AllCasesDone
  /\ CheckoutAndUnite(Top.branch,
       Grouped(branches[Top.branch], Listed(Top.branch), Top.concls))
  /\ stack' = SetTop([Top EXCEPT !.split = Idle])

Returned == stack = <<>> /\ UNCHANGED vars

Next ==
  \/ \E s \in UNION {stack[i].todo : i \in DOMAIN stack} : TakeSplit(s)
  \/ NextCase \/ Return \/ MergeConclusions
  \/ Returned

Spec == Init /\ [][Next]_vars

-----------------------------------------------------------------------------
(* Properties.                                                             *)

Frames == [depth : 0..SplitDepth, known : SUBSET Split, todo : SUBSET Split,
           branch : DOMAIN branches, began : Graph, split : Seq(Split),
           concls : Seq(Graph), cases : Seq(DOMAIN branches)]

\* The values of the variables.
TypeOK ==
  /\ adapter \in Adapters /\ home \in {0, 1}
  /\ branches \in Seq(Graph) \ {<<>>}
  /\ parent \in [DOMAIN branches -> 0..Len(branches)]
  /\ checkout \in DOMAIN branches
  /\ stack \in Seq(Frames)

(***************************************************************************)
(* Between two splits, and when the call returns, the branch checked out   *)
(* is the one that was checked out when the call began, however many       *)
(* branches its cases and their inner calls made (case_split.rs 167-178).  *)
(***************************************************************************)
BackOnItsBranch ==
  /\ stack = <<>> => checkout = 1
  /\ stack # <<>> /\ Top.split = Idle => checkout = Top.branch

(***************************************************************************)
(* A call works under the assumptions of all the calls around it: in the   *)
(* branch checked out, each split that is being processed has its root     *)
(* merged with the case chosen last (case_split.rs 171-175).               *)
(***************************************************************************)
EnclosingCasesAssumed ==
  \A i \in 1..Len(stack) - 1 :
    LET s == Head(stack[i].split) IN
    Current[s.root] = Current[s.splits[Len(stack[i].concls) + 1]]

(***************************************************************************)
(* A splitter is never split again inside one of its own cases, nor inside *)
(* a case of a splitter found along with it, although its ids change as    *)
(* the rules merge its classes: in the graph where a call looks for        *)
(* splitters it is none of those the call takes up, unless the time limit  *)
(* had left that graph to be rebuilt.  (What the call concludes from one   *)
(* of its own splits may still make another the same as one outside; the   *)
(* splitters it has found are not looked at again: case_split.rs 152-161,  *)
(* 168.)                                                                   *)
(***************************************************************************)
NeverSplitAgain ==
  \A i, j \in DOMAIN stack :
    LET g == Rebuilt[stack[j].began] IN
    i < j /\ g = stack[j].began =>
      \A s \in stack[i].known :
        Update(s, g) \notin stack[j].todo \union {stack[j].split[k] : k \in DOMAIN stack[j].split}

(***************************************************************************)
(* Apart from rebuilding, only the end of a split writes a branch that is  *)
(* there already: the one of its call, which gains what all the cases      *)
(* share, everything they agree on among the classes listed and nothing    *)
(* that one of them keeps apart once it is rebuilt.  With an adapter that  *)
(* shares the graph the branches below gain it too, but no call will work  *)
(* in one of those again, which is what makes the adapters interchangeable *)
(* (case_split.rs 120-136, 163-165, 178-179).                              *)
(***************************************************************************)
SplitEnds == stack # <<>> /\ Top.split # Idle /\ AllCasesDone
InUse     == {checkout'} \union {stack'[i].branch : i \in DOMAIN stack'}

GainsWhatCasesShare(b) ==
  LET cases == {branches[Top.cases[k]] : k \in DOMAIN Top.cases} IN
  /\ \A g \in cases : Extends(Rebuilt[g], branches'[b])
  /\ \A x, y \in Listed(b) :
       (\A g \in cases : g[x] = g[y]) => branches'[b][x] = branches'[b][y]

WritesItsOwnBranch ==
  IF SplitEnds
  THEN /\ GainsWhatCasesShare(Top.branch)
       /\ \A b \in DOMAIN branches \ {Top.branch} :
            branches'[b] # branches[b] => b \in Below(Top.branch) \ InUse
  ELSE \A b \in DOMAIN branches :
         branches'[b] \in {branches[b], Rebuilt[branches[b]]}
OnlySharedConclusions == [][WritesItsOwnBranch]_vars

(***************************************************************************)
(* What case_split merges in its own branch is equal in every world: a     *)
(* conclusion of a case split does not depend on the case (case_split.rs   *)
(* 163: `before each split cloned the egraph').                            *)
(***************************************************************************)
ConclusionsHold == \A w \in Worlds : Extends(w, branches[1])
=============================================================================
