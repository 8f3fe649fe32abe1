------------------------------- MODULE Prover -------------------------------
(***************************************************************************)
(* A proof attempt (src/src/thesy/prover.rs): prove_ind, prove_all and     *)
(* generalize_prove.                                                       *)
(*                                                                         *)
(* An equation is proved by cases on the induction variable: for each      *)
(* constructor of its datatype the proof graph is branched, the variable   *)
(* is merged with the constructor's term, and the rules (for constructors  *)
(* with parameters also the induction hypothesis, at smaller values only)  *)
(* are run; the case is proved when the two sides have become equal.       *)
(*                                                                         *)
(* What a branch can derive is taken from the meaning of the equation.  A  *)
(* world is a value for each placeholder.  A branch may derive the         *)
(* equation when it holds in all worlds that the facts in the branch       *)
(* leave, and it need not, as running rules is incomplete and limited.     *)
(* The rules given are true, but splitting cases merges what its first     *)
(* case entails (case_split.rs 168-180), be that a fact or not.            *)
(***************************************************************************)
EXTENDS Integers, Sequences, FiniteSets, SequencesExt

CONSTANTS
  Value,       \* the values of the prover's datatype
  World,       \* the assignments of values to the placeholders
  Ind(_),      \* Ind(w): the value of the induction variable in world w
  Smaller,     \* <<u, v>>: u is a proper part of v (what ltwf stands for)
  BaseCases,   \* the constructors without parameters, in their order
  StepCases,   \* the constructors with parameters, in their order
  Built,       \* Built[c]: the values constructor c builds
  Op,          \* the shapes of terms: all but their placeholders
  LeafOp,      \* the shapes that are a single symbol
  OtherVars,   \* the placeholders of the other datatypes
  Holds(_, _), \* Holds(e, w): the sides of equation e are equal in world w
  Splits,      \* the splits a case splitter can find: their cases in order,
               \* each the worlds in which the split term is that case
  Requests     \* the calls of the prover: records [call, eq]

Constructors == Range(BaseCases) \union Range(StepCases)

\* A placeholder of the datatype is its number; 0 is the induction variable.
Placeholder == Nat \union OtherVars
Term == [op : Op, phs : Seq(Placeholder)]

\* pre: the precondition of a goal, or <<>>.  It may be on any placeholder; at:
\* the worlds in which it is true.
Precondition == [term : Term, at : SUBSET World]
Equation == [pre : Seq(Precondition), left : Term, right : Term]
Request  == [call : {"ind", "all", "generalize"}, eq : Equation]

ASSUME DatatypeAssumption ==
  /\ BaseCases \in Seq(Constructors) /\ StepCases \in Seq(Constructors)
  /\ Range(BaseCases) \intersect Range(StepCases) = {}
  /\ Built \in [Constructors -> SUBSET Value]
  /\ \A v \in Value : \E c \in Constructors : v \in Built[c]
  /\ \A w \in World : Ind(w) \in Value

\* Structural induction: every set of values has one without smaller ones.
ASSUME WellFoundedAssumption ==
  /\ Smaller \subseteq Value \X Value
  /\ \A S \in SUBSET Value :
        S # {} => \E m \in S : \A u \in S : <<u, m>> \notin Smaller

\* A split has a case; its cases need not be all there are.
ASSUME SplitsAssumption ==
  \A s \in Splits : s \in Seq(SUBSET World) /\ s # <<>>

\* Goals have preconditions, conjectures have none.
ASSUME RequestsAssumption ==
  /\ Requests \subseteq Request /\ LeafOp \subseteq Op
  /\ OtherVars \intersect Nat = {}
  /\ \A q \in Requests : Len(q.eq.pre) <= 1
  /\ \A q \in Requests : q.call # "all" => q.eq.pre = <<>>

VARIABLES
  pc,      \* where the prover is
  asked,   \* the call it works on
  eq,      \* the equation passed to prove_base and prove_ind
  gen,     \* generalize_prove's ex1, ex2 and their indices, once it has them
  count,   \* ph_count
  perms,   \* the permutations left for this ph_count
  failed,  \* history: the equations prove_all failed on for generalize_prove
  todo,    \* the constructors whose case is still to be proved
  graph,   \* the branch checked out: the worlds its facts leave, whether the
           \* sides are equal in it
  misled,  \* history: a case split of this attempt merged what does not follow
  res,     \* prove_ind's `res'
  answer   \* the value returned: none, or some rules

search == <<gen, count, perms>>
vars == <<pc, asked, eq, search, failed, todo, graph, misled, res, answer>>

-----------------------------------------------------------------------------
(* Equations.                                                              *)

PreAt(e) == {w \in World : \A i \in DOMAIN e.pre : w \in e.pre[i].at}
PreVars(e) == UNION {Range(e.pre[i].term.phs) : i \in DOMAIN e.pre}
IsLeaf(t) == t.op \in LeafOp
NotContainingIndVar(t) == 0 \notin Range(t.phs)

\* A rewrite is made only if it binds each variable of its right-hand side.
Bound(bound, from, to) == Range(to.phs) \subseteq bound \union Range(from.phs)

\* push_rw.  The rule merges the root of its first pattern with `to'; it only
\* asks for terms that match the patterns.  The precondition comes first.
PushRw(e, from, to) ==
  IF IsLeaf(from) \/ ~Bound(PreVars(e), from, to) THEN <<>>
  ELSE <<[patterns |-> [i \in DOMAIN e.pre |-> e.pre[i].term] \o <<from>>,
          to |-> to]>>

RwFromExp(e) == PushRw(e, e.left, e.right) \o PushRw(e, e.right, e.left)

\* create_hypothesis makes a rule: `ltwf' binds the induction variable.
HasHypothesis(e) ==
  \/ ~IsLeaf(e.left)  /\ Bound({0}, e.left, e.right)
  \/ ~IsLeaf(e.right) /\ Bound({0}, e.right, e.left)

-----------------------------------------------------------------------------
(* The proof graph.                                                        *)

\* create_proof_graph: the precondition is merged with true.
ProofGraph(e) == [worlds |-> PreAt(e), equal |-> FALSE]

\* Faulty variant of Hypothesis: not guarded by ltwf.
HypothesisUnguarded(e, v) ==
  HasHypothesis(e) => \A u \in World : Holds(e, u)

\* The hypothesis when the induction variable is v.  The other placeholders of
\* the equation are variables of the rule, but its precondition is the term
\* that create_graph merged with true: it does not ask for the precondition
\* where the hypothesis is used.
Hypothesis(e, v) ==
  HasHypothesis(e) => \A u \in World : <<Ind(u), v>> \in Smaller => Holds(e, u)

\* What is left when the induction variable is merged with c's term in a branch
\* made from the one checked out, which has the facts of the constructors before.
Branch(c) == {w \in graph.worlds : Ind(w) \in Built[c]}

\* Each case of a split is a branch of the case before and has its facts too.
InCase(split, k, w) == \A j \in 1..k : w \in split[j]

\* What is equal in the branches of all cases is merged: the facts that are true
\* in all worlds of all of them.
Keeps(split, w) == \E k \in DOMAIN split : InCase(split, k, w)

\* The worlds that the facts leave after these splits, or splits in their cases.
SplitCases(worlds, splits) == {w \in worlds : \A s \in splits : Keeps(s, w)}

\* A case: the rules are run in its branch, which are true in `worlds', and
\* cases are split, if there is a case splitter and it finds any.
TryCase(worlds, splits, equal) ==
  LET left == SplitCases(worlds, splits) IN
  /\ graph.equal => equal
  /\ equal => graph.equal \/ \A w \in left : Holds(eq, w)
  /\ graph' = [worlds |-> left, equal |-> equal]
  /\ misled' = (misled \/ left # worlds)
  /\ todo' = Tail(todo)

-----------------------------------------------------------------------------
(* prove_base, prove_ind and prove_all.                                    *)

None      == [some |-> FALSE, rules |-> <<>>]
Some(rs)  == [some |-> TRUE, rules |-> rs]

FirstStep == [all |-> "prove_base", ind |-> "prove_ind",
              generalize |-> "generalize"]

Init ==
  /\ asked \in Requests
  /\ pc = FirstStep[asked.call] /\ eq = asked.eq
  /\ gen = <<>> /\ count = 0 /\ perms = {}
  /\ failed = {} /\ todo = <<>> /\ graph = ProofGraph(eq) /\ misled = FALSE
  /\ res = TRUE
  /\ answer = None

\* prove_base is false or prove_ind is None: generalize_prove goes on.
Fail ==
  /\ pc' = IF asked.call = "generalize" THEN "next" ELSE "done"
  /\ failed' = IF asked.call = "generalize" THEN failed \union {eq} ELSE failed
  /\ UNCHANGED <<asked, eq, search, todo, graph, misled, res, answer>>

NoIndVar == NotContainingIndVar(eq.left) /\ NotContainingIndVar(eq.right)

NothingToInduct == pc \in {"prove_base", "prove_ind"} /\ NoIndVar /\ Fail

EnterBase ==
  /\ pc = "prove_base" /\ ~NoIndVar
  /\ pc' = "base" /\ todo' = BaseCases /\ graph' = ProofGraph(eq)
  /\ misled' = FALSE
  /\ UNCHANGED <<asked, eq, search, failed, res, answer>>

\* `all' goes on to the next constructor only if this case is proved.
BaseCase(splits, equal) ==
  /\ pc = "base" /\ todo # <<>> /\ equal
  /\ TryCase(Branch(Head(todo)), splits, equal)
  /\ UNCHANGED <<pc, asked, eq, search, failed, res, answer>>

BaseFails == pc = "base" /\ todo # <<>> /\ ~graph.equal /\ Fail

BaseProved ==
  /\ pc = "base" /\ todo = <<>>
  /\ pc' = "prove_ind"
  /\ UNCHANGED <<asked, eq, search, failed, todo, graph, misled, res, answer>>

EnterInd ==
  /\ pc = "prove_ind" /\ ~NoIndVar
  /\ pc' = "ind" /\ todo' = StepCases /\ graph' = ProofGraph(eq)
  /\ res' = TRUE
  /\ UNCHANGED <<asked, eq, search, failed, misled, answer>>

\* Every constructor is tried, also after a failure.
IndCase(splits, equal) ==
  LET hypothesis == {v \in Value : Hypothesis(eq, v)} IN
  /\ pc = "ind" /\ todo # <<>>
  /\ TryCase({w \in Branch(Head(todo)) : Ind(w) \in hypothesis}, splits, equal)
  /\ res' = (res /\ equal)
  /\ UNCHANGED <<pc, asked, eq, search, failed, answer>>

IndFails == pc = "ind" /\ todo = <<>> /\ ~res /\ Fail

IndProved ==
  /\ pc = "ind" /\ todo = <<>> /\ res
  /\ answer' = Some(RwFromExp(eq))
  /\ pc' = "done"
  /\ UNCHANGED <<asked, eq, search, failed, todo, graph, misled, res>>

-----------------------------------------------------------------------------
(* generalize_prove.                                                       *)

\* collect_ph1s: where placeholder 1 occurs.
Ph1s(t) == {i \in DOMAIN t.phs : t.phs[i] = 1}

\* The place of each index in the vector of indices: in the order of the
\* expression, or in any order heap_recursive permutes them to.
InOrder(indices) == [i \in indices |-> Cardinality({k \in indices : k <= i})]
Orders(indices) == Bijection(indices, 1..Cardinality(indices))

\* replace_at_indexes: the index at place ph_id + 1 gets ph_id mod n, plus 1.
ReplaceAtIndexes(t, place, n) ==
  [t EXCEPT !.phs = [i \in DOMAIN t.phs |->
     IF i \in DOMAIN place THEN ((place[i] - 1) % n) + 1 ELSE t.phs[i]]]

Sides(e1, e2, i1, i2) == [ex1 |-> e1, ex2 |-> e2, indices1 |-> i1, indices2 |-> i2]

\* Faulty variant of Ordered: swaps the indices but not the expressions.
OrderedHalfSwapped(l, r) ==
  IF Cardinality(Ph1s(l)) > Cardinality(Ph1s(r))
  THEN Sides(l, r, Ph1s(r), Ph1s(l)) ELSE Sides(l, r, Ph1s(l), Ph1s(r))

\* The side with fewer occurrences comes first: its occurrences are permuted.
Ordered(l, r) ==
  IF Cardinality(Ph1s(l)) > Cardinality(Ph1s(r))
  THEN Sides(r, l, Ph1s(r), Ph1s(l)) ELSE Sides(l, r, Ph1s(l), Ph1s(r))

TooFew(e) == Cardinality(Ph1s(e.left)) <= 1 /\ Cardinality(Ph1s(e.right)) <= 1

TooFewToGeneralize ==
  /\ pc = "generalize" /\ TooFew(eq)
  /\ pc' = "done"
  /\ UNCHANGED <<asked, eq, search, failed, todo, graph, misled, res, answer>>

Generalize ==
  /\ pc = "generalize" /\ ~TooFew(eq)
  /\ gen' = <<Ordered(eq.left, eq.right)>>
  /\ count' = Cardinality(gen'[1].indices2)
  /\ perms' = Orders(gen'[1].indices1)
  /\ pc' = "next"
  /\ UNCHANGED <<asked, eq, failed, todo, graph, misled, res, answer>>

Candidate(s, n, perm) ==
  [pre |-> <<>>, left |-> ReplaceAtIndexes(s.ex1, perm, n),
   right |-> ReplaceAtIndexes(s.ex2, InOrder(s.indices2), n)]

\* heap_recursive calls the closure, which calls prove_all, for one more
\* permutation; in which order it takes them makes no difference here.
TryPermutation(perm) ==
  /\ pc = "next" /\ perm \in perms
  /\ perms' = perms \ {perm}
  /\ eq' = Candidate(gen[1], count, perm)
  /\ pc' = "prove_base"
  /\ UNCHANGED <<asked, gen, count, failed, todo, graph, misled, res, answer>>

\* Faulty variant of LowerCount: `(0..=max_phs).rev()'.
LowerCountToZero ==
  /\ pc = "next" /\ perms = {} /\ count >= 1
  /\ count' = count - 1
  /\ perms' = Orders(gen[1].indices1)
  /\ UNCHANGED <<pc, asked, eq, gen, failed, todo, graph, misled, res, answer>>

\* Faulty variant of LowerCount: the permutations are not started over.
LowerCountOnly ==
  /\ pc = "next" /\ perms = {} /\ count > 1
  /\ count' = count - 1
  /\ UNCHANGED <<pc, asked, eq, gen, perms, failed, todo, graph, misled, res, answer>>

\* `for ph_count in (1..=max_phs).rev()'.
LowerCount ==
  /\ pc = "next" /\ perms = {} /\ count > 1
  /\ count' = count - 1
  /\ perms' = Orders(gen[1].indices1)
  /\ UNCHANGED <<pc, asked, eq, gen, failed, todo, graph, misled, res, answer>>

GiveUp ==
  /\ pc = "next" /\ perms = {} /\ count = 1
  /\ pc' = "done"
  /\ UNCHANGED <<asked, eq, search, failed, todo, graph, misled, res, answer>>

Returned == pc = "done" /\ UNCHANGED vars

Next ==
  \/ NothingToInduct
  \/ EnterBase \/ BaseFails \/ BaseProved \/ EnterInd \/ IndFails \/ IndProved
  \/ (\E splits \in SUBSET Splits : \E equal \in BOOLEAN :
        BaseCase(splits, equal) \/ IndCase(splits, equal))
  \/ TooFewToGeneralize \/ Generalize
  \/ (\E perm \in perms : TryPermutation(perm))
  \/ LowerCount \/ GiveUp
  \/ Returned

Spec == Init /\ [][Next]_vars

-----------------------------------------------------------------------------
(* Properties.                                                             *)

SearchState == [ex1 : Term, ex2 : Term, indices1 : SUBSET (Nat \ {0}),
                indices2 : SUBSET (Nat \ {0})]
Rule == [patterns : Seq(Term), to : Term]

\* The values of the variables.
TypeOK ==
  /\ pc \in {"prove_base", "base", "prove_ind", "ind", "generalize", "next",
             "done"}
  /\ asked \in Requests /\ eq \in Equation
  /\ gen \in Seq(SearchState) /\ Len(gen) <= 1
  /\ pc = "next" => Len(gen) = 1 /\ count > 0
  /\ count \in Nat
  /\ \A perm \in perms : Len(gen) = 1 /\ perm \in Orders(gen[1].indices1)
  /\ failed \subseteq Equation
  /\ todo \in Seq(Constructors)
  /\ graph \in [worlds : SUBSET World, equal : BOOLEAN]
  /\ misled \in BOOLEAN
  /\ res \in BOOLEAN
  /\ answer \in [some : BOOLEAN, rules : Seq(Rule)]

\* At most one constructor with and one without parameters, as lists, numbers
\* and the trees of theories/ have.
OneOfEach == Len(BaseCases) <= 1 /\ Len(StepCases) <= 1

\* Where the precondition is true it is true of all smaller values, whatever
\* the other placeholders are.
DownwardClosed(e) ==
  LET pre == PreAt(e) IN
  \A w \in pre : \A u \in World : <<Ind(u), Ind(w)>> \in Smaller => u \in pre

HoldsWhereBuilt(e, cs) ==
  \A w \in PreAt(e) : (\E c \in Range(cs) : Ind(w) \in Built[c]) => Holds(e, w)
Valid(e) == \A w \in PreAt(e) : Holds(e, w)

\* prove_ind is told that the base cases are right.
BaseIsRight == asked.call = "ind" => HoldsWhereBuilt(eq, BaseCases)

(***************************************************************************)
(* What is proved is true, unless a case split has merged what does not    *)
(* follow from the facts of its branch: the cases of prove_base and        *)
(* prove_ind with the hypothesis at smaller values add up to an induction, *)
(* for the equation asked and for each generalisation of it (prover.rs     *)
(* 137-156, 211-267).  Case splits do merge what does not follow, as only  *)
(* their first case starts from the branch of the call (case_split.rs 171, *)
(* CaseSplit's ConclusionsHold); false equations are then proved.          *)
(***************************************************************************)
ProvedIsValid ==
  answer.some /\ BaseIsRight /\ OneOfEach /\ DownwardClosed(eq) /\ ~misled
    => Valid(eq)

\* Renames each placeholder of the datatype but 0 to 1.
Collapsed(t) ==
  [t EXCEPT !.phs = [i \in DOMAIN t.phs |->
     IF t.phs[i] \in Nat \ {0} THEN 1 ELSE t.phs[i]]]

OnlyPlaceholder1(t) == \A i \in DOMAIN t.phs : t.phs[i] \in {0, 1} \union OtherVars

(***************************************************************************)
(* What generalize_prove proves has the conjecture it was given as an      *)
(* instance, although sides and indices are swapped and placeholders are   *)
(* dealt out by position, when the conjecture has no other placeholder of  *)
(* the datatype than 1 (prover.rs 158-202); thesy.rs 521-528 takes it for  *)
(* a proof of the conjecture.                                              *)
(***************************************************************************)
ProvesTheConjecture ==
  /\ answer.some /\ asked.call = "generalize"
  /\ OnlyPlaceholder1(asked.eq.left) /\ OnlyPlaceholder1(asked.eq.right)
  => {Collapsed(eq.left), Collapsed(eq.right)} = {asked.eq.left, asked.eq.right}

(***************************************************************************)
(* generalize_prove returns an equation with as many placeholders as can   *)
(* be had: every way to place more of them was tried and failed, and it    *)
(* gives up only when every way failed (prover.rs 176-200).                *)
(***************************************************************************)
MostGeneralFirst ==
  pc = "done" /\ gen # <<>> =>
    \A n \in 1..Cardinality(gen[1].indices2) :
      (answer.some => n > count) =>
        \A perm \in Orders(gen[1].indices1) :
          Candidate(gen[1], n, perm) \in failed

(***************************************************************************)
(* What is proved without misleading case splits is true, for any          *)
(* precondition (prover.rs 298: `Precondition on each direction of the     *)
(* hypothesis').                                                           *)
(***************************************************************************)
ProvedIsValidForAnyPrecondition ==
  answer.some /\ BaseIsRight /\ OneOfEach /\ ~misled => Valid(eq)

(***************************************************************************)
(* A rule merges what is equal: the root of its match, which is the root   *)
(* of its first pattern (thesy_parser.rs 123), and its right-hand side.    *)
(***************************************************************************)
RulesHold ==
  OneOfEach /\ Valid(eq) =>
    \A i \in DOMAIN answer.rules :
      LET r == answer.rules[i] IN
      \A w \in PreAt(eq) :
        Holds([pre |-> <<>>, left |-> Head(r.patterns), right |-> r.to], w)
=============================================================================
