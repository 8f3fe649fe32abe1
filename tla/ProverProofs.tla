----------------------------- MODULE ProverProofs -----------------------------
(***************************************************************************)
(* Proofs about Prover: its types, that what it proves by cases and with   *)
(* the induction hypothesis is true, for any datatype with well-founded    *)
(* values, and that generalisations are tried from the most general down.  *)
(***************************************************************************)
EXTENDS Prover, SequenceLemmas, FiniteSetTheorems, TLAPS

\* The call's own label is one of the control labels.
LEMMA FirstStepIsLabel ==
  ASSUME NEW q \in Requests
  PROVE  FirstStep[q.call] \in {"prove_base", "prove_ind", "generalize"}
BY RequestsAssumption DEF FirstStep, Request

\* A rewrite rule made of an equation is a rule.
LEMMA RwFromExpType ==
  ASSUME NEW e \in Equation
  PROVE  RwFromExp(e) \in Seq(Rule)
<1>1. ASSUME NEW from \in Term, NEW to \in Term
      PROVE  PushRw(e, from, to) \in Seq(Rule)
  <2> DEFINE ps == [i \in DOMAIN e.pre |-> e.pre[i].term]
  <2>1. e.pre \in Seq(Precondition)
    BY DEF Equation
  <2>2. ps \in Seq(Term)
    <3>1. DOMAIN e.pre = 1..Len(e.pre) /\ Len(e.pre) \in Nat
      BY <2>1
    <3>2. \A i \in 1..Len(e.pre) : e.pre[i].term \in Term
      <4>1. \A i \in 1..Len(e.pre) : e.pre[i] \in Precondition
        BY <2>1
      <4>2. \A p \in Precondition : p.term \in Term
        BY DEF Precondition
      <4> QED BY <4>1, <4>2
    <3>3. ps = [i \in 1..Len(e.pre) |-> e.pre[i].term]
      BY <3>1
    <3> QED BY <3>1, <3>2, <3>3
  <2>3. ps \o <<from>> \in Seq(Term)
    BY <2>2, <1>1
  <2>4. [patterns |-> ps \o <<from>>, to |-> to] \in Rule
    BY <2>3, <1>1 DEF Rule
  <2>5. <<[patterns |-> ps \o <<from>>, to |-> to]>> \in Seq(Rule)
    BY <2>4
  <2>6. <<>> \in Seq(Rule)
    OBVIOUS
  <2> QED BY <2>5, <2>6 DEF PushRw
<1>2. e.left \in Term /\ e.right \in Term
  BY DEF Equation
<1> QED BY <1>1, <1>2 DEF RwFromExp

\* The occurrences of placeholder 1 are finitely many positions.
LEMMA Ph1sType ==
  ASSUME NEW t \in Term
  PROVE  Ph1s(t) \in SUBSET (Nat \ {0}) /\ IsFiniteSet(Ph1s(t))
<1>1. t.phs \in Seq(Placeholder)
  BY DEF Term
<1>2. Ph1s(t) \subseteq 1..Len(t.phs) /\ Len(t.phs) \in Nat
  BY <1>1 DEF Ph1s
<1>3. IsFiniteSet(1..Len(t.phs))
  BY <1>2, FS_Interval
<1> QED BY <1>2, <1>3, FS_Subset

\* Replacing placeholders by numbered ones leaves a term.
LEMMA ReplaceType ==
  ASSUME NEW t \in Term, NEW n \in Nat \ {0}, NEW place,
         \A i \in DOMAIN place : place[i] \in Int
  PROVE  ReplaceAtIndexes(t, place, n) \in Term
<1>1. t.phs \in Seq(Placeholder) /\ t.op \in Op
  BY DEF Term
<1>2. ASSUME NEW i \in DOMAIN place
      PROVE  ((place[i] - 1) % n) + 1 \in Nat
  <2>1. place[i] - 1 \in Int
    BY <1>2
  <2>2. (place[i] - 1) % n \in 0..(n - 1)
    BY <2>1
  <2> QED BY <2>2
<1> DEFINE phs == [i \in DOMAIN t.phs |->
             IF i \in DOMAIN place THEN ((place[i] - 1) % n) + 1 ELSE t.phs[i]]
<1>3. DOMAIN t.phs = 1..Len(t.phs) /\ Len(t.phs) \in Nat
  BY <1>1
<1>4. \A i \in DOMAIN t.phs : phs[i] \in Placeholder
  BY <1>1, <1>2, <1>3 DEF Placeholder
<1>5. phs \in Seq(Placeholder)
  <2>1. phs = [i \in 1..Len(t.phs) |-> phs[i]]
    BY <1>3
  <2>2. \A i \in 1..Len(t.phs) : phs[i] \in Placeholder
    BY <1>3, <1>4
  <2> HIDE DEF phs
  <2> QED BY <1>3, <2>1, <2>2
<1>6. ReplaceAtIndexes(t, place, n) = [op |-> t.op, phs |-> phs]
  <2>1. t = [op |-> t.op, phs |-> t.phs]
    BY DEF Term
  <2>2. ReplaceAtIndexes(t, place, n) = [t EXCEPT !.phs = phs]
    BY DEF ReplaceAtIndexes
  <2> HIDE DEF phs
  <2> QED BY <2>1, <2>2
<1> QED BY <1>1, <1>5, <1>6 DEF Term

-----------------------------------------------------------------------------
(* Types.                                                                  *)

\* What a step of generalize_prove builds from its expressions.
LEMMA OrderedType ==
  ASSUME NEW l \in Term, NEW r \in Term
  PROVE  /\ Ordered(l, r) \in SearchState
         /\ Cardinality(Ordered(l, r).indices2) \in Nat
         /\ \/ Cardinality(Ph1s(l)) > 1
            \/ Cardinality(Ph1s(r)) > 1
            => Cardinality(Ordered(l, r).indices2) > 0
<1>1. \A t \in {l, r} : /\ Ph1s(t) \in SUBSET (Nat \ {0})
                        /\ Cardinality(Ph1s(t)) \in Nat
  BY Ph1sType, FS_CardinalityType
<1>2. \A a, b \in {l, r} :
        Sides(a, b, Ph1s(a), Ph1s(b)) \in SearchState
  BY <1>1 DEF Sides, SearchState
<1> QED BY <1>1, <1>2 DEF Ordered, Sides

\* A candidate is an equation without precondition.
LEMMA CandidateType ==
  ASSUME NEW s \in SearchState, NEW n \in Nat \ {0},
         NEW perm \in Orders(s.indices1), IsFiniteSet(s.indices2)
  PROVE  Candidate(s, n, perm) \in Equation
<1>1. \A i \in DOMAIN perm : perm[i] \in Int
  <2>1. perm \in [s.indices1 -> 1..Cardinality(s.indices1)]
    BY DEF Orders, Bijection, Injection
  <2> QED BY <2>1
<1>2. \A i \in DOMAIN InOrder(s.indices2) : InOrder(s.indices2)[i] \in Int
  <2> SUFFICES ASSUME NEW i \in s.indices2
               PROVE  Cardinality({k \in s.indices2 : k <= i}) \in Int
    BY DEF InOrder
  <2>1. IsFiniteSet({k \in s.indices2 : k <= i})
    BY FS_Subset
  <2> QED BY <2>1, FS_CardinalityType
<1>3. s.ex1 \in Term /\ s.ex2 \in Term
  BY DEF SearchState
<1>4. ReplaceAtIndexes(s.ex1, perm, n) \in Term
  BY <1>1, <1>3, ReplaceType
<1>5. ReplaceAtIndexes(s.ex2, InOrder(s.indices2), n) \in Term
  BY <1>2, <1>3, ReplaceType
<1>6. <<>> \in Seq(Precondition)
  OBVIOUS
<1> QED BY <1>4, <1>5, <1>6 DEF Candidate, Equation

\* While generalize_prove has a candidate in hand its search is under way.
Searching ==
  /\ asked.call = "generalize" /\ pc \notin {"generalize", "done"}
       => Len(gen) = 1 /\ count > 0
  /\ asked.call # "generalize" => pc \notin {"generalize", "next"}
  /\ Len(gen) = 1 => IsFiniteSet(gen[1].indices2)
TypeInv == TypeOK /\ Searching

\* A graph starts with the worlds of the precondition.
LEMMA ProofGraphType ==
  ASSUME NEW e
  PROVE  ProofGraph(e) \in [worlds : SUBSET World, equal : BOOLEAN]
BY DEF ProofGraph, PreAt

\* Trying a case leaves some of the worlds it starts with.
LEMMA TryCaseType ==
  ASSUME TypeOK, todo # <<>>, NEW worlds \in SUBSET World, NEW splits,
         NEW equal \in BOOLEAN, TryCase(worlds, splits, equal)
  PROVE  /\ graph' \in [worlds : SUBSET World, equal : BOOLEAN]
         /\ misled' \in BOOLEAN
         /\ todo' \in Seq(Constructors)
<1>1. SplitCases(worlds, splits) \in SUBSET World
  BY DEF SplitCases
<1>2. todo' \in Seq(Constructors)
  BY DEF TryCase, TypeOK
<1> QED BY <1>1, <1>2 DEF TryCase, TypeOK

\* The type invariant holds when a call of the prover begins.
LEMMA InitTypeInv == Init => TypeInv
<1> SUFFICES ASSUME Init PROVE TypeInv
  OBVIOUS
<1> USE DEF Init
<1>1. asked.eq \in Equation /\ asked.call \in {"ind", "all", "generalize"}
  BY RequestsAssumption DEF Request
<1>2. pc \in {"prove_base", "prove_ind", "generalize"}
  BY FirstStepIsLabel
<1>3. asked.call = "generalize" <=> pc = "generalize"
  BY <1>1 DEF FirstStep
<1>4. graph \in [worlds : SUBSET World, equal : BOOLEAN] /\ misled \in BOOLEAN
  BY ProofGraphType
<1>5. answer \in [some : BOOLEAN, rules : Seq(Rule)]
  BY DEF None
<1>6. gen \in Seq(SearchState) /\ Len(gen) = 0
  OBVIOUS
<1>7. TypeOK
  BY <1>1, <1>2, <1>4, <1>5, <1>6 DEF TypeOK
<1>8. Searching
  BY <1>1, <1>2, <1>3, <1>6 DEF Searching
<1> QED BY <1>7, <1>8 DEF TypeInv

\* A failed proof attempt.
LEMMA FailType == TypeInv /\ pc \notin {"generalize", "next", "done"} /\ Fail => TypeInv'
<1> SUFFICES ASSUME TypeInv, pc \notin {"generalize", "next", "done"}, Fail
             PROVE  TypeInv'
  OBVIOUS
<1> USE DEF TypeInv, Fail, search
<1>1. pc' \in {"next", "done"} /\ (pc' = "next" <=> asked.call = "generalize")
  OBVIOUS
<1>2. failed' \subseteq Equation
  BY DEF TypeOK
<1>3. TypeOK'
  BY <1>1, <1>2 DEF TypeOK, Searching
<1>4. Searching'
  BY <1>1 DEF Searching
<1> QED BY <1>3, <1>4

\* Every step of a proof attempt keeps the type invariant.
LEMMA NextTypeInv == TypeInv /\ [Next]_vars => TypeInv'
<1> SUFFICES ASSUME TypeInv, [Next]_vars PROVE TypeInv'
  OBVIOUS
<1> USE DEF TypeInv
<1>cases. /\ BaseCases \in Seq(Constructors) /\ StepCases \in Seq(Constructors)
  BY DatatypeAssumption
<1>branch. \A c : Branch(c) \in SUBSET World
  BY DEF Branch, TypeOK
<1>graph. ProofGraph(eq) \in [worlds : SUBSET World, equal : BOOLEAN]
  BY ProofGraphType
<1>1. CASE NothingToInduct
  BY <1>1, FailType DEF NothingToInduct
<1>2. CASE EnterBase
  BY <1>2, <1>cases, <1>graph DEF EnterBase, TypeOK, Searching, search
<1>3. ASSUME NEW splits, NEW b \in BOOLEAN, BaseCase(splits, b) PROVE TypeInv'
  <2>1. /\ graph' \in [worlds : SUBSET World, equal : BOOLEAN]
        /\ misled' \in BOOLEAN /\ todo' \in Seq(Constructors)
    BY <1>3, <1>branch, TryCaseType DEF BaseCase
  <2> QED BY <1>3, <2>1 DEF BaseCase, TypeOK, Searching, search
<1>4. CASE BaseFails
  BY <1>4, FailType DEF BaseFails
<1>5. CASE BaseProved
  BY <1>5 DEF BaseProved, TypeOK, Searching, search
<1>6. CASE EnterInd
  BY <1>6, <1>cases, <1>graph DEF EnterInd, TypeOK, Searching, search
<1>7. ASSUME NEW splits, NEW b \in BOOLEAN, IndCase(splits, b) PROVE TypeInv'
  <2> DEFINE ws == {w \in Branch(Head(todo)) : Ind(w) \in {v \in Value : Hypothesis(eq, v)}}
  <2>1. TryCase(ws, splits, b) /\ todo # <<>>
    BY <1>7 DEF IndCase
  <2>2. ws \in SUBSET World
    BY <1>branch
  <2> HIDE DEF ws
  <2>3. /\ graph' \in [worlds : SUBSET World, equal : BOOLEAN]
        /\ misled' \in BOOLEAN /\ todo' \in Seq(Constructors)
    BY <2>1, <2>2, TryCaseType
  <2> QED BY <1>7, <2>3 DEF IndCase, TypeOK, Searching, search
<1>8. CASE IndFails
  BY <1>8, FailType DEF IndFails
<1>9. CASE IndProved
  <2>1. answer' \in [some : BOOLEAN, rules : Seq(Rule)]
    BY <1>9, RwFromExpType DEF IndProved, Some, TypeOK
  <2> QED BY <1>9, <2>1 DEF IndProved, TypeOK, Searching, search
<1>10. CASE TooFewToGeneralize
  BY <1>10 DEF TooFewToGeneralize, TypeOK, Searching, search
<1>11. CASE Generalize
  <2> DEFINE s == Ordered(eq.left, eq.right)
  <2>1. eq.left \in Term /\ eq.right \in Term
    BY DEF TypeOK, Equation
  <2>2. \/ Cardinality(Ph1s(eq.left)) > 1
        \/ Cardinality(Ph1s(eq.right)) > 1
    <3>1. Cardinality(Ph1s(eq.left)) \in Nat /\ Cardinality(Ph1s(eq.right)) \in Nat
      BY <2>1, Ph1sType, FS_CardinalityType
    <3> QED BY <1>11, <3>1 DEF Generalize, TooFew
  <2>3. /\ s \in SearchState
        /\ Cardinality(s.indices2) \in Nat /\ Cardinality(s.indices2) > 0
    BY <2>1, <2>2, OrderedType
  <2>4. IsFiniteSet(s.indices2)
    BY <2>1, Ph1sType DEF Ordered, Sides
  <2>5. gen' = <<s>> /\ gen' \in Seq(SearchState) /\ Len(gen') = 1 /\ gen'[1] = s
    BY <1>11, <2>3 DEF Generalize
  <2>6. count' = Cardinality(s.indices2) /\ perms' = Orders(s.indices1)
    BY <1>11, <2>5 DEF Generalize
  <2>7. pc' = "next" /\ UNCHANGED <<asked, eq, failed, todo, graph, misled, res, answer>>
    BY <1>11 DEF Generalize
  <2>8. asked.call = "generalize"
    BY <1>11 DEF Generalize, Searching
  <2> HIDE DEF s
  <2>9. TypeOK'
    BY <2>3, <2>5, <2>6, <2>7 DEF TypeOK
  <2>10. Searching'
    BY <2>3, <2>4, <2>5, <2>6, <2>7, <2>8 DEF Searching
  <2> QED BY <2>9, <2>10
<1>12. ASSUME NEW perm \in perms, TryPermutation(perm) PROVE TypeInv'
  <2>1. Len(gen) = 1 /\ count \in Nat \ {0} /\ perm \in Orders(gen[1].indices1)
    BY <1>12 DEF TryPermutation, TypeOK
  <2>2. gen[1] \in SearchState /\ IsFiniteSet(gen[1].indices2)
    <3>1. gen \in Seq(SearchState)
      BY DEF TypeOK
    <3> QED BY <2>1, <3>1 DEF Searching
  <2>3. eq' \in Equation
    BY <1>12, <2>1, <2>2, CandidateType DEF TryPermutation
  <2> QED BY <1>12, <2>1, <2>3 DEF TryPermutation, TypeOK, Searching
<1>13. CASE LowerCount
  BY <1>13 DEF LowerCount, TypeOK, Searching
<1>14. CASE GiveUp
  BY <1>14 DEF GiveUp, TypeOK, Searching, search
<1>15. CASE Returned
  BY <1>15 DEF Returned, vars, search, TypeOK, Searching
<1>16. CASE UNCHANGED vars
  BY <1>16 DEF vars, search, TypeOK, Searching
<1> QED
  BY <1>1, <1>2, <1>3, <1>4, <1>5, <1>6, <1>7, <1>8, <1>9, <1>10, <1>11, <1>12,
     <1>13, <1>14, <1>15, <1>16 DEF Next

\* The prover's variables keep their types.
THEOREM TypeCorrect == Spec => []TypeOK
<1>1. TypeInv => TypeOK
  BY DEF TypeInv
<1> QED BY InitTypeInv, NextTypeInv, <1>1, PTL DEF Spec

-----------------------------------------------------------------------------
(* What is proved is true.                                                 *)

\* What the cases of prove_ind establish.
StepValid(e) ==
  \A w \in PreAt(e) : (\E c \in Range(StepCases) : Ind(w) \in Built[c]) =>
     (Hypothesis(e, Ind(w)) => Holds(e, w))

\* What a finished part of a proof attempt has established.
Established ==
  /\ pc = "base" => \/ todo = BaseCases /\ graph = ProofGraph(eq)
                    \/ todo = <<>> /\ HoldsWhereBuilt(eq, BaseCases)
  /\ pc \in {"prove_ind", "ind"} /\ asked.call # "ind"
       => HoldsWhereBuilt(eq, BaseCases)
  /\ pc = "ind" => \/ todo = StepCases /\ graph = ProofGraph(eq) /\ res
                   \/ todo = <<>> /\ (res => StepValid(eq))
  /\ answer.some => /\ StepValid(eq)
                    /\ asked.call # "ind" => HoldsWhereBuilt(eq, BaseCases)
ProofInv ==
  /\ answer.some => pc = "done"
  /\ OneOfEach /\ ~misled => Established

\* Cases and hypothesis add up to an induction over the values.
LEMMA InductionPrinciple ==
  ASSUME NEW e, HoldsWhereBuilt(e, BaseCases), StepValid(e), DownwardClosed(e)
  PROVE  Valid(e)
<1> DEFINE Wrong == {w \in PreAt(e) : ~Holds(e, w)}
           S == {Ind(w) : w \in Wrong}
<1> SUFFICES ASSUME Wrong # {} PROVE FALSE
  BY DEF Valid
<1>1. S \in SUBSET Value /\ S # {}
  BY DatatypeAssumption DEF PreAt
<1>2. PICK v \in S : \A u \in S : <<u, v>> \notin Smaller
  <2> HIDE DEF S
  <2> QED BY <1>1, WellFoundedAssumption
<1>3. PICK m \in Wrong : v = Ind(m)
  OBVIOUS
<1>4. m \in PreAt(e) /\ m \in World /\ ~Holds(e, m) /\ Ind(m) \in Value
  BY <1>3, DatatypeAssumption DEF PreAt
<1>5. PICK c \in Constructors : Ind(m) \in Built[c]
  BY <1>4, DatatypeAssumption
<1>6. c \in Range(StepCases)
  BY <1>4, <1>5 DEF HoldsWhereBuilt, Constructors
<1>7. Hypothesis(e, Ind(m))
  <2> SUFFICES ASSUME NEW u \in World, <<Ind(u), Ind(m)>> \in Smaller
               PROVE  Holds(e, u)
    BY DEF Hypothesis
  <2>1. u \in PreAt(e)
    BY <1>4 DEF DownwardClosed
  <2>2. u \in Wrong => Ind(u) \in S
    OBVIOUS
  <2> QED BY <1>2, <1>3, <2>1, <2>2
<1> QED BY <1>4, <1>5, <1>6, <1>7 DEF StepValid

\* A sequence of at most one element, once its head is dealt with.
LEMMA OneElement ==
  ASSUME NEW cs \in Seq(Constructors), Len(cs) <= 1, cs # <<>>
  PROVE  Range(cs) = {Head(cs)} /\ Tail(cs) = <<>>
<1>1. Len(cs) = 1 /\ DOMAIN cs = {1}
  <2>1. Len(cs) \in Nat /\ DOMAIN cs = 1..Len(cs)
    BY LenProperties
  <2>2. Len(cs) # 0
    BY EmptySeq
  <2> QED BY <2>1, <2>2
<1>2. Range(cs) = {cs[1]} /\ Head(cs) = cs[1]
  BY <1>1 DEF Range
<1>3. Tail(cs) \in Seq(Constructors) /\ Len(Tail(cs)) = 0
  BY <1>1
<1> QED BY <1>2, <1>3, EmptySeq

\* There is nothing to prove about constructors that do not exist.
LEMMA NoCases ==
  ASSUME NEW e
  PROVE  /\ BaseCases = <<>> => HoldsWhereBuilt(e, BaseCases)
         /\ StepCases = <<>> => StepValid(e)
<1>1. \A cs : cs = <<>> => Range(cs) = {}
  BY DEF Range
<1> QED BY <1>1 DEF HoldsWhereBuilt, StepValid

\* A first case that was not misled, if the sides became equal in its branch:
\* the equation holds in all worlds the case started with.
LEMMA CaseIsRight ==
  ASSUME NEW worlds, NEW splits, NEW e, e = eq, graph = ProofGraph(e),
         TryCase(worlds, splits, TRUE), ~misled'
  PROVE  \A w \in worlds : Holds(e, w)
<1>1. SplitCases(worlds, splits) = worlds
  BY DEF TryCase
<1>2. ~graph.equal
  BY DEF ProofGraph
<1> QED BY <1>1, <1>2 DEF TryCase

\* When the call begins no case has been proved, so nothing is claimed.
LEMMA InitEstablished == Init => ProofInv
<1> SUFFICES ASSUME Init PROVE ProofInv
  OBVIOUS
<1>1. asked.call \in {"ind", "all", "generalize"}
  BY RequestsAssumption DEF Init, Request
<1>2. pc = FirstStep[asked.call] /\ ~answer.some
  BY DEF Init, None
<1>3. pc \in {"prove_base", "prove_ind", "generalize"}
      /\ (pc = "prove_ind" => asked.call = "ind")
  BY <1>1, <1>2 DEF FirstStep
<1> QED BY <1>2, <1>3 DEF ProofInv, Established

\* A step that starts an attempt anew, or fails, or does no case.
LEMMA AnswerIsLast == ProofInv /\ [Next]_vars => (answer.some => pc = "done")'
<1> SUFFICES ASSUME ProofInv, [Next]_vars PROVE (answer.some => pc = "done")'
  OBVIOUS
<1> USE DEF ProofInv
<1> QED BY DEF Next, vars, NothingToInduct, Fail, EnterBase, BaseCase, BaseFails,
         BaseProved, EnterInd, IndCase, IndFails, IndProved, TooFewToGeneralize,
         Generalize, TryPermutation, LowerCount, GiveUp, Returned, search

\* Every step keeps what the cases proved so far establish: a case adds the
\* worlds its constructor builds, and the answer is given after all of them.
LEMMA NextEstablished == TypeInv /\ ProofInv /\ [Next]_vars => ProofInv'
<1> SUFFICES ASSUME TypeInv, ProofInv, [Next]_vars, OneOfEach, ~misled'
             PROVE  Established'
  BY AnswerIsLast DEF ProofInv, OneOfEach
<1> USE DEF OneOfEach
<1>ans. answer.some => pc = "done"
  BY DEF ProofInv
<1>est. ~misled => Established
  BY DEF ProofInv
<1>cases. BaseCases \in Seq(Constructors) /\ StepCases \in Seq(Constructors)
  BY DatatypeAssumption
<1>fail. ASSUME pc \notin {"done"}, Fail PROVE Established'
  BY <1>fail, <1>est, <1>ans DEF Fail, search, Established
<1>1. CASE NothingToInduct
  BY <1>1, <1>fail DEF NothingToInduct
<1>2. CASE EnterBase
  BY <1>2, <1>ans DEF EnterBase, Established, search
<1>3. ASSUME NEW splits, NEW b \in BOOLEAN, BaseCase(splits, b)
      PROVE  Established'
  <2>1. /\ pc = "base" /\ todo # <<>> /\ b = TRUE
        /\ TryCase(Branch(Head(todo)), splits, b)
    BY <1>3 DEF BaseCase
  <2>2. ~misled
    BY <2>1 DEF TryCase
  <2>3. todo = BaseCases /\ graph = ProofGraph(eq)
    BY <1>est, <2>1, <2>2 DEF Established
  <2>4. Range(BaseCases) = {Head(todo)} /\ Tail(todo) = <<>>
    BY <2>1, <2>3, <1>cases, OneElement
  <2>5. \A w \in Branch(Head(todo)) : Holds(eq, w)
    BY <2>1, <2>3, CaseIsRight
  <2>6. HoldsWhereBuilt(eq, BaseCases)
    BY <2>3, <2>4, <2>5 DEF HoldsWhereBuilt, Branch, ProofGraph
  <2>7. todo' = <<>> /\ UNCHANGED <<pc, asked, eq, answer>>
    BY <1>3, <2>1, <2>4 DEF BaseCase, TryCase
  <2> QED BY <1>ans, <2>1, <2>6, <2>7 DEF Established
<1>4. CASE BaseFails
  BY <1>4, <1>fail DEF BaseFails
<1>5. CASE BaseProved
  <2>1. HoldsWhereBuilt(eq, BaseCases)
    BY <1>5, <1>est, NoCases DEF BaseProved, Established
  <2> QED BY <1>5, <1>ans, <2>1 DEF BaseProved, Established, search
<1>6. CASE EnterInd
  BY <1>6, <1>est, <1>ans DEF EnterInd, Established, search
<1>7. ASSUME NEW splits, NEW b \in BOOLEAN, IndCase(splits, b)
      PROVE  Established'
  <2> DEFINE ws == {w \in Branch(Head(todo)) : Ind(w) \in {v \in Value : Hypothesis(eq, v)}}
  <2>1. /\ pc = "ind" /\ todo # <<>> /\ TryCase(ws, splits, b)
    BY <1>7 DEF IndCase
  <2>2. ~misled
    BY <2>1 DEF TryCase
  <2>3. todo = StepCases /\ graph = ProofGraph(eq)
    BY <1>est, <2>1, <2>2 DEF Established
  <2>4. Range(StepCases) = {Head(todo)} /\ Tail(todo) = <<>>
    BY <2>1, <2>3, <1>cases, OneElement
  <2>5. ASSUME b PROVE \A w \in ws : Holds(eq, w)
    <3>1. TryCase(ws, splits, TRUE)
      BY <2>1, <2>5
    <3> HIDE DEF ws
    <3> QED BY <3>1, <2>3, CaseIsRight
  <2>6. b => StepValid(eq)
    <3> SUFFICES ASSUME b, NEW w \in PreAt(eq), Ind(w) \in Built[Head(todo)],
                        Hypothesis(eq, Ind(w))
                 PROVE  Holds(eq, w)
      BY <2>4 DEF StepValid
    <3>1. w \in Branch(Head(todo)) /\ Ind(w) \in Value
      BY <2>3, DatatypeAssumption DEF Branch, ProofGraph, PreAt
    <3> QED BY <2>5, <3>1
  <2>7. /\ todo' = <<>> /\ (res' => b) /\ UNCHANGED <<pc, asked, eq, answer>>
    BY <1>7, <2>1, <2>4 DEF IndCase, TryCase
  <2>8. StepValid(eq)' <=> StepValid(eq)
    BY <2>7 DEF StepValid, Hypothesis, PreAt
  <2> QED BY <1>est, <1>ans, <2>1, <2>2, <2>6, <2>7, <2>8 DEF Established
<1>8. CASE IndFails
  BY <1>8, <1>fail DEF IndFails
<1>9. CASE IndProved
  <2>1. ~misled /\ StepValid(eq)
    BY <1>9, <1>est, NoCases DEF IndProved, Established
  <2> QED BY <1>9, <1>est, <2>1 DEF IndProved, Established, search
<1>10. CASE TooFewToGeneralize
  BY <1>10, <1>ans DEF TooFewToGeneralize, Established, search
<1>11. CASE Generalize
  BY <1>11, <1>ans DEF Generalize, Established
<1>12. ASSUME NEW perm \in perms, TryPermutation(perm) PROVE Established'
  BY <1>12, <1>ans DEF TryPermutation, Established
<1>13. CASE LowerCount
  BY <1>13, <1>ans DEF LowerCount, Established
<1>14. CASE GiveUp
  BY <1>14, <1>ans DEF GiveUp, Established, search
<1>15. CASE Returned \/ UNCHANGED vars
  <2>1. UNCHANGED vars
    BY <1>15 DEF Returned
  <2> QED BY <1>est, <2>1 DEF vars, Established
<1> QED
  BY <1>1, <1>2, <1>3, <1>4, <1>5, <1>6, <1>7, <1>8, <1>9, <1>10, <1>11, <1>12,
     <1>13, <1>14, <1>15 DEF Next

\* For every datatype with well-founded values and at most one constructor of
\* each kind, every equation with a precondition that is downward closed whatever
\* the other placeholders are, and all splits a case splitter may find, what
\* prove_ind (given the base cases), prove_all and generalize_prove prove holds,
\* unless a case split of the attempt merged what does not follow.
THEOREM Soundness == Spec => []ProvedIsValid
<1>1. TypeInv /\ ProofInv => ProvedIsValid
  <2> SUFFICES ASSUME ProofInv, answer.some, BaseIsRight, OneOfEach,
                      DownwardClosed(eq), ~misled
               PROVE  Valid(eq)
    BY DEF ProvedIsValid
  <2>1. StepValid(eq) /\ HoldsWhereBuilt(eq, BaseCases)
    BY DEF ProofInv, Established, BaseIsRight
  <2> QED BY <2>1, InductionPrinciple
<1> QED BY InitTypeInv, NextTypeInv, InitEstablished, NextEstablished, <1>1, PTL
        DEF Spec

\* Splits whose merges follow, or none at all (no case splitter, or the feature
\* no_split), mislead nobody: Soundness is then about all that is proved.  In
\* case_split that takes a first case which leaves no world out.
THEOREM NeverMisled ==
  ASSUME \A s \in Splits : \A w \in World : Keeps(s, w)
  PROVE  Spec => []~misled
<1>1. Init => ~misled
  BY DEF Init
<1>2. TypeInv /\ ~misled /\ [Next]_vars => ~misled'
  <2> SUFFICES ASSUME TypeInv, ~misled, [Next]_vars PROVE ~misled'
    OBVIOUS
  <2>1. ASSUME NEW worlds \in SUBSET World, NEW splits \in SUBSET Splits, NEW b,
               TryCase(worlds, splits, b)
        PROVE  ~misled'
    <3>1. SplitCases(worlds, splits) = worlds
      BY <2>1 DEF SplitCases
    <3> QED BY <2>1, <3>1 DEF TryCase
  <2>2. \A c : Branch(c) \in SUBSET World
    BY DEF Branch, TypeInv, TypeOK
  <2>3. ASSUME NEW splits \in SUBSET Splits, NEW b \in BOOLEAN,
               BaseCase(splits, b) \/ IndCase(splits, b)
        PROVE  ~misled'
    <3> DEFINE ws == {w \in Branch(Head(todo)) :
                        Ind(w) \in {v \in Value : Hypothesis(eq, v)}}
    <3>1. ws \in SUBSET World
      BY <2>2
    <3>2. \/ TryCase(Branch(Head(todo)), splits, b)
          \/ TryCase(ws, splits, b)
      BY <2>3 DEF BaseCase, IndCase
    <3> HIDE DEF ws
    <3> QED BY <2>1, <2>2, <3>1, <3>2
  <2>4. CASE UNCHANGED misled \/ misled' = FALSE
    BY <2>4
  <2> QED
    BY <2>3, <2>4 DEF Next, vars, NothingToInduct, Fail, EnterBase, BaseFails,
       BaseProved, EnterInd, IndFails, IndProved, TooFewToGeneralize,
       Generalize, TryPermutation, LowerCount, GiveUp, Returned
<1> QED BY InitTypeInv, NextTypeInv, <1>1, <1>2, PTL DEF Spec

-----------------------------------------------------------------------------
(* Generalisations.                                                        *)

InProof == {"prove_base", "base", "prove_ind", "ind"}

\* Every candidate tried before is among the failures or under proof.
Tried ==
  \A n \in 1..Cardinality(gen[1].indices2) :
    \A perm \in Orders(gen[1].indices1) :
      /\ n > count => Candidate(gen[1], n, perm) \in failed
      /\ n = count /\ perm \notin perms =>
           \/ Candidate(gen[1], n, perm) \in failed
           \/ pc \in InProof /\ Candidate(gen[1], n, perm) = eq
           \/ answer.some

SearchInv ==
  /\ answer.some => pc = "done"
  /\ gen # <<>> => /\ asked.call = "generalize" /\ pc # "generalize"
                   /\ Tried
                   /\ pc = "done" /\ ~answer.some => count = 1 /\ perms = {}

\* When the call begins generalize_prove has tried nothing.
LEMMA InitSearchInv == Init => SearchInv
BY DEF Init, SearchInv, None

\* Steps that leave the search alone and stay inside one proof attempt.
LEMMA SearchKept ==
  ASSUME SearchInv, pc \in InProof, pc' \in InProof,
         UNCHANGED <<asked, eq, gen, count, perms, failed, answer>>
  PROVE  SearchInv'
<1>1. gen # <<>> => Tried'
  <2> SUFFICES ASSUME gen # <<>> PROVE Tried'
    OBVIOUS
  <2>1. Tried
    BY DEF SearchInv
  <2> QED BY <2>1 DEF Tried
<1> QED BY <1>1 DEF SearchInv, InProof

\* Every step keeps the record of what generalize_prove tried: the candidates
\* of higher counts and of the permutations taken out have all failed.
LEMMA NextSearchInv == TypeInv /\ SearchInv /\ [Next]_vars => SearchInv'
<1> SUFFICES ASSUME TypeInv, SearchInv, [Next]_vars PROVE SearchInv'
  OBVIOUS
<1>tried. gen # <<>> => Tried
  BY DEF SearchInv
<1>fail. ASSUME pc \in InProof, Fail PROVE SearchInv'
  <2> SUFFICES ASSUME gen # <<>> PROVE SearchInv'
    BY <1>fail DEF Fail, search, SearchInv, InProof
  <2>1. asked.call = "generalize"
    BY DEF SearchInv
  <2>2. /\ pc' = "next" /\ failed' = failed \union {eq}
        /\ UNCHANGED <<asked, gen, count, perms, answer>>
    BY <1>fail, <2>1 DEF Fail, search
  <2>3. Tried'
    BY <1>tried, <2>2 DEF Tried
  <2> QED BY <1>fail, <2>2, <2>3 DEF SearchInv, InProof
<1>1. CASE NothingToInduct
  BY <1>1, <1>fail DEF NothingToInduct, InProof
<1>2. CASE EnterBase
  BY <1>2, SearchKept DEF EnterBase, InProof, search
<1>3. ASSUME NEW splits, NEW b \in BOOLEAN, BaseCase(splits, b) PROVE SearchInv'
  BY <1>3, SearchKept DEF BaseCase, InProof, search
<1>4. CASE BaseFails
  BY <1>4, <1>fail DEF BaseFails, InProof
<1>5. CASE BaseProved
  BY <1>5, SearchKept DEF BaseProved, InProof, search
<1>6. CASE EnterInd
  BY <1>6, SearchKept DEF EnterInd, InProof, search
<1>7. ASSUME NEW splits, NEW b \in BOOLEAN, IndCase(splits, b) PROVE SearchInv'
  BY <1>7, SearchKept DEF IndCase, InProof, search
<1>8. CASE IndFails
  BY <1>8, <1>fail DEF IndFails, InProof
<1>9. CASE IndProved
  <2>1. /\ pc' = "done" /\ answer'.some
        /\ UNCHANGED <<asked, gen, count, perms, failed>>
    BY <1>9 DEF IndProved, Some, search
  <2>2. gen # <<>> => Tried'
    BY <1>tried, <2>1 DEF Tried
  <2> QED BY <2>1, <2>2 DEF SearchInv
<1>10. CASE TooFewToGeneralize
  <2>1. gen = <<>> /\ ~answer.some
    BY <1>10 DEF TooFewToGeneralize, SearchInv
  <2> QED BY <1>10, <2>1 DEF TooFewToGeneralize, SearchInv, search
<1>11. CASE Generalize
  <2>1. /\ count' = Cardinality(gen'[1].indices2) /\ perms' = Orders(gen'[1].indices1)
        /\ pc' = "next" /\ asked' = asked /\ answer' = answer
    BY <1>11 DEF Generalize
  <2>2. asked.call = "generalize" /\ ~answer.some
    BY <1>11 DEF Generalize, TypeInv, Searching, SearchInv
  <2>3. Tried'
    <3>1. \A n \in 1..Cardinality(gen'[1].indices2) : ~(n > count')
      <4>1. count' \in Nat
        BY NextTypeInv DEF TypeInv, TypeOK
      <4> QED BY <2>1, <4>1
    <3>2. \A perm \in Orders(gen'[1].indices1) : perm \in perms'
      BY <2>1
    <3> QED BY <3>1, <3>2 DEF Tried
  <2> QED BY <2>1, <2>2, <2>3 DEF SearchInv
<1>12. ASSUME NEW perm \in perms, TryPermutation(perm) PROVE SearchInv'
  <2>1. /\ pc = "next" /\ pc' = "prove_base" /\ perms' = perms \ {perm}
        /\ eq' = Candidate(gen[1], count, perm)
        /\ UNCHANGED <<asked, gen, count, failed, answer>>
    BY <1>12 DEF TryPermutation
  <2>2. Len(gen) = 1 /\ gen # <<>> /\ ~answer.some
    <3>1. Len(gen) = 1
      BY <2>1 DEF TypeInv, TypeOK
    <3>2. gen # <<>>
      BY <3>1
    <3> QED BY <2>1, <3>1, <3>2 DEF SearchInv
  <2>3. Tried'
    <3> SUFFICES ASSUME NEW n \in 1..Cardinality(gen[1].indices2),
                        NEW q \in Orders(gen[1].indices1)
                 PROVE  /\ n > count => Candidate(gen[1], n, q) \in failed
                        /\ n = count /\ q \notin perms' =>
                             \/ Candidate(gen[1], n, q) \in failed
                             \/ Candidate(gen[1], n, q) = eq'
      BY <2>1 DEF Tried, InProof
    <3>1. CASE q = perm
      BY <1>tried, <2>1, <2>2, <3>1 DEF Tried
    <3>2. CASE q # perm
      BY <1>tried, <2>1, <2>2, <3>2 DEF Tried, InProof
    <3> QED BY <3>1, <3>2
  <2> QED BY <2>1, <2>2, <2>3 DEF SearchInv
<1>13. CASE LowerCount
  <2>1. /\ pc = "next" /\ perms = {} /\ count' = count - 1 /\ count \in Nat
        /\ perms' = Orders(gen[1].indices1)
        /\ UNCHANGED <<pc, asked, eq, gen, failed, answer>>
    BY <1>13 DEF LowerCount, TypeInv, TypeOK
  <2>2. Len(gen) = 1 /\ gen # <<>> /\ ~answer.some
    <3>1. Len(gen) = 1
      BY <2>1 DEF TypeInv, TypeOK
    <3>2. gen # <<>>
      BY <3>1
    <3> QED BY <2>1, <3>1, <3>2 DEF SearchInv
  <2>3. Tried'
    <3> SUFFICES ASSUME NEW n \in 1..Cardinality(gen[1].indices2),
                        NEW q \in Orders(gen[1].indices1)
                 PROVE  /\ n > count' => Candidate(gen[1], n, q) \in failed
                        /\ q \in perms'
      BY <2>1 DEF Tried
    <3>1. n > count' => n > count \/ n = count
      BY <2>1
    <3> QED BY <1>tried, <2>1, <2>2, <3>1 DEF Tried, InProof
  <2> QED BY <2>1, <2>2, <2>3 DEF SearchInv
<1>14. CASE GiveUp
  <2>1. /\ pc = "next" /\ pc' = "done" /\ perms = {} /\ count = 1
        /\ UNCHANGED <<asked, eq, gen, count, perms, failed, answer>>
    BY <1>14 DEF GiveUp, search
  <2>2. gen # <<>> => Tried'
    BY <1>tried, <2>1 DEF Tried, InProof
  <2> QED BY <2>1, <2>2 DEF SearchInv
<1>15. CASE Returned \/ UNCHANGED vars
  <2>1. UNCHANGED <<pc, asked, eq, gen, count, perms, failed, answer>>
    BY <1>15 DEF Returned, vars, search
  <2>2. gen # <<>> => Tried'
    BY <1>tried, <2>1 DEF Tried
  <2> QED BY <2>1, <2>2 DEF SearchInv
<1> QED
  BY <1>1, <1>2, <1>3, <1>4, <1>5, <1>6, <1>7, <1>8, <1>9, <1>10, <1>11, <1>12,
     <1>13, <1>14, <1>15 DEF Next

\* generalize_prove answers with the most placeholders that can be proved, and
\* with none only when every candidate failed, for any equation.
THEOREM MostGeneral == Spec => []MostGeneralFirst
<1>1. TypeInv /\ SearchInv => MostGeneralFirst
  <2> SUFFICES ASSUME TypeInv, SearchInv, pc = "done", gen # <<>>,
                      NEW n \in 1..Cardinality(gen[1].indices2),
                      answer.some => n > count,
                      NEW perm \in Orders(gen[1].indices1)
               PROVE  Candidate(gen[1], n, perm) \in failed
    BY DEF MostGeneralFirst
  <2>1. Tried
    BY DEF SearchInv
  <2>2. CASE answer.some
    BY <2>1, <2>2 DEF Tried
  <2>3. CASE ~answer.some
    <3>1. count = 1 /\ perms = {}
      BY <2>3 DEF SearchInv
    <3>2. n > count \/ n = count
      <4>1. n \in Nat /\ n >= 1
        <5>2. Len(gen) = 1
          <6>1. gen \in Seq(SearchState) /\ Len(gen) <= 1
            BY DEF TypeInv, TypeOK
          <6>2. Len(gen) \in Nat
            BY <6>1
          <6>3. Len(gen) # 0
            BY <6>1, EmptySeq
          <6>4. \A k \in Nat : k <= 1 /\ k # 0 => k = 1
            OBVIOUS
          <6> QED BY <6>1, <6>2, <6>3, <6>4
        <5>3. Cardinality(gen[1].indices2) \in Nat
          BY <5>2, FS_CardinalityType DEF TypeInv, Searching
        <5> QED BY <5>3
      <4> QED BY <3>1, <4>1
    <3> QED BY <2>1, <2>3, <3>1, <3>2 DEF Tried, InProof
  <2> QED BY <2>2, <2>3
<1> QED BY InitTypeInv, NextTypeInv, InitSearchInv, NextSearchInv, <1>1, PTL DEF Spec

\* Renaming the placeholders dealt out to 1 gives the expression back.
LEMMA CollapseReplace ==
  ASSUME NEW t \in Term, OnlyPlaceholder1(t), NEW n \in Nat \ {0}, NEW place,
         DOMAIN place = Ph1s(t), \A i \in DOMAIN place : place[i] \in Int
  PROVE  Collapsed(ReplaceAtIndexes(t, place, n)) = t
<1> DEFINE u == ReplaceAtIndexes(t, place, n)
           phs == [i \in DOMAIN t.phs |->
             IF i \in DOMAIN place THEN ((place[i] - 1) % n) + 1 ELSE t.phs[i]]
           back == [i \in DOMAIN phs |->
             IF phs[i] \in Nat \ {0} THEN 1 ELSE phs[i]]
<1>1. t = [op |-> t.op, phs |-> t.phs] /\ t.phs \in Seq(Placeholder)
  BY DEF Term
<1>2. u = [op |-> t.op, phs |-> phs]
  <2>1. u = [t EXCEPT !.phs = phs]
    BY DEF ReplaceAtIndexes
  <2> HIDE DEF phs
  <2> QED BY <1>1, <2>1
<1>3. Collapsed(u) = [op |-> t.op, phs |-> back]
  <2>1. u.phs = phs /\ u.op = t.op
    BY <1>2
  <2>2. Collapsed(u) = [u EXCEPT !.phs = back]
    BY <2>1 DEF Collapsed
  <2> HIDE DEF u, back, phs
  <2> QED BY <1>2, <2>2
<1>4. ASSUME NEW i \in DOMAIN t.phs PROVE back[i] = t.phs[i]
  <2>1. CASE i \in Ph1s(t)
    <3>1. phs[i] = ((place[i] - 1) % n) + 1 /\ t.phs[i] = 1
      BY <2>1 DEF Ph1s
    <3>2. (place[i] - 1) % n \in 0..(n - 1)
      <4>1. place[i] - 1 \in Int
        BY <2>1
      <4> QED BY <4>1
    <3>3. phs[i] \in Nat \ {0}
      BY <3>1, <3>2
    <3> QED BY <3>1, <3>3
  <2>2. CASE i \notin Ph1s(t)
    <3>1. phs[i] = t.phs[i] /\ t.phs[i] \in {0} \union OtherVars
      BY <2>2 DEF Ph1s, OnlyPlaceholder1
    <3>2. phs[i] \notin Nat \ {0}
      BY <3>1, RequestsAssumption
    <3> QED BY <3>1, <3>2
  <2> QED BY <2>1, <2>2
<1>5. back = t.phs
  <2>1. DOMAIN back = DOMAIN t.phs /\ back = [i \in DOMAIN t.phs |-> back[i]]
    OBVIOUS
  <2>2. t.phs = [i \in DOMAIN t.phs |-> t.phs[i]]
    BY <1>1
  <2> HIDE DEF back
  <2> QED BY <1>4, <2>1, <2>2
<1>6. Collapsed(u) = t
  <2> HIDE DEF back, u
  <2> QED BY <1>1, <1>3, <1>5
<1> QED BY <1>6

\* The equation under proof is a candidate of the search for the conjecture.
ConjectureInv ==
  asked.call = "generalize" =>
    /\ pc = "generalize" => eq = asked.eq
    /\ gen # <<>> => gen[1] = Ordered(asked.eq.left, asked.eq.right)
    /\ pc \in InProof \/ answer.some =>
         /\ gen # <<>>
         /\ \E n \in Nat \ {0} : \E perm \in Orders(gen[1].indices1) :
              eq = Candidate(gen[1], n, perm)

\* When the call begins the equation at hand is the one asked.
LEMMA InitConjectureInv == Init => ConjectureInv
<1> SUFFICES ASSUME Init, asked.call = "generalize" PROVE ConjectureInv
  BY DEF ConjectureInv
<1> QED BY DEF Init, ConjectureInv, FirstStep, InProof, None

\* Every step keeps that the equation at hand has the conjecture asked as an
\* instance; taking a candidate is the only step that changes it.
LEMMA NextConjectureInv ==
  TypeInv /\ SearchInv /\ ConjectureInv /\ [Next]_vars => ConjectureInv'
<1> SUFFICES ASSUME TypeInv, SearchInv, ConjectureInv, [Next]_vars,
                    asked.call = "generalize", asked' = asked
             PROVE  ConjectureInv'
  <2>1. [Next]_vars => asked' = asked
    BY DEF Next, vars, NothingToInduct, Fail, EnterBase, BaseCase, BaseFails,
           BaseProved, EnterInd, IndCase, IndFails, IndProved,
           TooFewToGeneralize, Generalize, TryPermutation, LowerCount, GiveUp,
           Returned
  <2> QED BY <2>1 DEF ConjectureInv
<1> DEFINE HasCandidate == \E n \in Nat \ {0} : \E perm \in Orders(gen[1].indices1) :
                              eq = Candidate(gen[1], n, perm)
<1>inv. /\ pc = "generalize" => eq = asked.eq
        /\ gen # <<>> => gen[1] = Ordered(asked.eq.left, asked.eq.right)
        /\ pc \in InProof \/ answer.some => gen # <<>> /\ HasCandidate
  BY DEF ConjectureInv
<1>kept. ASSUME UNCHANGED <<eq, gen>>, pc' # "generalize",
                pc' \in InProof \/ answer'.some => pc \in InProof \/ answer.some
         PROVE  ConjectureInv'
  BY <1>kept, <1>inv DEF ConjectureInv
<1>fail. ASSUME pc \in InProof, Fail PROVE ConjectureInv'
  BY <1>fail, <1>kept DEF Fail, search, InProof, SearchInv
<1>1. CASE NothingToInduct
  BY <1>1, <1>fail DEF NothingToInduct, InProof
<1>2. CASE EnterBase
  BY <1>2, <1>kept DEF EnterBase, InProof, search
<1>3. ASSUME NEW splits, NEW b \in BOOLEAN, BaseCase(splits, b) PROVE ConjectureInv'
  BY <1>3, <1>kept DEF BaseCase, InProof, search
<1>4. CASE BaseFails
  BY <1>4, <1>fail DEF BaseFails, InProof
<1>5. CASE BaseProved
  BY <1>5, <1>kept DEF BaseProved, InProof, search
<1>6. CASE EnterInd
  BY <1>6, <1>kept DEF EnterInd, InProof, search
<1>7. ASSUME NEW splits, NEW b \in BOOLEAN, IndCase(splits, b) PROVE ConjectureInv'
  BY <1>7, <1>kept DEF IndCase, InProof, search
<1>8. CASE IndFails
  BY <1>8, <1>fail DEF IndFails, InProof
<1>9. CASE IndProved
  BY <1>9, <1>kept DEF IndProved, InProof, search
<1>10. CASE TooFewToGeneralize
  BY <1>10, <1>kept DEF TooFewToGeneralize, InProof, search
<1>11. CASE Generalize
  <2>1. /\ gen' = <<Ordered(eq.left, eq.right)>> /\ pc = "generalize"
        /\ pc' = "next" /\ UNCHANGED <<eq, answer>>
    BY <1>11 DEF Generalize
  <2>2. gen'[1] = Ordered(asked.eq.left, asked.eq.right) /\ ~answer.some
    BY <1>inv, <2>1 DEF SearchInv
  <2> QED BY <2>1, <2>2 DEF ConjectureInv, InProof
<1>12. ASSUME NEW perm \in perms, TryPermutation(perm) PROVE ConjectureInv'
  <2>1. /\ pc = "next" /\ pc' = "prove_base" /\ eq' = Candidate(gen[1], count, perm)
        /\ UNCHANGED <<gen, answer>>
    BY <1>12 DEF TryPermutation
  <2>2. Len(gen) = 1 /\ count \in Nat \ {0} /\ perm \in Orders(gen[1].indices1)
    BY <2>1 DEF TypeInv, TypeOK
  <2>3. gen # <<>>
    <3>1. Len(gen) = 1
      BY <2>2
    <3> QED BY <3>1
  <2> QED BY <1>inv, <2>1, <2>2, <2>3 DEF ConjectureInv, InProof
<1>13. CASE LowerCount
  BY <1>13, <1>kept DEF LowerCount, InProof
<1>14. CASE GiveUp
  BY <1>14, <1>kept DEF GiveUp, InProof, search
<1>15. CASE Returned \/ UNCHANGED vars
  <2>1. UNCHANGED <<pc, asked, eq, gen, answer>>
    BY <1>15 DEF Returned, vars, search
  <2> QED BY <1>inv, <2>1 DEF ConjectureInv
<1> QED
  BY <1>1, <1>2, <1>3, <1>4, <1>5, <1>6, <1>7, <1>8, <1>9, <1>10, <1>11, <1>12,
     <1>13, <1>14, <1>15 DEF Next

\* The conjecture is an instance of what generalize_prove proves, for any
\* conjecture without a further placeholder of the datatype.
THEOREM GeneralizationCovers == Spec => []ProvesTheConjecture
<1>1. TypeInv /\ ConjectureInv => ProvesTheConjecture
  <2> DEFINE l == asked.eq.left
             r == asked.eq.right
             s == gen[1]
  <2> SUFFICES ASSUME TypeInv, ConjectureInv, answer.some,
                      asked.call = "generalize",
                      OnlyPlaceholder1(l), OnlyPlaceholder1(r)
               PROVE  {Collapsed(eq.left), Collapsed(eq.right)} = {l, r}
    BY DEF ProvesTheConjecture
  <2>1. l \in Term /\ r \in Term
    BY RequestsAssumption DEF TypeInv, TypeOK, Request, Equation
  <2>2. PICK n \in Nat \ {0}, perm \in Orders(s.indices1) :
          eq = Candidate(s, n, perm)
    BY DEF ConjectureInv
  <2>3. s = Ordered(l, r)
    BY DEF ConjectureInv
  <2>4. /\ s.indices1 = Ph1s(s.ex1) /\ s.indices2 = Ph1s(s.ex2)
        /\ {s.ex1, s.ex2} = {l, r}
    BY <2>3 DEF Ordered, Sides
  <2>5. s.ex1 \in Term /\ s.ex2 \in Term
        /\ OnlyPlaceholder1(s.ex1) /\ OnlyPlaceholder1(s.ex2)
    BY <2>1, <2>4
  <2>6. DOMAIN perm = Ph1s(s.ex1) /\ \A i \in DOMAIN perm : perm[i] \in Int
    <3>1. perm \in [s.indices1 -> 1..Cardinality(s.indices1)]
      BY <2>2 DEF Orders, Bijection, Injection
    <3> QED BY <2>4, <3>1
  <2>7. /\ DOMAIN InOrder(s.indices2) = Ph1s(s.ex2)
        /\ \A i \in DOMAIN InOrder(s.indices2) : InOrder(s.indices2)[i] \in Int
    <3>1. IsFiniteSet(s.indices2)
      BY <2>4, <2>5, Ph1sType
    <3>2. \A i \in s.indices2 : Cardinality({k \in s.indices2 : k <= i}) \in Int
      <4> SUFFICES ASSUME NEW i \in s.indices2
                   PROVE  Cardinality({k \in s.indices2 : k <= i}) \in Int
        OBVIOUS
      <4>1. IsFiniteSet({k \in s.indices2 : k <= i})
        BY <3>1, FS_Subset
      <4> QED BY <4>1, FS_CardinalityType
    <3> QED BY <2>4, <3>2 DEF InOrder
  <2>8. Collapsed(eq.left) = s.ex1
    BY <2>2, <2>5, <2>6, CollapseReplace DEF Candidate
  <2>9. Collapsed(eq.right) = s.ex2
    BY <2>2, <2>5, <2>7, CollapseReplace DEF Candidate
  <2> QED BY <2>4, <2>8, <2>9
<1> QED BY InitTypeInv, NextTypeInv, InitSearchInv, NextSearchInv,
           InitConjectureInv, NextConjectureInv, <1>1, PTL DEF Spec
=============================================================================
