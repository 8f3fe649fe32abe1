-------------------------------- MODULE TheSy --------------------------------
(***************************************************************************)
(* The exploration loop of TheSy (src/src/thesy/thesy.rs): run,            *)
(* prove_goals, check_goals, prove_case_split_rules and get_conjectures.   *)
(*                                                                         *)
(* The loop deepens the set of terms, rewrites the e-graph, reads from it  *)
(* the equations that hold on the examples but are not yet known, hands    *)
(* them to the prover from the simplest up, and inserts each proved lemma  *)
(* into the rule vector it goes on rewriting with.                         *)
(*                                                                         *)
(* Terms are numbered along RepOrder: a smaller number is a term that is   *)
(* not more complex (distinct terms may have the same RepOrder).  The      *)
(* e-graph is what this module needs of it: the function `find' from every *)
(* term to the first term of its class.  Rewriting (which may stop at any  *)
(* of its limits) and proof attempts are nondeterministic within what is   *)
(* stated below.                                                           *)
(***************************************************************************)
EXTENDS Integers, Sequences, FiniteSets, SequencesExt

CONSTANTS
  NTerms,      \* number of terms the dictionary can build within MaxDepth
  Cost,        \* Cost[t]: the rank of the RepOrder of t
  TieOrders,   \* the orders in which the hash maps may list conjectures
  Level,       \* Level[t]: the call of increase_depth that creates term t
  MaxDepth,    \* the argument max_depth of run
  Datatypes,   \* the datatypes, each with its prover
  ExampleOf,   \* ExampleOf[d][t]: the vector of example classes of t under d
  Lemma,       \* the equations that can be proved: pairs of terms, the
               \* generalised equations and the goals' equations
  Generalized, \* Generalized[c]: equations generalize_prove tries for c
  Goals,       \* the goals given by the user: a sequence of sets of equations
  ProofMode,   \* FALSE when the field `goals' is None
  ExploreSplit,\* a splitter is given and no_expl_split is off
  Rule,        \* rewrite rules
  OrigRules,   \* the rules passed to run
  SystemRws,   \* self.system_rws
  RulesOf,     \* RulesOf[l]: the rewrites rw_from_exp builds for equation l
  Derives      \* Derives[r]: equations check_equality closes with rule r alone

Terms      == 1..NTerms
Equation   == {e \in Terms \X Terms : e[2] < e[1]}
Conjecture == {c \in Terms \X Terms \X Datatypes : c[2] < c[1]}
EquationOf(c) == <<c[1], c[2]>>

ASSUME TermsAssumption ==
  /\ NTerms \in Nat \ {0} /\ MaxDepth \in Nat /\ IsFiniteSet(Datatypes)
  /\ Cost \in [Terms -> Nat]
  /\ \A t, u \in Terms : t <= u => Cost[t] <= Cost[u]
  /\ TieOrders \subseteq [Conjecture -> Nat] /\ TieOrders # {}
  /\ \A o \in TieOrders : \A c, e \in Conjecture : o[c] = o[e] => c = e
  /\ Level \in [Terms -> Nat]
  /\ ExampleOf \in [Datatypes -> [Terms -> Nat]]
  /\ ProofMode \in BOOLEAN /\ ExploreSplit \in BOOLEAN

\* TheSyConfig turns an empty list of goals into None (main.rs, From).
ASSUME GoalsAssumption ==
  /\ Goals \in Seq(SUBSET Lemma)
  /\ ProofMode => Goals # <<>>

ASSUME RulesAssumption ==
  /\ OrigRules \in Seq(Rule) /\ SystemRws \in Seq(Rule)
  /\ Equation \subseteq Lemma
  /\ RulesOf \in [Lemma -> Seq(Rule)]
  /\ Generalized \in [Conjecture -> SUBSET Lemma]

(***************************************************************************)
(* Rewriting the two sides of an equation with a rule of that equation     *)
(* merges them in the first iteration, and what derives a generalised      *)
(* equation derives its instance.  The second part needs generalize_prove  *)
(* not to capture a placeholder the equation already has, which holds for  *)
(* the default placeholder count of 2 (main.rs).                           *)
(***************************************************************************)
ASSUME DerivesAssumption ==
  /\ Derives \in [Rule -> SUBSET Lemma]
  /\ \A l \in Lemma : \A i \in DOMAIN RulesOf[l] : l \in Derives[RulesOf[l][i]]
  /\ \A c \in Conjecture : \A g \in Generalized[c] : \A r \in Rule :
        g \in Derives[r] => EquationOf(c) \in Derives[r]

VARIABLES
  pc,      \* where run is
  ret,     \* where prove_goals returns to
  rules,   \* the vector `rules', owned by the caller of run
  found,   \* found_rules (the rewrite of each entry)
  goals,   \* self.goals: the goals still to be proved
  depth,   \* the number of calls of increase_depth
  find,    \* the e-graph: the simplest term of each term's class
  conjs,   \* the vector `conjectures' of run
  before,  \* conjs_before_cases.into_iter().rev(): what is left of it
  after,   \* prove_case_split_rules's `conjectures'
  changed, \* prove_case_split_rules's `changed'
  tried    \* history: conjectures tried since rules or e-graph changed

vars == <<pc, ret, rules, found, goals, depth, find, conjs, before, after,
          changed, tried>>

-----------------------------------------------------------------------------
(* The rule vector.                                                        *)

SystemStart   == Len(OrigRules)
NewRulesIndex == Len(OrigRules) + Len(SystemRws)

\* Faulty variant of InsertRules: inserts before the system rules.
InsertRulesAtStart(rs, new) ==
  SubSeq(rs, 1, SystemStart) \o Reverse(new)
    \o SubSeq(rs, SystemStart + 1, Len(rs))

\* `for r in new { rules.insert(new_rules_index, r) }': the last one inserted
\* comes first.
InsertRules(rs, new) ==
  SubSeq(rs, 1, NewRulesIndex) \o Reverse(new)
    \o SubSeq(rs, NewRulesIndex + 1, Len(rs))

\* system_rws.len() times rules.remove(system_rws_start).
RemoveSystemRules(rs) ==
  SubSeq(rs, 1, SystemStart)
    \o SubSeq(rs, SystemStart + Len(SystemRws) + 1, Len(rs))

Learn(l) ==
  /\ found' = found \o RulesOf[l]
  /\ rules' = InsertRules(rules, RulesOf[l])

\* check_equality is sure to answer true: one of the rules is enough.
Derivable(l) == \E i \in DOMAIN rules : l \in Derives[rules[i]]

-----------------------------------------------------------------------------
(* The e-graph.                                                            *)

Created(d) == {t \in Terms : Level[t] <= d}
SameOnExamples(a, b) ==
  \A d \in Datatypes : ExampleOf[d][a] = ExampleOf[d][b]

\* What running the rules on the e-graph can leave, whichever limit stops it:
\* classes only merge, and only terms that agree on every example do.
Merged(f, n) ==
  {g \in [Terms -> Terms] : \A t \in Terms :
      /\ g[t] <= t /\ g[g[t]] = g[t] /\ g[f[t]] = g[t]
      /\ g[t] # t => /\ {t, g[t]} \subseteq Created(n)
                     /\ SameOnExamples(t, g[t])}

\* The pairs of classes that agree on the examples of a datatype, each class
\* represented by its simplest term.
OpenConjectures(f, n) ==
  {c \in Conjecture :
      /\ c[1] \in Created(n) /\ c[2] \in Created(n)
      /\ f[c[1]] = c[1] /\ f[c[2]] = c[2]
      /\ ExampleOf[c[3]][c[1]] = ExampleOf[c[3]][c[2]]}

\* The order get_conjectures sorts by: the RepOrder of the larger term, then
\* that of the smaller one.  Ties keep the order `ord' in which the maps of
\* datatypes and classes were iterated.
Simpler(c, e) ==
  \/ Cost[c[1]] < Cost[e[1]]
  \/ Cost[c[1]] = Cost[e[1]] /\ Cost[c[2]] < Cost[e[2]]
Before(ord, c, e) == Simpler(c, e) \/ (~Simpler(e, c) /\ ord[c] < ord[e])

\* `sort_by_key' alone leaves the most complex conjecture to be popped first.
SortedUp(S, ord) ==
  [i \in 1..Cardinality(S) |->
     CHOOSE c \in S : Cardinality({e \in S : Before(ord, e, c)}) = i - 1]
\* Faulty variant of SortedDown: the reversal is forgotten.
NotReversed(S, ord) == SortedUp(S, ord)
SortedDown(S, ord) == Reverse(SortedUp(S, ord))

\* get_conjectures: sorted and reversed, so that pop yields the simplest.
GetConjectures(f, n) ==
  {SortedDown(OpenConjectures(f, n), ord) : ord \in TieOrders}

-----------------------------------------------------------------------------
(* prove_goals: proves goals, each time with the rules learnt so far, until *)
(* one pass over the goals proves none.                                     *)

Callers == {"explore", "split", "reduce"}

CallProveGoals(caller) == pc' = "goals" /\ ret' = caller

\* Faulty variant of ProveGoal: `index' is not updated when a proof succeeds.
ProveGoalIndexStale(i, l) ==
  /\ pc = "goals" /\ ProofMode
  /\ l \in goals[i]
  /\ goals' = RemoveAt(goals, 1)
  /\ Learn(l)
  /\ tried' = {}
  /\ UNCHANGED <<pc, ret, depth, find, conjs, before, after, changed>>

\* check_goals proves variant l of goal i (it failed on all before it), and
\* prove_goals records the lemma.
ProveGoal(i, l) ==
  /\ pc = "goals" /\ ProofMode
  /\ l \in goals[i]
  /\ goals' = RemoveAt(goals, i)
  /\ Learn(l)
  /\ tried' = {}
  /\ UNCHANGED <<pc, ret, depth, find, conjs, before, after, changed>>

AllGoalsProved == ProofMode /\ goals = <<>>

\* Faulty variant of ReturnFromProveGoals: run ignores the value returned.
ReturnIgnored ==
  /\ pc = "goals"
  /\ pc' = ret
  /\ UNCHANGED <<ret, rules, found, goals, depth, find, conjs, before, after,
                 changed, tried>>

\* check_goals proves nothing: run returns at once if no goal is left, and
\* otherwise goes on after the call.
ReturnFromProveGoals ==
  /\ pc = "goals"
  /\ pc' = IF AllGoalsProved THEN "stopped" ELSE ret
  /\ UNCHANGED <<ret, rules, found, goals, depth, find, conjs, before, after,
                 changed, tried>>

-----------------------------------------------------------------------------
(* run.                                                                    *)

Init ==
  /\ pc = "start" /\ ret = "explore"
  /\ rules = OrigRules /\ found = <<>>
  /\ goals = IF ProofMode THEN Goals ELSE <<>>
  /\ depth = 0 /\ find = [t \in Terms |-> t]
  /\ conjs = <<>> /\ before = <<>> /\ after = {} /\ changed = FALSE
  /\ tried = {}

Begin ==
  /\ pc = "start"
  /\ rules' = rules \o SystemRws
  /\ CallProveGoals("explore")
  /\ UNCHANGED <<found, goals, depth, find, conjs, before, after, changed,
                 tried>>

\* Faulty variant of Deepen: `0..=max_depth'.
DeepenInclusive ==
  /\ pc = "explore" /\ depth <= MaxDepth
  /\ depth' = depth + 1
  /\ find' \in Merged(find, depth + 1)
  /\ pc' = IF ExploreSplit THEN "casesplit" ELSE "collect"
  /\ tried' = {}
  /\ UNCHANGED <<ret, rules, found, goals, conjs, before, after, changed>>

\* The head of the loop over the depths: increase_depth and equiv_reduc.
Deepen ==
  /\ pc = "explore" /\ depth < MaxDepth
  /\ depth' = depth + 1
  /\ find' \in Merged(find, depth + 1)
  /\ pc' = IF ExploreSplit THEN "casesplit" ELSE "collect"
  /\ tried' = {}
  /\ UNCHANGED <<ret, rules, found, goals, conjs, before, after, changed>>

Collect ==
  /\ pc = "collect"
  /\ conjs' \in GetConjectures(find, depth)
  /\ tried' = {}
  /\ pc' = "induct"
  /\ UNCHANGED <<ret, rules, found, goals, depth, find, before, after, changed>>

\* What run takes for proved once prove_ind succeeded on c: c itself when
\* generalize_prove returns None, or the equation generalize_prove proved.
Outcomes(c) ==
  {EquationOf(c)} \union {g \in Generalized[c] : RulesOf[g] # <<>>}

\* Faulty variant of PopRejected: looks at the last conjecture without a pop.
LastRejected ==
  /\ pc = "induct" /\ conjs # <<>>
  /\ tried' = tried \union {Last(conjs)}
  /\ UNCHANGED <<pc, ret, rules, found, goals, depth, find, conjs, before,
                 after, changed>>

\* prove_ind fails on the conjecture popped, or check_equality says that the
\* rules already give the equation proved.  It may find an equation that no
\* single rule gives.
PopRejected ==
  /\ pc = "induct" /\ conjs # <<>>
  /\ conjs' = Front(conjs)
  /\ tried' = tried \union {Last(conjs)}
  /\ UNCHANGED <<pc, ret, rules, found, goals, depth, find, before, after,
                 changed>>

\* Faulty variant of PopProved: without check_equality.
PopProvedUnfiltered(l) ==
  /\ pc = "induct" /\ conjs # <<>>
  /\ l \in Outcomes(Last(conjs))
  /\ Learn(l)
  /\ conjs' = Front(conjs)
  /\ tried' = {}
  /\ CallProveGoals("reduce")
  /\ UNCHANGED <<goals, depth, find, before, after, changed>>

\* A new lemma: recorded, inserted, and the goals are tried again.
PopProved(l) ==
  /\ pc = "induct" /\ conjs # <<>>
  /\ l \in Outcomes(Last(conjs))
  /\ ~Derivable(l)
  /\ Learn(l)
  /\ conjs' = Front(conjs)
  /\ tried' = {}
  /\ CallProveGoals("reduce")
  /\ UNCHANGED <<goals, depth, find, before, after, changed>>

\* `new_rules.as_ref().unwrap()[0]' of a generalisation that has no rewrite.
NoRewritePanic ==
  /\ \/ /\ pc = "induct" /\ conjs # <<>>
        /\ \E l \in Generalized[Last(conjs)] : RulesOf[l] = <<>>
     \/ /\ pc = "split" /\ before # <<>>
        /\ \E l \in Generalized[Head(before)] : RulesOf[l] = <<>>
  /\ pc' = "panicked"
  /\ UNCHANGED <<ret, rules, found, goals, depth, find, conjs, before, after,
                 changed, tried>>

\* Faulty variant of Reduce: goes on with the conjectures computed before.
ReduceOnly ==
  /\ pc = "reduce"
  /\ find' \in Merged(find, depth)
  /\ tried' = {}
  /\ pc' = "induct"
  /\ UNCHANGED <<ret, rules, found, goals, depth, conjs, before, after, changed>>

\* equiv_reduc_depth(rules, 3), and the conjectures are computed anew.
Reduce ==
  /\ pc = "reduce"
  /\ find' \in Merged(find, depth)
  /\ conjs' \in GetConjectures(find', depth)
  /\ tried' = {}
  /\ pc' = "induct"
  /\ UNCHANGED <<ret, rules, found, goals, depth, before, after, changed>>

\* Faulty variant of EndOfDepth: `while conjectures.len() > 1'.
EndOfDepthEarly ==
  /\ pc = "induct" /\ Len(conjs) <= 1
  /\ pc' = "explore"
  /\ UNCHANGED <<ret, rules, found, goals, depth, find, conjs, before, after,
                 changed, tried>>

EndOfDepth ==
  /\ pc = "induct" /\ conjs = <<>>
  /\ pc' = "explore"
  /\ UNCHANGED <<ret, rules, found, goals, depth, find, conjs, before, after,
                 changed, tried>>

\* The system rules are taken out again and found_rules is returned.
Finish ==
  /\ pc = "explore" /\ depth = MaxDepth
  /\ rules' = RemoveSystemRules(rules)
  /\ pc' = "done"
  /\ UNCHANGED <<ret, found, goals, depth, find, conjs, before, after, changed,
                 tried>>

-----------------------------------------------------------------------------
(* prove_case_split_rules: what a case split of the exploration graph       *)
(* merged is proved as lemmas.                                              *)

CaseSplit ==
  /\ pc = "casesplit"
  /\ \E old \in GetConjectures(find, depth) : before' = Reverse(old)
  /\ find' \in Merged(find, depth)
  /\ after' = OpenConjectures(find', depth)
  /\ changed' = FALSE
  /\ pc' = "split"
  /\ UNCHANGED <<ret, rules, found, goals, depth, conjs, tried>>

\* The split decided nothing about this conjecture.
SkipOpen ==
  /\ pc = "split" /\ before # <<>>
  /\ Head(before) \in after
  /\ before' = Tail(before)
  /\ UNCHANGED <<pc, ret, rules, found, goals, depth, find, conjs, after,
                 changed, tried>>

\* Known already, or prove_all fails on it.  Also a conjecture in `after' gets
\* here: get_conjectures lists the two sides in the order a HashSet iterates
\* them, and the comparison with `conjectures' is sensitive to it.
SkipKnownOrUnproved ==
  /\ pc = "split" /\ before # <<>>
  /\ before' = Tail(before)
  /\ UNCHANGED <<pc, ret, rules, found, goals, depth, find, conjs, after,
                 changed, tried>>

\* check_equality comes before prove_all and generalize_prove here.
ProveSplitRule(l) ==
  /\ pc = "split" /\ before # <<>>
  /\ ~Derivable(EquationOf(Head(before)))
  /\ l \in Outcomes(Head(before))
  /\ Learn(l)
  /\ before' = Tail(before)
  /\ changed' = TRUE
  /\ tried' = {}
  /\ CallProveGoals("split")
  /\ UNCHANGED <<goals, depth, find, conjs, after>>

EndOfSplit ==
  /\ pc = "split" /\ before = <<>>
  /\ find' \in IF changed THEN Merged(find, depth) ELSE {find}
  /\ after' = {} /\ changed' = FALSE
  /\ pc' = "collect"
  /\ UNCHANGED <<ret, rules, found, goals, depth, conjs, before, tried>>

-----------------------------------------------------------------------------
Terminal == {"done", "stopped", "panicked"}
Returned == pc \in Terminal /\ UNCHANGED vars

Next ==
  \/ Begin \/ Deepen \/ Collect \/ Reduce \/ EndOfDepth \/ Finish
  \/ \E i \in DOMAIN goals : \E l \in goals[i] : ProveGoal(i, l)
  \/ ReturnFromProveGoals
  \/ PopRejected
  \/ \E l \in Lemma : PopProved(l)
  \/ NoRewritePanic
  \/ CaseSplit \/ SkipOpen \/ SkipKnownOrUnproved \/ EndOfSplit
  \/ \E l \in Lemma : ProveSplitRule(l)
  \/ Returned

\* run is one sequential program.
Spec == Init /\ [][Next]_vars
FairSpec == Spec /\ WF_vars(Next)

-----------------------------------------------------------------------------
(* Properties.                                                             *)

Labels == {"start", "goals", "explore", "casesplit", "split", "collect",
           "induct", "reduce"} \union Terminal

\* The values run's variables take.
TypeOK ==
  /\ pc \in Labels /\ ret \in Callers
  /\ rules \in Seq(Rule) /\ found \in Seq(Rule)
  /\ goals \in Seq(SUBSET Lemma)
  /\ depth \in 0..MaxDepth
  /\ find \in [Terms -> Terms]
  /\ conjs \in Seq(Conjecture) /\ before \in Seq(Conjecture)
  /\ after \subseteq Conjecture
  /\ changed \in BOOLEAN
  /\ tried \subseteq Conjecture

(***************************************************************************)
(* The rule vector is, at every point of run, the caller's rules, then the *)
(* system rules (from the first push to the last removal), then exactly    *)
(* the rules of found_rules, the newest first (thesy.rs 485-490, 539 and   *)
(* 556-558): the indices kept in new_rules_index and system_rws_start are  *)
(* still right when they are used, and no insertion displaces them.        *)
(***************************************************************************)
RulesLayout ==
  rules = OrigRules
            \o (IF pc \in {"start", "done"} THEN <<>> ELSE SystemRws)
            \o Reverse(found)

(***************************************************************************)
(* Each goal given by the user is still pending, or one of its variants    *)
(* was proved and its rewrites are among the lemmas returned: check_goals  *)
(* removes the goal whose proof succeeded and no other (thesy.rs 453-477). *)
(***************************************************************************)
GoalsAccounted ==
  ProofMode =>
    \A i \in DOMAIN Goals :
      \/ Goals[i] \in {goals[j] : j \in DOMAIN goals}
      \/ \E l \in Goals[i] : \A k \in DOMAIN RulesOf[l] :
            RulesOf[l][k] \in {found[j] : j \in DOMAIN found}

(***************************************************************************)
(* run stops early when and only when the last goal was proved: with no    *)
(* goal left nothing is explored any further, and a goal that is left, or  *)
(* the absence of goals, never ends the exploration before max_depth       *)
(* (thesy.rs 494, 507, 543, 625, 648).                                     *)
(***************************************************************************)
StopsWithTheGoals ==
  /\ AllGoalsProved => pc \in {"start", "goals", "stopped", "panicked"}
  /\ pc = "stopped" => AllGoalsProved
  /\ pc = "done" => depth = MaxDepth /\ ~AllGoalsProved

(***************************************************************************)
(* Every conjecture waiting to be popped is a pair of distinct classes of  *)
(* the present e-graph named by its present representatives: the vector is *)
(* never used after the graph changed under it (thesy.rs 513, 549).        *)
(***************************************************************************)
PendingFresh ==
  pc = "induct" =>
    \A i \in DOMAIN conjs : conjs[i] \in OpenConjectures(find, depth)

(***************************************************************************)
(* Simpler conjectures are tried before the ones they may subsume: popping *)
(* from the end of `conjectures' and walking conjs_before_cases in reverse *)
(* both go up in the order of the representatives (thesy.rs 435-437, 586). *)
(***************************************************************************)
SimplestFirst ==
  /\ \A i, j \in DOMAIN conjs : i < j => ~Simpler(conjs[i], conjs[j])
  /\ \A i, j \in DOMAIN before : i < j => ~Simpler(before[j], before[i])

(***************************************************************************)
(* When a depth is left, each equation the e-graph still leaves open was   *)
(* tried against the final rules of that depth: a failure is retried after *)
(* every lemma learnt later (thesy.rs 515-553).                            *)
(***************************************************************************)
ExploredFully ==
  pc \in {"explore", "done"} /\ depth > 0
    => OpenConjectures(find, depth) \subseteq tried

(***************************************************************************)
(* Exploration records no lemma the rules it has already give: whichever   *)
(* of its two orders of proof, generalisation and check_equality is taken  *)
(* (thesy.rs 519-533 and 591-606), a lemma learnt outside prove_goals is   *)
(* new.                                                                    *)
(***************************************************************************)
LearnsNew ==
  pc \in {"induct", "split"} /\ found' # found
    => \E l \in Lemma : found' = found \o RulesOf[l] /\ ~Derivable(l)
LearnsOnlyNewLemmas == [][LearnsNew]_vars

\* run returns (every proved lemma has a rewrite in the runs that check this).
Terminates == <>(pc \in Terminal)

(***************************************************************************)
(* The rules left to the caller are the previous rules and the new ones    *)
(* (main.rs 126: `returning (thesy instance, previous + new rewrites)').   *)
(***************************************************************************)
ReturnsPreviousAndNewRules ==
  pc \in {"done", "stopped"} => rules = OrigRules \o Reverse(found)
=============================================================================
