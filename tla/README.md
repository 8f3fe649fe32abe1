# TheSy: specifications, model checking and proofs

TheSy explores a theory.  From datatypes, functions and rewrite rules it builds
terms, keeps them in an e-graph, guesses equations from symbolic examples,
proves the guesses by induction with the e-graph as its only reasoning engine,
and goes on rewriting with each lemma it proved.  These modules specify the
parts of `src/src` that decide which equations become lemmas, in what order,
and whether they deserve it.

* [1 The system](#1-the-system): components, their state, how they interact
* [2 The modules](#2-the-modules): what models what, and how
* [3 The runs](#3-the-runs): what TLC checks, on which instances
* [4 The proofs](#4-the-proofs): what is proved, from what, and how
* [5 Where the code and what is said of it differ](#5-where-the-code-and-what-is-said-of-it-differ)
* [6 What is not modelled](#6-what-is-not-modelled), and [7 the plan](#7-plan)

## 1 The system

The program is sequential: one thread runs `main`, which reads a theory and
calls `TheSy::run`.  What is hard about it is not scheduling but state that is
shared by reference through long loops (a rule vector, the goals, an e-graph
whose class ids change under everyone who remembers them), iteration in the
order of hash maps, and rewriting that any of three limits may cut off.

| component | source | state | operations |
|---|---|---|---|
| exploration loop | `thesy/thesy.rs` | the rule vector (owned by the caller), found rules, goals, depth, e-graph, vectors of conjectures | `run`, `prove_goals`, `check_goals`, `prove_case_split_rules`, `get_conjectures`, `check_equality` |
| term creation | `thesy/thesy.rs`, `example_creator.rs` | e-graph, example ids, placeholders | `increase_depth`, `fix_example_ids`, `Examples::new` |
| prover | `thesy/prover.rs` | a proof graph for each attempt, the vector of indices being permuted | `prove_base`, `prove_ind`, `prove_all`, `generalize_prove` |
| case splitting | `thesy/case_split.rs`, `consts.rs` | splits already known, one frame for each nested call | `case_split`, `find_splitters`, `merge_conclusions` |
| e-graph adapters | `adapter.rs` | branches, the branch checked out | `classes`, `union`, `find`, `rebuild`, `branchout`, `checkout` |
| equality saturation | `adapter.rs` (`run`) | matches of the iteration, number of iterations, applications | `run` with time, node and iteration limit |
| appliers, rewrites | `eggstentions/appliers.rs`, `rewrites.rs` | none | `apply_matches` of three appliers, `Rewrite::new` |
| searchers | `eggstentions/searchers.rs`, `conditions.rs` | none | joins of pattern matches, filters |
| order of terms, conjectures | `eggstentions/costs.rs`, `thesy/thesy.rs`, `tools.rs` | none | `RepOrder`, extraction, `get_conjectures`, `choose` |
| types | `lang.rs`, `eggstentions/expression_ops.rs` | none | `get_type`, `as_exp`, `into_tree` |
| built-in rules | `thesy/consts.rs`, `thesy/prover.rs` | none | rules of every TheSy, order rules of every prover |
| input language | `thesy/thesy_parser.rs` | definitions collected so far | parsing, `Definitions::merge`, rules and goals |
| command line | `main.rs`, `thesy/thesy.rs` | options, definitions, the TheSy | `TheSyConfig::from`, `TheSy::from`, `new_with_ph`, `run_thesy` |
| statistics | `thesy/statistics.rs` | measures | `init_measure`, `update_*` |

**How they interact.**  `run` lends its rule vector and e-graph to everything it
calls.  It calls term creation, then `EGraph::run`, then (if exploration may
split) `case_split` through `prove_case_split_rules`; it reads conjectures
from the graph and hands each to the prover, which builds a graph of its own
and calls `EGraph::run` and `case_split` on it; a lemma that was proved is
inserted in the rule vector and the goals are tried again.  All of it is plain
calls: the order is the code's, the outcomes are not.

**What is hard, and what makes each component correct.**

* Exploration: indices into a vector that grows and shrinks (540, 556), a vector
  of conjectures that is stale as soon as a lemma has merged classes (549), two
  reversals that must compose to "simplest first" (437, 586), four exits of
  which three skip the clean-up (495, 507, 544), a loop whose end depends on
  each lemma making progress (535).  Correct means: the layout of the rule vector
  survives; conjectures are fresh and tried in order; each open equation is tried
  with the final rules; no goal is lost; `run` ends exactly when it should.
* Prover: cases are branches made one from the other (147, 232); the hypothesis
  must be usable at smaller values only (285-318); cases are split in each branch
  (153, 244); sides and index vectors are swapped separately (169); placeholders
  are dealt out by position (178, 186).
  Correct means: what is proved is true, and it has the conjecture it was asked
  about as an instance.
* Case splitting: recursion that switches branches (171, 178), splits remembered
  by ids that change (152), conclusions read in one branch and merged in another
  (123).  Correct means: the caller finds its own branch again, assumptions nest,
  nothing is split twice, and exactly what the cases share is merged.
* Saturation: matches are found before others are applied and name classes that
  may be gone (1914), what counts as progress differs by applier (1924), and the
  time limit returns from inside an iteration (1907).  Correct means: only
  consequences are merged, "saturated" is true, and the graph is rebuilt unless
  the time limit says otherwise.

* Branches: five adapters behind one interface keep copies, versions or colors;
  a branch made is below the branch checked out, a merge may reach branches made
  before, and one adapter lists fewer classes than the others (876).  Correct means:
  whatever a caller does not see of that can not matter to it.
* Term creation: ids of classes are keys of a map while classes merge (299, 327),
  the graph may have been left dirty (332), and values are looked up while new terms
  are added (356).  Correct means: each key has the values of its class, no two
  terms that agree escape comparison, and building on one term of each class
  still gives all terms.
* Searchers: the join of several patterns is a product over groups, cut down by
  limits handed from pattern to pattern (99-129), and patterns are reordered (74).
  Correct means: exactly the substitutions under which all patterns match, at the
  class that the rule is going to merge.
* Input language: files include files, names collide, errors of an included file
  are dropped (309), and splitters are computed file by file (332).  Correct means:
  the result is that of the text with its includes in place, and a splitter's cases
  take a function apart.
* Conjectures and extraction: vectors of ids are compared (`thesy.rs:414`), the order
  of terms inverts itself for variables (`costs.rs:34`), and one extractor recurses
  without looking where it has been (`adapter.rs:1574`).  Correct means: each pair
  that agrees on the examples is conjectured once, of the terms it is shown with;
  the general comes before the special; extraction ends.
* Configuration: the placeholder 0 of a type is an argument like others and the
  variable of the induction, and goals are numbered around it (`thesy.rs` 133,
  242); the values of a name are looked up by what was added earlier (201-216); types
  are trees kept in vectors (`lang.rs:41`).  Correct means: what is declared can be
  applied, each goal inducts on each of its variables once, nothing looked up is missing.
* Built-in rules: they speak of names that a theory may not use, so that no theory
  tests them (`consts.rs:36`); the order that keeps the hypothesis from proving
  itself is nothing but rules (`prover.rs:65`).  Correct means: they hold where the
  names mean what they say, and the order is that of proper parts.

`PROJECT.json` lists each hazard at its line with the properties that address it.

## 2 The modules

    EGraph  <-  Rewriting (abstract)  <-  Saturation  <-  Equations  <-  MCSaturation
       ^                                     ^
       |                                                       +--  SaturationProofs
       +------  Branches  <-  CaseSplit  <-  MCCaseSplit,  CaseSplitProofs
    Prover        <-  MCProver,  ProverProofs
    TheSy         <-  MCTheSy,   TheSyProofs
    TermCreation, Extraction         <-  Conjectures    <-  MCTermCreation
    Searchers                        <-  MCSearchers
    TermCreation, Searchers          <-  TermProofs
    Definitions, Types, SystemRules  <-  Configuration  <-  MCDefinitions,  DefinitionsProofs

The proof modules extend `SequenceLemmas`, and those about graphs `EGraphProofs`.

The modules are joined where one takes as an assumption what another one shows:

* `CaseSplit` takes from `Saturation` that `run` merges only consequences
  (`RewritingAssumption`, `WorldsAssumption`; shown by `ImplementsRewriting`) and
  that its graph need not be rebuilt after a time limit (`CleanUnlessTimedOut`).
* `Prover` takes that running rules derives only what a branch's facts entail
  (`ImplementsRewriting`).  Of splitting cases it takes what `CaseSplit` says: what
  all cases share is merged (`OnlySharedConclusions`), each case has those before it
  for facts, and so more may be merged than follows (`ConclusionsHold` is violated).
* `TermCreation` takes from `Saturation` that only equal classes are merged and
  that the graph is rebuilt unless the time was up.
* `Saturation` and `Prover` speak of the places where a rule matches;
  `Searchers` shows that the searchers find them.
* `TheSy` takes the step that makes a level of terms available from `TermCreation`
  (`AllTermsCreated`), and from `Conjectures` which of them are paired, and in which
  order (`EachPairConjecturedOnce`, `GeneralBeforeInstance`).
* `TermCreation` takes the initial graph from `Configuration` (`ArgumentsAreTranslated`,
  `EveryFunctionCanBeApplied`), and so does `TheSy` its goals
  (`GoalsInductOnEachVariable`).
* `Prover` takes that the relation `Smaller` is well founded and, for numbers, what it
  is; `SystemRules` has the rules that make it (`SmallerArePartsOf`).
* `TheSy` and `Prover` ask `check_equality`; what it answers is in `Equations`
  (`EqualFollows`, `MergedIsFound`).
* `TheSy` takes from `Prover` that a lemma proved by generalisation gives the
  conjecture (`DerivesAssumption`; shown by `ProvesTheConjecture`).

### EGraph

A class is named by the id it was created with, and a graph is the function
`find`, from ids to the least id of the class.  `Extends(g, f)` says that g has
the merges of f.  `Merge`, `MergeAll` and `Rebuilt` are `union`, several unions
and `rebuild` (congruence closure), each as the least graph with what is asked.
The data structures behind them are libraries outside the repository.

### Rewriting and Saturation

`Rewriting` is the promise: classes merge, and only classes that are equal in
every world where the graph before was right, until the run stops.  `Saturation`
is the loop of `EGraph::run`.

| model | code |
|---|---|
| `pc = "head"`: `Saturated`, `LimitReached`, `TimeOutAtHead`, `BeginIteration` | 1891-1903: rebuild, the three checks, return or go on |
| `SearchRule`, `BeginApplying`, `ApplyRule` | 1904-1905, 1912-1917, one rule at a time |
| `TimeOut` | 1906-1909 and 1918-1921 |
| `EndIteration` | 1924-1927 |
| `Search`, `Written`, `Union`, `Reports` | a rule's matches; `apply_matches` of the pattern, diff and union applier |

A rule is abstracted to the places where it may match: the nodes it needs, the
pairs that must be one class, the root, the class of what it writes, and the
nodes it writes.  A match keeps the *canonical ids at the time of the search*,
which is what makes staleness visible.  Whether the time limit has passed is a
nondeterministic choice where the code looks at the clock.  The number of
iterations is kept only under an iteration limit, since nothing else reads it.

### Equations

`check_equality` composed with a run of `Saturation`.  The runs begin with the
graphs of `Saturation` and with those made for an equation.

| model | code |
|---|---|
| `CreateGraph`, `AddExpr`, `EqTrue` | `prover.rs` 85-97, `add_expr` of the adapters (1779-1794); an expression is the class of its root, since classes are named by nodes |
| `RunRules` | `Saturation`, whole |
| `CheckEquality` with `LookupExpr`, `VegEquivs` | `equivs` of the versioned and the cloning adapter, 1803-1831 and 1415-1443 |
| `ColoredEquivs` | `equivs` of the colored adapter, 664-706: it rebuilds, then searches |
| `GetClass` | the library's table of nodes: in a graph that is not rebuilt, a node may be filed under what its arguments were and be missed |

### Branches and CaseSplit

`Branches` is what the adapters make of `branchout` and `checkout`.  `adapter` is
one of cloning (also persistent: a copy for each branch), versioned and colored
(one graph; a branch is a version or a color below the one that was checked out,
and gains what is merged above it).

| model | code |
|---|---|
| `Branchout`, `InitBranches`, `Current` | cloning: 1678-1696, 1931-1940 |
| `Below`, `Join` | versioned: 1256-1302 (`propagate`), 1545-1554; colored: 936-946 |
| `Listed` | `classes`: all, but in the colored adapter those of exactly this color, 876-882.  `home` is the branch the classes were created in: that of the call, or one above |
| `RebuildOthers` | the colored adapter rebuilds the one graph: 661-663, 919-921 |
| `CheckoutAndUnite` | `checkout`, `union`s and `rebuild` as `merge_conclusions` calls them |

In `CaseSplit`, `stack` holds the frames of `inner_case_split`: the splits known,
those still to do, the branch it began on, the split being processed and the
`find` of each case so far.

| model | code |
|---|---|
| `Init`, `Call`, `Entered` | 141-167: update the known splits, rebuild, `find_splitters`, filter; depth 0 is a frame with nothing to do |
| `TakeSplit` | 168, in any order: the splits come from hash maps |
| `NextCase` | 170-175: branchout, checkout, union, `equiv_reduction`, the inner call |
| `Return` | 176: `collect_merged`, in the branch that is then checked out |
| `MergeConclusions` | 178-179 and 120-136 |
| `Given`, `Ite`, `Or` | the splitters: `from_applier_patterns` (63-80) and `consts.rs` 81-101 |

`cases` and `began` (the graph a call began with) are history, used by the properties only.

### Prover

An equation is its two terms, and a term is its shape and its placeholders in
order; the induction variable is placeholder 0.  A world gives each placeholder
a value, `Ind(w)` is that of the induction variable, and `Holds(e, w)` is the meaning
of an equation in a world; they are parameters, so that the proofs are about every
meaning.  A precondition is a term on any placeholders and the worlds in which it
is true.  The proof graph is the branch checked out: the worlds its facts leave
and whether the two sides are one class.  A branch may derive the equation when it
holds in all these worlds, and it need not, since rules are incomplete and limited.

In the branch of each constructor cases are split (153, 244), if the caller gives a
case splitter.  Any of the possible splits, at any depth, may be found.  A split
keeps the facts that are true in the worlds of all its cases; as each case also has
the facts of those before (`InCase`), these are the worlds of the first, and
others that the branch allowed may be lost.  `misled` records, for the attempt
under way, that this has happened.

| model | code |
|---|---|
| `EnterBase`, `BaseCase`, `BaseFails`, `BaseProved` | 137-156 and 262 |
| `EnterInd`, `IndCase`, `IndFails`, `IndProved` | 215-253 |
| `Hypothesis` | 285-320: the other placeholders are variables, the precondition is the term that is true in the graph |
| `TryCase`, `InCase`, `Keeps`, `SplitCases` | 151-154, 241-245; `case_split.rs` 120-136, 147-181 |
| `TooFewToGeneralize`, `Generalize`, `TryPermutation`, `LowerCount`, `GiveUp` | 158-202 |
| `PushRw`, `RwFromExp`, `Bound` | 119-131, 269-283, `rewrites.rs` 22-27 |

`failed` and `misled` are history.  `prove_base` is not called on its own outside `prove_all`.
The well-founded order is an assumption: every set of values has a member
without smaller ones in it.  That the rules which stand for it in the code write
such an order is checked in `SystemRules`.

### TheSy

Terms are numbered along `RepOrder`; terms of the same order are told apart by
`TieOrders`, the orders in which the hash maps may list them.  The e-graph is
`find` again.  Rewriting is any coarsening that keeps apart what differs on the
examples and what is not created yet, which is what any of its limits may leave.
What a proof attempt yields is nondeterministic.

| model | code |
|---|---|
| `Begin`, `Deepen`, `Collect` | 485-513 |
| `PopRejected`, `PopProved`, `NoRewritePanic`, `Reduce`, `EndOfDepth`, `Finish` | 515-560 |
| `CaseSplit`, `SkipOpen`, `SkipKnownOrUnproved`, `ProveSplitRule`, `EndOfSplit` | 563-631 |
| `ProveGoal`, `ReturnFromProveGoals` | 447-479 and 633-653 |
| `InsertRules`, `RemoveSystemRules` | 537-541 and 556-558 |

`prove_goals` is called from three places; `ret` is the place it returns to.
`tried` is history.  `Derives` says when `check_equality` is *sure* to answer
yes: one rule is enough.  It may answer yes in other cases, which is why
`PopRejected` is always possible.

### TermCreation

A term is its operator and arguments, a class is named by its oldest term, and
the theory has an algebra in which terms have values; saturation may merge what
is equal in it.

| model | code |
|---|---|
| `Init`, `Examples` | 179-216; `example_creator.rs` 24-62 |
| `Unite` | 370-403, one merge at a time |
| `FixKeys`, `Left` | 410-413, what `get_conjectures` does to the keys, on the graph a saturation leaves |
| `BeginDepth`, `FixedIds`, `Matches` | 312-336, 294-305, 87-106 |
| `Create`, `CreateTerm`, `TranslateEdge` | 338-361, one match at a time, in any order |
| `EndDepth` | 362-364 |

`fix_example_ids` collects into a map: if two keys merged, either one's values
stay, which `FixedIds` leaves open.

### Extraction and Conjectures

`Extraction` has `RepOrder` (`Cost`, `FewerVars`, `Less`, `LessPair`; `costs.rs`
18-78), the two extractors and `choose`.  A graph comes as a function from classes
to their nodes in order; what is extracted is a tree.

| model | code |
|---|---|
| `Ecost`, `BuildRecExpr`, `VegFindBest` | `VegExtractor::find_best`, `adapter.rs` 1569-1634 |
| `Ends` | that its recursion does, which `ecost` itself does not look after |
| `FindCosts`, `EggFindBest` | egg's extractor with `MinRep`, which the colored adapter uses (949-987) |
| `Choose` | `tools.rs` 49-70 |
| `Enodes`, `Members` | what the extractors are given: `adapter.rs` 1710-1720 asks `get_enode` for each *id*, so each id has the one node it was created with; egg has all nodes of a class |
| `FinerClasses`, `Conjecture`, `Sorted`, `GetConjectures` | `thesy.rs` 410-438 |
| `UseConjectures`, `Explore` | `run` (498-555), which has tried them and goes on |

`Conjectures` composes this with `TermCreation`: conjectures may be sought after any
saturation, rebuilt or not, and any number of times at a depth.  `GetConjectures` is
`FixKeys` with the list it returns, `UseConjectures` leaves the variables of `TermCreation`
alone and `Explore` is one of its other actions: so each step of `SpecConjectures` is a step of
`TermCreation`'s `Spec` or stutters, and what is proved of `Spec` holds of it.

### Searchers

A searcher is its variables and what it finds, class by class.  A query gives
what each single pattern finds (`IsPattern`: each variable once, substitutions that
bind all of them), how many patterns its kind of searcher is made of (`Arity`), the
classes that are true and the conditions of a rule; the module computes what the searchers built
from them find, as the code does: `get_common_vars`, `group_by_common_vars`,
`aggregate_substs` and `merge_substs` (74-148) under `MultiEq` (264-332) and
`MultiDiff` (355-442), and filters (478-497).  `SearchRule` is the searcher
of a rule of a theory (`thesy_parser.rs` 121-149) and `SearchHypothesis` that of
the induction hypothesis (`prover.rs` 302-318).  The reference is independent of
all that: a substitution for all variables, under which each pattern matches.

### Definitions

`parse_file` and `parse` as a stack of files that are being read.

| model | code (`thesy_parser.rs`) |
|---|---|
| `Include`, `IncludeMissing`, `Return` | 177-179, 309-311 and the merge of what the included file gave |
| `Declare`, `ReadRule`, `SkipLine`, `Panic`, `Fail` | a line of each kind, with what can be wrong with it |
| `EndOfFile`, `SplittersOf` | 314-444 |
| `Merge`, `NewNames`, `NewGoals`, `Selected` | 65-84 |

Lines are what the parser makes of their text; a term is cut off below its
arguments, which is all that splitters look at.  The reference knows no frames and no
merging: `Text` replaces each include by the lines of its file, and `Firsts` takes of all
that these lines define the first of each name.

### Types, SystemRules and Configuration

`Types` has RecExprs as vectors of nodes with indices for children, `GetType` as it
concatenates them, and `TreeOf`, what anyone who reads the result sees.
`SystemRules` has the rules of `consts.rs` as records (merge `at` with `to` when the
equations in `when` hold) and the rules of a prover's order as pairs of a constructor
and a parameter; the meaning to compare them with is a reference of its own.

| model | code |
|---|---|
| `Read` | `Definitions`, whole |
| `Configure` | `main.rs` 72-111; what `parse_file` gave is unwrapped |
| `CreateTheSy`, `NewTheSy`, `Dict` | `main.rs` 195-220, `thesy.rs` 112-176 |
| `NoExamplePanic` | `example_creator.rs:38`: no constructor starts the examples |
| `CollectPhs`, `get_ph`, `CreateTyped`, `CreateExampleIds` | `thesy.rs` 179-216, 242-274 |
| `CreateSearchers`, `CreateApplyRws` | 87-106, 225-240 |
| `Placeholders`, `Numberings`, `GoalVariants`, `Goals` | 127-153; the numbers depend on the order of a hash map |
| `Provers`, `WfoDatatype`, `WriteParts`, `WfoTrans` | `thesy.rs` 114-115, `prover.rs` 49-79 |
| `CheckEquiv`, `Run` | `main.rs` 299-306, 152-169; `given` is what `run` is called with |

## 3 The runs

`MCxxx` modules give the constants their values; the `.cfg` of the same name as
the run names the properties.  Deadlock is checked in TheSy, CaseSplit, Prover and
Saturation, where a program that has returned stutters explicitly (`Returned`);
Searchers, Definitions and TermCreation simply end, and it is not checked there.

| run | instance | what is checked |
|---|---|---|
| TheSy | 3 terms that agree on the examples of 2 datatypes, 1 new at each of 2 depths, two of them of equal order, 2 system rules, generalisation, 2 goals of which one is also reached by generalising, and a generalisation without a rewrite | `TypeOK`, `RulesLayout`, `GoalsAccounted`, `StopsWithTheGoals`, `PendingFresh`, `SimplestFirst`, `ExploredFully`, `LearnsOnlyNewLemmas`, `Terminates` |
| CaseSplit | 6 classes, 4 splitters (2 `ite`, 1 `or`, 1 with three cases), depth 2, each of the 136 entry graphs that keep true from false, with each adapter | `TypeOK`, `BackOnItsBranch`, `EnclosingCasesAssumed`, `NeverSplitAgain`, `OnlySharedConclusions` |
| Prover | 3 values, 36 worlds, 11 conjectures over 6 functions and 5 goals, 2 splits, each of the entry points | `TypeOK`, `ProvedIsValid`, `ProvesTheConjecture`, `MostGeneralFirst` |
| Saturation | 6 classes, 4 rules, 8 graphs and those made for 5 equations with and without a precondition, 12 configurations of limits, both ways to look up | `TypeOK`, `SaturatedIsClosed`, `CleanUnlessTimedOut`, `EqualFollows`, `MergedIsFound`, `ImplementsRewriting`, `Terminates` |
| TermCreation | 5 theories: two names of a number, arithmetic modulo 2, trees, a function that only differs where no example is, and a binary function of two placeholders; example depth 2, depth 1 or 2, both extractors | `TypeOK`, `ValuesAreInstances`, `AllTermsCreated`, `ConjecturesAreRight`, `GeneralBeforeInstance`, `RepresentativesAreSmallest` |
| Searchers | 2 classes, 3 variables, all patterns with at most two matches, rules with and without precondition and conditions, hypotheses, and joins of two and three patterns | `FindsItsMatches`, `PanicsOnlyForForeignVariable` |
| Definitions | 3 files that may include each other without a circle, with lines that collide, that are refused, or that end a file, and 3 sets of options | `TypeOK`, `IncludesAreSpliced`, `SplittersUnblock`, `InitialGraphFits`, `GoalsInductOnEachVariable`, `BuiltInRulesHold`, `Terminates` |
| TheSyReturn, CaseSplitSound, ProverPrecondition, ProverRules, TermCreationTimeout | as above, cut down, or with a time limit | one statement each that the code does not meet: section 5 |

A run of TheSy in which no goal is ever proved goes through the steps that one
without goals goes through, so exploration and goals are one run.

Some properties have named parts: `ConjecturesAreRight` is
`ConjecturesHoldOnExamples` (none is wrong) and `EachPairConjecturedOnce` (none is
missing); `RepresentativesAreSmallest` includes `ExtractionEnds`;
`IncludesAreSpliced` includes `FailsOnlyByItself`; `InitialGraphFits` is
`TypedAsDeclared`, `EveryFunctionCanBeApplied` and `ArgumentsAreTranslated`;
`BuiltInRulesHold` is `SystemRulesHold` and `SmallerArePartsOf`; `FindsItsMatches` is
`RuleFindsItsMatches` and `MultiFindsItsMatches`; `PanicsOnlyForForeignVariable`
includes `MergesAgree`.  That no id is missing in `example_ids` (`KeysAreRelevant`)
is part of TermCreation's `TypeOK`, unless a time limit is considered.

**Why the bounds are enough.**

* TheSy: three terms are the least with which one conjecture can subsume another
  (a merge makes a pending one stale) and two can tie; two depths are the least
  with which the loop comes back; a rule of the caller, two system rules and
  lemmas with one, two and no rewrites move all indices.  State is bounded
  because a lemma is only learnt when it is new.
* CaseSplit: depth 2 is the least with a nested call that has splits of its own;
  a pattern that only appears inside a case of another makes the splits known
  and the splits found differ; an or of three cases makes more than two branches;
  the rules may stop early and leave the graph to be rebuilt or not; a branch
  of a branch is the least with which merges above reach something.  The code
  splits to depth 2 when it explores, 1 when it proves a conjecture, and 3 for a goal.
* Prover: the longest conjecture has three occurrences on a side, so that up to
  three placeholders are dealt out in all six orders; others have different
  numbers of occurrences on the two sides, further placeholders of this and of
  another datatype, and equations that are false, true, true only when general,
  or true only when special.  Preconditions are empty, a prefix, true, or on another
  placeholder; splits are on the induction variable and on another placeholder,
  and any set of them may be used in a case.
* Saturation: the four rules include one whose matches go stale, one that only
  writes, one that unites variables and one that closes a chain over three
  iterations; entry graphs are rebuilt or not; limits 0 and 1 for iterations and
  4 for nodes are each reached and not reached.  The equations are true at once,
  after one rule, only under the precondition, and never; y stands for `true`.  No
  rule looks at a node `(= p true)`, so there is none among the classes.
* TermCreation: at depth 2 terms are built upon terms that were merged after they
  were built upon; two examples with recursion and one without tell values of
  different indices apart; the number of terms is bounded by the depth.  The matches
  of a depth are taken up in every order, but for the two theories with a binary
  function (`anyOrder`), whose matches are too many for that.  Two placeholders, of
  which one name ends with 1, are the least that `RepOrder` tells apart in its three
  ways, and the sum that is its second argument on the example (`Join`) the least
  theory in which a conjecture and its special case are pending together.
* Searchers: two classes suffice to disagree, and three variables for two patterns
  to share one, two or none and to each have one of their own; three patterns are
  the least with which a limit is handed on past a pattern that lacks the variable.
* Definitions: three files are the least with which one is reached on two ways.  The
  functions take values, functions, and functions after values, and return either, also
  as constants; the
  datatypes are numbers, trees whose constructor takes two of them around a number,
  a type of constants, and one with nothing to start from.  Goals have two variables
  of one type, of two, and none of a datatype.  The number of placeholders is 0, 1 or 2.
  `SmallerArePartsOf` looks at all values built in three steps, the least in which
  transitivity has something to add twice.

**Fairness.**  `WF_vars(Next)` is assumed where termination is checked (TheSy,
Saturation, Definitions), and nowhere else is fairness used.  The program is one
thread that no one else blocks, so as long as it can take a step it takes one.
Nothing is assumed of *which* step: a prover that always fails or a clock that
never reaches the limit are among the behaviours.  In Saturation, `Terminates`
includes runs without any limit, as `RunnerConfig::default` makes them; it rests
on the rules having finitely many places.  In TheSy it rests on every lemma that
exploration learns having a rewrite, and in Definitions on there being no circle
of includes; section 5 says what happens otherwise.

**Mutants.**  Each property of a passing run is accompanied by a variant of a
definition with a mistake one could make in that code, defined right before it
and commented as faulty; with the variant in its place TLC finds the property
violated.

## 4 The proofs

The proof modules hold theorems for every value of the constants under the
named assumptions; all are checked by tlapm to the last leaf.  TLC evaluates the
assumptions on each instance.

**SequenceLemmas.**  What the library's operators give: inserting in and removing
from a vector, `FlattenSeq` (`FlattenIs`: what is in it and that what is in two parts
is there at two places), and the function that iterates given steps (`StepByStep`),
which is how a recursive function or a fold is known to have a value.

**TheSyProofs.**  `TypeCorrect`, `LayoutKept`, `StopsExactlyWithGoals`,
`EveryGoalAccounted`, `ConjecturesFresh`, `TriedInOrder`, `NothingLeftUntried`
and `OnlyNewLemmasLearnt`.  The inductive invariant is the type invariant with
`RulesLayout` and the fact that nothing has been found before the system rules are
in (`NothingFoundYet`): without the layout an insertion at `new_rules_index`
says nothing, and without that fact the layout is not kept by `Begin`.  That each
open equation was tried needs `ExploredInv`: what is open is pending or tried,
at each point of the loop over conjectures.

**ProverProofs.**  `TypeCorrect`; `Soundness`, that what is proved is true;
`MostGeneral`; `GeneralizationCovers`.  Soundness rests on `Established`: at each
point of `prove_base` and `prove_ind` that no split has misled, the equation holds in
each world in which a constructor whose case is done builds the induction variable,
in the step cases provided that it holds at smaller values.  `InductionPrinciple`
turns what is established at the end into truth in all worlds, by taking a least
counterexample.  Three hypotheses are part of the property:

* at most one constructor of each kind (`OneOfEach`), since with two the second case
  starts where the first one ended (section 5);
* a precondition that, where it is true, is true for all smaller values and whatever
  the other placeholders are (`DownwardClosed`), which the run ProverPrecondition
  shows to be needed.  One that says anything of another placeholder is so only if
  no smaller values are at stake;
* no case split of the attempt has merged what does not follow (`~misled`).  The code
  does not see to it: this is CaseSplitSound of section 5, and without the
  hypothesis TLC finds a false equation proved in the instance of the run Prover.

So `Soundness` does not say that whatever the program proves is true.  `NeverMisled`
says when the third hypothesis holds: with no case splitter (the feature `no_split`,
and a caller that passes none), or with splits that leave no world out.

`MostGeneral` needs to know that all candidates of larger counts are among the
failures (`SearchInv`); `GeneralizationCovers` that renaming the placeholders back
gives the conjecture throughout the search (`ConjectureInv`).

**EGraphProofs.**  That `Least` exists where it is used: the graphs that extend a
graph and merge given pairs, and the congruent ones among them, are closed under
meet (`MeetIs`, `MergeAllIs`, `RebuiltIs`); that rebuilding more gives more
(`RebuiltMonotone`); and that a recursion over classes, whose arguments are created
before them, defines a function (`RecursionOnClass`).

**SaturationProofs.**  `TypeCorrect` (a limit of n lets at most n + 1 iterations
happen), `CleanAtTheEnd`, `Implements` and `SaturationIsReal`.

* `Implements` is the refinement: initial states map to initial states and each
  step to a step of `Rewriting` or a stutter.  Matches are found in one graph and
  applied in a later one, so the invariant `MatchesRight` speaks of worlds: in each
  world where the *present* graph is right, what a match unites is one.  It
  survives merges because a world that makes the later graph right makes the
  earlier one right.
* `SaturationIsReal` needs `ClosedInv`: as long as an iteration has reported
  nothing, the graph is still the one that was searched, the matches are those of
  this graph, and the rules applied so far have nothing left to do there.
  `QuietUnion` is the heart of it: unions of equal ids change nothing, so nothing
  reported means nothing merged.  The conclusion is about the nodes searched by
  the last iteration (`seen`): what the diff applier wrote *during* it may enable
  rules that are not tried although the reason is `Saturated`.

Of `Equations`: `ChecksAreRuns`, that a check maps to a run of `Saturation`, so
that the theorems above hold of the run inside it (`TypeCorrect`, `CleanAtTheEnd` and
`Implements` are cited); `AnswersFollow` and `AnswersComplete`.

* The graph a check begins with is no graph of `Saturation`, so `CheckInv` says again,
  for the worlds in which the precondition is true, that the matches and the graph are
  right (`MatchesRight`, `GraphRight`), and that the classes of both sides have
  been created (`SidesPresent`).
* A lookup walks down the nodes of an expression; that it answers with a class equal to
  the expression in every such world is an induction over classes, by
  `RecursionOnClass` and a least counterexample.  `AnswersComplete` is the converse: in a
  rebuilt graph each node is filed under what its arguments are now.

**CaseSplitProofs.**  `TypeCorrect`, `BranchIsRestored`, `AssumptionsNest`,
`SplittersAreNew` and `OnlySharedIsMerged`, from one inductive invariant with ten parts:

* `Tree`, `Shape`, `Order`: the branches form a tree in which each call works in the
  branch of a case of the call around it, and the branches of its cases are below
  its own, the later below the earlier.
* `At`, `Nested`, `Concluded`: which branch is checked out at each point, and that it has the
  merges of the branches above it; `Concluded` says which graph each `find` kept of a
  case was.
* `Assumed`: the case of every call around is assumed in the branch checked out.
* `ColoredClean`, `Known`: with the colored adapter the one graph is rebuilt whenever a
  branch is; a splitter processed is known to all calls it encloses.

`OnlySharedIsMerged` is the hard one: with colors and versions, what is merged at the end
of a split reaches every branch below, and the theorem says that none of these is
worked in again.  `SplittersAreNew` is about calls that *begin* with a rebuilt graph
(`began`): a call that returns leaves its graph rebuilt at other ids than the known
splits were updated to, so the same statement about the present graph is false.

**TermProofs**, of `Searchers`: `SearchIsComplete` and `PanicsAreForeign`.  There is one step to a
search, so what is inductive is not the matter; what is proved is that the algorithm
is a join.

* `AggregateIs`: the product of the groups from the i-th on, within limits, is the set of
  substitutions of all their variables, whose part for each group is in it, that have the
  classes which the limits name (`Join`).  The closed form satisfies the recursion
  (`JoinOfLast`, `JoinStep`), which also says that no merge disagrees: the limits handed
  on hold the value of every variable common to two groups, since `CommonVars` has all of
  these (`SearchedIs`).
* `SortedIs`: an order by a key exists and is a permutation; the patterns keep their
  places when there are two of them, since the counts by which they are sorted are then
  equal (`TwoStay`, `CountOfTwo`).  This is why a rule merges the class of its left-hand side
  and not that of its precondition, and it is the reason why the theorem claims the first
  place only for two patterns, which is all that rules and hypotheses use.
* `HoldsTrueIs`, `HypothesisOfThree`, `CombineFiltersIs`: the searchers that the parser and the
  prover build one inside the other, and the filters one after the other.

Of `TermCreation`, for any theories, number of examples and arities:
`TermsTypeCorrect`, `ValuesAreRight`, `TermsAreCreated`, `KeysAreRelevantInTime` and
`PairsAgreeOnExamples`.  Recursion (rebuilding, adding one node after the other, the
examples, the value of a term, the classes of a term) is by recursive functions here; that
each has a value is a lemma about the terms, which come after their arguments.

* `TermInv`: the graph names each class by a term in it, keys and values are terms, each
  type has a key in its class, and what is pending is over classes of the graph and can be
  translated unless a time limit is considered.  The last part is what `KeysAreRelevantInTime`
  needs: `BeginDepth` updates the keys *before* it rebuilds, and it is only because
  what a saturation leaves in time needs no rebuilding (`RebuildIs`, that `Len(terms)` merges are
  enough) that the matches are found under the keys.
* `ValInv` adds that terms of one class are equal in the algebra (`Right`) and that the
  i-th value of a key is what the key is when the induction variable has the value of
  the i-th example.  A merge and a congruence keep `Right` (`RightRebuilt`), a node that
  is added too (`RightAdded`), and a value computed among more terms is the same
  (`ValuesGrow`).  The theorem says it of every term of the class.
* `CreatedInv`: of each term up to the depth, a class holds it and has a type, as
  merges keep this (`LookupStays`); while terms are created, those one deeper have their
  node pending or already there.  Only one term of each class is built upon.
* `PairsAgreeOnExamples` is the part of `ConjecturesAreRight` that is not about extraction,
  and as an action property since the values are up to date only right after
  `FixKeys`: two keys with equal values agree on the examples, with every pair of terms
  extraction could show for them, and in a graph where all that is equal has been merged
  two keys that agree have equal values, so no pair is missed.
* Assumed: a theory has a base case and the induction variable among its constants, what
  is applied takes arguments (`SignatureAssumption`), and the algebra gives each function
  values for all values and each constant but the placeholders one (`AlgebraAssumption`).

**DefinitionsProofs.**  `TypeCorrect`, `IncludesAreRead` and `SplittersAreUseful`, for any
theories whose files do not include each other in a circle (`NoCircleAssumption`, which
holds where the program ends at all, see section 5).

* `FirstsConcat` is what makes merging right: the first elements of each name of s and t
  joined are those of s, and those of t whose name is new to s.  It rests on `SelectedConcat`
  and on `FlattenConcat`, since a filter of a vector is a `FlattenSeq` here.
* `TextExists`: the text of a file is defined by recursion over its includes, which is a
  definition because these have less rank.
* The invariant `Inv` says of each frame (`FrameOK`) that its definitions are what its text
  gives up to `next`, in which an include stands for the text of its file or, if that file
  has an error, for nothing; and of the stack (`StackOK`) that each file is being read for
  the include at which the one below it stands.  It also says where each pattern kept for
  splitters comes from and that every splitter so far is of use (`Lawful`), which survives
  merging only because merging never drops a function or a datatype already there.
* `SplittersUnblock` has a hypothesis for each splitter: all files agree on its function and
  on its datatype.  A splitter is computed with what its own file says of these, while the
  first declaration anywhere is the one that stays.

Of `Configuration`: `GoalsAreInductions` and `GraphFits`.  The invariant `ConfigInv` takes
`Inv` through the steps that read, and from then on keeps what the later steps rest on
(`GoodDefs`: each definition is that of a line) and what the TheSy was made of (`TheSyOf`).

* `VariantIs`: renaming the variables to placeholders and then one of these to placeholder 0
  is renaming once, since no two variables were given one placeholder.  That they were not
  is `NumbersDiffer`: the variables of a type are numbered onto as many numbers as there
  are of them.  The variants of two variables are the same only if neither variable occurs
  in the goal (`VariantsAgree`), which is what makes "one for each variable" true of a set.
* `GetTypeIs`: the nodes of the types one after the other with the arrow at the end read
  back as the type declared (`TreeOf`), if only the first type has children.  The trees of a
  vector are a recursion over its places, which has a solution because children come before
  their parents (`TreesExist`), and the same one in a longer vector (`TreesAgree`).
* Assumed of the constants: parameters are sequences and a goal has finitely many
  variables (`DeclarationsAssumption`), the number of placeholders is a natural number
  (`OptionsAssumption`), `Bool` is no arrow (`BoolAssumption`), and arrows are
  sequences of types that are no arrows (`ArrowsAssumption`).

**Only model-checked.**  Termination (`Terminates` in three modules), since
liveness under fairness is out of the prover's reach; `BuiltInRulesHold`, which evaluates the
built-in rules on the values of given types; what `Conjectures` adds to `TermCreation`
(`ConjecturesAreRight` but for what `PairsAgreeOnExamples` says, `GeneralBeforeInstance`,
`RepresentativesAreSmallest`), which is about the trees extraction builds: its operators are
`RECURSIVE`, as the code is, since they need not end, and what they compute is shown by
induction over trees, which the provers cannot instantiate; and the statements the code
violates.

## 5 Where the code and what is said of it differ

* **TheSyReturn** (`thesy.rs:495`, also 507 and 544).  The early returns leave the
  system rules in the caller's vector; `main.rs:126` says it returns "previous +
  new rewrites".
* **CaseSplitSound** (`case_split.rs:171`).  `branchout` copies what is checked
  out, which from the second case on is the case before; the last case assumes
  all of them and what it concludes is merged for all.  **The prover rests on it**:
  `prove_base` and `prove_ind` call `case_split` in the branch of each constructor
  (`prover.rs:153`, 244) before they look whether the sides are equal, and
  `main.rs` gives them a case splitter.  An equation that holds only in the first case
  of a split can so be proved, be learnt as a rule and be used from then on:
  `ProvedIsValid` is stated, and `Soundness` proved, for attempts that no split has
  misled.  With the colored adapter less is merged in these branches (see below).
* **ProverPrecondition** (`prover.rs:294`).  The induction hypothesis asks for the
  goal's precondition itself, which is true in the graph: not at the smaller value
  it is used at, and not for what the other placeholders of the equation, variables
  of the rule, are matched with.  Both `x + x = x` where x is even and `x + x + y = x`
  where y is zero are proved in the instance, and neither is true.
* **ProverRules** (`prover.rs:272`).  The learnt rule of a goal with a precondition
  has the precondition as its root and merges it with the right-hand side.

* **TermCreationTimeout** (`thesy.rs:332`).  The keys of `example_ids` are brought
  up to date, and only then is the graph rebuilt.  If the time limit left it dirty,
  rebuilding merges a key into an older class that is none, and `translations[id]`
  (327) panics; the comment at 317 gives the reason for the update.

Seen while modelling, without a run of their own:

* A lemma with an unbound variable on either side has no rewrite
  (`thesy.rs:535`).  Take `f` with `f(zero, l) => zero` and `f(succ n, l) => n`:
  `f n xs = f n ys` is proved by cases, `push_rw` drops both directions, nothing is
  learnt, the conjectures are computed anew and the same one is proved again, for
  ever.  With a generalisation the index of the first rewrite panics instead
  (`NoRewritePanic`).
* The prover's cases are branches of each other as well (`prover.rs:147`, 232),
  which is unsound for a datatype with two constructors of a kind; those in
  `theories/` have one of each.
* Files that include each other in a circle are read until the stack is full
  (`thesy_parser.rs:178`).
* A condition on a variable that a rule does not bind is accepted, and panics in the
  first search that has a match (`searchers.rs:492`; `PanicsOnlyForForeignVariable`
  says that nothing else makes a search panic).
* In the colored adapter a call of `case_split` inside a case merges nothing that
  existed before that case (`adapter.rs:876`), so it concludes less than with the
  other adapters.
* `thesy.rs:409` speaks of "a single minimal term" for each class.  With the versioned
  and the cloning adapters it is the term the class was *created* with, since `enodes`
  (`adapter.rs` 1318, 1710) lists a node under the id it was made for; that is also the
  only reason why `ecost` never meets a cycle (`ExtractionEnds`).  With egg's extractor it
  is one of the smallest, but among these not always the least of `RepOrder`: the tie-break
  by variables is not monotone, and choices are made class by class.
* `get_type` (`lang.rs:41`) does not renumber the children of the types it strings
  together.  The type of a function with a function type after its first parameter, or
  for its result, reads as another type, and what wants that type never gets it;
  `TypedAsDeclared` claims it for all others only.
* A constant that is declared without parameters and with an arrow for its result can be
  passed as a function, but `create_apply_rws` (`thesy.rs` 225-240) makes rules for functions
  with parameters only, so what is built with it is never evaluated;
  `EveryFunctionCanBeApplied` excepts it.
* `GeneralBeforeInstance` is about the induction variable and one more placeholder, as
  the instances have.  An instance that renames the induction variable away is no
  conjecture then.  With a third placeholder there are others, and two sides of a
  size with the same number of variables are ordered by how many names end with 1
  (`costs.rs` 18-29): if the larger side has only one of the two placeholders that the
  instance makes one, and that becomes placeholder 1, the instance is tried first.
* A goal without a variable of a datatype has no variants and stays open for ever; `run`
  then never ends by its goals.
* The rule `is_cons` is written with a `cons` of one argument (`consts.rs:49`, 54), which
  no list of two arguments matches.
* The warning at `main.rs:210` is given in proof mode where it is meant for its absence.
* With the noop adapter `get_conjectures` unwraps the extraction of nothing, and the
  message that lists the adapters names one that is not accepted.
* Measures (`statistics.rs`, with the feature `stats` only) are left behind at each
  `continue` (`thesy.rs:532`) and early return, and `n_nodes - amount` (94) is unsigned,
  while rebuilding may lower the count.

## 6 What is not modelled

* Statistics: compiled in only with the cargo feature `stats`, which is off by default,
  and nothing returned by it guides the program.  Printing, logging and lexing.
* `main.rs`: dependencies and preruns, which no caller sets, and output files.
* The e-graph data structures, libraries outside the repository, and the
  conversions to and from their terms; what the versioned adapter propagates and the
  colored one searches is what those libraries return.  The noop adapter.
* In `Prover`, the way `heap_recursive` goes through the orders of the vector it permutes
  in place: it is the `permutohedron` crate's, each order is taken once from a set, and
  an order missed or repeated would not be seen.  Which splits are found, and when: any
  of those given may be.  Everything that a split's first case entails may be merged,
  also from a case that contradicts the facts.
* `Terminates` of TheSy and `SplittersUnblock` of Definitions leave out the cases in which
  they would fail: a lemma learnt without a rewrite, and files that declare a datatype
  differently (section 5, and `Definitions`).
* `reconstruct.rs`, which only tests call; `product` and `AndCondition`, which nothing calls.
* In `TermCreation`, several datatypes: what is done for several is done for each
  alone; `Configuration` has them.  Of conjectures of equal order the list has some
  fixed order; `TheSy` has every order of ties.
* In `Definitions`, circles of includes, patterns with fewer arguments than
  the function has parameters, and how often a splitter is listed.  In
  `Configuration`, function types within function types, a function with the name of a
  constructor or of a goal's variable, and the fresh variables in examples.
* In `SystemRules`, datatypes that are recursive only through one another, which the order
  rules do not see, and that merging `x` with `z` also merges `(ltwf x y)` with
  `(ltwf z y)`: that is congruence, which `EGraph` has.

## 7 Plan

Done, in this order: TheSy with its proofs, CaseSplit, Prover with its proofs,
EGraph, Rewriting and Saturation with their proofs, TermCreation, Searchers,
Definitions, the adapters' branches; then Extraction and Conjectures, Types,
SystemRules and Configuration, and Equations; the proofs of EGraph, CaseSplit, Equations,
Searchers, Definitions, Configuration and TermCreation.

Next:

1. An abstract case analysis that `CaseSplit` implements when each case starts from its
   own copy.
2. That `RepOrder` is a strict weak order, and that the order rules are well founded for
   any datatype, once extraction is written without `RECURSIVE`.
3. A composition of `Prover` with `Saturation` in which what a branch derives is
   computed by a run instead of chosen.
4. `TheSyConfig::run` composed with what `TheSy` leaves behind at its early returns.
