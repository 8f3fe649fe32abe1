----------------------------- MODULE Searchers -----------------------------
(***************************************************************************)
(* Matching of several patterns at once (searchers.rs).  A search yields,  *)
(* for each class where something matches, the substitutions under which   *)
(* it does.  MultiEq joins the matches of its patterns class by class;     *)
(* MultiDiff joins those of its first pattern in each class with those of  *)
(* the others in any class; a filter drops matches by the class of one of  *)
(* their variables.  The searchers of the program are built from these:    *)
(* the left-hand side of a rule of a theory, with its precondition and     *)
(* conditions (thesy_parser.rs), the induction hypothesis and the rules    *)
(* of the well-founded order (prover.rs), and searchers given as text.     *)
(*                                                                         *)
(* The vectors of substitutions are sets here: an order among them comes   *)
(* from hash maps, and one that is twice there is only applied twice.      *)
(* What a single pattern finds is part of the query.                       *)
(***************************************************************************)
EXTENDS Naturals, FiniteSets, SequencesExt, Functions

CONSTANTS Classes,  \* the classes of the graph
          Vars,     \* pattern variables
          NoId,     \* None, of an Option<Id>
          Disagree, \* what is there instead of a substitution where an
                    \* assertion of merge_substs fails,
          Unbound,  \* and where a filter looks up a variable that is not bound
          Queries   \* the searches that are made

Substs(V) == [V -> Classes]
Panics == {Disagree, Unbound}

\* What there is of a single pattern: its variables, each once, and for the
\* classes where it matches the substitutions, which bind its variables.
IsPattern(p) ==
  /\ p.vars \in Seq(Vars) /\ IsInjective(p.vars)
  /\ \E C \in SUBSET Classes : p.at \in [C -> SUBSET Substs(ToSet(p.vars))]
  /\ \A c \in DOMAIN p.at : p.at[c] # {}

\* Of how many patterns each kind of searcher is made.
Arity == [rule |-> 1..2, hypothesis |-> 2..3, multieq |-> Nat \ {0}, multidiff |-> Nat \ {0}]

ASSUME SearchersAssumption ==
  /\ NoId \notin Classes
  /\ IsFiniteSet(Classes) /\ IsFiniteSet(Vars)
  /\ Disagree # Unbound /\ \A V \in SUBSET Vars : Panics \cap Substs(V) = {}

ASSUME QueriesAssumption == \A q \in Queries :
  /\ q.kind \in DOMAIN Arity
  /\ q.patterns \in Seq(ToSet(q.patterns)) /\ \A p \in ToSet(q.patterns) : IsPattern(p)
  /\ Len(q.patterns) \in Arity[q.kind]
  /\ q.truth \subseteq Classes
  /\ q.conds \in Seq([root : Vars, classes : SUBSET Classes, existence : BOOLEAN])
  /\ q.kind # "rule" => q.conds = <<>>

VARIABLES query,   \* the searcher and what each of its patterns matches
          sms,     \* the search matches: what they are, class by class
          status   \* "searching", "done" or, when it panicked, why
search_vars == <<query, sms, status>>

(***************************************************************************)
(* A searcher: its variables, in the order of vars(), and what it finds.   *)
(***************************************************************************)
Found(vs, at) == [vars |-> vs, at |-> RestrictDomain(at, LAMBDA c : at[c] # {})]
AllMatches(p) == UNION {p.at[c] : c \in DOMAIN p.at}
Searched(ps) == FlattenSeq([i \in DOMAIN ps |-> ps[i].vars])

Occurrences(v, ps) == Cardinality({i \in DOMAIN Searched(ps) : Searched(ps)[i] = v})
CommonVars(ps) == {v \in ToSet(Searched(ps)) : Occurrences(v, ps) > 1}
\* How often its common variables occur, taken together.
CountCommons(p, ps) ==
  LET searched == Searched(ps)
      common == CommonVars(ps)
  IN Cardinality({o \in (DOMAIN p.vars) \X DOMAIN searched :
                    p.vars[o[1]] \in common /\ searched[o[2]] = p.vars[o[1]]})

\* The sort is stable.
SortByKey(ps, key) ==
  LET Before(i, j) == key[i] < key[j] \/ (key[i] = key[j] /\ i < j)
      order == CHOOSE f \in [DOMAIN ps -> DOMAIN ps] :
                 \A i, j \in DOMAIN ps : i < j => Before(f[i], f[j])
  IN [i \in DOMAIN ps |-> ps[order[i]]]

\* Faulty variant of Sorted: the patterns with fewest variables come first.
SortedBySize(ps) == SortByKey(ps, [i \in DOMAIN ps |-> Len(ps[i].vars)])

\* The patterns as get_common_vars leaves them.
Sorted(ps) == SortByKey(ps, [i \in DOMAIN ps |-> CountCommons(ps[i], ps)])

(***************************************************************************)
(* The product of groups of substitutions that agree on common variables.  *)
(***************************************************************************)
KeyOf(s, common) == [v \in common |-> IF v \in DOMAIN s THEN s[v] ELSE NoId]
GroupByCommonVars(substs, common) ==
  [k \in {KeyOf(s, common) : s \in substs} |-> {s \in substs : KeyOf(s, common) = k}]

Within(limits, key) ==
  \A v \in DOMAIN key : limits[v] # NoId /\ key[v] # NoId => limits[v] = key[v]

\* Faulty variant of NewLimit: the limits are handed on as they came.
LimitKept(limits, key) == limits

NewLimit(limits, key) ==
  [v \in DOMAIN key |-> IF limits[v] # NoId THEN limits[v] ELSE key[v]]

\* The assertion is that both have the same class for a variable of both.
MergeSubsts(s, t) ==
  IF s \in Panics \/ t \in Panics THEN Disagree
  ELSE IF \E v \in DOMAIN s \cap DOMAIN t : s[v] # t[v] THEN Disagree
  ELSE [v \in DOMAIN s \cup DOMAIN t |-> IF v \in DOMAIN s THEN s[v] ELSE t[v]]

AggregateSubsts(groups, common) ==
  LET Limits == [common -> Classes \cup {NoId}]
      agg[i \in DOMAIN groups] ==
        [limits \in Limits |->
           LET keys == {k \in DOMAIN groups[i] : Within(limits, k)}
           IN IF i = Len(groups) THEN UNION {groups[i][k] : k \in keys}
              ELSE UNION {{MergeSubsts(rest, s) : rest \in agg[i + 1][NewLimit(limits, k)],
                                                  s \in groups[i][k]} : k \in keys}]
  IN agg[1][[v \in common |-> NoId]]

(***************************************************************************)
(* The searchers.  Of a single pattern both find what it finds, which the  *)
(* code returns at once.                                                   *)
(***************************************************************************)
MultiEq(patterns) ==
  LET ps == Sorted(patterns)
      common == CommonVars(ps)
      ids == {c \in Classes : \A i \in DOMAIN ps : c \in DOMAIN ps[i].at}
      Groups(c) == [i \in DOMAIN ps |-> GroupByCommonVars(ps[i].at[c], common)]
  IN Found(Searched(ps), [c \in ids |-> AggregateSubsts(Groups(c), common)])

MultiDiff(patterns) ==
  LET ps == Sorted(patterns)
      common == CommonVars(ps)
      others == [i \in DOMAIN Tail(ps) |-> GroupByCommonVars(AllMatches(ps[i + 1]), common)]
      Groups(c) == Append(others, GroupByCommonVars(Head(ps).at[c], common))
      ids == IF \E i \in DOMAIN Tail(ps) : AllMatches(ps[i + 1]) = {} THEN {}
             ELSE DOMAIN Head(ps).at
  IN Found(SetToSeq(ToSet(Searched(ps))), [c \in ids |-> AggregateSubsts(Groups(c), common)])

\* A condition: a variable and the classes of its pattern, where the class of
\* the variable must be (existence) or must not be.  The variable is looked
\* up with s[root], which panics when s does not bind it.
Passes(s, cond) == (s[cond.root] \in cond.classes) = cond.existence
Bound(s, cond) == s \notin Panics /\ cond.root \in DOMAIN s
ExistFilter(p, cond) ==
  Found(p.vars,
        [c \in DOMAIN p.at |->
           {IF Bound(s, cond) \/ s = Disagree THEN s ELSE Unbound :
              s \in {t \in p.at[c] : Bound(t, cond) => Passes(t, cond)}}])
CombineFilters(p, conds) ==
  LET filter[i \in 0..Len(conds)] ==
        IF i = 0 THEN p ELSE ExistFilter(filter[i - 1], conds[i])
  IN filter[Len(conds)]

(***************************************************************************)
(* What the program searches for.                                          *)
(***************************************************************************)
True(truth) == Found(<<>>, [c \in truth |-> Substs({})])
HoldsTrue(precond, truth) == MultiEq(<<precond, True(truth)>>)

\* The left-hand side of a rule, its precondition if any, its conditions.
Rule(q) ==
  LET searcher == IF Len(q.patterns) = 1 THEN q.patterns[1]
                  ELSE MultiDiff(<<q.patterns[1], HoldsTrue(q.patterns[2], q.truth)>>)
  IN CombineFilters(searcher, q.conds)

\* A side of the hypothesis, at a smaller value, with the precondition if any.
Hypothesis(q) ==
  LET precond == IF Len(q.patterns) = 2 THEN q.patterns[2]
                 ELSE MultiDiff(<<q.patterns[2], HoldsTrue(q.patterns[3], q.truth)>>)
  IN MultiDiff(<<q.patterns[1], precond>>)

InitSearch == query \in Queries /\ sms = <<>> /\ status = "searching"

Finish(answer) ==
  /\ status = "searching"
  /\ status' = IF Disagree \in AllMatches(answer) THEN "assertion failed"
               ELSE IF Unbound \in AllMatches(answer) THEN "not bound" ELSE "done"
  /\ sms' = IF status' = "done" THEN answer.at ELSE <<>>
  /\ UNCHANGED query

SearchRule == query.kind = "rule" /\ Finish(Rule(query))
SearchHypothesis == query.kind = "hypothesis" /\ Finish(Hypothesis(query))
SearchMultiEq == query.kind = "multieq" /\ Finish(MultiEq(query.patterns))
SearchMultiDiff == query.kind = "multidiff" /\ Finish(MultiDiff(query.patterns))

NextSearch == SearchRule \/ SearchHypothesis \/ SearchMultiEq \/ SearchMultiDiff
SpecSearch == InitSearch /\ [][NextSearch]_search_vars

(***************************************************************************)
(* Properties.                                                             *)
(***************************************************************************)
At(p, c) == IF c \in DOMAIN p.at THEN p.at[c] ELSE {}
VarsOf(ps) == ToSet(Searched(ps))

\* Each pattern i matches under s in a class of its own set in[i].
MatchIn(ps, in, s) ==
  \A i \in DOMAIN ps : \E c \in in[i] : Restrict(s, ToSet(ps[i].vars)) \in At(ps[i], c)
\* The search matches of ps where, if they are in class c, those of pattern i
\* are in in[c][i].
Reference(ps, in) ==
  {m \in Classes \X Substs(VarsOf(ps)) : MatchIn(ps, in[m[1]], m[2])}
Result == UNION {{<<c, s>> : s \in sms[c]} : c \in DOMAIN sms}

\* The first pattern matches in the class of the match, the precondition where
\* it is true and what is smaller than the value of the hypothesis anywhere.
RulePlaces(q) ==
  LET n == Len(q.patterns)
      HasPrecondition == n = (IF q.kind = "rule" THEN 2 ELSE 3)
  IN [c \in Classes |-> [i \in DOMAIN q.patterns |->
        IF i = 1 THEN {c} ELSE IF i = n /\ HasPrecondition THEN q.truth ELSE Classes]]
\* All match in the class of the match, or the one at r and the others anywhere.
SamePlaces(ps) == [c \in Classes |-> [i \in DOMAIN ps |-> {c}]]
RootPlaces(ps, r) == [c \in Classes |-> [i \in DOMAIN ps |-> IF i = r THEN {c} ELSE Classes]]

Met(s, conds) == \A i \in DOMAIN conds : Bound(s, conds[i]) /\ Passes(s, conds[i])

\* A rule of a theory is found where its left-hand side matches, and exactly
\* where the precondition holds for the same values and each condition is met;
\* the hypothesis exactly where its value is smaller and, with a precondition,
\* where that holds.  The match is in the class of the left-hand side, which
\* is what gets merged: sorting the patterns must not move it (the comment at
\* thesy_parser.rs:123).
RuleFindsItsMatches ==
  status = "done" /\ query.kind \in {"rule", "hypothesis"} =>
    Result = {m \in Reference(query.patterns, RulePlaces(query)) : Met(m[2], query.conds)}

\* Several patterns of one class are found exactly where all of them match
\* with the same values; of different classes, in the class of one of them,
\* which is the first if there are two.
MultiFindsItsMatches ==
  status = "done" /\ query.kind \in {"multieq", "multidiff"} =>
    LET ps == query.patterns
        RootedIn(r) == Result = Reference(ps, RootPlaces(ps, r))
    IN IF query.kind = "multieq" THEN Result = Reference(ps, SamePlaces(ps))
       ELSE IF Len(ps) = 2 THEN RootedIn(1)
       ELSE \E r \in DOMAIN ps : RootedIn(r)

\* A search finds exactly the matches there are, of either kind, and no class
\* without a substitution: the appliers and the splitters take this for granted.
FindsItsMatches ==
  /\ RuleFindsItsMatches /\ MultiFindsItsMatches
  /\ \A c \in DOMAIN sms : sms[c] # {}

\* Substitutions that are merged agree: the limits of the product keep those
\* apart that do not (assert_eq, searchers.rs:92).
MergesAgree == status # "assertion failed"

\* The search of a rule panics only if a condition of the rule is about a
\* variable that neither the left-hand side nor the precondition binds; the
\* parser accepts such a rule (collect_rule).  What it merges agrees.
PanicsOnlyForForeignVariable ==
  /\ MergesAgree
  /\ status = "not bound" =>
       \E i \in DOMAIN query.conds : query.conds[i].root \notin VarsOf(query.patterns)
=============================================================================
