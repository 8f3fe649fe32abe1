----------------------------- MODULE Saturation -----------------------------
(***************************************************************************)
(* A run of the rules on an e-graph (run in src/src/adapter.rs, the loop   *)
(* that all the adapters have), with the appliers of                       *)
(* src/src/eggstentions/appliers.rs.                                       *)
(*                                                                         *)
(* An iteration searches every rule in the same graph and then applies     *)
(* their matches rule by rule, so that the classes a match names may have  *)
(* been merged by the rules before.  A run stops when an iteration reports *)
(* no application, or at a limit; at the time limit between any two rules. *)
(***************************************************************************)
EXTENDS EGraph

CONSTANTS
  Rules,        \* the rules: a sequence of records [applier, places]
  Entries,      \* what run is called with: records of a graph and of the
                \* classes whose nodes are there, [graph, present]
  Configs,      \* the configurations, records [timeout, nodes, iters]
  Worlds        \* what may be true of the classes: the models of the rules

\* Where a rule may match: the nodes its patterns need, what must be merged,
\* the root, the class of what the applier writes, and the nodes it writes.
Place == [needs : SUBSET Class, when : SUBSET (Class \X Class),
          at : Class, to : Class, writes : SUBSET Class]
Rule == [applier : {"pattern", "union", "diff"}, places : SUBSET Place]

\* A limit is <<>> or <<n>>; timeout: whether there is a time limit.
Limit  == {s \in Seq(Nat) : Len(s) <= 1}
Config == [timeout : BOOLEAN, nodes : Limit, iters : Limit]

ASSUME RunAssumption ==
  /\ Rules \in Seq(Rule) /\ Configs \subseteq Config
  /\ Entries \subseteq [graph : Graph, present : SUBSET Class]

\* The rules hold in the worlds.
ASSUME WorldsAssumption ==
  /\ Worlds \subseteq Congruent
  /\ \A w \in Worlds : \A i \in DOMAIN Rules : \A p \in Rules[i].places :
       Rules[i].applier # "diff" /\ (\A e \in p.when : w[e[1]] = w[e[2]])
         => w[p.at] = w[p.to]

VARIABLES
  pc,          \* where run is: "head", "search", "apply" or "done"
  config,      \* its configuration
  graph,       \* the e-graph
  present,     \* the classes whose nodes are in it
  seen,        \* history: `present' when the iteration began
  iterations,
  matches,     \* the matches of each rule searched so far
  applied,     \* the number of rules applied in this iteration
  reported,    \* whether `applications' has an entry
  result       \* "ok", or the reason to stop

vars == <<pc, config, graph, present, seen, iterations, matches, applied,
          reported, result>>

-----------------------------------------------------------------------------
(* Searching and applying one rule.                                        *)

\* Faulty variant of Search: a variable that occurs twice is not compared.
SearchLinear(rule, g, terms) ==
  {[eclass |-> g[p.at], id |-> g[p.to], to |-> p.to, writes |-> p.writes] :
     p \in {q \in rule.places : q.needs \subseteq terms}}

\* What a match keeps: the ids of its root and its variables at this time.
Search(rule, g, terms) ==
  {[eclass |-> g[p.at], id |-> g[p.to], to |-> p.to, writes |-> p.writes] :
     p \in {q \in rule.places : /\ q.needs \subseteq terms
                                /\ \A e \in q.when : g[e[1]] = g[e[2]]}}

Written(found) == UNION {m.writes : m \in found}

\* The classes the applier unites: the class the pattern was written to, or
\* the variable's class in the match.  DiffApplier only writes.
Union(rule, found, g) ==
  CASE rule.applier = "pattern" -> {<<m.eclass, g[m.to]>> : m \in found}
    [] rule.applier = "union"   -> {<<m.eclass, m.id>> : m \in found}
    [] rule.applier = "diff"    -> {}

\* Faulty variant of Reports: what DiffApplier writes counts as an application.
ReportsWritten(rule, found, g) ==
  (\E p \in Union(rule, found, g) : p[1] # p[2])
    \/ (rule.applier = "diff" /\ found # {})

\* Faulty variant of Reports: UnionApplier reports no application.
ReportsPatternsOnly(rule, found, g) ==
  rule.applier = "pattern" /\ \E p \in Union(rule, found, g) : p[1] # p[2]

\* Unions of two different ids are reported.  The ids of a match may be stale:
\* the two classes may be one already.
Reports(rule, found, g) == \E p \in Union(rule, found, g) : p[1] # p[2]

-----------------------------------------------------------------------------
(* The run.                                                                *)

Init ==
  /\ pc = "head" /\ config \in Configs
  /\ \E e \in Entries : graph = e.graph /\ present = e.present
  /\ seen = present
  /\ iterations = 0 /\ matches = <<>> /\ applied = 0
  /\ reported = FALSE /\ result = "ok"

\* Faulty variant of Exceeds: one too late.
ExceedsLate(n, limit) == \E i \in DOMAIN limit : n > limit[i] + 1

Exceeds(n, limit) == \E i \in DOMAIN limit : n > limit[i]
NodeCount(g) == Cardinality({Canonical(g, c) : c \in present})

Stop(reason) ==
  /\ pc' = "done" /\ result' = reason
  /\ UNCHANGED <<config, present, seen, iterations, matches, applied, reported>>

\* The head of the loop: rebuild, then the checks.  The last check that fails
\* gives the reason.
Saturated ==
  /\ pc = "head" /\ result = "saturated"
  /\ graph' = Rebuilt[graph]
  /\ Stop("saturated")

\* Faulty variant of LimitReached: the checks come before rebuild.
LimitReachedBeforeRebuild ==
  /\ pc = "head" /\ result = "ok"
  /\ \/ Exceeds(iterations, config.iters) /\ Stop("iterations")
     \/ /\ ~Exceeds(iterations, config.iters)
        /\ Exceeds(NodeCount(graph), config.nodes) /\ Stop("nodes")
  /\ UNCHANGED graph

LimitReached ==
  /\ pc = "head" /\ result = "ok"
  /\ graph' = Rebuilt[graph]
  /\ \/ Exceeds(iterations, config.iters) /\ Stop("iterations")
     \/ /\ ~Exceeds(iterations, config.iters)
        /\ Exceeds(NodeCount(graph'), config.nodes) /\ Stop("nodes")

WithinLimits(g) ==
  ~Exceeds(iterations, config.iters) /\ ~Exceeds(NodeCount(g), config.nodes)

TimeOutAtHead ==
  /\ pc = "head" /\ result = "ok" /\ config.timeout
  /\ graph' = Rebuilt[graph]
  /\ WithinLimits(graph')
  /\ Stop("time")

BeginIteration ==
  /\ pc = "head" /\ result = "ok"
  /\ graph' = Rebuilt[graph]
  /\ WithinLimits(graph')
  /\ pc' = "search" /\ seen' = present /\ matches' = <<>>
  /\ UNCHANGED <<config, present, iterations, applied, reported, result>>

SearchRule ==
  /\ pc = "search" /\ Len(matches) < Len(Rules)
  /\ matches' = Append(matches, Search(Rules[Len(matches) + 1], graph, present))
  /\ UNCHANGED <<pc, config, graph, present, seen, iterations, applied,
                 reported, result>>

BeginApplying ==
  /\ pc = "search" /\ Len(matches) = Len(Rules)
  /\ pc' = "apply" /\ applied' = 0 /\ reported' = FALSE
  /\ UNCHANGED <<config, graph, present, seen, iterations, matches, result>>

ApplyRule ==
  /\ pc = "apply" /\ applied < Len(Rules)
  /\ LET rule  == Rules[applied + 1]
         found == matches[applied + 1]
     IN /\ present' = present \union Written(found)
        /\ graph' = MergeAll(graph, Union(rule, found, graph))
        /\ reported' = (reported \/ Reports(rule, found, graph))
  /\ applied' = applied + 1
  /\ UNCHANGED <<pc, config, seen, iterations, matches, result>>

\* The check after each rule searched or applied.
TimeOut ==
  /\ pc \in {"search", "apply"} /\ matches # <<>> /\ config.timeout
  /\ Stop("time")
  /\ UNCHANGED graph

\* Without a limit on the iterations nothing reads their number.
EndIteration ==
  /\ pc = "apply" /\ applied = Len(Rules)
  /\ result' = IF reported THEN "ok" ELSE "saturated"
  /\ iterations' = IF config.iters = <<>> THEN 0 ELSE iterations + 1
  /\ pc' = "head"
  /\ UNCHANGED <<config, graph, present, seen, matches, applied, reported>>

Returned == pc = "done" /\ UNCHANGED vars

Next ==
  \/ Saturated \/ LimitReached \/ TimeOutAtHead \/ BeginIteration
  \/ SearchRule \/ BeginApplying \/ ApplyRule \/ EndIteration
  \/ TimeOut
  \/ Returned

\* One thread runs the loop.
Spec == Init /\ [][Next]_vars /\ WF_vars(Next)

-----------------------------------------------------------------------------
(* Properties.                                                             *)

Match == [eclass : Class, id : Class, to : Class, writes : SUBSET Class]

\* The values of the variables.  A limit of n allows n + 1 iterations.
TypeOK ==
  /\ pc \in {"head", "search", "apply", "done"}
  /\ config \in Configs
  /\ graph \in Graph
  /\ seen \subseteq Class /\ present \subseteq Class
  /\ iterations \in Nat
  /\ \A i \in DOMAIN config.iters : iterations <= config.iters[i] + 1
  /\ matches \in Seq(SUBSET Match) /\ Len(matches) <= Len(Rules)
  /\ pc = "apply" => Len(matches) = Len(Rules)
  /\ applied \in 0..Len(Rules)
  /\ reported \in BOOLEAN
  /\ result \in {"ok", "time", "nodes", "iterations", "saturated"}

(***************************************************************************)
(* A run that says it is saturated has carried out every rule wherever it  *)
(* matches among the nodes its last iteration searched, although unions    *)
(* are reported by comparing ids that may be stale and DiffApplier reports *)
(* nothing (adapter.rs 1909-1926, appliers.rs 76-93, 182-203).             *)
(***************************************************************************)
SaturatedIsClosed ==
  result = "saturated" =>
    \A i \in DOMAIN Rules : \A p \in Rules[i].places :
      p.needs \subseteq seen /\ (\A e \in p.when : graph[e[1]] = graph[e[2]])
        => /\ p.writes \subseteq present
           /\ Rules[i].applier # "diff" => graph[p.at] = graph[p.to]

(***************************************************************************)
(* Only the time limit leaves a graph that is not rebuilt, and only if it  *)
(* strikes while rules are applied (adapter.rs 1891, 1916-1919).           *)
(***************************************************************************)
CleanUnlessTimedOut ==
  pc = "done" /\ Rebuilt[graph] # graph =>
    result = "time" /\ Len(matches) = Len(Rules) /\ applied > 0

(***************************************************************************)
(* Whatever limit stops it, a run only merges, and only what follows from  *)
(* the graph it was called with: matches found before other rules were     *)
(* applied are still right when they are (adapter.rs 1900-1920).           *)
(***************************************************************************)
EntryGraphs == {e.graph : e \in Entries}
R == INSTANCE Rewriting WITH running <- pc # "done"
ImplementsRewriting == R!Spec

(***************************************************************************)
(* A run without limits ends when the rules can only make finitely many    *)
(* nodes: the appliers stop reporting (adapter.rs 1922-1924).              *)
(***************************************************************************)
Terminates == <>(pc = "done")
=============================================================================
