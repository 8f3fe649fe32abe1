--------------------------- MODULE SaturationProofs ---------------------------
(***************************************************************************)
(* What Saturation promises, for any classes, rules, limits and graphs,    *)
(* and what the check of an equation answers that is such a run            *)
(* (Equations), for any equations and with each of the adapters.           *)
(***************************************************************************)
EXTENDS Equations, EGraphProofs

Within == \A i \in DOMAIN config.iters : iterations <= config.iters[i]

\* An iteration only begins when the limit on iterations is not exceeded.
TypeInv ==
  /\ TypeOK
  /\ pc \in {"search", "apply"} => Within /\ result = "ok"

\* The parts of a rule.
LEMMA RuleType ==
  ASSUME NEW i \in DOMAIN Rules
  PROVE  /\ Rules[i] \in Rule
         /\ \A p \in Rules[i].places :
              /\ p \in Place /\ p.at \in Class /\ p.to \in Class
              /\ p.writes \subseteq Class
              /\ \A e \in p.when : e[1] \in Class /\ e[2] \in Class
<1>1. Rules[i] \in Rule
  BY RunAssumption
<1> QED BY <1>1 DEF Rule, Place

\* A search finds matches.
LEMMA SearchType ==
  ASSUME NEW i \in DOMAIN Rules, NEW g \in Graph, NEW terms
  PROVE  Search(Rules[i], g, terms) \in SUBSET Match
<1>1. g \in [Class -> Class]
  BY GraphIs
<1> QED BY <1>1, RuleType DEF Search, Match

\* What is written are classes, what is united are pairs of classes.
LEMMA UnionType ==
  ASSUME NEW i \in DOMAIN Rules, NEW g \in Graph, NEW found \in SUBSET Match
  PROVE  /\ Written(found) \subseteq Class
         /\ Union(Rules[i], found, g) \in SUBSET (Class \X Class)
<1>1. g \in [Class -> Class]
  BY GraphIs
<1>2. Rules[i].applier \in {"pattern", "union", "diff"}
  BY RuleType DEF Rule
<1>3. \A m \in found : /\ m.eclass \in Class /\ m.id \in Class /\ m.to \in Class
                       /\ m.writes \subseteq Class
  BY DEF Match
<1>4. Written(found) \subseteq Class
  BY <1>3 DEF Written
<1>5. CASE Rules[i].applier = "pattern"
  BY <1>1, <1>3, <1>4, <1>5 DEF Union
<1>6. CASE Rules[i].applier = "union"
  BY <1>3, <1>4, <1>6 DEF Union
<1>7. CASE Rules[i].applier = "diff"
  BY <1>4, <1>7 DEF Union
<1> QED BY <1>2, <1>5, <1>6, <1>7

\* The type invariant holds when run is called.
LEMMA InitTypeInv == Init => TypeInv
<1> SUFFICES ASSUME Init PROVE TypeInv
  OBVIOUS
<1>1. graph \in Graph /\ present \subseteq Class /\ seen \subseteq Class
  BY RunAssumption DEF Init
<1>2. config \in Config
  BY RunAssumption DEF Init
<1>3. \A i \in DOMAIN config.iters : config.iters[i] \in Nat
  BY <1>2 DEF Config, Limit
<1>4. matches \in Seq(SUBSET Match) /\ Len(matches) = 0
  BY DEF Init
<1>5. 0 \in 0..Len(Rules)
  BY RunAssumption
<1>6. \A i \in DOMAIN config.iters : iterations <= config.iters[i] + 1
  BY <1>3 DEF Init
<1>7. Len(matches) <= Len(Rules)
  BY <1>4, <1>5
<1> QED BY <1>1, <1>4, <1>5, <1>6, <1>7 DEF Init, TypeInv, TypeOK

\* Every step of a run keeps the type invariant.
LEMMA NextTypeInv == TypeInv /\ [Next]_vars => TypeInv'
<1> SUFFICES ASSUME TypeInv, [Next]_vars PROVE TypeInv'
  OBVIOUS
<1> USE DEF TypeInv, TypeOK
<1>1. Rebuilt[graph] \in Graph
  BY RebuiltIs
<1>2. /\ Len(Rules) \in Nat /\ Len(matches) \in Nat
      /\ \A i \in DOMAIN config.iters : config.iters[i] \in Nat
      /\ \A i \in 1..Len(Rules) : i \in DOMAIN Rules
  BY RunAssumption DEF Config, Limit
<1>3. ASSUME graph' \in Graph, pc # "done",
             \E reason \in {"time", "nodes", "iterations", "saturated"} : Stop(reason)
      PROVE  TypeInv'
  BY <1>3 DEF Stop, Within
<1>4. CASE Saturated
  BY <1>1, <1>3, <1>4 DEF Saturated
<1>5. CASE LimitReached
  BY <1>1, <1>3, <1>5 DEF LimitReached
<1>6. CASE TimeOutAtHead
  BY <1>1, <1>3, <1>6 DEF TimeOutAtHead
<1>7. CASE BeginIteration
  <2>1. Within
    BY <1>2, <1>7 DEF BeginIteration, WithinLimits, Exceeds, Within
  <2>2. matches' \in Seq(SUBSET Match) /\ Len(matches') = 0
    BY <1>7 DEF BeginIteration
  <2> QED BY <1>1, <1>2, <1>7, <2>1, <2>2 DEF BeginIteration, Within
<1>8. CASE SearchRule
  <2>1. Len(matches) + 1 \in DOMAIN Rules
    BY <1>2, <1>8 DEF SearchRule
  <2>2. Search(Rules[Len(matches) + 1], graph, present) \in SUBSET Match
    BY <2>1, SearchType
  <2>3. matches' \in Seq(SUBSET Match) /\ Len(matches') = Len(matches) + 1
    BY <1>8, <2>2 DEF SearchRule
  <2> QED BY <1>2, <1>8, <2>3 DEF SearchRule, Within
<1>9. CASE BeginApplying
  <2>1. 0 \in 0..Len(Rules)
    BY <1>2
  <2>2. Within'
    BY <1>9 DEF BeginApplying, Within
  <2> QED BY <1>9, <2>1, <2>2 DEF BeginApplying
<1>10. CASE ApplyRule
  <2> DEFINE i == applied + 1
  <2>1. i \in DOMAIN Rules /\ matches[i] \in SUBSET Match /\ i \in 0..Len(Rules)
    BY <1>2, <1>10 DEF ApplyRule
  <2>2. /\ Written(matches[i]) \subseteq Class
        /\ Union(Rules[i], matches[i], graph) \in SUBSET (Class \X Class)
    BY <2>1, UnionType
  <2>3. MergeAll(graph, Union(Rules[i], matches[i], graph)) \in Graph
    BY <2>2, MergeAllIs
  <2>4. Reports(Rules[i], matches[i], graph) \in BOOLEAN
    BY DEF Reports
  <2>5. graph' \in Graph /\ present' \subseteq Class /\ reported' \in BOOLEAN
    BY <1>10, <2>2, <2>3, <2>4 DEF ApplyRule
  <2> QED BY <1>10, <2>1, <2>5 DEF ApplyRule, Within
<1>11. CASE TimeOut
  BY <1>3, <1>11 DEF TimeOut
<1>12. CASE EndIteration
  BY <1>2, <1>12 DEF EndIteration, Within
<1>13. CASE UNCHANGED vars
  BY <1>13 DEF vars, Within
<1> QED BY <1>4, <1>5, <1>6, <1>7, <1>8, <1>9, <1>10, <1>11, <1>12, <1>13
        DEF Next, Returned

(***************************************************************************)
(* The variables of run keep their types, and an iteration limit of n lets *)
(* at most n + 1 iterations happen.                                        *)
(***************************************************************************)
THEOREM TypeCorrect == Spec => []TypeOK
<1>1. TypeInv => TypeOK
  BY DEF TypeInv
<1> QED BY <1>1, InitTypeInv, NextTypeInv, PTL DEF Spec

-----------------------------------------------------------------------------
(* The graph is rebuilt.                                                   *)

\* While rules are searched the graph is rebuilt, and it stays so until a rule
\* reports an application.
CleanInv ==
  /\ pc = "search" => graph \in Congruent
  /\ pc = "apply" /\ ~reported => graph \in Congruent
  /\ pc = "apply" /\ reported => applied > 0
  /\ pc = "done" /\ graph \notin Congruent =>
       result = "time" /\ Len(matches) = Len(Rules) /\ applied > 0
  /\ result = "saturated" => graph \in Congruent /\ pc \in {"head", "done"}

\* An application that reports nothing merges nothing.
LEMMA QuietUnion ==
  ASSUME NEW i \in DOMAIN Rules, NEW g \in Graph, NEW found \in SUBSET Match,
         ~Reports(Rules[i], found, g)
  PROVE  /\ \A p \in Union(Rules[i], found, g) : p[1] = p[2]
         /\ MergeAll(g, Union(Rules[i], found, g)) = g
<1>1. \A p \in Union(Rules[i], found, g) : p[1] = p[2]
  BY DEF Reports
<1> QED BY <1>1, UnionType, MergeAllIs

\* Nothing has been applied when run is called.
LEMMA InitCleanInv == Init => CleanInv
BY DEF Init, CleanInv

\* Every step keeps that only reported applications leave a graph to rebuild.
LEMMA NextCleanInv == TypeInv /\ CleanInv /\ [Next]_vars => CleanInv'
<1> SUFFICES ASSUME TypeInv, CleanInv, [Next]_vars PROVE CleanInv'
  OBVIOUS
<1> USE DEF CleanInv
<1>1. /\ Rebuilt[graph] \in Congruent /\ graph \in Graph
      /\ pc \in {"search", "apply"} => result = "ok"
  BY RebuiltIs DEF TypeInv, TypeOK
<1>2. CASE Saturated
  BY <1>1, <1>2 DEF Saturated, Stop
<1>3. CASE LimitReached
  BY <1>1, <1>3 DEF LimitReached, Stop
<1>4. CASE TimeOutAtHead
  BY <1>1, <1>4 DEF TimeOutAtHead, Stop
<1>5. CASE BeginIteration
  BY <1>1, <1>5 DEF BeginIteration
<1>6. CASE SearchRule
  BY <1>1, <1>6 DEF SearchRule
<1>7. CASE BeginApplying
  BY <1>1, <1>7 DEF BeginApplying
<1>8. CASE ApplyRule
  <2>1. applied + 1 \in DOMAIN Rules /\ matches[applied + 1] \in SUBSET Match
        /\ applied' > 0
    BY <1>8, RunAssumption DEF ApplyRule, TypeInv, TypeOK
  <2>2. ~reported' => graph' = graph
    BY <1>1, <1>8, <2>1, QuietUnion DEF ApplyRule
  <2>3. ~reported' => ~reported
    BY <1>8 DEF ApplyRule
  <2> QED BY <1>1, <1>8, <2>1, <2>2, <2>3 DEF ApplyRule
<1>9. CASE TimeOut
  BY <1>1, <1>9 DEF TimeOut, Stop, TypeInv, TypeOK
<1>10. CASE EndIteration
  BY <1>1, <1>10 DEF EndIteration
<1>11. CASE UNCHANGED vars
  BY <1>11 DEF vars
<1> QED BY <1>2, <1>3, <1>4, <1>5, <1>6, <1>7, <1>8, <1>9, <1>10, <1>11
        DEF Next, Returned

(***************************************************************************)
(* Only the time limit leaves a graph to be rebuilt, and only if it strikes *)
(* while rules are applied.                                                *)
(***************************************************************************)
THEOREM CleanAtTheEnd == Spec => []CleanUnlessTimedOut
<1>1. TypeInv /\ CleanInv => CleanUnlessTimedOut
  BY RebuiltIs DEF TypeInv, TypeOK, CleanInv, CleanUnlessTimedOut
<1> QED BY <1>1, InitTypeInv, NextTypeInv, InitCleanInv, NextCleanInv, PTL DEF Spec

-----------------------------------------------------------------------------
(* What a run merges follows from what it was called with.                 *)

\* In each world where the graph is right, the classes a match unites are one.
MatchesRight ==
  \A w \in Worlds : Extends(w, graph) =>
    \A i \in DOMAIN matches : \A m \in matches[i] :
      Rules[i].applier # "diff" => w[m.eclass] = w[m.to] /\ w[m.id] = w[m.to]

\* A match is right when it is found.
LEMMA FoundRight ==
  ASSUME NEW i \in DOMAIN Rules, Rules[i].applier # "diff", NEW g \in Graph,
         NEW w \in Worlds, Extends(w, g), NEW terms,
         NEW m \in Search(Rules[i], g, terms)
  PROVE  w[m.eclass] = w[m.to] /\ w[m.id] = w[m.to]
<1>1. PICK p \in Rules[i].places :
        /\ \A e \in p.when : g[e[1]] = g[e[2]]
        /\ m.eclass = g[p.at] /\ m.id = g[p.to] /\ m.to = p.to
  BY DEF Search
<1>2. /\ w \in Graph /\ p.at \in Class /\ p.to \in Class
      /\ \A e \in p.when : e[1] \in Class /\ e[2] \in Class
  BY RuleType, WorldsAssumption DEF Congruent
<1>3. \A e \in p.when : w[e[1]] = w[e[2]]
  BY <1>1, <1>2, ExtendsMerges
<1>4. w[p.at] = w[p.to]
  BY <1>3, WorldsAssumption
<1> QED BY <1>1, <1>2, <1>4 DEF Extends

\* The matches of a rule unite what is one in the worlds, also in a graph that
\* has more merges than the one they were found in.
LEMMA UnionRight ==
  ASSUME NEW i \in DOMAIN Rules, NEW g \in Graph, NEW w \in Worlds,
         Extends(w, g), NEW found \in SUBSET Match,
         \A m \in found : Rules[i].applier # "diff" =>
           w[m.eclass] = w[m.to] /\ w[m.id] = w[m.to]
  PROVE  Extends(w, MergeAll(g, Union(Rules[i], found, g)))
<1>1. \A m \in found : m.to \in Class
  BY DEF Match
<1>2. \A m \in found : w[g[m.to]] = w[m.to]
  BY <1>1 DEF Extends
<1>3. Rules[i].applier \in {"pattern", "union", "diff"}
  BY RuleType DEF Rule
<1>4. \A p \in Union(Rules[i], found, g) : w[p[1]] = w[p[2]]
  BY <1>2, <1>3 DEF Union
<1>5. w \in Graph
  BY WorldsAssumption DEF Congruent
<1> QED BY <1>4, <1>5, UnionType, MergeAllIs

\* When run is called there are no matches.
LEMMA InitMatchesRight == Init => MatchesRight
BY DEF Init, MatchesRight

\* Every step merges, and only what holds wherever the graph before is right.
LEMMA NextMerges ==
  TypeInv /\ MatchesRight /\ [Next]_vars
    => /\ graph' \in Graph /\ Extends(graph', graph)
       /\ \A w \in Worlds : Extends(w, graph) => Extends(w, graph')
<1> SUFFICES ASSUME TypeInv, MatchesRight, [Next]_vars
             PROVE  /\ graph' \in Graph /\ Extends(graph', graph)
                    /\ \A w \in Worlds : Extends(w, graph) => Extends(w, graph')
  OBVIOUS
<1>1. graph \in Graph /\ graph' \in Graph
  BY NextTypeInv DEF TypeInv, TypeOK
<1>2. Extends(graph, graph)
  BY <1>1, ExtendsOrder
<1>3. /\ Extends(Rebuilt[graph], graph)
      /\ \A w \in Worlds : Extends(w, graph) => Extends(w, Rebuilt[graph])
  BY <1>1, RebuiltIs, WorldsAssumption
<1>4. CASE graph' \in {graph, Rebuilt[graph]}
  <2>1. graph' = graph \/ graph' = Rebuilt[graph]
    BY <1>4
  <2> QED BY <1>1, <1>2, <1>3, <2>1
<1>5. CASE ApplyRule
  <2> DEFINE i == applied + 1
  <2>1. i \in DOMAIN Rules /\ i \in DOMAIN matches /\ matches[i] \in SUBSET Match
    BY <1>5, RunAssumption DEF ApplyRule, TypeInv, TypeOK
  <2>2. graph' = MergeAll(graph, Union(Rules[i], matches[i], graph))
    BY <1>5 DEF ApplyRule
  <2>3. Extends(graph', graph)
    BY <1>1, <2>1, <2>2, UnionType, MergeAllIs
  <2>4. ASSUME NEW w \in Worlds, Extends(w, graph) PROVE Extends(w, graph')
    <3>1. \A m \in matches[i] : Rules[i].applier # "diff" =>
            w[m.eclass] = w[m.to] /\ w[m.id] = w[m.to]
      BY <2>1, <2>4 DEF MatchesRight
    <3> QED BY <1>1, <2>1, <2>2, <2>4, <3>1, UnionRight
  <2> QED BY <1>1, <2>3, <2>4
<1>6. ApplyRule \/ graph' \in {graph, Rebuilt[graph]}
  BY DEF Next, vars, Returned, Saturated, LimitReached, TimeOutAtHead, BeginIteration,
         SearchRule, BeginApplying, EndIteration, TimeOut
<1> QED BY <1>4, <1>5, <1>6

\* Every step keeps that the matches are right: the worlds that make the new
\* graph right made the old one right.
LEMMA NextMatchesRight == TypeInv /\ MatchesRight /\ [Next]_vars => MatchesRight'
<1> SUFFICES ASSUME TypeInv, MatchesRight, [Next]_vars,
                    NEW w \in Worlds, Extends(w, graph'),
                    NEW i \in DOMAIN matches', NEW m \in matches'[i],
                    Rules[i].applier # "diff"
             PROVE  w[m.eclass] = w[m.to] /\ w[m.id] = w[m.to]
  BY DEF MatchesRight, Extends
<1>1. graph \in Graph /\ graph' \in Graph /\ w \in Graph /\ Extends(graph', graph)
  BY NextMerges, WorldsAssumption DEF TypeInv, TypeOK, Congruent
<1>2. Extends(w, graph)
  BY <1>1, ExtendsOrder
<1>3. CASE i \in DOMAIN matches /\ matches'[i] = matches[i]
  BY <1>2, <1>3 DEF MatchesRight
<1>4. CASE SearchRule
  <2> DEFINE n == Len(matches) + 1
  <2>1. n \in DOMAIN Rules
    BY <1>4, RunAssumption DEF SearchRule, TypeInv, TypeOK
  <2>2. /\ i = n \/ (i \in DOMAIN matches /\ matches'[i] = matches[i])
        /\ matches'[n] = Search(Rules[n], graph, present)
    BY <1>4 DEF SearchRule, TypeInv, TypeOK
  <2>3. CASE i = n
    BY <1>1, <1>2, <2>1, <2>2, <2>3, FoundRight
  <2> QED BY <1>3, <2>2, <2>3
<1>5. SearchRule \/ matches' = matches \/ matches' = <<>>
  BY DEF Next, vars, Returned, Saturated, LimitReached, TimeOutAtHead, BeginIteration,
         Stop, BeginApplying, ApplyRule, EndIteration, TimeOut
<1>6. matches' # <<>>
  OBVIOUS
<1> QED BY <1>3, <1>4, <1>5, <1>6

\* Every step of a run is a step of Rewriting or changes nothing it speaks of.
LEMMA StepRewrites ==
  TypeInv /\ MatchesRight /\ [Next]_vars => [R!Step]_<<graph, pc # "done">>
<1> SUFFICES ASSUME TypeInv, MatchesRight, [Next]_vars
             PROVE  [R!Step]_<<graph, pc # "done">>
  OBVIOUS
<1>1. graph' \in [Class -> Class]
  BY NextMerges, GraphIs
<1>2. R!Consequence(graph', graph)
  BY NextMerges DEF R!Consequence, R!Extends, R!Class, Extends, Class
<1>3. CASE pc = "done"
  BY <1>3 DEF Next, vars, Returned, Saturated, LimitReached, TimeOutAtHead,
              BeginIteration, SearchRule, BeginApplying, ApplyRule, EndIteration, TimeOut
<1>4. CASE pc # "done"
  BY <1>1, <1>2, <1>4 DEF R!Step, R!Class, Class
<1> QED BY <1>3, <1>4

(***************************************************************************)
(* A run implements Rewriting: from the call to whatever ends it, it only   *)
(* merges, and only what follows from the graph it was called with.        *)
(***************************************************************************)
THEOREM Implements == Spec => ImplementsRewriting
<1>1. Init => R!Init
  BY DEF Init, R!Init, EntryGraphs
<1> QED BY <1>1, StepRewrites, InitTypeInv, NextTypeInv, InitMatchesRight,
           NextMatchesRight, PTL DEF Spec, ImplementsRewriting, R!Spec

-----------------------------------------------------------------------------
(* Saturated is closed.                                                    *)

\* What place p of rule i asks for is there, and what it does is done.
Matched(p) ==
  p.needs \subseteq seen /\ \A e \in p.when : graph[e[1]] = graph[e[2]]
Done(i, p) ==
  /\ p.writes \subseteq present
  /\ Rules[i].applier # "diff" => graph[p.at] = graph[p.to]

\* As long as an iteration reports nothing, the graph is the one searched, and
\* the rules applied have nothing left to do there.
ClosedInv ==
  /\ pc = "search" => seen = present
  /\ pc = "search" \/ (pc = "apply" /\ ~reported) =>
       \A i \in DOMAIN matches : matches[i] = Search(Rules[i], graph, seen)
  /\ pc = "apply" /\ ~reported =>
       \A i \in 1..applied : \A p \in Rules[i].places : Matched(p) => Done(i, p)
  /\ result = "saturated" =>
       \A i \in DOMAIN Rules : \A p \in Rules[i].places : Matched(p) => Done(i, p)

\* An application that reports nothing did what the places found ask for.
LEMMA QuietDone ==
  ASSUME TypeInv, NEW i \in DOMAIN Rules, NEW found \in SUBSET Match,
         found = Search(Rules[i], graph, seen), ~Reports(Rules[i], found, graph),
         NEW p \in Rules[i].places, Matched(p)
  PROVE  /\ p.writes \subseteq Written(found)
         /\ Rules[i].applier # "diff" => graph[p.at] = graph[p.to]
<1> DEFINE m == [eclass |-> graph[p.at], id |-> graph[p.to], to |-> p.to,
                 writes |-> p.writes]
<1>1. m \in found
  BY DEF Search, Matched
<1>2. p.writes \subseteq Written(found)
  BY <1>1 DEF Written
<1>3. Rules[i].applier \in {"pattern", "union", "diff"}
  BY RuleType DEF Rule
<1>4. Rules[i].applier # "diff"
        => <<graph[p.at], graph[p.to]>> \in Union(Rules[i], found, graph)
  BY <1>1, <1>3 DEF Union
<1> QED BY <1>2, <1>4, QuietUnion, GraphIs DEF TypeInv, TypeOK

\* Nothing has been searched or applied when run is called.
LEMMA InitClosedInv == Init => ClosedInv
BY DEF Init, ClosedInv

\* Every step keeps that quiet rules have nothing left to do.
LEMMA NextClosedInv ==
  TypeInv /\ CleanInv /\ ClosedInv /\ [Next]_vars => ClosedInv'
<1> SUFFICES ASSUME TypeInv, CleanInv, ClosedInv, [Next]_vars PROVE ClosedInv'
  OBVIOUS
<1>1. /\ graph \in Graph
      /\ pc \in {"search", "apply"} => result = "ok"
      /\ result = "saturated" => Rebuilt[graph] = graph
  BY RebuiltIs DEF TypeInv, TypeOK, CleanInv
<1>2. CASE Saturated
  BY <1>1, <1>2 DEF Saturated, Stop, ClosedInv, Matched, Done
<1>3. CASE LimitReached
  BY <1>3 DEF LimitReached, Stop, ClosedInv
<1>4. CASE TimeOutAtHead
  BY <1>4 DEF TimeOutAtHead, Stop, ClosedInv
<1>5. CASE BeginIteration
  BY <1>5 DEF BeginIteration, ClosedInv
<1>6. CASE SearchRule
  <2>1. matches \in Seq(SUBSET Match)
    BY DEF TypeInv, TypeOK
  <2>2. \A i \in DOMAIN matches' : matches'[i] = Search(Rules[i], graph, seen)
    BY <1>6, <2>1 DEF SearchRule, ClosedInv
  <2> QED BY <1>1, <1>6, <2>2 DEF SearchRule, ClosedInv
<1>7. CASE BeginApplying
  BY <1>1, <1>7 DEF BeginApplying, ClosedInv
<1>8. CASE ApplyRule
  <2> DEFINE n == applied + 1
  <2>1. /\ n \in DOMAIN Rules /\ n \in DOMAIN matches /\ matches[n] \in SUBSET Match
        /\ 1..n = (1..applied) \union {n}
    BY <1>8, RunAssumption DEF ApplyRule, TypeInv, TypeOK
  <2>2. ASSUME ~reported' PROVE ClosedInv'
    <3>1. /\ ~reported /\ ~Reports(Rules[n], matches[n], graph)
          /\ matches[n] = Search(Rules[n], graph, seen)
      BY <1>8, <2>1, <2>2 DEF ApplyRule, ClosedInv
    <3>2. graph' = graph
      BY <1>1, <1>8, <2>1, <3>1, QuietUnion DEF ApplyRule
    <3>3. \A p \in Rules[n].places : Matched(p) =>
            /\ p.writes \subseteq Written(matches[n])
            /\ Rules[n].applier # "diff" => graph[p.at] = graph[p.to]
      BY <2>1, <3>1, QuietDone
    <3>4. /\ seen' = seen /\ matches' = matches /\ present \subseteq present'
          /\ Written(matches[n]) \subseteq present' /\ applied' = n
          /\ pc' = "apply" /\ pc = "apply" /\ result' = result
      BY <1>8 DEF ApplyRule
    <3>5. \A i \in 1..n : \A p \in Rules[i].places : Matched(p)' => Done(i, p)'
      BY <2>1, <3>1, <3>2, <3>3, <3>4 DEF ClosedInv, Matched, Done
    <3> QED BY <1>1, <3>1, <3>2, <3>4, <3>5 DEF ClosedInv
  <2>3. CASE reported'
    BY <1>1, <1>8, <2>3 DEF ApplyRule, ClosedInv
  <2> QED BY <2>2, <2>3
<1>9. CASE TimeOut
  BY <1>9 DEF TimeOut, Stop, ClosedInv
<1>10. CASE EndIteration
  <2>1. DOMAIN Rules = 1..Len(Rules)
    BY RunAssumption
  <2> QED BY <1>10, <2>1 DEF EndIteration, ClosedInv, Matched, Done
<1>11. CASE UNCHANGED vars
  BY <1>11 DEF vars, ClosedInv, Matched, Done
<1> QED BY <1>2, <1>3, <1>4, <1>5, <1>6, <1>7, <1>8, <1>9, <1>10, <1>11
        DEF Next, Returned

(***************************************************************************)
(* A run that says it is saturated has carried out every rule wherever it   *)
(* matches among the nodes its last iteration searched.                    *)
(***************************************************************************)
THEOREM SaturationIsReal == Spec => []SaturatedIsClosed
<1>1. ClosedInv => SaturatedIsClosed
  BY DEF ClosedInv, SaturatedIsClosed, Matched, Done
<1> QED BY <1>1, InitTypeInv, NextTypeInv, InitCleanInv, NextCleanInv, InitClosedInv,
           NextClosedInv, PTL DEF Spec

-----------------------------------------------------------------------------
(* The nodes of an expression.                                             *)

\* The children of a class are classes that come before it.
LEMMA ArgsAre ==
  ASSUME NEW c \in Class, NEW i \in DOMAIN Node[c].args
  PROVE  Node[c].args[i] \in Class /\ Node[c].args[i] < c
BY NodeAssumption, EquationsAssumption

\* An expression has its own node and those of its children.
LEMMA AddExprIs ==
  \A c \in Class : AddExpr[c] = {c} \union UNION {AddExpr[Node[c].args[i]] : i \in DOMAIN Node[c].args}
<1> DEFINE V == SUBSET Class
           sub(f, c) == {c} \union UNION {f[Node[c].args[i]] : i \in DOMAIN Node[c].args}
           Step == [p \in Class \X [Class -> V] |-> sub(p[2], p[1])]
           Is(f) == f = [c \in Class |-> sub(f, c)]
<1>1. \A c \in Class : \A f \in [Class -> V] : sub(f, c) \in V
  BY ArgsAre
<1>2. ASSUME NEW c \in Class, NEW f \in [Class -> V], NEW h \in [Class -> V],
             \A d \in Class : d < c => f[d] = h[d]
      PROVE  sub(f, c) = sub(h, c)
  <2>1. \A i \in DOMAIN Node[c].args : f[Node[c].args[i]] = h[Node[c].args[i]]
    BY <1>2, ArgsAre
  <2> QED BY <2>1
<1>3. V # {}
  OBVIOUS
<1>4. AddExpr = CHOOSE x : Is(x)
  BY DEF AddExpr
<1> HIDE DEF V, sub
<1>5. /\ Step \in [Class \X [Class -> V] -> V]
      /\ \A c \in Class : \A f \in [Class -> V] : Step[<<c, f>>] = sub(f, c)
  BY <1>1
<1> HIDE DEF Step
<1>6. \A c \in Class : \A f, h \in [Class -> V] :
        (\A d \in Class : d < c => f[d] = h[d]) => Step[<<c, f>>] = Step[<<c, h>>]
  BY <1>2, <1>5
<1>7. PICK f \in [Class -> V] : \A c \in Class : f[c] = Step[<<c, f>>]
  <2>1. Recursive(V, Step)
    BY <1>3, <1>5, <1>6 DEF Recursive
  <2> QED BY <2>1, RecursionOnClass
<1>8. Is(f)
  BY <1>5, <1>7
<1>9. Is(AddExpr)
  <2> HIDE DEF Is
  <2> QED BY <1>4, <1>8
<1> DEFINE g == [c \in Class |-> sub(AddExpr, c)]
<1>10. \A c \in Class : g[c] = sub(AddExpr, c)
  OBVIOUS
<1>11. AddExpr = g
  BY <1>9
<1>12. \A c \in Class : AddExpr[c] = sub(AddExpr, c)
  <2> HIDE DEF g
  <2> QED BY <1>10, <1>11
<1> QED BY <1>12 DEF sub

-----------------------------------------------------------------------------
(* Looking an expression up.                                               *)

Answers == {<<>>} \union {<<c>> : c \in Class}

\* What the children of class c can be found as, together.
ClassChoices(look, c) ==
  LET args == Node[c].args IN
  {as \in [DOMAIN args -> UNION {look[args[i]] : i \in DOMAIN args}] :
     \A i \in DOMAIN args : as[i] \in look[args[i]]}

\* What class c can be found as when its children are found as `as'.
FoundFor(g, terms, c, as) ==
  IF \E i \in DOMAIN as : as[i] = <<>> THEN {<<>>}
  ELSE Found(g, terms, [op |-> Node[c].op, args |-> [i \in DOMAIN as |-> as[i][1]]])

\* What a node is found as is the class, now, of a node that is filed like it.
LEMMA FoundIs ==
  ASSUME NEW g \in Graph, NEW terms \in SUBSET Class, NEW node
  PROVE  /\ Found(g, terms, node) \subseteq Answers
         /\ \A x \in Found(g, terms, node) : x # <<>> =>
              \E d \in terms : Canonical(g, d) = node /\ x = <<g[d]>>
         /\ \A d \in terms : Canonical(g, d) = node => <<g[d]>> \in Found(g, terms, node)
         /\ Rebuilt[g] = g /\ (\E d \in terms : Canonical(g, d) = node)
              => <<>> \notin Found(g, terms, node)
<1> DEFINE ids == {d \in terms : Canonical(g, d) = node}
           missed == IF ids = {} \/ (Rebuilt[g] # g /\ node.args # <<>>) THEN {<<>>} ELSE {}
           now(x) == [i \in DOMAIN x |-> g[x[i]]]
<1>1. Found(g, terms, node) = {now(x) : x \in {<<d>> : d \in ids} \union missed}
  BY DEF Found, GetClass
<1>2. \A d \in Class : now(<<d>>) = <<g[d]>> /\ g[d] \in Class
  BY GraphIs
<1>3. now(<<>>) = <<>>
  OBVIOUS
<1>4. \A x \in missed : x = <<>>
  OBVIOUS
<1>5. Rebuilt[g] = g /\ ids # {} => missed = {}
  OBVIOUS
<1>6. \A c \in Class : <<g[c]>> # <<>> /\ <<g[c]>> \in Answers
  BY <1>2 DEF Answers
<1>7. <<>> \in Answers
  BY DEF Answers
<1>8. \A d \in ids : d \in terms /\ d \in Class /\ Canonical(g, d) = node
  OBVIOUS
<1>9. \A d \in terms : Canonical(g, d) = node => d \in ids
  OBVIOUS
<1> HIDE DEF now, missed, ids
<1>10. \A x \in Found(g, terms, node) : x = <<>> \/ \E d \in ids : x = <<g[d]>>
  BY <1>1, <1>2, <1>3, <1>4, <1>8
<1>11. \A d \in ids : <<g[d]>> \in Found(g, terms, node)
  BY <1>1, <1>2, <1>8
<1>12. missed = {} => <<>> \notin Found(g, terms, node)
  <2> SUFFICES ASSUME missed = {}, <<>> \in Found(g, terms, node) PROVE FALSE
    OBVIOUS
  <2>1. PICK d \in ids : <<>> = now(<<d>>)
    BY <1>1
  <2> QED BY <1>2, <1>6, <1>8, <2>1
<1> QED BY <1>5, <1>6, <1>7, <1>8, <1>9, <1>10, <1>11, <1>12

\* An expression is found as its node is, for what its children are found as.
LEMMA LookupIs ==
  ASSUME NEW g \in Graph, NEW terms \in SUBSET Class, NEW c \in Class
  PROVE  LookupExpr(g, terms)[c] =
           UNION {FoundFor(g, terms, c, as) : as \in ClassChoices(LookupExpr(g, terms), c)}
<1> DEFINE V == SUBSET Answers
           looked(f, x) == UNION {FoundFor(g, terms, x, as) : as \in ClassChoices(f, x)}
           Step == [p \in Class \X [Class -> V] |-> looked(p[2], p[1])]
           Is(f) == f = [x \in Class |-> looked(f, x)]
           look == LookupExpr(g, terms)
<1>1. \A x \in Class : \A f \in [Class -> V] : looked(f, x) \in V
  <2>1. \A x, as : FoundFor(g, terms, x, as) \in V
    BY FoundIs DEF FoundFor, Answers
  <2> HIDE DEF V
  <2> QED BY <2>1 DEF V
<1>2. ASSUME NEW x \in Class, NEW f \in [Class -> V], NEW h \in [Class -> V],
             \A d \in Class : d < x => f[d] = h[d]
      PROVE  looked(f, x) = looked(h, x)
  <2>1. \A i \in DOMAIN Node[x].args : f[Node[x].args[i]] = h[Node[x].args[i]]
    BY <1>2, ArgsAre
  <2>2. ClassChoices(f, x) = ClassChoices(h, x)
    BY <2>1 DEF ClassChoices
  <2> QED BY <2>2
<1>3. V # {}
  OBVIOUS
<1>4. look = CHOOSE f : Is(f)
  BY DEF LookupExpr, FoundFor, ClassChoices
<1> HIDE DEF V, looked, look
<1>5. /\ Step \in [Class \X [Class -> V] -> V]
      /\ \A x \in Class : \A f \in [Class -> V] : Step[<<x, f>>] = looked(f, x)
  BY <1>1
<1> HIDE DEF Step
<1>6. \A x \in Class : \A f, h \in [Class -> V] :
        (\A d \in Class : d < x => f[d] = h[d]) => Step[<<x, f>>] = Step[<<x, h>>]
  BY <1>2, <1>5
<1>7. PICK f \in [Class -> V] : \A x \in Class : f[x] = Step[<<x, f>>]
  <2>1. Recursive(V, Step)
    BY <1>3, <1>5, <1>6 DEF Recursive
  <2> QED BY <2>1, RecursionOnClass
<1>8. Is(f)
  BY <1>5, <1>7
<1>9. Is(look)
  <2> HIDE DEF Is
  <2> QED BY <1>4, <1>8
<1> DEFINE h == [x \in Class |-> looked(look, x)]
<1>10. h[c] = looked(look, c)
  OBVIOUS
<1>11. look = h
  BY <1>9
<1>12. look[c] = looked(look, c)
  <2> HIDE DEF h
  <2> QED BY <1>10, <1>11
<1> QED BY <1>12 DEF look, looked

\* Where all that is merged is right, an expression is only found as what it is
\* equal to, whether the graph is rebuilt or not.
LEMMA LookedUpRight ==
  ASSUME NEW g \in Graph, NEW terms \in SUBSET Class, NEW w \in Congruent, Extends(w, g)
  PROVE  \A c \in Class : \A x \in LookupExpr(g, terms)[c] :
           x # <<>> => x[1] \in Class /\ w[x[1]] = w[c]
<1> DEFINE look == LookupExpr(g, terms)
           Right(c) == \A x \in look[c] : x # <<>> => x[1] \in Class /\ w[x[1]] = w[c]
           S == {c \in Class : ~Right(c)}
<1>0. w \in Graph
  BY DEF Congruent
<1>1. S = {}
  <2> SUFFICES ASSUME S # {} PROVE FALSE
    OBVIOUS
  <2>1. PICK c \in S : \A d \in S : c <= d
    <3>1. S \in SUBSET Nat
      BY ClassAssumption DEF Class
    <3> HIDE DEF S
    <3> QED BY <3>1, LeastNat
  <2>2. c \in Class /\ ~Right(c)
    OBVIOUS
  <2>3. \A i \in DOMAIN Node[c].args : Right(Node[c].args[i])
    <3> SUFFICES ASSUME NEW i \in DOMAIN Node[c].args PROVE Right(Node[c].args[i])
      OBVIOUS
    <3>1. Node[c].args[i] \in Class /\ Node[c].args[i] < c
      BY <2>2, ArgsAre
    <3>2. ~(c <= Node[c].args[i])
      BY <2>2, <3>1, ClassAssumption DEF Class
    <3>3. Node[c].args[i] \notin S
      <4> HIDE DEF S
      <4> QED BY <2>1, <3>2
    <3> HIDE DEF Right
    <3> QED BY <3>1, <3>3
  <2>4. PICK x \in look[c] : x # <<>> /\ ~(x[1] \in Class /\ w[x[1]] = w[c])
    BY <2>2
  <2>5. PICK as \in ClassChoices(look, c) : x \in FoundFor(g, terms, c, as)
    BY <2>2, <2>4, LookupIs
  <2> DEFINE args == Node[c].args
             ids == [i \in DOMAIN as |-> as[i][1]]
             node == [op |-> Node[c].op, args |-> ids]
  <2>6. /\ DOMAIN as = DOMAIN args
        /\ \A i \in DOMAIN args : as[i] \in look[args[i]]
    BY <2>5 DEF ClassChoices
  <2>7. (\A i \in DOMAIN as : as[i] # <<>>) /\ x \in Found(g, terms, node)
    BY <2>4, <2>5 DEF FoundFor
  <2>8. PICK d \in terms : Canonical(g, d) = node /\ x = <<g[d]>>
    <3> HIDE DEF node
    <3> QED BY <2>4, <2>7, FoundIs
  <2>9. \A i \in DOMAIN args : ids[i] \in Class /\ w[ids[i]] = w[args[i]]
    BY <2>3, <2>6, <2>7
  <2>10. Node[d].op = Node[c].op /\ [i \in DOMAIN Node[d].args |-> g[Node[d].args[i]]] = ids
    BY <2>8 DEF Canonical
  <2>11. DOMAIN Node[d].args = DOMAIN args /\ \A i \in DOMAIN args : g[Node[d].args[i]] = ids[i]
    BY <2>6, <2>10
  <2>12. d \in Class /\ \A i \in DOMAIN Node[d].args : Node[d].args[i] \in Class
    BY ArgsAre
  <2>13. \A i \in DOMAIN args : w[Node[d].args[i]] = w[args[i]]
    <3> TAKE i \in DOMAIN args
    <3>1. Node[d].args[i] \in Class /\ g[Node[d].args[i]] = ids[i] /\ w[ids[i]] = w[args[i]]
      BY <2>9, <2>11, <2>12
    <3> HIDE DEF args, ids
    <3>2. w[g[Node[d].args[i]]] = w[Node[d].args[i]]
      BY <3>1 DEF Extends
    <3> QED BY <3>1, <3>2
  <2>14. Canonical(w, d) = Canonical(w, c)
    BY <2>10, <2>11, <2>13 DEF Canonical
  <2>15. w[d] = w[c]
    BY <2>2, <2>12, <2>14 DEF Congruent
  <2>16. x[1] = g[d] /\ g[d] \in Class /\ w[g[d]] = w[d]
    BY <2>8, <2>12, GraphIs DEF Extends
  <2> QED BY <2>4, <2>15, <2>16
<1> QED BY <1>1

\* In a rebuilt graph with all the nodes of an expression, the expression is
\* found, and as nothing but its class.
LEMMA LookedUpAll ==
  ASSUME NEW g \in Graph, Rebuilt[g] = g, NEW terms \in SUBSET Class
  PROVE  \A c \in Class : AddExpr[c] \subseteq terms => LookupExpr(g, terms)[c] = {<<g[c]>>}
<1> DEFINE look == LookupExpr(g, terms)
           Exact(c) == AddExpr[c] \subseteq terms => look[c] = {<<g[c]>>}
           S == {c \in Class : ~Exact(c)}
<1>0. g \in Congruent /\ \A c \in Class : g[c] \in Class
  BY RebuiltIs, GraphIs
<1>1. S = {}
  <2> SUFFICES ASSUME S # {} PROVE FALSE
    OBVIOUS
  <2>1. PICK c \in S : \A d \in S : c <= d
    <3>1. S \in SUBSET Nat
      BY ClassAssumption DEF Class
    <3> HIDE DEF S
    <3> QED BY <3>1, LeastNat
  <2>2. c \in Class /\ AddExpr[c] \subseteq terms /\ look[c] # {<<g[c]>>}
    OBVIOUS
  <2> DEFINE args == Node[c].args
             as == [i \in DOMAIN args |-> <<g[args[i]]>>]
             node == Canonical(g, c)
  <2>3. ASSUME NEW i \in DOMAIN args PROVE look[args[i]] = {<<g[args[i]]>>}
    <3>1. args[i] \in Class /\ args[i] < c
      BY <2>2, ArgsAre
    <3>2. ~(c <= args[i])
      BY <2>2, <3>1, ClassAssumption DEF Class
    <3>3. args[i] \notin S
      <4> HIDE DEF S
      <4> QED BY <2>1, <3>2
    <3>4. AddExpr[args[i]] \subseteq terms
      BY <2>2, AddExprIs
    <3> QED BY <3>1, <3>3, <3>4
  <2>4. ClassChoices(look, c) = {as}
    <3>1. as \in ClassChoices(look, c)
      BY <2>3 DEF ClassChoices
    <3>2. ASSUME NEW bs \in ClassChoices(look, c) PROVE bs = as
      <4>1. bs = [i \in DOMAIN args |-> bs[i]] /\ \A i \in DOMAIN args : bs[i] \in look[args[i]]
        BY DEF ClassChoices
      <4>2. \A i \in DOMAIN args : bs[i] = <<g[args[i]]>>
        <5> HIDE DEF look, args
        <5> QED BY <2>3, <4>1
      <4> QED BY <4>1, <4>2
    <3> HIDE DEF as
    <3> QED BY <3>1, <3>2
  <2>5. FoundFor(g, terms, c, as) = Found(g, terms, node)
    <3>1. DOMAIN as = DOMAIN args /\ \A i \in DOMAIN args : as[i] # <<>> /\ as[i][1] = g[args[i]]
      OBVIOUS
    <3> HIDE DEF as
    <3>2. [i \in DOMAIN as |-> as[i][1]] = [i \in DOMAIN args |-> g[args[i]]]
      BY <3>1
    <3> QED BY <3>1, <3>2 DEF FoundFor, Canonical
  <2>6. look[c] = Found(g, terms, node)
    <3>1. look[c] = UNION {FoundFor(g, terms, c, bs) : bs \in {as}}
      BY <2>2, <2>4, LookupIs
    <3> HIDE DEF as, look, node
    <3> QED BY <2>5, <3>1
  <2>7. c \in terms
    BY <2>2, AddExprIs
  <2>8. \A d \in terms : Canonical(g, d) = node => g[d] = g[c]
    BY <1>0, <2>2 DEF Congruent
  <2>9. Found(g, terms, node) = {<<g[c]>>}
    <3>1. <<>> \notin Found(g, terms, node) /\ <<g[c]>> \in Found(g, terms, node)
      BY <2>7, FoundIs
    <3>2. \A x \in Found(g, terms, node) : x = <<g[c]>>
      <4> HIDE DEF node
      <4> QED BY <2>8, <3>1, FoundIs
    <3> QED BY <3>1, <3>2
  <2> QED BY <2>2, <2>6, <2>9
<1> QED BY <1>1

-----------------------------------------------------------------------------
(* The check.                                                              *)

\* In all the worlds with the precondition the graph is right.
Assumed(e, w) == \A j \in DOMAIN e.precond : w[e.precond[j]] = w[True]
GraphRight ==
  \A i \in DOMAIN equation : \A w \in Worlds :
    Assumed(equation[i], w) => Extends(w, graph)

\* The nodes of both sides are there.
SidesPresent ==
  \A i \in DOMAIN equation :
    AddExpr[equation[i].left] \union AddExpr[equation[i].right] \subseteq present

CheckInv ==
  /\ TypeInv /\ MatchesRight
  /\ equation \in {<<e>> : e \in Equations} \union {<<>>}
  /\ adapter \in {"veg", "colored"}
  /\ answer \in {<<yes>> : yes \in BOOLEAN} \union {<<>>}
  /\ answer # <<>> => pc = "done"
  /\ GraphRight /\ SidesPresent
  /\ EqualFollows /\ MergedIsFound

\* The parts of an equation that is checked.
LEMMA EquationIs ==
  ASSUME NEW e \in Equations
  PROVE  /\ e.left \in Class /\ e.right \in Class
         /\ \A j \in DOMAIN e.precond : e.precond[j] \in Class
BY EquationsAssumption DEF ToSet

\* The graph made for a check is right in the worlds with the precondition, and
\* has the nodes of both sides.
LEMMA CreateGraphIs ==
  ASSUME NEW e \in Equations
  PROVE  LET made == CreateGraph(e) IN
         /\ \A w \in Worlds : Assumed(e, w) => Extends(w, made.graph)
         /\ AddExpr[e.left] \union AddExpr[e.right] \subseteq made.present
<1> DEFINE pre == ToSet(e.precond)
           pairs == {<<p, True>> : p \in pre}
           new == [c \in Class |-> c]
           merged == MergeAll(new, pairs)
           all == {e.left, e.right} \union pre \union (IF pre = {} THEN {} ELSE {True})
           there == UNION {AddExpr[c] : c \in all} \union UNION {EqTrue(p) : p \in pre}
<1>1. /\ pre \subseteq Class /\ pairs \in SUBSET (Class \X Class)
      /\ \A w : Assumed(e, w) => \A p \in pairs : w[p[1]] = w[p[2]]
  <2>1. pre \subseteq Class /\ True \in Class
    BY EquationsAssumption
  <2>2. \A w : Assumed(e, w) => \A p \in pairs : w[p[1]] = w[p[2]]
    BY DEF Assumed, ToSet
  <2> QED BY <2>1, <2>2
<1>2. new \in Graph
  <2>1. \A x \in Class : x <= x
    BY ClassAssumption DEF Class
  <2> QED BY <2>1, GraphIs
<1>3. ASSUME NEW w \in Worlds, Assumed(e, w) PROVE Extends(w, Rebuilt[merged])
  <2>1. w \in Congruent /\ w \in Graph /\ Extends(w, new)
    BY WorldsAssumption DEF Congruent, Extends
  <2>2. merged \in Graph /\ Extends(w, merged)
    <3> HIDE DEF new, pairs
    <3> QED BY <1>1, <1>2, <1>3, <2>1, MergeAllIs
  <2> QED BY <2>1, <2>2, RebuiltIs
<1>4. AddExpr[e.left] \union AddExpr[e.right] \subseteq there
  OBVIOUS
<1>5. CreateGraph(e).graph = Rebuilt[merged] /\ CreateGraph(e).present = there
  BY DEF CreateGraph
<1> QED BY <1>3, <1>4, <1>5

\* What is answered follows from the rules, and is what the run has merged.
LEMMA AnswerIs ==
  ASSUME CheckInv, NEW i \in DOMAIN equation,
         NEW yes \in IF adapter = "veg" THEN VegEquivs(graph, present, equation[i])
                     ELSE ColoredEquivs(graph, present, equation[i])
  PROVE  LET e == equation[i] IN
         /\ yes \in BOOLEAN
         /\ yes => \A w \in Worlds : Assumed(e, w) => w[e.left] = w[e.right]
         /\ adapter = "colored" \/ Rebuilt[graph] = graph
              => yes = (Rebuilt[graph][e.left] = Rebuilt[graph][e.right])
<1> DEFINE e == equation[i]
           g == IF adapter = "veg" THEN graph ELSE Rebuilt[graph]
           look == LookupExpr(g, present)
<1>1. /\ e \in Equations /\ e.left \in Class /\ e.right \in Class
      /\ adapter \in {"veg", "colored"}
      /\ graph \in Graph /\ present \in SUBSET Class
      /\ AddExpr[e.left] \subseteq present /\ AddExpr[e.right] \subseteq present
  <2>1. e \in Equations
    BY DEF CheckInv
  <2> QED BY <2>1, EquationIs DEF CheckInv, TypeInv, TypeOK, SidesPresent
<1>2. g \in Graph /\ \A w \in Worlds : Assumed(e, w) => w \in Congruent /\ Extends(w, g)
  BY <1>1, RebuiltIs, WorldsAssumption DEF CheckInv, GraphRight
<1>3. /\ yes \in BOOLEAN
      /\ yes => \E x \in look[e.left] : x # <<>> /\ x \in look[e.right]
  <2>1. CASE adapter = "veg"
    <3>1. yes \in {x # <<>> /\ x = y : x \in look[e.left], y \in look[e.right]}
      BY <2>1 DEF VegEquivs
    <3> HIDE DEF look
    <3>2. PICK x \in look[e.left], y \in look[e.right] : yes = (x # <<>> /\ x = y)
      BY <3>1
    <3> QED BY <3>2
  <2>2. CASE adapter # "veg"
    BY <2>2 DEF ColoredEquivs
  <2> QED BY <2>1, <2>2
<1>4. ASSUME yes, NEW w \in Worlds, Assumed(e, w) PROVE w[e.left] = w[e.right]
  <2>1. PICK x \in look[e.left] : x # <<>> /\ x \in look[e.right]
    BY <1>3, <1>4
  <2>2. w[x[1]] = w[e.left] /\ w[x[1]] = w[e.right]
    <3> HIDE DEF g
    <3> QED BY <1>1, <1>2, <1>4, <2>1, LookedUpRight
  <2> QED BY <2>2
<1>5. ASSUME adapter = "colored" \/ Rebuilt[graph] = graph
      PROVE  yes = (Rebuilt[graph][e.left] = Rebuilt[graph][e.right])
  <2>1. g = Rebuilt[graph] /\ Rebuilt[g] = g
    BY <1>1, <1>5, RebuiltIs, RebuiltMonotone, ExtendsOrder
  <2>2. look[e.left] = {<<g[e.left]>>} /\ look[e.right] = {<<g[e.right]>>}
    <3> HIDE DEF g
    <3> QED BY <1>1, <1>2, <2>1, LookedUpAll
  <2>3. yes = (<<g[e.left]>> = <<g[e.right]>>)
    <3>1. CASE adapter = "veg"
      <4>1. yes \in {x # <<>> /\ x = y : x \in look[e.left], y \in look[e.right]}
        BY <3>1 DEF VegEquivs
      <4> HIDE DEF look, g
      <4> QED BY <2>2, <4>1
    <3>2. CASE adapter # "veg"
      <4>1. yes = \E x \in look[e.left], y \in look[e.right] : x # <<>> /\ x = y
        BY <3>2 DEF ColoredEquivs
      <4> HIDE DEF look, g
      <4> QED BY <2>2, <4>1
    <3> QED BY <3>1, <3>2
  <2>4. (<<g[e.left]>> = <<g[e.right]>>) = (g[e.left] = g[e.right])
    OBVIOUS
  <2> QED BY <2>1, <2>3, <2>4
<1> QED BY <1>3, <1>4, <1>5

\* A graph made for a check, or any other that run is called with.
LEMMA InitCheckInv == InitChecks => CheckInv
<1> SUFFICES ASSUME InitChecks PROVE CheckInv
  OBVIOUS
<1>1. TypeInv /\ MatchesRight
  BY InitTypeInv, InitMatchesRight DEF InitChecks
<1>2. equation \in {<<e>> : e \in Equations} \union {<<>>} /\ answer = <<>>
      /\ adapter \in {"veg", "colored"}
  BY DEF InitChecks
<1>3. ASSUME NEW i \in DOMAIN equation
      PROVE  /\ equation[i] \in Equations
             /\ CreateGraph(equation[i]).graph = graph
             /\ CreateGraph(equation[i]).present = present
  <2>1. equation[i] \in Equations
    BY <1>2
  <2>2. CreateGraph(equation[i]) = [graph |-> graph, present |-> present]
    BY DEF InitChecks
  <2> QED BY <2>1, <2>2
<1>4. GraphRight /\ SidesPresent
  BY <1>3, CreateGraphIs DEF GraphRight, SidesPresent
<1>5. EqualFollows /\ MergedIsFound
  BY <1>2 DEF EqualFollows, MergedIsFound
<1> QED BY <1>1, <1>2, <1>4, <1>5 DEF CheckInv

\* The run keeps that the graph is right and has the nodes, and the answer is
\* given when it is over.
LEMMA NextCheckInv == CheckInv /\ [NextChecks]_<<vars, check_vars>> => CheckInv'
<1> SUFFICES ASSUME CheckInv, [NextChecks]_<<vars, check_vars>> PROVE CheckInv'
  OBVIOUS
<1>1. TypeInv /\ MatchesRight /\ [Next]_vars
  BY DEF CheckInv, NextChecks, RunRules, CheckEquality
<1>2. TypeInv' /\ MatchesRight'
  BY <1>1, NextTypeInv, NextMatchesRight
<1>3. CASE UNCHANGED check_vars
  <2>1. UNCHANGED <<equation, adapter, answer>>
    BY <1>3 DEF check_vars
  <2>2. graph \in Graph /\ \A w \in Worlds : Extends(w, graph) => Extends(w, graph')
    BY <1>1, NextMerges DEF TypeInv, TypeOK
  <2>3. present \subseteq present'
    BY <1>1 DEF Next, vars, Returned, Saturated, LimitReached, TimeOutAtHead, BeginIteration,
                SearchRule, BeginApplying, EndIteration, TimeOut, ApplyRule, Stop
  <2>4. GraphRight' /\ SidesPresent'
    BY <2>1, <2>2, <2>3 DEF CheckInv, GraphRight, SidesPresent, Assumed, Extends
  <2>5. pc = "done" => graph' = graph /\ pc' = pc
    BY <1>1 DEF Next, vars, Returned, Saturated, LimitReached, TimeOutAtHead, BeginIteration,
                SearchRule, BeginApplying, EndIteration, TimeOut, ApplyRule, Stop
  <2>6. EqualFollows'
    BY <2>1 DEF CheckInv, EqualFollows
  <2>7. MergedIsFound'
    <3>1. CASE answer = <<>>
      BY <2>1, <3>1 DEF MergedIsFound
    <3>2. CASE answer # <<>>
      BY <2>1, <2>5, <3>2 DEF CheckInv, MergedIsFound
    <3> QED BY <3>1, <3>2
  <2> QED BY <1>2, <2>1, <2>4, <2>5, <2>6, <2>7 DEF CheckInv
<1>4. CASE CheckEquality
  <2>1. PICK i \in DOMAIN equation :
          \E yes \in IF adapter = "veg" THEN VegEquivs(graph, present, equation[i])
                     ELSE ColoredEquivs(graph, present, equation[i]) : answer' = <<yes>>
    BY <1>4 DEF CheckEquality
  <2>2. PICK yes \in IF adapter = "veg" THEN VegEquivs(graph, present, equation[i])
                     ELSE ColoredEquivs(graph, present, equation[i]) : answer' = <<yes>>
    BY <2>1
  <2>3. pc = "done" /\ UNCHANGED <<graph, present, pc, equation, adapter>>
    BY <1>4 DEF CheckEquality, vars
  <2>4. equation[i] = equation[1]
    BY DEF CheckInv
  <2> DEFINE e == equation[1]
  <2>5. /\ yes \in BOOLEAN
        /\ yes => \A w \in Worlds : Assumed(e, w) => w[e.left] = w[e.right]
        /\ adapter = "colored" \/ Rebuilt[graph] = graph
             => yes = (Rebuilt[graph][e.left] = Rebuilt[graph][e.right])
    BY <2>2, <2>4, AnswerIs
  <2>6. GraphRight' /\ SidesPresent'
    BY <2>3 DEF CheckInv, GraphRight, SidesPresent, Assumed
  <2>7. DOMAIN answer' = {1} /\ answer'[1] = yes
    BY <2>2
  <2>8. EqualFollows'
    BY <2>3, <2>5, <2>7 DEF EqualFollows, Assumed
  <2>9. MergedIsFound'
    BY <2>3, <2>5, <2>7 DEF MergedIsFound
  <2> QED BY <1>2, <2>2, <2>3, <2>5, <2>6, <2>8, <2>9 DEF CheckInv
<1> QED BY <1>3, <1>4 DEF NextChecks, RunRules

\* The check of an equation contains a run of the rules: what is proved of the
\* runs above is so when they are part of a check (thesy.rs 440-445).
THEOREM ChecksAreRuns == SpecChecks => Spec
<1>1. InitChecks => Init
  BY DEF InitChecks
<1>2. [NextChecks]_<<vars, check_vars>> => [Next]_vars
  BY DEF NextChecks, RunRules, CheckEquality
<1> QED BY <1>1, <1>2, PTL DEF SpecChecks, Spec

\* An equation is found equal only if it follows from the rules wherever its
\* precondition is true, whatever limit stopped the run and whether or not the
\* graph it left is rebuilt (thesy.rs 440-445, adapter.rs 664-695, 1415-1450).
THEOREM AnswersFollow == SpecChecks => []EqualFollows
<1>1. CheckInv => EqualFollows
  BY DEF CheckInv
<1> QED BY <1>1, InitCheckInv, NextCheckInv, PTL DEF SpecChecks

\* What the run merged is found, whatever ids the nodes are filed under, if the
\* graph is rebuilt or the adapter rebuilds it.
THEOREM AnswersComplete == SpecChecks => []MergedIsFound
<1>1. CheckInv => MergedIsFound
  BY DEF CheckInv
<1> QED BY <1>1, InitCheckInv, NextCheckInv, PTL DEF SpecChecks

=============================================================================
