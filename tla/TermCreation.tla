---------------------------- MODULE TermCreation ----------------------------
(***************************************************************************)
(* The creation of terms (thesy.rs, increase_depth).  Each depth applies   *)
(* every function to all typed classes.  For each class that is created    *)
(* example_ids keeps the classes of its values: the terms one gets with    *)
(* the examples of the datatype in place of the induction variable.  Terms *)
(* with the same values are conjectured to be equal (get_conjectures).     *)
(*                                                                         *)
(* Between the depths equality saturation merges classes.  Here it merges  *)
(* any that are equal in the algebra of the theory; the graph it leaves is *)
(* rebuilt unless the time is up (see Saturation).                         *)
(*                                                                         *)
(* A term is a record [op, args].  A class is named by the term that was   *)
(* created first in it, which is what the union of two classes keeps.      *)
(* There is one datatype, and all functions are on it: what increase_depth *)
(* does for several it does for each alone.                                *)
(***************************************************************************)
EXTENDS Naturals, FiniteSets, SequencesExt, FiniteSetsExt, Functions

CONSTANTS
  Theories,   \* each: the constants, the induction variable among them, the
              \* functions with their arity, the constructors, the algebra,
              \* the depth to which run explores it, and whether to consider
              \* every order in which the matches can be found
  IndVar,     \* the placeholder the induction is on
  ExampleDepth,
  TimeLimit   \* whether saturation may run out of time

ASSUME TermAssumption ==
  /\ ExampleDepth \in Nat /\ TimeLimit \in BOOLEAN
  /\ \A t \in Theories : t.depth \in Nat

\* There is a base to start the examples with (Examples::new panics otherwise),
\* and what is applied takes arguments.
ASSUME SignatureAssumption == \A t \in Theories :
  /\ t.consts \in Seq(ToSet(t.consts)) /\ IndVar \in ToSet(t.consts)
  /\ t.base \in Seq(ToSet(t.base)) /\ t.base # <<>>
  /\ t.rec \in Seq(t.functions)
  /\ \A f \in t.functions : f.arity \in Nat \ {0}

\* In the algebra only placeholders have no value.
ASSUME AlgebraAssumption == \A t \in Theories :
  /\ IndVar \notin DOMAIN t.algebra /\ ToSet(t.base) \subseteq DOMAIN t.algebra
  /\ \A c \in DOMAIN t.algebra \cap (ToSet(t.consts) \cup ToSet(t.base)) : t.algebra[c] \in t.values
  /\ \A f \in t.functions : t.algebra[f.name] \in [[1..f.arity -> t.values] -> t.values]

VARIABLES
  theory,
  terms,        \* the terms of the graph in the order they were created
  graph,        \* find: the class of each term
  typed,        \* the classes with a node (typed class type)
  example_ids,  \* the classes of the values of each class, in the order of
                \* the examples
  pending,      \* the matches increase_depth has yet to create terms for
  depth, phase  \* "rewriting", "creating", or "panicked"
vars == <<theory, terms, graph, typed, example_ids, pending, depth, phase>>

(***************************************************************************)
(* Terms and the graph.                                                    *)
(***************************************************************************)
Term(op, args) == [op |-> op, args |-> args]
Const(c) == Term(c, <<>>)
Index(ts, t) == CHOOSE i \in DOMAIN ts : ts[i] = t
Older(ts, a, b) == IF Index(ts, a) <= Index(ts, b) THEN a ELSE b

Canonical(g, t) == Term(t.op, [i \in DOMAIN t.args |-> g[t.args[i]]])

\* union
Merge(ts, g, a, b) ==
  [t \in DOMAIN g |-> IF g[t] \in {g[a], g[b]} THEN Older(ts, g[a], g[b]) ELSE g[t]]

\* rebuild: merge classes until no two have an equal node.
Split(g) == {p \in (DOMAIN g) \X (DOMAIN g) :
               Canonical(g, p[1]) = Canonical(g, p[2]) /\ g[p[1]] # g[p[2]]}
Repaired(ts, g) ==
  IF Split(g) = {} THEN g
  ELSE LET p == CHOOSE p \in Split(g) : TRUE IN Merge(ts, g, p[1], p[2])
Rebuild(ts, g) ==
  LET after[n \in 0..Len(ts)] == IF n = 0 THEN g ELSE Repaired(ts, after[n - 1])
  IN after[Len(ts)]

\* add: the class of a node, which is new unless the graph has the node.
Same(g, node) == {t \in DOMAIN g : Canonical(g, t) = Canonical(g, node)}
Added(ts, g, node) ==
  IF Same(g, node) # {} THEN [terms |-> ts, graph |-> g, id |-> g[CHOOSE t \in Same(g, node) : TRUE]]
  ELSE LET new == Canonical(g, node)
       IN [terms |-> Append(ts, new), id |-> new,
           graph |-> [t \in DOMAIN g \cup {new} |-> IF t = new THEN new ELSE g[t]]]

\* The nodes are added one after the other.
AddedAll(ts, g, nodes) ==
  LET after[n \in 0..Len(nodes)] ==
        IF n = 0 THEN [terms |-> ts, graph |-> g, ids |-> <<>>]
        ELSE LET s == after[n - 1]
                 a == Added(s.terms, s.graph, nodes[n])
             IN [terms |-> a.terms, graph |-> a.graph, ids |-> Append(s.ids, a.id)]
  IN after[Len(nodes)]

(***************************************************************************)
(* Examples::new: the constructors that do not take a value of the         *)
(* datatype, and then those that do, on the last example there is.  What   *)
(* else they take is a fresh variable, which this leaves out.              *)
(***************************************************************************)
On(f, e) == Term(f.name, [i \in 1..f.arity |-> e])
Examples(t) ==
  LET upTo[n \in 0..ExampleDepth] ==
        IF n = 0 THEN [i \in DOMAIN t.base |-> Const(t.base[i])]
        ELSE LET es == upTo[n - 1] IN es \o [i \in DOMAIN t.rec |-> On(t.rec[i], Last(es))]
  IN upTo[ExampleDepth]

(***************************************************************************)
(* The initial graph: create_graph_example_ids.                            *)
(***************************************************************************)
Init ==
  /\ theory \in Theories
  /\ LET consts == [i \in DOMAIN theory.consts |-> Const(theory.consts[i])]
         \* the subterms of an example come before it
         all == AddedAll(consts, [t \in ToSet(consts) |-> t], Examples(theory))
     IN /\ terms = all.terms /\ graph = all.graph
        /\ typed = ToSet(consts)
        /\ example_ids = [c \in ToSet(consts) |->
             IF c = Const(IndVar) THEN all.ids ELSE [i \in DOMAIN all.ids |-> c]]
  /\ pending = {} /\ depth = 0 /\ phase = "rewriting"

(***************************************************************************)
(* Equality saturation.                                                    *)
(***************************************************************************)
\* The values that the terms in T, which have their arguments in T, have in the
\* algebra of th, under the assignment env.
Val(T, th, env) ==
  LET val[t \in T] ==
        IF t.args = <<>> THEN IF t.op \in DOMAIN env THEN env[t.op] ELSE th.algebra[t.op]
        ELSE th.algebra[t.op][[i \in DOMAIN t.args |-> val[t.args[i]]]]
  IN val

Envs(th) == [{c \in ToSet(th.consts) : c \notin DOMAIN th.algebra} -> th.values]
Equal(T, th, a, b) == \A env \in Envs(th) : Val(T, th, env)[a] = Val(T, th, env)[b]

\* Terms that are valid equalities are united, in any order.
Unite ==
  /\ phase = "rewriting"
  /\ \E a, b \in DOMAIN graph :
       /\ graph[a] # graph[b] /\ Equal(DOMAIN graph, theory, a, b)
       /\ graph' = Merge(terms, graph, a, b)
  /\ UNCHANGED <<theory, terms, typed, example_ids, pending, depth, phase>>

(***************************************************************************)
(* increase_depth.                                                         *)
(***************************************************************************)
\* Ids are listed under their keys in g: Of(key).  Of keys that have become one,
\* one keeps its values.
OnePerKey(of) ==
  LET sure == {key \in DOMAIN of : Cardinality(of[key]) = 1}
      clash == DOMAIN of \ sure
  IN {[key \in DOMAIN of |-> IF key \in sure THEN CHOOSE v \in of[key] : TRUE ELSE kept[key]] :
        kept \in {f \in [clash -> UNION {of[key] : key \in clash}] :
                    \A key \in clash : f[key] \in of[key]}}

\* Faulty variant of FixedIds: only the keys are brought up to date.
FixedKeys(ids, g) ==
  OnePerKey([key \in {g[k] : k \in DOMAIN ids} |-> {ids[k] : k \in {j \in DOMAIN ids : g[j] = key}}])

\* fix_example_ids.
FixedIds(ids, g) ==
  LET Found(k) == [i \in DOMAIN ids[k] |-> g[ids[k][i]]]
  IN OnePerKey([key \in {g[k] : k \in DOMAIN ids} |->
                  {Found(k) : k \in {j \in DOMAIN ids : g[j] = key}}])

\* Faulty variant of Matches: a function is applied to two classes at most once.
MatchesOrdered(th, g) ==
  UNION {{Term(f.name, args) : args \in {a \in [1..f.arity -> {g[t] : t \in typed}] :
                                           \A i \in 1..(f.arity - 1) : a[i] # a[i + 1]}} :
           f \in th.functions}

\* What the searchers of create_sygue_serchers find: each argument is typed.
Matches(th, g) ==
  UNION {{Term(f.name, args) : args \in [1..f.arity -> {g[t] : t \in typed}]} :
           f \in th.functions}

\* What the saturation before, if any, leaves: it is rebuilt, or time is up.
Left == {Rebuild(terms, graph)} \cup (IF TimeLimit THEN {graph} ELSE {})

\* What get_conjectures does to the keys, at any depth (see Conjectures).
FixKeys ==
  /\ phase = "rewriting"
  /\ graph' \in Left /\ example_ids' \in FixedIds(example_ids, graph')
  /\ UNCHANGED <<theory, terms, typed, pending, depth, phase>>

\* The keys are updated, the graph is rebuilt, and the matches are found.
BeginDepth ==
  /\ phase = "rewriting" /\ depth < theory.depth
  /\ \E left \in Left :
       /\ example_ids' \in FixedIds(example_ids, left)
       /\ graph' = Rebuild(terms, left)
  /\ pending' = Matches(theory, graph')
  /\ phase' = "creating"
  /\ UNCHANGED <<theory, terms, typed, depth>>

\* Faulty variant of TranslateEdge: all but the first argument stay.
TranslateFirst(edge, i) ==
  Term(edge.op, [j \in DOMAIN edge.args |->
                   IF j = 1 THEN example_ids[edge.args[j]][i] ELSE edge.args[j]])

TranslateEdge(edge, i) ==
  Term(edge.op, [j \in DOMAIN edge.args |-> example_ids[edge.args[j]][i]])

Translatable(edge) == \A j \in DOMAIN edge.args : edge.args[j] \in DOMAIN example_ids

\* Faulty variant of CreateTerm: the term itself is among the values.
CreateTermAmongValues(edge) ==
  LET n == Len(example_ids[CHOOSE k \in DOMAIN example_ids : TRUE])
      all == AddedAll(terms, graph,
                      <<edge>> \o [i \in 1..n |-> TranslateEdge(edge, i)])
  IN /\ terms' = all.terms /\ graph' = all.graph
     /\ typed' = typed \cup {Head(all.ids)}
     /\ example_ids' = [k \in DOMAIN example_ids \cup {Head(all.ids)} |->
                          IF k = Head(all.ids) THEN all.ids ELSE example_ids[k]]

\* A term and its values are created for a match.
CreateTerm(edge) ==
  LET n == Len(example_ids[CHOOSE k \in DOMAIN example_ids : TRUE])
      all == AddedAll(terms, graph,
                      <<edge>> \o [i \in 1..n |-> TranslateEdge(edge, i)])
      key == Head(all.ids)
  IN /\ terms' = all.terms /\ graph' = all.graph
     /\ typed' = typed \cup {key}
     /\ example_ids' = [k \in DOMAIN example_ids \cup {key} |->
                          IF k = key THEN Tail(all.ids) ELSE example_ids[k]]

\* A match is taken up.  The values of an argument may be looked up under an
\* id that is not a key, which panics.
Create ==
  /\ phase = "creating"
  /\ \E edge \in pending :
       /\ theory.anyOrder \/ edge = CHOOSE e \in pending : TRUE
       /\ IF Translatable(edge)
          THEN /\ CreateTerm(edge)
               /\ pending' = pending \ {edge} /\ UNCHANGED phase
          ELSE /\ phase' = "panicked"
               /\ UNCHANGED <<terms, graph, typed, example_ids, pending>>
  /\ UNCHANGED <<theory, depth>>

EndDepth ==
  /\ phase = "creating" /\ pending = {}
  /\ graph' = Rebuild(terms, graph)
  /\ depth' = depth + 1 /\ phase' = "rewriting"
  /\ UNCHANGED <<theory, terms, typed, example_ids, pending>>

Next == Unite \/ FixKeys \/ BeginDepth \/ Create \/ EndDepth
Spec == Init /\ [][Next]_vars

(***************************************************************************)
(* Properties.                                                             *)
(***************************************************************************)
NumExamples == Len(Examples(theory))

\* The type invariant.  All classes have as many values as there are examples:
\* get_conjectures compares them as vectors, and increase_depth takes the
\* number of values from an arbitrary class.  A class whose values are looked
\* up is a key, unless a saturation has run out of time.
TypeOK ==
  /\ phase \in {"rewriting", "creating"} \cup (IF TimeLimit THEN {"panicked"} ELSE {})
  /\ depth \in 0..theory.depth
  /\ DOMAIN graph = ToSet(terms) /\ \A t \in DOMAIN graph : graph[graph[t]] = graph[t]
  /\ typed \cup DOMAIN example_ids \subseteq DOMAIN graph
  /\ \A k \in DOMAIN example_ids :
       Len(example_ids[k]) = NumExamples /\ ToSet(example_ids[k]) \subseteq DOMAIN graph

\* The values of a class are right: each is what any term of the class is for
\* that example, however the classes have been merged meanwhile.
ValuesAreInstances ==
  LET exs == Examples(theory)
      Value(env) == Val(DOMAIN graph, theory, env)
      At(env, i) == [env EXCEPT ![IndVar] = Value(env)[exs[i]]]
  IN \A k \in DOMAIN example_ids : \A i \in 1..NumExamples :
       \A t \in {u \in DOMAIN graph : graph[u] = graph[k]} : \A env \in Envs(theory) :
         Value(env)[example_ids[k][i]] = Value(At(env, i))[t]

\* A class found by the search is a key of example_ids when its values are
\* looked up ("First we need to update our keys as they might not be relevant
\* anymore", thesy.rs:317).
KeysAreRelevant == phase # "panicked"

EqualOnExamples(a, b) ==
  \A i \in 1..NumExamples :
    Equal(DOMAIN graph, theory, example_ids[a][i], example_ids[b][i])

\* The terms up to depth n, and the classes of the terms in T: one or none.
TermsTo(th, n) ==
  LET to[k \in 0..n] ==
        IF k = 0 THEN {Const(c) : c \in ToSet(th.consts)}
        ELSE LET ts == to[k - 1]
             IN ts \cup UNION {{Term(f.name, args) : args \in [1..f.arity -> ts]} : f \in th.functions}
  IN to[n]
Lookup(T, g) ==
  LET at[t \in T] ==
        {g[u] : u \in {v \in DOMAIN g :
           /\ v.op = t.op /\ DOMAIN v.args = DOMAIN t.args
           /\ \A i \in DOMAIN t.args : g[v.args[i]] \in at[t.args[i]]}}
  IN at

\* After depth n the graph has every term up to depth n, with a type and with
\* values, although only one term of each class is built upon.
AllTermsCreated ==
  phase = "rewriting" =>
    \A t \in TermsTo(theory, depth) : \E c \in Lookup(TermsTo(theory, depth), graph)[t] :
      /\ c \in {graph[k] : k \in typed}
      /\ c \in {graph[k] : k \in DOMAIN example_ids}
=============================================================================
