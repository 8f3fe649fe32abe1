------------------------------ MODULE Equations ------------------------------
(***************************************************************************)
(* Checking an equation with the rules alone (check_equality in thesy.rs): *)
(* a graph is made of its two sides and its precondition (create_graph in  *)
(* prover.rs), run rewrites it, and equivs looks both sides up in what run *)
(* leaves, which is not rebuilt if the time was up.                        *)
(*                                                                         *)
(* This is composed with Saturation, whose runs begin with the graphs made *)
(* here among others.  An expression is named by its class.                *)
(***************************************************************************)
EXTENDS Saturation

CONSTANTS
  Equations,  \* what is checked: records [left, right, precond], where precond
              \* is a sequence of at most one expression
  True        \* the class of the constant true

ASSUME EquationsAssumption ==
  /\ True \in Class
  /\ \A e \in Equations : /\ {e.left, e.right} \cup ToSet(e.precond) \subseteq Class
                          /\ Len(e.precond) <= 1
  /\ \A c \in Class : \A i \in DOMAIN Node[c].args : Node[c].args[i] < c

VARIABLES
  equation,  \* <<e>> if the run is part of the check of e, or <<>>
  adapter,   \* the e-graph that is used, "veg" or "colored"
  answer     \* what check_equality returned, <<>> before
check_vars == <<equation, adapter, answer>>

(***************************************************************************)
(* create_graph.                                                           *)
(***************************************************************************)
\* add_expr: the nodes of an expression.
AddExpr ==
  LET sub[c \in Class] == {c} \cup UNION {sub[Node[c].args[i]] : i \in DOMAIN Node[c].args}
  IN sub

\* The node (= p true), if it is one that is considered.
EqTrue(p) == {c \in Class : Node[c] = [op |-> "=", args |-> <<p, True>>]}

CreateGraph(e) ==
  LET pre == ToSet(e.precond)
      all == {e.left, e.right} \cup pre \cup (IF pre = {} THEN {} ELSE {True})
      new == [c \in Class |-> c]
  IN [graph |-> Rebuilt[MergeAll(new, {<<p, True>> : p \in pre})],
      present |-> UNION {AddExpr[c] : c \in all} \cup UNION {EqTrue(p) : p \in pre}]

(***************************************************************************)
(* equivs.                                                                 *)
(***************************************************************************)
\* get_class: an id under which a node is filed.  Where the graph is not
\* rebuilt, a node may be filed under the children it had and be missed.
GetClass(g, terms, node) ==
  LET ids == {c \in terms : Canonical(g, c) = node}
  IN {<<c>> : c \in ids}
     \cup (IF ids = {} \/ (Rebuilt[g] # g /\ node.args # <<>>) THEN {<<>>} ELSE {})

\* Faulty variant of Found: the id that a node is filed under is not updated.
FoundAsFiled(g, terms, node) == GetClass(g, terms, node)

\* What lookup_expr adds for a node.
Found(g, terms, node) == {[i \in DOMAIN c |-> g[c[i]]] : c \in GetClass(g, terms, node)}

\* lookup_expr: what each expression can be found as, <<id>> or <<>>.
LookupExpr(g, terms) ==
  LET look[c \in Class] ==
        LET args == Node[c].args
            Args == {as \in [DOMAIN args -> UNION {look[args[i]] : i \in DOMAIN args}] :
                       \A i \in DOMAIN args : as[i] \in look[args[i]]}
            For(as) == IF \E i \in DOMAIN as : as[i] = <<>> THEN {<<>>}
                       ELSE Found(g, terms, [op |-> Node[c].op,
                                             args |-> [i \in DOMAIN as |-> as[i][1]]])
        IN UNION {For(as) : as \in Args}
  IN look

\* Faulty variant of VegEquivs: two sides that are found are equal.
VegEquivsFound(g, terms, e) ==
  LET look == LookupExpr(g, terms)
  IN {x # <<>> /\ y # <<>> : x \in look[e.left], y \in look[e.right]}

VegEquivs(g, terms, e) ==
  LET look == LookupExpr(g, terms)
  IN {x # <<>> /\ x = y : x \in look[e.left], y \in look[e.right]}

\* The colored adapter rebuilds the graph, and searches it for the two sides.
ColoredEquivs(g, terms, e) ==
  LET look == LookupExpr(Rebuilt[g], terms)
  IN {\E x \in look[e.left], y \in look[e.right] : x # <<>> /\ x = y}

(***************************************************************************)
(* check_equality.                                                         *)
(***************************************************************************)
InitChecks ==
  /\ Init
  /\ equation \in {<<e>> : e \in Equations} \cup {<<>>}
  /\ \A i \in DOMAIN equation : CreateGraph(equation[i]) = [graph |-> graph, present |-> present]
  /\ adapter \in {"veg", "colored"} /\ answer = <<>>

RunRules == Next /\ UNCHANGED check_vars

\* The graph is dropped then.
CheckEquality ==
  /\ pc = "done" /\ answer = <<>>
  /\ \E i \in DOMAIN equation :
       \E yes \in IF adapter = "veg" THEN VegEquivs(graph, present, equation[i])
                  ELSE ColoredEquivs(graph, present, equation[i]) :
         answer' = <<yes>>
  /\ UNCHANGED <<vars, equation, adapter>>

NextChecks == RunRules \/ CheckEquality

SpecChecks == InitChecks /\ [][NextChecks]_<<vars, check_vars>> /\ WF_vars(Next)

(***************************************************************************)
(* Properties.                                                             *)
(***************************************************************************)
\* An equation is found equal only if it follows from the rules wherever its
\* precondition is true, whatever stopped the run, and so exploration filters
\* no conjecture that its rules do not give.
EqualFollows ==
  \A i \in DOMAIN answer : answer[i] =>
    LET e == equation[1]
    IN \A w \in Worlds : (\A j \in DOMAIN e.precond : w[e.precond[j]] = w[True])
         => w[e.left] = w[e.right]

\* And what the run has merged is found, by whatever ids it is filed under;
\* only a graph that its time limit left without rebuild may hide it, and that
\* not from the colored adapter.
MergedIsFound ==
  \A i \in DOMAIN answer :
    LET e == equation[1]
        rebuilt == Rebuilt[graph]
    IN adapter = "colored" \/ rebuilt = graph
         => answer[i] = (rebuilt[e.left] = rebuilt[e.right])
=============================================================================
