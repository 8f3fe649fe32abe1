---------------------------- MODULE MCSearchers ----------------------------
(***************************************************************************)
(* The searches of Searchers for TLC: two classes, patterns of one or two  *)
(* of the variables x, y, z, and every way they can match in a few places. *)
(***************************************************************************)
EXTENDS Searchers, FiniteSetsExt

MCClasses == {1, 2}
MCVars == {"x", "y", "z"}

\* A pattern of the variables vs with at most n matches.
Patterns(vs, n) ==
  {Found(vs, [c \in Classes |-> {m[2] : m \in {k \in ms : k[1] = c}}]) :
     ms \in UNION {kSubset(k, Classes \X Substs(ToSet(vs))) : k \in 0..n}}
X  == Patterns(<<"x">>, 2)
Y  == Patterns(<<"y">>, 2)
XY == Patterns(<<"x", "y">>, 2)
YZ == Patterns(<<"y", "z">>, 1)
\* A pattern that is a variable matches each class, as itself.
Root == {Found(<<"z">>, [c \in Classes |-> {[v \in {"z"} |-> c]}])}

\* true may not be there.
Truths == {{}, {1}, {2}}
Not(v, classes) == [root |-> v, classes |-> classes, existence |-> FALSE]
Is(v, classes) == [root |-> v, classes |-> classes, existence |-> TRUE]
Conditions == {<<>>, <<Not("x", {1})>>, <<Is("y", {2})>>,
               <<Not("x", {1}), Not("z", {2})>>}

Query(kind, patterns, truths, conds) ==
  [kind : {kind}, patterns : patterns, truth : truths, conds : conds]
None == {<<>>}

MCQueries ==
  Query("rule", {<<p>> : p \in XY}, {{}}, Conditions)
  \cup Query("rule", XY \X (Y \cup YZ), Truths, Conditions)
  \cup Query("hypothesis", XY \X X, {{}}, None)
  \cup Query("hypothesis", XY \X X \X Y, Truths, None)
  \cup Query("multieq", XY \X Root, {{}}, None)
  \cup Query("multieq", X \X XY \X Y, {{}}, None)
  \cup Query("multidiff", XY \X YZ, {{}}, None)
  \cup Query("multidiff", XY \X X \X Y, {{}}, None)
  \cup Query("multidiff", {<<p, q, r>> : p \in X, q \in Y, r \in XY}, {{}}, None)
=============================================================================
