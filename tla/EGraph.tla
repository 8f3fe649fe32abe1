------------------------------- MODULE EGraph -------------------------------
(***************************************************************************)
(* An e-graph as the algorithms of src/src see it (src/src/adapter.rs,     *)
(* EGraphView and EGraph): find, union and rebuild.  The data structures   *)
(* are those of libraries outside the repository.                          *)
(*                                                                         *)
(* A class is named by the id it was created with, and a graph is `find':  *)
(* the function from each class to the least class it is merged with.      *)
(***************************************************************************)
EXTENDS Integers, Sequences, FiniteSets, SequencesExt, FiniteSetsExt

CONSTANTS
  NClasses,  \* the number of class ids
  Node       \* Node[c]: the node class c was created for, a record [op, args]

Class == 1..NClasses
Graph == {[x \in Class |-> Min({y \in Class : f[y] = f[x]})] : f \in [Class -> Class]}

ASSUME ClassAssumption == NClasses \in Nat \ {0}
ASSUME NodeAssumption ==
  /\ DOMAIN Node = Class
  /\ \A c \in Class : Node[c].args \in Seq(Class)

\* g has all the merges of f.
Extends(g, f) == \A x \in Class : g[f[x]] = g[x]

\* The graph of S that has the least merges.
Least(S) == CHOOSE f \in S : \A g \in S : Extends(g, f)

\* union: the class of a and the class of b become one.
Merge(g, a, b) ==
  [x \in Class |-> IF g[x] \in {g[a], g[b]} THEN Min({g[a], g[b]}) ELSE g[x]]

\* union of each pair of a set.
MergeAll(g, pairs) ==
  Least({h \in Graph : Extends(h, g) /\ \A p \in pairs : h[p[1]] = h[p[2]]})

\* The node of class c with its children replaced by their classes in g.
Canonical(g, c) ==
  [op |-> Node[c].op, args |-> [i \in DOMAIN Node[c].args |-> g[Node[c].args[i]]]]

\* The graphs that have no equal nodes in different classes.
Congruent == Graph \ {g \in Graph : \E x, y \in Class :
                        Canonical(g, x) = Canonical(g, y) /\ g[x] # g[y]}

\* rebuild: the least congruent graph with the merges of g.
Rebuilt == [g \in Graph |-> Least({h \in Congruent : Extends(h, g)})]
=============================================================================
