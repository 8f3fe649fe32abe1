------------------------------ MODULE Rewriting ------------------------------
(***************************************************************************)
(* What a run of the rules on an e-graph promises those who call it (run   *)
(* in src/src/adapter.rs): classes are merged, never separated, and only   *)
(* classes that are equal in every world where what the graph had before   *)
(* is right; then the run stops, wherever a limit makes it.                *)
(***************************************************************************)
EXTENDS EGraph

CONSTANTS
  EntryGraphs,  \* the graphs run is called with
  Worlds        \* what may be true of the classes: the models of the rules

VARIABLES
  graph,
  running

Consequence(h, g) ==
  /\ Extends(h, g)
  /\ \A w \in Worlds : Extends(w, g) => Extends(w, h)

Init == graph \in EntryGraphs /\ running = TRUE

Step ==
  /\ running
  /\ running' \in BOOLEAN
  /\ graph' \in [Class -> Class] /\ Consequence(graph', graph)

Spec == Init /\ [][Step]_<<graph, running>>
=============================================================================
