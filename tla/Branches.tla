------------------------------- MODULE Branches -------------------------------
(***************************************************************************)
(* The branches of the e-graph adapters (src/src/adapter.rs).              *)
(*                                                                         *)
(* The cloning adapters keep a graph per branch, and branchout copies the  *)
(* one that is checked out.  The versioned and the colored adapter keep    *)
(* one graph: branchout makes a version, or a color, below the one that is *)
(* checked out, and whatever is merged in a branch is merged in all the    *)
(* branches below it.  In each of them the branch made is below the branch *)
(* checked out, and not below the branch the caller has in mind.           *)
(***************************************************************************)
EXTENDS EGraph

CONSTANT Adapters  \* the adapters to consider

ASSUME AdaptersAssumption ==
  Adapters # {} /\ Adapters \subseteq {"cloning", "versioned", "colored"}

VARIABLES
  adapter,   \* the adapter in use
  home,      \* the branch the classes were created in, 0 if above branch 1
  branches,  \* what is merged in each branch: a graph each
  parent,    \* the branch each was branched out of, 0 for the first
  checkout   \* the branch checked out

fixed  == <<adapter, home>>
egraph == <<adapter, home, branches, parent, checkout>>

Shared == adapter # "cloning"

\* The branches below b, with b itself.
Below(b) ==
  {d \in DOMAIN branches :
     LET under[x \in DOMAIN branches] == x = b \/ (x > b /\ under[parent[x]])
     IN under[d]}

Current == branches[checkout]

\* EGraphView::classes: those of the branch checked out.  The colored adapter
\* lists only the classes that were created in this very branch.
Listed(b) == IF adapter = "colored" /\ home # b THEN {} ELSE Class

\* rebuild restores congruence in the branch checked out; the colored adapter
\* rebuilds the graph that all the branches are in.
RebuildOthers(bs) ==
  IF adapter = "colored" THEN [b \in DOMAIN bs |-> Rebuilt[bs[b]]] ELSE bs

\* The least graph with the merges of f and of g.
Join(f, g) == MergeAll(f, {<<x, g[x]>> : x \in Class})

InitBranches(g) ==
  /\ adapter \in Adapters
  /\ home \in {0, 1} /\ (adapter # "colored" => home = 1)
  /\ branches = <<g>> /\ parent = <<0>> /\ checkout = 1

\* Faulty variant of Branchout: it returns branches.len().
BranchoutPastTheEnd(g) ==
  /\ branches' = Append(RebuildOthers(branches), g)
  /\ parent' = Append(parent, checkout)
  /\ checkout' = Len(branches) + 2
  /\ UNCHANGED fixed

\* branchout and checkout of the branch made, in which g is what the rules
\* leave of the graph of the branch checked out before.
Branchout(g) ==
  /\ branches' = Append(RebuildOthers(branches), g)
  /\ parent' = Append(parent, checkout)
  /\ checkout' = Len(branches) + 1
  /\ UNCHANGED fixed

\* checkout of branch b, unions that leave g there, and rebuild: what is below
\* b sees the unions when the graph is shared.
CheckoutAndUnite(b, g) ==
  LET united == [d \in DOMAIN branches |->
                   IF d = b THEN g
                   ELSE IF Shared /\ d \in Below(b) THEN Join(branches[d], g)
                   ELSE branches[d]]
  IN /\ checkout' = b
     /\ branches' = RebuildOthers([united EXCEPT ![b] = Rebuilt[@]])
     /\ UNCHANGED <<adapter, home, parent>>
=============================================================================
