----------------------------- MODULE Extraction -----------------------------
(***************************************************************************)
(* Extraction of one term of each class (costs.rs, the extractors of       *)
(* adapter.rs) and the pairs of a collection (choose, tools.rs).           *)
(*                                                                         *)
(* A graph comes as a function from its classes to the sequence of their   *)
(* nodes: records [op, args] with classes for arguments.  What is          *)
(* extracted is a tree of such records.                                    *)
(***************************************************************************)
EXTENDS Naturals, FiniteSets, SequencesExt, FiniteSetsExt

CONSTANTS
  Placeholders,  \* the operators that start with ts_ph
  EndsWithOne    \* the operators whose name ends with 1

\* A set in some order, as hash maps list it.
Listed(S) == FoldSet(LAMBDA x, s : Append(s, x), <<>>, S)

(***************************************************************************)
(* RepOrder.                                                               *)
(***************************************************************************)
\* The cost of a node, from the costs of its arguments.
Cost(op, costs) ==
  [vars  |-> FlattenSeq([i \in DOMAIN costs |-> costs[i].vars])
             \o (IF op \in Placeholders THEN <<op>> ELSE <<>>),
   depth |-> Max({0} \cup {costs[i].depth : i \in DOMAIN costs}) + 1,
   size  |-> FoldLeft(LAMBDA n, c : n + c.size, 1, costs)]

CountPh1(vars) == Len(SelectSeq(vars, LAMBDA v : v \in EndsWithOne))

\* compare_vars is Less.
FewerVars(a, b) ==
  LET m == Cardinality(ToSet(a.vars))
      n == Cardinality(ToSet(b.vars))
  IN m < n \/ (m = n /\ CountPh1(a.vars) < CountPh1(b.vars))

\* Faulty variant of Less: fewer variables are less.
LessIfFewer(a, b) == a.size < b.size \/ (a.size = b.size /\ FewerVars(a, b))

\* partial_cmp is Less: of two terms of one size, that with more variables.
Less(a, b) == a.size < b.size \/ (a.size = b.size /\ FewerVars(b, a))

LessPair(p, q) == Less(p[1], q[1]) \/ (~Less(q[1], p[1]) /\ Less(p[2], q[2]))

(***************************************************************************)
(* VegExtractor: the extractor of the versioned and the cloning adapters.  *)
(***************************************************************************)
RECURSIVE Ends(_, _, _), Ecost(_, _), BuildRecExpr(_, _)

\* ecost calls itself for the arguments of each node of a class, and does not
\* return if it comes back to a class it was called for.
Ends(enodes, c, path) ==
  /\ c \notin path
  /\ \A i \in DOMAIN enodes[c] : \A j \in DOMAIN enodes[c][i].args :
       Ends(enodes, enodes[c][i].args[j], path \cup {c})

\* The node of class c that is least, the first of them, with its cost.
Ecost(enodes, c) ==
  LET At(n) == [node |-> n, cost |-> Cost(n.op, [j \in DOMAIN n.args |-> Ecost(enodes, n.args[j]).cost])]
      Better(best, n) == IF Less(At(n).cost, best.cost) THEN At(n) ELSE best
  IN FoldLeft(Better, At(Head(enodes[c])), Tail(enodes[c]))

\* best is the cache: the node chosen for each class, and its cost.
BuildRecExpr(best, c) ==
  [best[c].node EXCEPT !.args = [j \in DOMAIN @ |-> BuildRecExpr(best, @[j])]]

VegFindBest(enodes, c) ==
  LET cost_cache == [d \in DOMAIN enodes |-> Ecost(enodes, d)]
  IN [cost |-> cost_cache[c].cost, term |-> BuildRecExpr(cost_cache, c)]

(***************************************************************************)
(* Extractor of the egg library, which the colored adapter uses with the   *)
(* same costs: the choices are improved until they do not change.          *)
(***************************************************************************)
Improved(enodes, best, c) ==
  LET known == SelectSeq(enodes[c], LAMBDA n : ToSet(n.args) \subseteq DOMAIN best)
      At(n) == [node |-> n, cost |-> Cost(n.op, [j \in DOMAIN n.args |-> best[n.args[j]].cost])]
      Better(b, n) == IF c \notin DOMAIN b \/ Less(At(n).cost, b[c].cost)
                      THEN [d \in DOMAIN b \cup {c} |-> IF d = c THEN At(n) ELSE b[d]] ELSE b
  IN FoldLeft(Better, best, known)

RECURSIVE FindCosts(_, _)
FindCosts(enodes, best) ==
  LET Improve(b, c) == Improved(enodes, b, c)
      next == FoldLeft(Improve, best, Listed(DOMAIN enodes))
  IN IF next = best THEN best ELSE FindCosts(enodes, next)

EggFindBest(enodes, c) ==
  LET best == FindCosts(enodes, <<>>)
  IN [cost |-> best[c].cost, term |-> BuildRecExpr(best, c)]

(***************************************************************************)
(* choose.                                                                 *)
(***************************************************************************)
RECURSIVE Choose(_, _)

\* The ways to choose size elements of vec.
Choose(vec, size) ==
  IF size = 1 THEN [i \in DOMAIN vec |-> <<vec[i]>>]
  ELSE IF size = 0 \/ size > Len(vec) THEN <<>>
  ELSE FlattenSeq([i \in DOMAIN vec |->
         LET rest == Choose(SubSeq(vec, i + 1, Len(vec)), size - 1)
         IN [j \in DOMAIN rest |-> Append(rest[j], vec[i])]])
=============================================================================
