-------------------------------- MODULE Types --------------------------------
(***************************************************************************)
(* Expressions as egg's RecExpr keeps them, and types (lang.rs).  A        *)
(* RecExpr is a sequence of nodes whose children are indices of earlier    *)
(* nodes; the last node is the root.                                       *)
(*                                                                         *)
(* A type has a name.  The name of a function type is in Arrows; other     *)
(* names stand for types without parameters.                               *)
(***************************************************************************)
EXTENDS Naturals, SequencesExt

CONSTANT Arrows  \* function types: the types of the parameters, then of the result

ASSUME ArrowsAssumption ==
  \A t \in DOMAIN Arrows :
    /\ Arrows[t] \in Seq(ToSet(Arrows[t]))
    /\ Len(Arrows[t]) > 1 /\ ToSet(Arrows[t]) \cap DOMAIN Arrows = {}

Node(op, children) == [op |-> op, children |-> children]
NodesUpTo(exprs, i) == Len(FlattenSeq(SubSeq(exprs, 1, i)))

\* into_tree.
TreeOf(e) ==
  LET tree[i \in DOMAIN e] ==
        [op |-> e[i].op, args |-> [j \in DOMAIN e[i].children |-> tree[e[i].children[j]]]]
  IN tree[Len(e)]

\* Faulty variant of GetType: the result is not counted among the children.
GetTypeOfParams(params, ret) ==
  IF params = <<>> THEN ret
  ELSE Append(FlattenSeq(Append(params, ret)),
              Node("->", [i \in DOMAIN params |-> NodesUpTo(params, i)]))

\* get_type.  The nodes of the types follow each other, with the children
\* they had: these are right in the first type, and wrong in later ones that
\* have children.
GetType(params, ret) ==
  LET types == Append(params, ret)
  IN IF params = <<>> THEN ret
     ELSE Append(FlattenSeq(types), Node("->", [i \in DOMAIN types |-> NodesUpTo(types, i)]))

\* The expression of a type (as_exp for a datatype).
Named(t) == <<Node(t, <<>>)>>
Expr(t) ==
  IF t \in DOMAIN Arrows
  THEN LET types == [i \in DOMAIN Arrows[t] |-> Named(Arrows[t][i])]
       IN GetType(Front(types), Last(types))
  ELSE Named(t)

Function(name, params, ret) == [name |-> name, params |-> params, ret |-> ret]
TypeOf(f) == TreeOf(GetType([i \in DOMAIN f.params |-> Expr(f.params[i])], Expr(f.ret)))

\* The type a function is declared with, as a tree.
Leafs(types) == [i \in DOMAIN types |-> [op |-> types[i], args |-> <<>>]]
DeclaredTree(t) ==
  IF t \in DOMAIN Arrows THEN [op |-> "->", args |-> Leafs(Arrows[t])]
  ELSE [op |-> t, args |-> <<>>]
DeclaredType(f) ==
  IF f.params = <<>> THEN DeclaredTree(f.ret)
  ELSE LET types == Append(f.params, f.ret)
       IN [op |-> "->", args |-> [i \in DOMAIN types |-> DeclaredTree(types[i])]]
=============================================================================
