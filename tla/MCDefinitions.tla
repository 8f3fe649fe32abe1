--------------------------- MODULE MCDefinitions ---------------------------
(***************************************************************************)
(* Theories for Definitions: three files where main can include a and b,   *)
(* and a can include b, which is then read twice.  They declare one        *)
(* datatype in two ways, a function of two parameters, its rules, rules    *)
(* whose names collide, a goal, and every kind of line that goes wrong.    *)
(***************************************************************************)
EXTENDS Configuration

Inc(f) == [op |-> "include", file |-> f]
Data(name, params) ==
  [op |-> "datatype",
   def |-> [name |-> name, constructors |-> DOMAIN params, params |-> params]]
Fun(name, params, ret) ==
  [op |-> "declare-fun", def |-> [name |-> name, params |-> params, ret |-> ret]]
T(op, xs) == [op |-> op, args |-> xs]
Plus(x, y) == T("plus", <<x, y>>)
V == T("?var", <<>>)
RuleLine(op, name, lhs, rhs) ==
  [op |-> op, name |-> name, lhs |-> lhs, rhs |-> rhs,
   legal |-> TRUE, revLegal |-> TRUE, conds |-> FALSE]

D  == Data("nat", "zero" :> <<>> @@ "succ" :> <<"nat">>)
D1 == Data("nat", "zero" :> <<>>)
\* No constructor starts it.
D2 == Data("nat", "succ" :> <<"nat">>)
Color == Data("color", "red" :> <<>> @@ "green" :> <<>>)
Tree == Data("tree", "leaf" :> <<>> @@ "node" :> <<"tree", "nat", "tree">>)
F  == Fun("plus", <<"nat", "nat">>, "nat")
Map == Fun("map", <<"nat->nat", "nat">>, "nat")
Twice == Fun("twice", <<"nat->nat">>, "nat->nat")
Double == Fun("double", <<>>, "nat->nat")
Paint == Fun("paint", <<"nat", "nat->nat">>, "color")
PlusZero == RuleLine("=>", <<"p0">>, Plus("zero", "?var"), V)
PlusSucc == RuleLine("=|>", <<"p1">>, Plus("succ", "succ"), V)
\* Its reverse writes a variable that is not bound.
Iff      == [RuleLine("<=>", <<"p2">>, Plus("succ", "zero"), V) EXCEPT !.revLegal = FALSE]
Comm     == RuleLine("<=>", <<"p0">>, Plus("?var", "?var"), Plus("?var", "?var"))
\* Has the name of a reverse rule.
NamedRev    == RuleLine("=>", <<"p0", "rev">>, Plus("?var", "zero"), V)
IffCond  == [Comm EXCEPT !.conds = TRUE]
Illegal  == [PlusZero EXCEPT !.legal = FALSE]
Prove(goal_vars, lhs, rhs) == [op |-> "prove", def |-> [vars |-> goal_vars, terms |-> <<lhs, rhs>>]]
Apply2(f, x, y) == <<Node(x, <<>>), Node(y, <<>>), Node(f, <<1, 2>>)>>
A == <<"a">>
B == <<"b">>
K == <<"k">>
\* Variables of the same type; of two datatypes; and of none.
Goal  == Prove([v \in {A, B} |-> "nat"], Apply2(<<"plus">>, A, B), Apply2(<<"plus">>, B, A))
Goal2 == Prove(A :> "nat" @@ K :> "color", Apply2(<<"plus">>, A, A), <<Node(K, <<>>)>>)
Goal0 == Prove(B :> "Bool", <<Node(B, <<>>)>>, <<Node(<<"true">>, <<>>)>>)
Other    == [op |-> "other"]

UpTo(n, S) == UNION {[1..k -> S] : k \in 0..n}

Mains ==
  {<<Inc("a"), Inc("b")>>, <<Inc("b"), Inc("a")>>,
   <<Inc("b"), D, F, Inc("a"), PlusZero, PlusSucc>>,
   <<Inc("a"), PlusZero, PlusSucc, Inc("b")>>,
   <<Inc("a"), Comm, Inc("nowhere"), Inc("b"), Goal>>,
   <<Inc("a"), IffCond>>, <<F, Illegal, Inc("b")>>}
\* With more types of functions and goals.
Typed ==
  {<<Color, Map, Inc("b"), Goal2, Paint, Inc("a"), Goal0>>, <<Tree, Twice, Double, Inc("a"), Goal2>>}
As == UpTo(2, {Inc("b"), D, F, PlusZero, Comm, NamedRev, Goal, IffCond, Other})
      \cup {<<D, F, PlusZero, PlusSucc>>, <<Inc("b"), F, PlusZero, Iff>>,
            <<D1, F, PlusZero, PlusSucc>>}
Bs == UpTo(1, {D, D1, D2, F, PlusZero, PlusSucc, Iff, NamedRev, Goal, IffCond, Illegal, Other})
      \cup {<<D, F, Iff, PlusZero>>, <<D, F>>, <<D1, PlusZero>>}

Files(a, b) == [f \in {"main", "a", "b"} |-> IF f = "a" THEN a ELSE b]
MCArrows == "nat->nat" :> <<"nat", "nat">>
MCCliOpts ==
  {[ph_count |-> p[1], proof_mode |-> p[2], check_equiv |-> p[3]] :
     p \in {<<2, TRUE, FALSE>>, <<1, TRUE, TRUE>>, <<0, FALSE, FALSE>>}}
MCTheories ==
  {[Files(a, b) EXCEPT !["main"] = m] : m \in Mains, a \in As, b \in Bs}
  \cup {[Files(a, b) EXCEPT !["main"] = m] :
          m \in Typed, a \in {s \in As : Len(s) # 2}, b \in {s \in Bs : Len(s) < 2}}
=============================================================================
