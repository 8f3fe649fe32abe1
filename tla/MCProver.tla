------------------------------ MODULE MCProver ------------------------------
(***************************************************************************)
(* Instances of Prover for TLC.  The values are 0, 1 and 2, ordered as     *)
(* numbers; a term is a function of the values of its placeholders.  A     *)
(* world gives placeholders 0 and 1 any value, 2 and 3 one of two, and the *)
(* placeholder of the other datatype a value of its own.                   *)
(***************************************************************************)
EXTENDS Prover

CONSTANT o  \* a placeholder of another datatype

MCValue   == 0..2
MCSmaller == {p \in MCValue \X MCValue : p[1] < p[2]}
MCOp      == {"sum", "max", "first", "inc", "even", "var"}

\* zero and succ.
ZeroCase == <<"zero">>
SuccCase == <<"succ">>
MCBuilt  == [c \in {"zero", "succ"} |-> IF c = "zero" THEN {0} ELSE {1, 2}]

MCWorld ==
  {[v \in {0, 1, 2, 3} |-> a[v + 1]] @@ (o :> 0) :
     a \in MCValue \X MCValue \X (0..1) \X (0..1)}
MCInd(w) == w[0]

Eval(t, at) ==
  LET args == [i \in DOMAIN t.phs |-> at[t.phs[i]]] IN
  CASE t.op = "sum"  -> FoldLeft(LAMBDA x, y : x + y, 0, args)
    [] t.op = "max"  -> FoldLeft(LAMBDA x, y : IF x > y THEN x ELSE y, 0, args)
    [] t.op = "inc"  -> args[1] + 1
    [] t.op = "even" -> (args[1] + 1) % 2
    [] OTHER         -> args[1]

MCHolds(e, w) == Eval(e.left, w) = Eval(e.right, w)

T(f, phs)  == [op |-> f, phs |-> phs]
Eq(l, r)   == [pre |-> <<>>, left |-> l, right |-> r]
Goal(ph, S, l, r) ==
  [pre |-> <<[term |-> T("even", <<ph>>), at |-> {w \in MCWorld : w[ph] \in S}]>>,
   left |-> l, right |-> r]

Conjectures ==
  {Eq(T("sum", <<0, 1, 1>>), T("sum", <<1, 0, 1>>)),
   Eq(T("sum", <<0, 1, 1, 1>>), T("sum", <<1, 1, 0, 1>>)),
   Eq(T("max", <<0, 1, 1>>), T("max", <<0, 1>>)),
   Eq(T("max", <<1, 0>>), T("max", <<1, 1, 0>>)),
   Eq(T("sum", <<0, 1, 1, 2>>), T("sum", <<2, 1, 1, 0>>)),
   Eq(T("sum", <<0, 0>>), T("var", <<0>>)),
   Eq(T("max", <<0>>), T("var", <<0>>)),
   Eq(T("inc", <<0>>), T("var", <<0>>)),
   Eq(T("first", <<1, 0>>), T("first", <<1, o>>)),
   Eq(T("first", <<0, 1, 1>>), T("first", <<0, 0, 1>>)),
   Eq(T("first", <<1, 1>>), T("first", <<1>>))}

\* x + x = x for x in S.
DoubleIsSelf(S) == Goal(0, S, T("sum", <<0, 0>>), T("var", <<0>>))
\* x + y = x for y in S, and x + x + y = x for y in S.
PlusIsSelf(S)       == Goal(1, S, T("sum", <<0, 1>>), T("var", <<0>>))
DoublePlusIsSelf(S) == Goal(1, S, T("sum", <<0, 0, 1>>), T("var", <<0>>))
Asked(goals) == [call : {"all"}, eq : goals]

\* Splits on placeholder 1 and on the induction variable.
IsZero(ph) == {w \in MCWorld : w[ph] = 0}
MCSplits == {<<IsZero(ph), MCWorld \ IsZero(ph)>> : ph \in {0, 1}}

MCRequests ==
  [call : {"ind", "all", "generalize"}, eq : Conjectures]
    \union Asked({DoubleIsSelf(S) : S \in {{}, {0}, {0, 1}}}
                    \union {PlusIsSelf(MCValue), DoublePlusIsSelf({0})})
NotDownwardClosed == Asked({DoubleIsSelf({0, 2}), DoublePlusIsSelf({0})})
OnlyZero          == Asked({DoubleIsSelf({0})})
=============================================================================
