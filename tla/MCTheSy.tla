------------------------------- MODULE MCTheSy -------------------------------
(***************************************************************************)
(* Instances of TheSy for TLC.  Three terms, one more at each depth, that  *)
(* agree on the examples of both datatypes; the last two have the same     *)
(* RepOrder.  Each pair is a conjecture of both provers, and the equations *)
(* <<3, 1>> and <<3, 2>> are instances of one generalised equation.        *)
(***************************************************************************)
EXTENDS TheSy

CONSTANTS nat, lst,  \* datatypes
          o1,        \* a rule of the caller
          s1, s2,    \* system rules
          gen, g1, g2, \* a generalised equation and two goals' equations
          none       \* an equation whose two rewrites are both existential

MCLevel     == <<0, 1, 2>>
MCCost      == <<1, 2, 2>>
MCDatatypes == {nat, lst}
MCExampleOf == [d \in MCDatatypes |-> <<1, 1, 1>>]

MCEquations  == {<<2, 1>>, <<3, 1>>, <<3, 2>>}
MCLemma      == MCEquations \union {gen, g1, g2, none}
MCConjecture == {<<e[1], e[2], d>> : e \in MCEquations, d \in MCDatatypes}

\* One datatype before the other, and ties between terms either way.
Position(d, flip, c) ==
  2 * (IF flip THEN 10 - c[1] ELSE c[1]) + 10 * c[2]
    + (IF c[3] = d THEN 0 ELSE 1)
MCTieOrders ==
  {[c \in MCConjecture |-> Position(d, flip, c)] :
     d \in MCDatatypes, flip \in BOOLEAN}

\* Two rewrites for an equation, one when the other direction is existential,
\* and none when both directions are.
MCRulesOf == [l \in MCLemma |->
  CASE l = none -> <<>>
    [] l \in {gen, g1} -> <<<<l, 1>>>>
    [] OTHER -> <<<<l, 1>>, <<l, 2>>>>]
MCRule == {o1, s1, s2} \union (MCLemma \X {1, 2})
MCDerives == [r \in MCRule |->
  IF r \in {o1, s1, s2} THEN {}
  ELSE IF r[1] = none THEN {}
  ELSE IF r[1] = gen THEN {gen, <<3, 1>>, <<3, 2>>} ELSE {r[1]}]

GeneralizedTo(g) == [c \in MCConjecture |->
  IF <<c[1], c[2]>> \in {<<3, 1>>, <<3, 2>>} THEN {<<c[1], c[2]>>} \union g
  ELSE {}]
Generalizes      == GeneralizedTo({gen})
GeneralizesBadly == GeneralizedTo({gen, none})

TwoGoals == <<{g1}, {g2, gen}>>
TheCallersRules == <<o1>>
TheSystemRules  == <<s1, s2>>
=============================================================================
