---------------------------- MODULE MCSaturation ----------------------------
(***************************************************************************)
(* An instance of Saturation for TLC.  The classes are two leaves x and y  *)
(* and the terms f(x), f(y), g(x) and h(x).                                *)
(***************************************************************************)
EXTENDS Equations

MCClasses == 6
x  == 1
y  == 2
fx == 3
fy == 4
gx == 5
hx == 6

N(op, args) == [op |-> op, args |-> args]
MCNode == <<N("x", <<>>), N("y", <<>>), N("f", <<x>>), N("f", <<y>>),
            N("g", <<x>>), N("h", <<x>>)>>

Ids == 1..MCClasses

P(needs, when, at, to, writes) ==
  [needs |-> needs, when |-> when, at |-> at, to |-> to, writes |-> writes]
Rw(applier, places) == [applier |-> applier, places |-> places]

\* (f v) => (g v), where (f v) is (f x) or is found in the class of (f x).
FtoG == Rw("pattern", {P({fx}, {}, fx, gx, {gx}),
                       P({fy}, {<<x, y>>}, fy, gx, {gx})})
\* x and y are one where y is (g x).
GUnites == Rw("union", {P({gx, x, y}, {<<gx, y>>}, x, y, {})})
\* (g v) gives (h v).
GGivesH == Rw("diff", {P({gx}, {}, gx, hx, {hx})})
\* (h x) => (f y), if y is there; (g x) => (f y) where x and y are one; and
\* (f x) = y where (g x) and (h x) are one.
HtoF    == Rw("pattern", {P({hx, y}, {}, hx, fy, {fy}),
                          P({gx, y}, {<<x, y>>}, gx, fy, {fy}),
                          P({gx, hx, fx, y}, {<<gx, hx>>}, fx, y, {})})
MCRules == <<FtoG, GUnites, GGivesH, HtoF>>

\* The classes of S are merged and nothing else: not rebuilt, if S is {x, y}.
Merged(S) == [c \in Ids |-> IF c \in S THEN Min(S) ELSE c]
Entry(S, terms) == [graph |-> Merged(S), present |-> terms]
E(left, right, precond) == [left |-> left, right |-> right, precond |-> precond]
\* y stands for true.
MCEquations ==
  {E(fx, fy, <<>>), E(fx, fy, <<gx>>), E(fx, gx, <<>>), E(hx, fy, <<gx>>), E(fx, y, <<>>)}

MCEntries ==
  {CreateGraph(e) : e \in MCEquations} \cup
  {Entry({}, {x, fx}), Entry({}, {x, y, fx, fy}), Entry({}, {x, y, fx, fy, gx}),
   Entry({x, y}, {x, y, fx, fy}), Entry({x, y}, {x, y, fx, gx}),
   Entry({gx, hx}, {x, y, fx, gx, hx}), Entry({y, gx}, {x, y, fx, fy, gx}),
   Entry({y, fx, gx}, {x, y, fx, gx})}

MCConfigs ==
  [timeout : BOOLEAN, nodes : {<<>>, <<4>>}, iters : {<<>>, <<0>>, <<1>>}]

\* All the graphs where the rules hold.
MCWorlds ==
  {w \in Congruent :
     \A i \in DOMAIN MCRules : \A p \in MCRules[i].places :
       MCRules[i].applier # "diff" /\ (\A e \in p.when : w[e[1]] = w[e[2]])
         => w[p.at] = w[p.to]}
=============================================================================
