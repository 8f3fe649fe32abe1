----------------------------- MODULE MCCaseSplit -----------------------------
(***************************************************************************)
(* Instances of CaseSplit for TLC.  The classes are the two truth values,  *)
(* two conditions z and w, and two terms a = h(z) and b = h(w).            *)
(***************************************************************************)
EXTENDS CaseSplit

MCClasses == 6
true  == 1
false == 2
z == 3
w == 4
a == 5
b == 6

N(op, args) == [op |-> op, args |-> args]
MCNode == <<N("true", <<>>), N("false", <<>>), N("z", <<>>), N("w", <<>>),
            N("h", <<z>>), N("h", <<w>>)>>

Ids == 1..MCClasses
Discrete == [x \in Ids |-> x]

\* A rule merges its pair when the pairs of its condition are merged.
When(cond, pair) == [cond |-> cond, pair |-> pair]
Fire(r, g) ==
  IF \E e \in r.cond : g[e[1]] # g[e[2]] THEN g
  ELSE LET lo == Min({g[r.pair[1]], g[r.pair[2]]})
           at(x) == IF g[x] \in {g[r.pair[1]], g[r.pair[2]]} THEN lo ELSE g[x]
       IN <<at(1), at(2), at(3), at(4), at(5), at(6)>>

\* The graph left of g by the rules of the sequence rs, each fired once; as a
\* set with one element.
Fired(rs, g) ==
  LET fired[i \in 0..Len(rs)] ==
        IF i = 0 THEN {g} ELSE {Fire(rs[i], h) : h \in fired[i - 1]}
  IN fired[Len(rs)]
Result(rs, g) == CHOOSE h \in Fired(rs, g) : TRUE

Rules ==
  <<When({<<z, true>>, <<w, true>>}, <<a, b>>),
    When({<<z, true>>, <<w, false>>}, <<a, b>>),
    When({<<z, false>>}, <<a, b>>), When({<<a, true>>}, <<z, w>>)>>

\* The run saturates, or a limit stops it after some of the rules; if it is the
\* time limit, the graph is not rebuilt.
MCRewritten == [g \in Graph |->
  LET left == UNION {Fired(SubSeq(Rules, m, n), Rebuilt[g]) :
                       m \in 1..3, n \in {0, 1, 4}}
  IN left \union {Rebuilt[h] : h \in left}]

\* (or w z) is true; the term (ite w _ _) only appears where z is true, and a
\* splitter of the theory with three cases only where w is.
MCPatterns ==
  {Ite({}, z, true, false), Ite({<<z, true>>}, w, true, false),
   Or({}, w, z, true), Given({<<w, true>>}, true, <<a, b, false>>)}
OnePattern == {Ite({}, z, true, false)}

MCEntryGraphs == {g \in Graph : g[false] = false}
OneEntryGraph == {Discrete}

\* z true and w either; z false and w true.
World(u, v) == Result(<<When({}, u), When({}, v), When({}, <<a, b>>)>>, Discrete)
MCWorlds ==
  {World(<<z, true>>, <<w, true>>), World(<<z, true>>, <<w, false>>),
   World(<<z, false>>, <<w, true>>)}
NoWorlds == {}
EachAdapter == {"cloning", "versioned", "colored"}
OneAdapter  == {"cloning"}
=============================================================================
