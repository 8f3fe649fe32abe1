---------------------------- MODULE Conjectures ----------------------------
(***************************************************************************)
(* The conjectures (thesy.rs, get_conjectures): classes with the same      *)
(* values are paired, and each pair is conjectured to be equal, of which   *)
(* it shows one term each.  The list is sorted so that run takes the       *)
(* simplest from its end.                                                  *)
(*                                                                         *)
(* This is composed with TermCreation: conjectures are sought after an     *)
(* equality saturation, at any depth and as often as run does it, and the  *)
(* saturation goes on with the values they leave.                          *)
(***************************************************************************)
EXTENDS TermCreation, Extraction

CONSTANT Extractors  \* those that are considered, of "veg" and "egg"

ASSUME ExtractorsAssumption == Extractors \subseteq {"veg", "egg"}

VARIABLES
  conjectures,  \* the list get_conjectures has returned, empty when it is used
  extraction    \* the extractor they are from, "none", or "overflow" if it did
                \* not return
conj_vars == <<conjectures, extraction>>

(***************************************************************************)
(* The nodes an extractor chooses from.                                    *)
(***************************************************************************)
Classes(g) == {g[t] : t \in DOMAIN g}

\* Faulty variant of Enodes: the nodes are listed under the class they are in.
EnodesOfClasses(ts, g) ==
  [c \in Classes(g) |-> [i \in DOMAIN SelectSeq(ts, LAMBDA t : g[t] = c) |->
                           Canonical(g, SelectSeq(ts, LAMBDA t : g[t] = c)[i])]]

\* enodes: get_enode is asked for each id, so that a node is listed under the
\* id it was created with, as it was created.
Enodes(ts, g) == [t \in DOMAIN g |-> <<t>>]

\* The classes of egg, each with all its nodes.
Members(ts, g) ==
  [c \in Classes(g) |-> LET in == SelectSeq(ts, LAMBDA t : g[t] = c)
                        IN [i \in DOMAIN in |-> Canonical(g, in[i])]]

FindBest(extractor, ts, g, c) ==
  IF extractor = "veg" THEN VegFindBest(Enodes(ts, g), c) ELSE EggFindBest(Members(ts, g), c)

\* find_best returns.  Egg's always does.
Returns(extractor, ts, g, keys) ==
  extractor = "veg" => \A c \in keys : Ends(Enodes(ts, g), c, {})

ExtractClasses(extractor, ts, g, keys) == [c \in keys |-> FindBest(extractor, ts, g, c)]

(***************************************************************************)
(* get_conjectures.                                                        *)
(***************************************************************************)
\* The keys by their values.
FinerClasses(ids) == {{j \in DOMAIN ids : ids[j] = ids[k]} : k \in DOMAIN ids}

\* A pair with the costs of both terms, the larger first.
Conjecture(a, b) ==
  [key   |-> IF Less(b.cost, a.cost) THEN <<a.cost, b.cost>> ELSE <<b.cost, a.cost>>,
   sides |-> <<a.term, b.term>>]

\* The order among equal keys is that of hash maps; here it is some order.
Sorted(cs) == SortSeq(cs, LAMBDA c, d : LessPair(d.key, c.key))

ConjecturesOf(ids, reps) ==
  LET Couples(set) == Choose(Listed(set), 2)
      Of(set) == LET cs == Couples(set)
                 IN [i \in DOMAIN cs |-> Conjecture(reps[cs[i][1]], reps[cs[i][2]])]
      sets == Listed({set \in FinerClasses(ids) : Cardinality(set) >= 2})
  IN Sorted(FlattenSeq([i \in DOMAIN sets |-> Of(sets[i])]))

\* The saturation before has ended as for BeginDepth, and the keys are updated.
GetConjectures ==
  /\ extraction = "none" /\ FixKeys
  /\ \E extractor \in Extractors :
       LET keys == DOMAIN example_ids'
           returns == Returns(extractor, terms, graph', keys)
       IN /\ extraction' = IF returns THEN extractor ELSE "overflow"
          /\ conjectures' =
               IF returns
               THEN ConjecturesOf(example_ids', ExtractClasses(extractor, terms, graph', keys))
               ELSE <<>>

\* run has tried them, or proved one, after which it starts anew.
UseConjectures ==
  /\ extraction \in Extractors
  /\ extraction' = "none" /\ conjectures' = <<>>
  /\ UNCHANGED vars

InitConjectures == Init /\ conjectures = <<>> /\ extraction = "none"

\* TermCreation goes on when the conjectures have been used.
Explore ==
  /\ extraction = "none"
  /\ Unite \/ BeginDepth \/ Create \/ EndDepth
  /\ UNCHANGED conj_vars

NextConjectures == Explore \/ GetConjectures \/ UseConjectures
SpecConjectures == InitConjectures /\ [][NextConjectures]_<<vars, conj_vars>>

(***************************************************************************)
(* Properties.                                                             *)
(***************************************************************************)
Sides(i) == ToSet(conjectures[i].sides)
RECURSIVE Parts(_)
Parts(t) == {t} \cup UNION {Parts(t.args[i]) : i \in DOMAIN t.args}
\* The classes of a side: one, unless it is no term of the graph.
ClassOf(t) == Lookup(Parts(t), graph)[t]

\* A conjecture holds for every example, in the algebra of the theory, when
\* the example is put in place of the induction variable in the terms that
\* are shown: what prove_base goes on to assume plausible.  So neither the
\* comparison of the values nor the extraction takes one class for another.
ConjecturesHoldOnExamples ==
  LET exs == Examples(theory)
      Value(t, env) == Val(Parts(t), theory, env)[t]
      At(env, i) == [env EXCEPT ![IndVar] = Value(exs[i], env)]
  IN \A c \in DOMAIN conjectures : \A env \in Envs(theory) : \A i \in 1..NumExamples :
       Cardinality({Value(t, At(env, i)) : t \in Sides(c)}) = 1

\* When all that is equal has been merged, any two terms that are equal on the
\* examples, and not in one class, are related by exactly one conjecture: none
\* is missed because the keys or the values are those of an earlier graph, and
\* none is there twice.  No class is conjectured to be equal to itself.
EachPairConjecturedOnce ==
  /\ \A i \in DOMAIN conjectures : Cardinality({ClassOf(t) : t \in Sides(i)}) = 2
  /\ extraction \in Extractors /\ (\A a, b \in DOMAIN graph : Equal(DOMAIN graph, theory, a, b) => graph[a] = graph[b]) =>
       \A a, b \in DOMAIN example_ids :
         a # b /\ EqualOnExamples(a, b) =>
           Cardinality({i \in DOMAIN conjectures :
                          {ClassOf(t) : t \in Sides(i)} = {{a}, {b}}}) = 1

\* The conjectures are the pairs that agree on the examples: those and no others.
ConjecturesAreRight == ConjecturesHoldOnExamples /\ EachPairConjecturedOnce

RECURSIVE Renamed(_, _, _), OpsOf(_)
Renamed(t, x, y) == Term(IF t.op = x THEN y ELSE t.op, [i \in DOMAIN t.args |-> Renamed(t.args[i], x, y)])
OpsOf(t) == {t.op} \cup UNION {OpsOf(t.args[i]) : i \in DOMAIN t.args}

\* A conjecture is tried before another that says the same with two of its
\* placeholders made one, where some side has both: once the general one is
\* proved, the other is merged away and needs no proof (run takes conjectures
\* from the end of the list; the test in costs.rs:93).  So it is with the
\* induction variable and one more placeholder.  With a third, a larger side
\* that lacks one of the two is ordered by how often placeholder 1 occurs in it
\* (costs.rs 18-29), which may put the instance first.
GeneralBeforeInstance ==
  \A i, j \in DOMAIN conjectures : \A x, y \in Placeholders :
    /\ x # y /\ {Renamed(t, x, y) : t \in Sides(i)} = Sides(j)
    /\ \E t \in Sides(i) : {x, y} \subseteq OpsOf(t)
    => i > j

\* Extraction returns, however classes have come to contain terms with
\* themselves as an argument: ecost has no guard against a class it is in.
ExtractionEnds == extraction # "overflow"

RECURSIVE SizeOf(_)
SizeOf(t) == FoldLeft(+, 1, [i \in DOMAIN t.args |-> SizeOf(t.args[i])])

\* Extraction ends, and each side stands for a class, with the size the sorting
\* goes by; egg's extractor finds none larger than it need be ("a single
\* minimal term", thesy.rs:409).
RepresentativesAreSmallest ==
  /\ ExtractionEnds
  /\ \A i \in DOMAIN conjectures :
       /\ {SizeOf(t) : t \in Sides(i)} = {conjectures[i].key[k].size : k \in {1, 2}}
       /\ \A t \in Sides(i) :
            /\ \E c \in Classes(graph) : ClassOf(t) = {c}
            /\ extraction = "egg" =>
                 \A u \in ToSet(terms) \cup TermsTo(theory, depth) :
                   ClassOf(u) = ClassOf(t) => SizeOf(t) <= SizeOf(u)
=============================================================================
