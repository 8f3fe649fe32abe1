---------------------------- MODULE Configuration ----------------------------
(***************************************************************************)
(* From the command line to a TheSy (main.rs, new_with_ph of thesy.rs):    *)
(* the definitions that were read become the searchers of the terms to     *)
(* create, the initial graph with the examples, the rules that apply       *)
(* functions, and the goals.                                               *)
(*                                                                         *)
(* A name in the graph is a tuple: <<name>>, or <<type, i>> for the        *)
(* placeholder i of a type.  The terms of a goal are RecExprs.             *)
(***************************************************************************)
EXTENDS Definitions, Types, SystemRules

CONSTANTS CliOpts  \* what can be given: [ph_count, proof_mode, check_equiv]

\* Parameters come in sequences.  In a goal the name of a variable or of a
\* function is a sequence of one, unlike that of a placeholder.
ASSUME DeclarationsAssumption == \A t \in Theories : \A l \in AllLines(t) :
  /\ l.op = "declare-fun" => l.def.params \in Seq(ToSet(l.def.params))
  /\ l.op = "datatype" =>
       \A c \in l.def.constructors : l.def.params[c] \in Seq(ToSet(l.def.params[c]))
  /\ l.op = "prove" =>
       /\ IsFiniteSet(DOMAIN l.def.vars)
       /\ \A e \in ToSet(l.def.terms) : \A node \in ToSet(e) :
            Len(node.op) = 1 /\ node = Node(node.op, node.children)

\* A number of placeholders is one that is parsed as unsigned, and the type of a
\* condition is not the name of an arrow.
ASSUME OptionsAssumption == \A opts \in CliOpts : opts.ph_count \in Nat
ASSUME BoolAssumption == "Bool" \notin DOMAIN Arrows

VARIABLES program,  \* "reading", "configured", "created", "running", "ended", "panicked"
          args,     \* the options given
          thesy,    \* the TheSy
          given     \* what its run is given: the rules and the case splitters
config_vars == <<program, args, thesy, given>>
all_vars == <<vars, config_vars>>

(***************************************************************************)
(* Functions, placeholders and examples.                                   *)
(***************************************************************************)
Constructors(d) == {Function(<<c>>, d.params[c], d.name) : c \in d.constructors}
Dict(ds) ==
  {Function(<<f.name>>, f.params, f.ret) : f \in ToSet(ds.functions)}
  \cup UNION {Constructors(d) : d \in ToSet(ds.datatypes)}

get_ph(type, i) ==
  IF type \in DOMAIN Arrows
  THEN Function(<<type, i>>, Front(Arrows[type]), Last(Arrows[type]))
  ELSE Function(<<type, i>>, <<>>, type)
IndVar(d) == get_ph(d.name, 0).name

CollectPhs(funs, ph_count) ==
  {get_ph(t, i) : t \in UNION {ToSet(f.params) : f \in funs}, i \in 0..(ph_count - 1)}

\* Examples::new: how many there are; none if no constructor starts them.
Recursive(d) == {c \in d.constructors : Contains(d.params[c], d.name)}
HasExamples(d) == d.constructors # Recursive(d)
Example(d, i) == <<"example", d.name, i>>
Examples(d) ==
  LET count == Cardinality(d.constructors) + Cardinality(Recursive(d))
  IN [i \in 1..count |-> Example(d, i)]

(***************************************************************************)
(* new_with_ph.                                                            *)
(***************************************************************************)
\* create_sygue_serchers: the types of the parameters of each function.
CreateSearchers(dict) ==
  [n \in {f.name : f \in {g \in dict : g.params # <<>>}} |->
     (CHOOSE f \in dict : f.name = n).params]

\* create_apply_rws: the functions with a rule (apply f ...) => (f ...).
CreateApplyRws(dict, ph_count) ==
  {f.name : f \in {g \in dict \cup CollectPhs(dict, ph_count) : g.params # <<>>}}

\* create_graph_example_ids.
Bools == {Function(<<"true">>, <<>>, "Bool"), Function(<<"false">>, <<>>, "Bool")}
GraphFunctions(dict, ph_count) == dict \cup CollectPhs(dict, ph_count) \cup Bools

CreateTyped(dict, ph_count) == {<<f.name, TypeOf(f)>> : f \in GraphFunctions(dict, ph_count)}

\* A name stands for itself in every example, except that the induction
\* variable of the datatype, which is added last, stands for the examples.
CreateExampleIds(ds, dict, ph_count) ==
  LET names == {f.name : f \in GraphFunctions(dict, ph_count)}
  IN [d \in ToSet(ds.datatypes) |->
        [n \in names \cup {IndVar(d)} |->
           IF n = IndVar(d) THEN Examples(d) ELSE [i \in DOMAIN Examples(d) |-> n]]]

ReplaceOps(e, by) ==
  [i \in DOMAIN e |-> IF e[i].op \in DOMAIN by THEN [e[i] EXCEPT !.op = by[@]] ELSE e[i]]
Renamed(terms, by) == [i \in DOMAIN terms |-> ReplaceOps(terms[i], by)]

\* Numbers of the variables: those of a type are numbered from 1, in the order
\* a hash map gives them.
Numberings(goal_vars) ==
  {n \in [DOMAIN goal_vars -> 1..Cardinality(DOMAIN goal_vars)] :
     \A v \in DOMAIN goal_vars :
       LET same == {w \in DOMAIN goal_vars : goal_vars[w] = goal_vars[v]}
       IN {n[w] : w \in same} = 1..Cardinality(same)}

\* Faulty variant of Placeholders: they are numbered from 0.
PlaceholdersFrom0(goal_vars) ==
  {[v \in DOMAIN goal_vars |-> get_ph(goal_vars[v], n[v] - 1).name] : n \in Numberings(goal_vars)}

Placeholders(goal_vars) ==
  {[v \in DOMAIN goal_vars |-> get_ph(goal_vars[v], n[v]).name] : n \in Numberings(goal_vars)}

\* A goal becomes one for each variable that induction can be on.
GoalVariants(ds, goal, phs) ==
  {Renamed(Renamed(goal.terms, phs), [ph \in {phs[v]} |-> get_ph(goal.vars[v], 0).name]) :
     v \in {w \in DOMAIN goal.vars : \E d \in ToSet(ds.datatypes) : d.name = goal.vars[w]}}

\* What the goals of a TheSy can be: the sequence of the variants of each, or
\* None (the empty set) if there is no conjecture or none is to be proved.
Goals(ds, proof_mode) ==
  LET cs == ds.conjectures
      Variants(i) == {GoalVariants(ds, cs[i], phs) : phs \in Placeholders(cs[i].vars)}
  IN IF cs = <<>> \/ ~proof_mode THEN {{}}
     ELSE {{gs} : gs \in {hs \in [DOMAIN cs -> UNION {Variants(i) : i \in DOMAIN cs}] :
                            \A i \in DOMAIN cs : hs[i] \in Variants(i)}}

\* datatype_to_prover: the rules of each prover.
Provers(ds) ==
  LET d(n) == CHOOSE e \in ToSet(ds.datatypes) : e.name = n
  IN [n \in {e.name : e \in ToSet(ds.datatypes)} |-> WfoDatatype(d(n))]

NewTheSy(ds, opts) ==
  LET dict == Dict(ds)
  IN {[dict |-> dict,
       searchers |-> CreateSearchers(dict),
       typed |-> CreateTyped(dict, opts.ph_count),
       example_ids |-> CreateExampleIds(ds, dict, opts.ph_count),
       apply_rws |-> CreateApplyRws(dict, opts.ph_count),
       system_rws |-> SystemRws,
       provers |-> Provers(ds),
       goals |-> gs] : gs \in Goals(ds, opts.proof_mode)}

(***************************************************************************)
(* main.                                                                   *)
(***************************************************************************)
InitProgram == Init /\ program = "reading" /\ args = <<>> /\ thesy = <<>> /\ given = <<>>

Read == program = "reading" /\ Next /\ UNCHANGED config_vars

\* TheSyConfig::from: what parse_file returned is unwrapped.  It is the first
\* to look at the options, whatever was given.
Configure ==
  /\ program = "reading" /\ status # "parsing"
  /\ args' \in CliOpts
  /\ program' = IF status = "parsed" THEN "configured" ELSE "panicked"
  /\ UNCHANGED <<vars, thesy, given>>

\* TheSy::from: the examples of each datatype start with a constructor that
\* does not take the datatype, which is unwrapped.
CreateTheSy ==
  /\ program = "configured" /\ \A d \in ToSet(defs.datatypes) : HasExamples(d)
  /\ thesy' \in NewTheSy(defs, args)
  /\ program' = "created"
  /\ UNCHANGED <<vars, args, given>>

NoExamplePanic ==
  /\ program = "configured" /\ \E d \in ToSet(defs.datatypes) : ~HasExamples(d)
  /\ program' = "panicked"
  /\ UNCHANGED <<vars, args, thesy, given>>

\* The conjectures are checked with the rules alone, and the program exits.
CheckEquiv ==
  /\ program = "created" /\ args.check_equiv
  /\ program' = "ended"
  /\ UNCHANGED <<vars, args, thesy, given>>

\* TheSyConfig::run makes a TheSy anew, and takes the case splitters.
Run ==
  /\ program = "created" /\ ~args.check_equiv
  /\ thesy' \in NewTheSy(defs, args)
  /\ given' = [rules |-> defs.rws, case_splitters |-> defs.case_splitters]
  /\ defs' = [defs EXCEPT !.case_splitters = {}]
  /\ program' = "running"
  /\ UNCHANGED <<theory, stack, status, args>>

NextProgram == Read \/ Configure \/ CreateTheSy \/ NoExamplePanic \/ CheckEquiv \/ Run

SpecProgram == InitProgram /\ [][NextProgram]_all_vars /\ WF_all_vars(NextProgram)

(***************************************************************************)
(* Properties.                                                             *)
(***************************************************************************)
HasTheSy == program \in {"created", "running"}
Datatypes == ToSet(defs.datatypes)
NamesOf(type) == {p[1] : p \in {q \in thesy.typed : q[2] = TreeOf(Expr(type))}}

\* The type a term of the initial graph has there is the one it was declared
\* with, if that has no function type after its first parameter and no other
\* declaration has its name, so that a function can be passed exactly where a
\* function of its type is wanted.  get_type puts the children of a later
\* function type in the wrong place.
TypedAsDeclared ==
  HasTheSy =>
    \A f \in GraphFunctions(thesy.dict, args.ph_count) :
      (/\ \A i \in 2..Len(f.params) : f.params[i] \notin DOMAIN Arrows
       /\ f.ret \notin DOMAIN Arrows
       /\ \A g \in GraphFunctions(thesy.dict, args.ph_count) : g.name = f.name => g = f)
        => {p[2] : p \in {q \in thesy.typed : q[1] = f.name}} = {DeclaredType(f)}

\* With a placeholder, exploration is never stuck at the start: each parameter
\* of each function has an argument of its type in the initial graph, where
\* the induction variable is one for a datatype, and what can be passed as a
\* function can also be applied, but for a constant of a function type.
Values == {g.name : g \in {h \in thesy.dict : h.params = <<>> /\ h.ret \in DOMAIN Arrows}}
EveryFunctionCanBeApplied ==
  HasTheSy /\ args.ph_count > 0 =>
    \A f \in DOMAIN thesy.searchers : \A i \in DOMAIN thesy.searchers[f] :
      LET type == thesy.searchers[f][i]
      IN /\ NamesOf(type) # {}
         /\ \A d \in Datatypes : type = d.name => IndVar(d) \in NamesOf(type)
         /\ type \in DOMAIN Arrows => NamesOf(type) \subseteq thesy.apply_rws \cup Values

\* A new term is translated for the examples of every datatype by looking up
\* its arguments, which would panic at one that is missing: each typed term has
\* a translation for every datatype, as many as there are examples, and for
\* each datatype the induction variable alone stands for something else.
ArgumentsAreTranslated ==
  HasTheSy =>
    \A d \in Datatypes :
      LET ids == thesy.example_ids[d]
      IN /\ {p[1] : p \in thesy.typed} \cup {IndVar(d)} = DOMAIN ids
         /\ \A n \in DOMAIN ids : ids[n] = IF n = IndVar(d) THEN Examples(d)
                                           ELSE [i \in DOMAIN Examples(d) |-> n]

\* What the TheSy starts from fits together: types, arguments and values.
InitialGraphFits == TypedAsDeclared /\ EveryFunctionCanBeApplied /\ ArgumentsAreTranslated

\* The rules that a TheSy adds to those of the theory are right, where their
\* names mean what they say.
SystemRulesHold == program = "created" => thesy.system_rws \cap WrongRules = {}

\* The values of each type that are built in at most n steps.
Trees(n) ==
  LET types == UNION {{d.name} \cup UNION {ToSet(d.params[c]) : c \in d.constructors} :
                        d \in Datatypes}
      trees[k \in 0..n] ==
        [type \in types |->
           LET ofType == {d \in Datatypes : d.name = type}
               Args(ps) == {xs \in [DOMAIN ps -> UNION {trees[k - 1][p] : p \in ToSet(ps)}] :
                              \A i \in DOMAIN ps : xs[i] \in trees[k - 1][ps[i]]}
           IN IF ofType = {} THEN {Sym(type)}
              ELSE IF k = 0 THEN {}
              ELSE UNION {UNION {{App(c, xs) : xs \in Args(d.params[c])} : c \in d.constructors} :
                            d \in ofType}]
  IN trees[n]

\* The order in which a prover uses its hypothesis at smaller values only is
\* that of the proper parts: it gives a pair only if the one is part of the
\* other and of the same datatype, so that the order is well founded, and it
\* gives all these, however deep and whichever parameter they are in.
SmallerArePartsOf ==
  program = "created" =>
    \A d \in Datatypes :
      LET trees == Trees(3)[d.name]
      IN Ltwf(thesy.provers[d.name], trees)
           = {p \in trees \X trees : p[1] \in Subterms(p[2]) \ {p[2]}}

\* The rules no theory declares mean what they should.
BuiltInRulesHold == SystemRulesHold /\ SmallerArePartsOf

\* To prove a conjecture there is a goal for it, in its place.  Each variant is
\* the conjecture with its variables renamed apart and to placeholders of their
\* types, where the one that induction is on is the only one with number 0, and
\* there is such a variant for each variable of a datatype.  There is never an
\* empty list of goals, with which exploration would end before it starts.
GoalsInductOnEachVariable ==
  HasTheSy =>
    \A gs \in thesy.goals :
      /\ gs # <<>>
      /\ DOMAIN gs = DOMAIN defs.conjectures
      /\ \A i \in DOMAIN gs :
           LET c == defs.conjectures[i]
               inductive == {v \in DOMAIN c.vars : \E d \in Datatypes : d.name = c.vars[v]}
               Renames(phs, v) == /\ IsInjective(phs)
                                  /\ \A w \in DOMAIN phs : /\ phs[w][1] = c.vars[w]
                                                           /\ (phs[w][2] = 0) = (w = v)
               Names == UNION {{<<c.vars[w], n>> : n \in 0..Cardinality(DOMAIN c.vars)} :
                                 w \in DOMAIN c.vars}
               For(v) == {Renamed(c.terms, phs) :
                            phs \in {p \in [DOMAIN c.vars -> Names] : Renames(p, v)}}
           IN /\ gs[i] \subseteq UNION {For(v) : v \in inductive}
              /\ \A v \in inductive : Cardinality(gs[i] \cap For(v)) = 1
=============================================================================
