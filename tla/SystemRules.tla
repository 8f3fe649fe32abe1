----------------------------- MODULE SystemRules -----------------------------
(***************************************************************************)
(* The rules that no theory declares: those that every TheSy gets          *)
(* (consts.rs), and those a prover makes for its datatype, which write     *)
(* (ltwf x y) for x smaller than y (wfo_datatype, wfo_trans in prover.rs). *)
(*                                                                         *)
(* A rule merges `at' with `to' where the equations in `when' hold.  A     *)
(* term is a record [op, args]; a variable is one whose op is in Vars.     *)
(***************************************************************************)
EXTENDS Naturals, FiniteSets, SequencesExt

Vars == {"?x", "?y"}
App(op, xs) == [op |-> op, args |-> xs]
Sym(op) == App(op, <<>>)
X == Sym("?x")
Y == Sym("?y")
True == Sym("true")
False == Sym("false")
Zero == Sym("zero")
Succ(t) == App("succ", <<t>>)

Rewrite(lhs, rhs) == [when |-> {}, at |-> lhs, to |-> rhs]
If(rule, x, y) == [rule EXCEPT !.when = {<<x, y>>}]

(***************************************************************************)
(* consts.rs.                                                              *)
(***************************************************************************)
BoolRws ==
  {Rewrite(App("or", <<True, X>>), True), Rewrite(App("or", <<X, True>>), True),
   Rewrite(App("or", <<False, X>>), X), Rewrite(App("or", <<X, False>>), X),
   Rewrite(App("and", <<True, X>>), X), Rewrite(App("and", <<X, True>>), X),
   Rewrite(App("and", <<False, X>>), False), Rewrite(App("and", <<X, False>>), False),
   Rewrite(App("not", <<True>>), False), Rewrite(App("not", <<False>>), True)}

LessRws ==
  {Rewrite(App("less", <<X, Zero>>), False),
   Rewrite(App("less", <<Zero, Succ(X)>>), True),
   Rewrite(App("less", <<Succ(Y), Succ(X)>>), App("less", <<Y, X>>))}

\* The last rule only writes its term.
Is(c) == App(c, <<X>>)
IsRws ==
  {If(Rewrite(Is("is-cons"), True), X, App("cons", <<Y>>)),
   If(Rewrite(Is("is-cons"), False), X, Sym("nil")),
   If(Rewrite(Is("is-succ"), True), X, Succ(Y)),
   If(Rewrite(Is("is-succ"), False), X, Zero),
   If(Rewrite(Is("is-ESC"), True), X, Sym("ESC")),
   LET written == App("cons", <<App("isconsex", <<X>>)>>)
   IN If(Rewrite(written, written), Is("is-cons"), True)}

EqualityRws ==
  {Rewrite(App("=", <<X, X>>), True), If(Rewrite(X, Y), App("=", <<X, Y>>), True)}

IteRws ==
  {Rewrite(App("ite", <<True, X, Y>>), X), Rewrite(App("ite", <<False, X, Y>>), Y)}

SystemRws == IteRws \cup EqualityRws \cup BoolRws \cup LessRws \cup IsRws

(***************************************************************************)
(* The rules of a prover.                                                  *)
(***************************************************************************)
\* Faulty variant of WfoDatatype: for a constructor's first parameter only.
WfoDatatypeFirst(d) ==
  {<<c, 1>> : c \in {k \in d.constructors : d.params[k] # <<>> /\ d.params[k][1] = d.name}}

\* A rule for each parameter of a constructor that is of the datatype:
\* (c ... x ...) gives (ltwf x (c ... x ...)).
WfoDatatype(d) ==
  UNION {{<<c, i>> : i \in {j \in DOMAIN d.params[c] : d.params[c][j] = d.name}} :
           c \in d.constructors}
WriteParts(wfo, terms) ==
  UNION {{<<t.args[r[2]], t>> : t \in {u \in terms : u.op = r[1]}} : r \in wfo}

\* (ltwf z x) and (ltwf x y) give (ltwf z y).
WfoTrans(ltwf) ==
  {<<r[1][1], r[2][2]>> : r \in {s \in ltwf \X ltwf : s[1][2] = s[2][1]}}

(***************************************************************************)
(* What the names in the rules mean, to compare the rules with.  The       *)
(* meaning of an application is a set: it is empty where there is none.    *)
(***************************************************************************)
Numbers == {Zero, Succ(Zero), Succ(Succ(Zero))}
Lists == {Sym("nil"), App("cons", <<Zero>>), App("cons", <<Zero, Sym("nil")>>)}
Universe == {True, False, Sym("ESC")} \cup Numbers \cup Lists

Depth == 4  \* no term looked at is deeper
Subterms(t) ==
  LET upTo[n \in 0..Depth] == IF n = 0 THEN {t}
                             ELSE upTo[n - 1] \cup UNION {ToSet(u.args) : u \in upTo[n - 1]}
  IN upTo[Depth]

Truth(b) == {IF b THEN True ELSE False}
Meaning(op, xs) ==
  LET all(S) == ToSet(xs) \subseteq S
      bools  == all({True, False})
  IN CASE op = "and" /\ bools -> Truth(xs[1] = True /\ xs[2] = True)
       [] op = "or"  /\ bools -> Truth(xs[1] = True \/ xs[2] = True)
       [] op = "not" /\ bools -> Truth(xs[1] # True)
       [] op = "ite" /\ xs[1] \in {True, False} -> {IF xs[1] = True THEN xs[2] ELSE xs[3]}
       [] op = "="            -> Truth(xs[1] = xs[2])
       [] op = "less" /\ all(Numbers) -> Truth(xs[1] \in Subterms(xs[2]) \ {xs[2]})
       [] op = "is-succ" /\ all(Numbers) -> Truth(xs[1] # Zero)
       [] op = "is-cons" /\ all(Lists)   -> Truth(xs[1] # Sym("nil"))
       [] op = "is-ESC" -> Truth(xs[1] = Sym("ESC"))
       [] App(op, xs) \in Universe -> {App(op, xs)}
       [] OTHER -> {}

Value(term, env) ==
  LET value[t \in Subterms(term)] ==
        IF t.op \in Vars THEN {env[t.op]}
        ELSE LET xs == [i \in DOMAIN t.args |-> value[t.args[i]]]
             IN IF {} \in ToSet(xs) THEN {}
                ELSE Meaning(t.op, [i \in DOMAIN xs |-> CHOOSE v \in xs[i] : TRUE])
  IN value[term]

Holds(rule) ==
  \A env \in [Vars -> Universe] :
    LET Same(t, u) == Value(t, env) # {} /\ Value(t, env) = Value(u, env)
    IN (\A p \in rule.when : Same(p[1], p[2])) =>
         Value(rule.at, env) = {} \/ Same(rule.at, rule.to)
WrongRules == {r \in SystemRws : ~Holds(r)}

\* The pairs that a prover's rules write, when they are run for long enough.
Ltwf(wfo, terms) ==
  LET after[n \in Nat] == IF n = 0 THEN WriteParts(wfo, terms)
                          ELSE after[n - 1] \cup WfoTrans(after[n - 1])
  IN after[Cardinality(terms)]
=============================================================================
