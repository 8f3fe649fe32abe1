---------------------------- MODULE Definitions ----------------------------
(***************************************************************************)
(* Reading a theory (thesy_parser.rs): a file is read line by line, each   *)
(* line gives definitions that are merged into those of the file, and an   *)
(* included file is read to its end first.  At the end of a file the case  *)
(* splitters of its functions are computed from the rules it contains.     *)
(*                                                                         *)
(* Lines are records of what the parser makes of them.  A term is its      *)
(* operator with, for each argument, the operator of the argument or       *)
(* "?var"; constructors are names.                                         *)
(***************************************************************************)
EXTENDS Naturals, FiniteSets, SequencesExt, Functions

CONSTANTS Theories,  \* each a function from the files there are to their lines
          Main       \* the file that is given on the command line

\* The files include each other without a circle: those included have less rank.
Ranks(t, rank) ==
  \A f \in DOMAIN t : \A i \in DOMAIN t[f] :
    t[f][i].op = "include" /\ t[f][i].file \in DOMAIN t => rank[t[f][i].file] < rank[f]

ASSUME MainAssumption == \A t \in Theories : Main \in DOMAIN t
ASSUME LinesAssumption == \A t \in Theories : \A f \in DOMAIN t :
  /\ t[f] \in Seq(ToSet(t[f]))
  /\ \A l \in ToSet(t[f]) : l.op \in {"=>", "=|>", "<=>"} => l.name \in Seq(STRING)
ASSUME NoCircleAssumption == \A t \in Theories :
  /\ IsFiniteSet(DOMAIN t)
  /\ \E rank \in [DOMAIN t -> 0..Cardinality(DOMAIN t)] : Ranks(t, rank)

VARIABLES theory,  \* the files
          stack,   \* a frame for each file that is being read, the last on top
          defs,    \* what parse_file returned for Main
          status   \* "parsing", "parsed", "failed" (Err) or "panicked"
vars == <<theory, stack, defs, status>>

(***************************************************************************)
(* Definitions.                                                            *)
(***************************************************************************)
NoDefinitions == [functions |-> <<>>, datatypes |-> <<>>, rws |-> <<>>,
                  conjectures |-> <<>>, case_splitters |-> {}]

\* The elements of s with the indices in I.
Selected(s, I) == FlattenSeq([i \in DOMAIN s |-> IF i \in I THEN <<s[i]>> ELSE <<>>])

\* Those of ys whose name none of xs has.
NewNames(xs, ys) ==
  Selected(ys, {k \in DOMAIN ys : \A i \in DOMAIN xs : xs[i].name # ys[k].name})
\* Those of ys that are not among xs.
NewGoals(xs, ys) == Selected(ys, {k \in DOMAIN ys : ~Contains(xs, ys[k])})

\* Faulty variant of Merge: the names of rules are not compared.
MergeAllRules(a, b) ==
  [functions      |-> a.functions \o NewNames(a.functions, b.functions),
   datatypes      |-> a.datatypes \o NewNames(a.datatypes, b.datatypes),
   conjectures    |-> a.conjectures \o NewGoals(a.conjectures, b.conjectures),
   rws            |-> a.rws \o b.rws,
   case_splitters |-> a.case_splitters \cup b.case_splitters]

\* Definitions::merge.  A splitter that is there twice counts once here.
Merge(a, b) ==
  [functions      |-> a.functions \o NewNames(a.functions, b.functions),
   datatypes      |-> a.datatypes \o NewNames(a.datatypes, b.datatypes),
   conjectures    |-> a.conjectures \o NewGoals(a.conjectures, b.conjectures),
   rws            |-> a.rws \o NewNames(a.rws, b.rws),
   case_splitters |-> a.case_splitters \cup b.case_splitters]

(***************************************************************************)
(* What a line defines.                                                    *)
(***************************************************************************)
Leaf(t) == t.args = <<>>
Rw(name, from, to) == [name |-> name, from |-> from, to |-> to]

\* The rules of a line: those directions of <=> that bind the variables they
\* write; a line of the other kinds gives one rule.
RulesOf(l) ==
  IF l.op = "<=>"
  THEN (IF l.legal THEN <<Rw(l.name, l.lhs, l.rhs)>> ELSE <<>>)
       \o (IF l.revLegal THEN <<Rw(Append(l.name, "rev"), l.rhs, l.lhs)>> ELSE <<>>)
  ELSE <<Rw(l.name, l.lhs, l.rhs)>>

\* The terms of a line that define a function, by their operators.
PatsOf(l) ==
  (IF Leaf(l.lhs) THEN <<>> ELSE <<l.lhs>>)
  \o (IF l.op # "<=>" \/ Leaf(l.rhs) THEN <<>> ELSE <<l.rhs>>)

IsRule(l) == l.op \in {"=>", "=|>", "<=>"}
DefinitionsOf(l) ==
  CASE l.op = "datatype"    -> [NoDefinitions EXCEPT !.datatypes = <<l.def>>]
    [] l.op = "declare-fun" -> [NoDefinitions EXCEPT !.functions = <<l.def>>]
    [] l.op = "prove"       -> [NoDefinitions EXCEPT !.conjectures = <<l.def>>]
    [] IsRule(l)            -> [NoDefinitions EXCEPT !.rws = RulesOf(l)]
    [] OTHER                -> NoDefinitions

(***************************************************************************)
(* Case splitters.  A function is split by a parameter if the rules of the *)
(* file take every constructor of its type apart there and look into       *)
(* another argument as well.                                               *)
(***************************************************************************)
PatsFor(f, pats) == {p \in ToSet(pats) : p.op = f.name}

\* Faulty variant of Relevant: one constructor that is matched is enough.
RelevantIfAny(f, i, d, pats) ==
  /\ d.name = f.params[i]
  /\ \E c \in d.constructors : \E p \in PatsFor(f, pats) : p.args[i] = c

Relevant(f, i, d, pats) ==
  /\ d.name = f.params[i]
  /\ \A c \in d.constructors : \E p \in PatsFor(f, pats) : p.args[i] = c

\* What argument j is where argument i is a constructor.
ParamPats(f, i, d, pats) ==
  LET ps == {p \in PatsFor(f, pats) : p.args[i] \in d.constructors}
  IN [j \in DOMAIN f.params |->
        IF j = i THEN {} ELSE {p.args[j] : p \in ps} \ {"?var"}]

SplittersBy(f, i, d, pats) ==
  LET par == ParamPats(f, i, d, pats)
      Options(j) == IF par[j] = {} THEN {"?var"} ELSE par[j]
      combs == {c \in [DOMAIN f.params -> UNION {Options(j) : j \in DOMAIN f.params}] :
                  \A j \in DOMAIN f.params : c[j] \in Options(j)}
  IN IF \A j \in DOMAIN par : par[j] = {} THEN {}
     ELSE {[op |-> f.name, args |-> c, root |-> i, cases |-> d.constructors] : c \in combs}

SplittersOf(ds, pats) ==
  UNION {UNION {UNION {IF PatsFor(f, pats) # {} /\ Relevant(f, i, d, pats)
                       THEN SplittersBy(f, i, d, pats) ELSE {} :
                         d \in ToSet(ds.datatypes)} :
                  i \in DOMAIN f.params} :
           f \in ToSet(ds.functions)}

(***************************************************************************)
(* The parser.                                                             *)
(***************************************************************************)
Frame(file) == [file |-> file, next |-> 1, defs |-> NoDefinitions, pats |-> <<>>]
Top == Last(stack)
Below == Front(stack)
Lines == theory[Top.file]

\* The line has been read, and gave the definitions ds and the patterns ps.
After(frame, ds, ps) ==
  [frame EXCEPT !.next = @ + 1, !.defs = Merge(@, ds), !.pats = @ \o ps]
Skip(frame) == After(frame, NoDefinitions, <<>>)
Goto(frame) == stack' = Append(Below, frame) /\ UNCHANGED <<theory, defs, status>>

Init ==
  /\ theory \in Theories /\ stack = <<Frame(Main)>>
  /\ defs = NoDefinitions /\ status = "parsing"

Current == Lines[Top.next]
AtLine(ops) == status = "parsing" /\ Top.next <= Len(Lines) /\ Current.op \in ops

\* Faulty variant of Include: the line is passed here and at the end of the file.
IncludeAdvancing ==
  /\ AtLine({"include"}) /\ Current.file \in DOMAIN theory
  /\ stack' = Append(Append(Below, Skip(Top)), Frame(Current.file))
  /\ UNCHANGED <<theory, defs, status>>

Include ==
  /\ AtLine({"include"}) /\ Current.file \in DOMAIN theory
  /\ stack' = Append(stack, Frame(Current.file))
  /\ UNCHANGED <<theory, defs, status>>

\* The file cannot be read: the error is dropped.
IncludeMissing ==
  /\ AtLine({"include"}) /\ Current.file \notin DOMAIN theory
  /\ Goto(Skip(Top))

Declare ==
  /\ AtLine({"datatype", "declare-fun", "prove"})
  /\ Goto(After(Top, DefinitionsOf(Current), <<>>))

\* A rule that Rewrite::new refuses is unwrapped, except for <=>; <=> with a
\* condition ends the file with an error.
Refused(l) == l.op # "<=>" /\ ~l.legal
Conditional(l) == l.op = "<=>" /\ l.conds
ReadRule ==
  /\ AtLine({"=>", "=|>", "<=>"}) /\ ~Refused(Current) /\ ~Conditional(Current)
  /\ Goto(After(Top, DefinitionsOf(Current), PatsOf(Current)))

Panic ==
  /\ AtLine({"=>", "=|>"}) /\ Refused(Current)
  /\ status' = "panicked" /\ UNCHANGED <<theory, stack, defs>>

\* A comment, a line that is not well formed, or an operation that is not known.
SkipLine == AtLine({"other"}) /\ Goto(Skip(Top))

\* Faulty variant of Return: the line of the include is read again.
ReturnToInclude(ds) ==
  /\ stack' = IF Below = <<>> THEN <<>>
              ELSE Append(Front(Below), [Last(Below) EXCEPT !.defs = Merge(@, ds)])
  /\ defs' = IF Below = <<>> THEN ds ELSE defs

\* The file has been read: what it defines goes to the file that includes it.
Return(ds) ==
  /\ stack' = IF Below = <<>> THEN <<>>
              ELSE Append(Front(Below), After(Last(Below), ds, <<>>))
  /\ defs' = IF Below = <<>> THEN ds ELSE defs

\* parse returns an error, which the including file drops.
Fail ==
  /\ AtLine({"<=>"}) /\ Conditional(Current)
  /\ Return(NoDefinitions)
  /\ status' = IF Below = <<>> THEN "failed" ELSE status
  /\ UNCHANGED theory

EndOfFile ==
  /\ status = "parsing" /\ Top.next > Len(Lines)
  /\ Return([Top.defs EXCEPT !.case_splitters =
               @ \cup SplittersOf(Top.defs, Top.pats)])
  /\ status' = IF Below = <<>> THEN "parsed" ELSE status
  /\ UNCHANGED theory

Next == \/ Include \/ IncludeMissing \/ Declare \/ ReadRule \/ Panic \/ SkipLine
        \/ Fail \/ EndOfFile

\* The parser runs until it is done.
Spec == Init /\ [][Next]_vars /\ WF_vars(Next)

(***************************************************************************)
(* Properties.                                                             *)
(***************************************************************************)
\* An error of the file: a rule <=> with a condition.
IsError(t, file) == \E i \in DOMAIN t[file] : Conditional(t[file][i])

\* What stands in the place of line l, when text[f] is the text of f: that of
\* the file it includes, where one that is missing or has an error is empty.
InPlace(t, text, l) ==
  IF l.op # "include" THEN <<l>>
  ELSE IF l.file \notin DOMAIN t \/ IsError(t, l.file) THEN <<>> ELSE text[l.file]

\* The lines of each file with those of the files it includes in their place.
Text(t) ==
  LET text[f \in DOMAIN t] ==
        FlattenSeq([i \in DOMAIN t[f] |-> InPlace(t, text, t[f][i])])
  IN text

\* The elements of s that are not there before, by their key.
Fields == {"functions", "datatypes", "rws", "conjectures"}
Key(field, x) == IF field = "conjectures" THEN x ELSE x.name
Firsts(field, s) ==
  Selected(s, {i \in DOMAIN s : \A k \in 1..(i - 1) : Key(field, s[k]) # Key(field, s[i])})

\* ds has what the text defines, the first of each name.
All(field, text) == FlattenSeq([i \in DOMAIN text |-> DefinitionsOf(text[i])[field]])
Reads(ds, text) == \A field \in Fields : ds[field] = Firsts(field, All(field, text))

\* The type invariant.  Each file but the first is read because of the line at
\* which the one below it stands, and none is read while it is being read.
TypeOK ==
  /\ status \in {"parsing", "parsed", "failed", "panicked"}
  /\ (stack = <<>>) = (status \in {"parsed", "failed"})
  /\ \A k \in DOMAIN stack :
       /\ stack[k].next \in 1..(Len(theory[stack[k].file]) + 1)
       /\ \A j \in 1..(k - 1) : stack[j].file # stack[k].file
       /\ k > 1 => LET below == theory[stack[k - 1].file]
                      at == stack[k - 1].next
                  IN /\ at <= Len(below)
                     /\ below[at].op = "include" /\ below[at].file = stack[k].file

\* An included file cannot make the reading fail with an error, only end the
\* program: by a rule that writes a variable it does not bind.
FailsOnlyByItself ==
  /\ status = "failed" => IsError(theory, Main)
  /\ status = "panicked" => Refused(Current)

\* What has been read in the end is what the text with the included files in
\* place gives, read once, where the first definition of a name stands and
\* later ones are dropped, whichever way the files include each other.  Only an
\* error of the main file is an error.
IncludesAreSpliced ==
  /\ FailsOnlyByItself
  /\ status = "parsed" => Reads(defs, Text(theory)[Main])

\* Where the files of t agree on the function of splitter s and on its datatype,
\* it makes a case of each constructor, and each case unblocks the function:
\* some rule takes that constructor apart, or else splitting could not help.
AllLines(t) == UNION {ToSet(t[f]) : f \in DOMAIN t}
Declared(t, op, name) == {l.def : l \in {k \in AllLines(t) : k.op = op /\ k.def.name = name}}
Agreed(t, op, name) == \A d, e \in Declared(t, op, name) : d = e
AllPats(t) == UNION {ToSet(PatsOf(l)) : l \in {k \in AllLines(t) : IsRule(k)}}
Unblocks(t, ds, s) ==
  \E f \in ToSet(ds.functions) :
    LET type == f.params[s.root]
    IN /\ f.name = s.op
       /\ Agreed(t, "declare-fun", f.name) /\ Agreed(t, "datatype", type) =>
            \A d \in Declared(t, "datatype", type) :
              /\ Contains(ds.datatypes, d) /\ s.cases = d.constructors
              /\ \A c \in d.constructors :
                   \E p \in AllPats(t) : p.op = s.op /\ p.args[s.root] = c

\* Every splitter that was found unblocks its function.
SplittersUnblock == status = "parsed" => \A s \in defs.case_splitters : Unblocks(theory, defs, s)

\* If the files do not include each other in a circle, reading ends; the
\* program has nothing that would stop it at a circle.
Terminates == <>(status # "parsing")
=============================================================================
