--------------------------- MODULE MCTermCreation ---------------------------
(***************************************************************************)
(* Theories for TermCreation, on numbers: a unary function, which is the   *)
(* successor, with a constant that is two; the same modulo two, where many *)
(* terms are equal; trees with their depth for a value; a function that is *)
(* the identity on the examples only; and a sum.                           *)
(***************************************************************************)
EXTENDS Conjectures

MCIndVar == "x"
Succ(m) == [a \in {<<n>> : n \in 0..m} |-> IF a[1] = m THEN m ELSE a[1] + 1]
Flip == [a \in {<<0>>, <<1>>} |-> 1 - a[1]]
Deeper(m) == [a \in (0..m) \X (0..m) |-> IF a = <<m, m>> THEN m
                                         ELSE IF a[1] > a[2] THEN Succ(m)[<<a[1]>>]
                                         ELSE Succ(m)[<<a[2]>>]]
S == [name |-> "s", arity |-> 1]
Node == [name |-> "node", arity |-> 2]
Near == [name |-> "near", arity |-> 1]
MCPlaceholders == {"x", "y"}
MCEndsWithOne == {"y"}
Theory(any, consts, dict, constructor, values, algebra, d) ==
  [anyOrder |-> any, consts |-> consts, functions |-> dict \cup {constructor}, base |-> <<"z">>,
   rec |-> <<constructor>>, values |-> values, algebra |-> algebra, depth |-> d]

Two    == Theory(TRUE, <<"x", "two", "z">>, {}, S, 0..6,
                 [c \in {"z", "two", "s"} |->
                    IF c = "z" THEN 0 ELSE IF c = "two" THEN 2 ELSE Succ(6)], 2)
Modulo == Theory(TRUE, <<"x", "y", "z">>, {}, S, 0..1,
                 [c \in {"z", "s"} |-> IF c = "z" THEN 0 ELSE Flip], 2)
Tree   == Theory(FALSE, <<"x", "z">>, {}, Node, 0..4,
                 [c \in {"z", "node"} |-> IF c = "z" THEN 0 ELSE Deeper(4)], 1)
\* near(n) is n except for one n, which is no example.
Almost == Theory(TRUE, <<"x", "z">>, {Near}, S, 0..5,
                 [c \in {"z", "s", "near"} |->
                    IF c = "z" THEN 0 ELSE IF c = "s" THEN Succ(5)
                    ELSE [a \in {<<n>> : n \in 0..5} |-> IF a[1] = 5 THEN 0 ELSE a[1]]], 1)
\* A sum that is its second argument on the example; the matches in one order.
Join   == [anyOrder |-> FALSE, consts |-> <<"x", "y", "z">>,
           functions |-> {[name |-> "join", arity |-> 2]}, base |-> <<"z">>, rec |-> <<>>,
           values |-> 0..2, depth |-> 1,
           algebra |-> [c \in {"z", "join"} |->
             IF c = "z" THEN 0 ELSE [a \in (0..2) \X (0..2) |-> (a[1] * a[1] + a[2]) % 3]]]
MCTheories == {Two, Modulo, Tree, Almost, Join}
=============================================================================
