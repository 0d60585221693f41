------------------------------ MODULE FreeLang ------------------------------
(***************************************************************************)
(* The core of the language and what it means: functions of one parameter, *)
(* let, if, loop and recur, calls of a variable and of a named function.   *)
(* This is the reference that the compiler of cgc-main.fl is held against: *)
(* names are looked up where they are bound, arguments are evaluated from  *)
(* left to right, a let is evaluated before its name is there.             *)
(***************************************************************************)
EXTENDS Integers, Sequences, FiniteSets

Num(v) == [op |-> "num", v |-> v]
Var(n) == [op |-> "var", n |-> n]
Let(n, a, b) == [op |-> "let", n |-> n, a |-> a, b |-> b]    \* (let [[$n a]] b)
Fn(n, b) == [op |-> "fn", n |-> n, b |-> b]                  \* (fn [$n] b)
Call(n, a) == [op |-> "call", n |-> n, a |-> a]              \* ($n a)
App(a) == [op |-> "app", a |-> a]                            \* (g a): g prints a and returns it
Add(a, b) == [op |-> "add", a |-> a, b |-> b]                \* (+ a b)
If(c, a, b) == [op |-> "if", c |-> c, a |-> a, b |-> b]
Loop(n, a, b) == [op |-> "loop", n |-> n, a |-> a, b |-> b]  \* (loop [$n a] b)
Recur(a) == [op |-> "recur", a |-> a]
Entry(a) == [op |-> "map", a |-> a]                          \* {:key a}

Binds(e) == e.op \in {"let", "fn", "loop"}

\* the expressions an expression is made of
Parts(e) ==
    CASE e.op \in {"num", "var"} -> {}
      [] e.op = "fn" -> {e.b}
      [] e.op \in {"let", "add", "loop"} -> {e.a, e.b}
      [] e.op = "if" -> {e.c, e.a, e.b}
      [] OTHER -> {e.a}

RECURSIVE Within(_)
Within(e) == {e} \cup UNION {Within(p) : p \in Parts(e)}

RECURSIVE Free(_)
Free(e) ==
    CASE e.op = "var" -> {e.n}
      [] e.op = "call" -> {e.n} \cup Free(e.a)
      [] e.op = "fn" -> Free(e.b) \ {e.n}
      [] e.op \in {"let", "loop"} -> Free(e.a) \cup (Free(e.b) \ {e.n})
      [] OTHER -> UNION {Free(p) : p \in Parts(e)}

(***************************************************************************)
(* Values, and results: a value with what was printed on the way.  An      *)
(* evaluation stops at an error, when its fuel is spent, and, in C, when   *)
(* it depends on an uninitialised variable.                                *)
(***************************************************************************)

NumVal(i) == [k |-> "num", n |-> i]
Error == [k |-> "error"]
Spent == [k |-> "spent"]
Garbage == [k |-> "garbage"]
Stops == {"error", "spent", "garbage"}

Shown(v) == IF v.k = "num" THEN v ELSE [k |-> v.k]
Truthy(v) == v # NumVal(0)
Sum(v, w) == IF v.k = "num" /\ w.k = "num" THEN NumVal(v.n + w.n) ELSE Error

Result(v) == [v |-> v, out |-> <<>>]
Printed(v) == [v |-> v, out |-> <<Shown(v)>>]

\* first r, then what its value leads to
Then(r, F(_)) ==
    IF r.v.k \in Stops THEN r
    ELSE LET q == F(r.v) IN [v |-> q.v, out |-> r.out \o q.out]

Bind(env, n, v) == [m \in DOMAIN env \cup {n} |-> IF m = n THEN v ELSE env[m]]

(***************************************************************************)
(* The meaning of an expression.                                           *)
(***************************************************************************)

RECURSIVE Eval(_, _, _), Apply(_, _, _), Turn(_, _, _, _)

Eval(e, env, fuel) ==
    IF fuel = 0 THEN Result(Spent)
    ELSE LET At(x) == Eval(x, env, fuel - 1) IN
         CASE e.op = "num" -> Result(NumVal(e.v))
           [] e.op = "var" -> Result(env[e.n])
           [] e.op = "let" -> Then(At(e.a), LAMBDA v : Eval(e.b, Bind(env, e.n, v), fuel - 1))
           [] e.op = "fn" -> Result([k |-> "fn", n |-> e.n, b |-> e.b, env |-> env])
           [] e.op = "call" -> Then(At(e.a), LAMBDA v : Apply(env[e.n], v, fuel - 1))
           [] e.op = "app" -> Then(At(e.a), Printed)
           [] e.op = "add" -> Then(At(e.a), LAMBDA v : Then(At(e.b), LAMBDA w : Result(Sum(v, w))))
           [] e.op = "if" -> Then(At(e.c), LAMBDA v : At(IF Truthy(v) THEN e.a ELSE e.b))
           [] e.op = "loop" -> Then(At(e.a), LAMBDA v : Turn(e, env, v, fuel - 1))
           [] e.op = "recur" -> Then(At(e.a), LAMBDA v : Result([k |-> "again", of |-> v]))
           [] e.op = "map" -> Then(At(e.a), LAMBDA v : Result([k |-> "map", of |-> v]))

Apply(f, v, fuel) ==
    IF f.k = "fn" THEN Eval(f.b, Bind(f.env, f.n, v), fuel) ELSE Result(Error)

Turn(e, env, v, fuel) ==
    IF fuel = 0 THEN Result(Spent)
    ELSE Then(Eval(e.b, Bind(env, e.n, v), fuel),
              LAMBDA w : IF w.k = "again" THEN Turn(e, env, w.of, fuel - 1) ELSE Result(w))

\* a program is a function body; what it returns is called, or looked into, until
\* a number is there
RECURSIVE Probe(_, _)
Probe(v, fuel) ==
    CASE v.k = "fn" -> Then(Apply(v, NumVal(1), fuel),
                            LAMBDA w : IF fuel = 0 THEN Result(Spent) ELSE Probe(w, fuel - 1))
      [] v.k = "map" -> Probe(v.of, fuel)
      [] OTHER -> Result(v)

Meaning(p, fuel) ==
    Then(Eval(p.body, [n \in {p.param} |-> NumVal(1)], fuel), LAMBDA v : Probe(v, fuel))
=============================================================================
