----------------------------- MODULE MCCodeGen ------------------------------
(* Programs of bounded size for CodeGen, in three slices: closures, loops   *)
(* and names that collide.                                                  *)
EXTENDS CodeGen

\* expressions of k nodes made of some forms, whose variables are in scope;
\* recur only in the tail of a loop
RECURSIVE Gen(_, _, _, _, _)
Gen(forms, names, k, scope, tail) ==
    LET Has(op) == op \in forms
        Sub(i, sc, tl) == Gen(forms, names, i, sc, tl)
    IN IF k = 1 THEN {Num(1)} \cup (IF Has("if") \/ Has("app") THEN {Num(0)} ELSE {}) \cup {Var(n) : n \in scope}
       ELSE UNION
        ({IF Has("fn") THEN {Fn(n, b) : b \in Sub(k - 1, scope \cup {n}, FALSE)} ELSE {} : n \in names}
         \cup {IF Has("call") THEN {Call(n, a) : a \in Sub(k - 1, scope, FALSE)} ELSE {} : n \in scope}
         \cup {IF Has("app") THEN {App(a) : a \in Sub(k - 1, scope, FALSE)} ELSE {},
               IF Has("map") THEN {Entry(a) : a \in Sub(k - 1, scope, FALSE)} ELSE {},
               IF Has("loop") /\ tail THEN {Recur(a) : a \in Sub(k - 1, scope, FALSE)} ELSE {}}
         \cup {IF Has("let") THEN {Let(n, a, b) : a \in Sub(i, scope, FALSE),
                                                  b \in Sub(k - 1 - i, scope \cup {n}, tail)} ELSE {} :
                 n \in names, i \in 1 .. k - 2}
         \cup {IF Has("loop") THEN {Loop(n, a, b) : a \in Sub(i, scope, FALSE),
                                                    b \in Sub(k - 1 - i, scope \cup {n}, TRUE)} ELSE {} :
                 n \in names, i \in 1 .. k - 2}
         \cup {IF Has("add") THEN {Add(a, b) : a \in Sub(i, scope, FALSE),
                                               b \in Sub(k - 1 - i, scope, FALSE)} ELSE {} : i \in 1 .. k - 2}
         \cup {IF Has("if") THEN {If(c, a, b) : c \in Sub(i, scope, FALSE), a \in Sub(j, scope, tail),
                                                b \in Sub(k - 1 - i - j, scope, tail)} ELSE {} :
                 i \in 1 .. k - 3, j \in 1 .. k - 3})

\* programs of one parameter with a body of at most max nodes
Of(forms, param, names, max) ==
    {[param |-> param, body |-> b] :
        b \in UNION {Gen(forms, names, k, {param}, FALSE) : k \in 1 .. max}}

Closures == Of({"let", "fn", "call"}, "x", {"x", "y", "z"}, 5)
Loops ==
    {[param |-> "y", body |-> Loop("x", Num(0), b)] :
        b \in UNION {Gen({"let", "if", "loop"}, {"x", "y"}, k, {"x", "y"}, TRUE) : k \in 1 .. 5}}
    \cup
    {[param |-> "x", body |-> Loop("x", Var("x"), b)] :
        b \in UNION {Gen({"fn", "call", "if"}, {"x", "y"}, k, {"x"}, TRUE) : k \in 1 .. 4}}
\* closures below a let whose name they may capture
Captured ==
    {[param |-> "x", body |-> Let("y", a, b)] :
        a \in {Num(1), Var("x")}, b \in Gen({"let", "fn", "call"}, {"x", "z"}, 5, {"x", "y"}, FALSE)}
Names == Of({"let", "fn"}, "x?", {"x?", "x_p"}, 5)
FunctionNames == Of({"let", "fn", "app"}, "x", {"x", "g"}, 5)
Maps == Of({"let", "fn", "map"}, "x", {"x", "y"}, 4)
Printing == Of({"app", "add"}, "x", {"x"}, 6)

MCPrograms == Closures \cup Captured \cup Loops \cup Names \cup FunctionNames \cup Maps \cup Printing
ClosurePrograms == Of({"let", "fn"}, "x", {"x", "y"}, 4)
=============================================================================
