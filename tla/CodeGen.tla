------------------------------ MODULE CodeGen -------------------------------
(***************************************************************************)
(* The compiler of self/cgc-main.fl, from syntax trees to C, what gcc says *)
(* of that C, and how it runs.  The compiler walks the tree once with four *)
(* global atoms, s: the id of the next closure, the names a closure may    *)
(* capture, the names that are called through fl_fn_call, and the closure  *)
(* functions written so far.  C is a tree as well: blocks with a           *)
(* declaration, while loops, closures with the names they copy.            *)
(***************************************************************************)
EXTENDS FreeLang

CONSTANTS
    Programs,   \* the programs of the instance, as records of a parameter and a body
    Functions,  \* the names of the functions a program defines besides its own
    Fuel        \* bound: steps of an evaluation

VARIABLES
    program,    \* the syntax tree
    order,      \* the order gcc evaluates the arguments of a C call in
    stage,      \* "parsed", "compiled", "refused" or "ran"
    unit,       \* the C translation unit
    result      \* what the binary printed and returned

vars == <<program, order, stage, unit, result>>

\* c-name: ? is written _p in C (and - as _, ! as _b, -> as _to_)
CName(n) == IF n = "x?" THEN "x_p" ELSE n

\* mutant: the analysis does not look for variables below a let
RECURSIVE CollectShallow(_)
CollectShallow(e) ==
    CASE e.op = "var" -> {CName(e.n)}
      [] e.op \in {"num", "map", "let"} -> {}
      [] OTHER -> UNION {CollectShallow(p) : p \in Parts(e)}

\* cgc-collect-vars: the variables among the arguments of each form, binders
\* included; not the operator of a call, and nothing inside a map
RECURSIVE CollectVars(_)
CollectVars(e) ==
    CASE e.op = "var" -> {CName(e.n)}
      [] e.op \in {"num", "map"} -> {}
      [] OTHER -> (IF Binds(e) THEN {CName(e.n)} ELSE {})
                  \cup UNION {CollectVars(p) : p \in Parts(e)}

Start(p) == [id |-> 0, outer |-> {CName(p.param)}, known |-> {}, fns |-> <<>>]

(***************************************************************************)
(* Cgc(e, s, loop) is the C of e with the atoms it leaves.  loop is the    *)
(* variable of the loop that e is the tail of, or nothing: cgc-with-recur  *)
(* hands it down through if and let, plain cgc does not.                   *)
(***************************************************************************)
RECURSIVE Cgc(_, _, _)

CgcName(n, s) ==
    [c |-> IF n \in Functions THEN [t |-> "wrapper"] ELSE [t |-> "name", n |-> CName(n)], s |-> s]

\* the declaration is compiled before the name can be captured or called
CgcLet(e, s, loop) ==
    LET a == Cgc(e.a, s, "none")
        n == CName(e.n)
        b == Cgc(e.b, [a.s EXCEPT !.outer = @ \cup {n}, !.known = @ \cup {n}], loop)
    IN [c |-> [t |-> "block", n |-> n, a |-> a.c, b |-> b.c], s |-> b.s]

\* the id is read before the body is compiled and counted up after it
CgcFn(e, s) ==
    LET b == Cgc(e.b, s, "none")
        caps == (CollectVars(e.b) \ {CName(e.n)}) \cap s.outer
    IN [c |-> [t |-> "closure", id |-> s.id, caps |-> caps],
        s |-> [b.s EXCEPT !.id = @ + 1,
                          !.fns = Append(@, [id |-> s.id, caps |-> caps, n |-> CName(e.n), b |-> b.c])]]

\* cgc-fncall: a number for the argument array, then the arguments
CgcFnCall(n, a, s) ==
    LET r == Cgc(a, [s EXCEPT !.id = @ + 1], "none")
    IN [c |-> [t |-> "fncall", n |-> n, a |-> r.c], s |-> r.s]

\* (f a): through fl_fn_call if some let so far has bound the name f
CgcNamed(f, a, s) ==
    IF CName(f) \in s.known THEN CgcFnCall(CName(f), a, s)
    ELSE LET r == Cgc(a, s, "none") IN [c |-> [t |-> "direct", f |-> f, a |-> r.c], s |-> r.s]

CgcAdd(e, s) ==
    LET a == Cgc(e.a, s, "none")
        b == Cgc(e.b, a.s, "none")
    IN [c |-> [t |-> "add", a |-> a.c, b |-> b.c], s |-> b.s]

CgcIf(e, s, loop) ==
    LET c == Cgc(e.c, s, "none")
        a == Cgc(e.a, c.s, loop)
        b == Cgc(e.b, a.s, loop)
    IN [c |-> [t |-> "ternary", c |-> c.c, a |-> a.c, b |-> b.c], s |-> b.s]

\* mutant: the variable is declared with its first value, without the temporary
CgcLoopDirect(e, s) ==
    LET a == Cgc(e.a, s, "none")
        n == CName(e.n)
        b == Cgc(e.b, a.s, n)
    IN [c |-> [t |-> "block", n |-> n, a |-> a.c,
               b |-> [t |-> "while", n |-> n, a |-> [t |-> "name", n |-> n], b |-> b.c]],
        s |-> b.s]

\* a temporary holds the first value before the variable is declared
CgcLoop(e, s) ==
    LET a == Cgc(e.a, s, "none")
        b == Cgc(e.b, a.s, CName(e.n))
    IN [c |-> [t |-> "while", n |-> CName(e.n), a |-> a.c, b |-> b.c], s |-> b.s]

CgcRecur(e, s, loop) ==
    LET a == Cgc(e.a, s, "none") IN [c |-> [t |-> "assign", n |-> loop, a |-> a.c], s |-> a.s]

\* recur where no loop is waiting for it: its argument is not even evaluated
Orphan(s) == [c |-> [t |-> "nil"], s |-> s]

CgcMap(e, s) ==
    LET a == Cgc(e.a, s, "none") IN [c |-> [t |-> "pairs", a |-> a.c], s |-> a.s]

Cgc(e, s, loop) ==
    CASE e.op = "num" -> [c |-> [t |-> "num", v |-> e.v], s |-> s]
      [] e.op = "var" -> CgcName(e.n, s)
      [] e.op = "let" -> CgcLet(e, s, loop)
      [] e.op = "fn" -> CgcFn(e, s)
      [] e.op = "call" -> CgcFnCall(CName(e.n), e.a, s)
      [] e.op = "app" -> CgcNamed("g", e.a, s)
      [] e.op = "add" -> CgcAdd(e, s)
      [] e.op = "if" -> CgcIf(e, s, loop)
      [] e.op = "loop" -> CgcLoop(e, s)
      [] e.op = "recur" -> IF loop = "none" THEN Orphan(s) ELSE CgcRecur(e, s, loop)
      [] e.op = "map" -> CgcMap(e, s)

(***************************************************************************)
(* gcc: every name is declared where it is used (a name is in scope from   *)
(* its declarator on, its own initialiser included), no function is        *)
(* defined twice, every function that is called exists.                    *)
(***************************************************************************)
RECURSIVE Declared(_, _)
Declared(c, scope) ==
    CASE c.t \in {"num", "nil", "wrapper"} -> TRUE
      [] c.t = "name" -> c.n \in scope
      [] c.t = "block" -> Declared(c.a, scope \cup {c.n}) /\ Declared(c.b, scope \cup {c.n})
      [] c.t = "closure" -> c.caps \subseteq scope
      [] c.t \in {"fncall", "assign"} -> c.n \in scope /\ Declared(c.a, scope)
      [] c.t = "direct" -> c.f \in Functions /\ Declared(c.a, scope)
      [] c.t = "add" -> Declared(c.a, scope) /\ Declared(c.b, scope)
      [] c.t = "ternary" -> Declared(c.c, scope) /\ Declared(c.a, scope) /\ Declared(c.b, scope)
      [] c.t = "while" -> Declared(c.a, scope) /\ Declared(c.b, scope \cup {c.n})
      [] c.t = "pairs" -> Declared(c.a, scope)

Accepted(u) ==
    /\ Declared(u.body, {u.param})
    /\ \A i \in DOMAIN u.fns :
          /\ u.fns[i].n \notin u.fns[i].caps
          /\ Declared(u.fns[i].b, u.fns[i].caps \cup {u.fns[i].n})
          /\ \A j \in DOMAIN u.fns : u.fns[i].id = u.fns[j].id => i = j

(***************************************************************************)
(* Running the C.                                                          *)
(***************************************************************************)
RECURSIVE Exec(_, _, _), Enter(_, _, _), Spin(_, _, _, _)

\* the arguments of a C function, in the order of this gcc
ExecAdd(a, b) ==
    IF order = "ltr" THEN Then(a, LAMBDA v : Then(b, LAMBDA w : Result(Sum(v, w))))
    ELSE Then(b, LAMBDA w : Then(a, LAMBDA v : Result(Sum(v, w))))

\* an assignment to a name that a block inside the loop declares anew is lost
Inside(n, v) == IF v.k = "again" /\ v.n = n THEN [v EXCEPT !.n = "none"] ELSE v

Exec(c, env, fuel) ==
    IF fuel = 0 THEN Result(Spent)
    ELSE LET At(x) == Exec(x, env, fuel - 1) IN
         CASE c.t = "num" -> Result(NumVal(c.v))
           [] c.t = "nil" -> Result([k |-> "nil"])
           [] c.t = "name" -> Result(env[c.n])
           [] c.t = "wrapper" -> Result([k |-> "fn", id |-> 0 - 1])
           [] c.t = "block" ->
                Then(Exec(c.a, Bind(env, c.n, Garbage), fuel - 1),
                     LAMBDA v : Then(Exec(c.b, Bind(env, c.n, v), fuel - 1),
                                     LAMBDA w : Result(Inside(c.n, w))))
           [] c.t = "closure" -> Result([k |-> "fn", id |-> c.id, env |-> [n \in c.caps |-> env[n]]])
           [] c.t = "fncall" -> Then(At(c.a), LAMBDA v : Enter(env[c.n], v, fuel - 1))
           [] c.t = "direct" -> Then(At(c.a), Printed)
           [] c.t = "add" -> ExecAdd(At(c.a), At(c.b))
           [] c.t = "ternary" -> Then(At(c.c), LAMBDA v : At(IF Truthy(v) THEN c.a ELSE c.b))
           [] c.t = "while" -> Then(At(c.a), LAMBDA v : Spin(c, env, v, fuel - 1))
           [] c.t = "assign" -> Then(At(c.a), LAMBDA v : Result([k |-> "again", n |-> c.n, of |-> v]))
           [] c.t = "pairs" -> Then(At(c.a), LAMBDA v : Result([k |-> "map", of |-> v]))

Enter(f, v, fuel) ==
    CASE f.k = "garbage" -> Result(Garbage)
      [] f.k # "fn" -> Result(Error)
      [] f.id = 0 - 1 -> Printed(v)
      [] OTHER -> LET fn == unit.fns[CHOOSE i \in DOMAIN unit.fns : unit.fns[i].id = f.id]
                  IN Exec(fn.b, Bind(f.env, fn.n, v), fuel)

Spin(c, env, v, fuel) ==
    IF fuel = 0 THEN Result(Spent)
    ELSE Then(Exec(c.b, Bind(env, c.n, v), fuel),
              LAMBDA w : IF w.k # "again" THEN Result(w)
                         ELSE Spin(c, env, IF w.n = c.n THEN w.of ELSE v, fuel - 1))

RECURSIVE ProbeC(_, _)
ProbeC(v, fuel) ==
    CASE v.k = "fn" -> Then(Enter(v, NumVal(1), fuel),
                            LAMBDA w : IF fuel = 0 THEN Result(Spent) ELSE ProbeC(w, fuel - 1))
      [] v.k = "map" -> ProbeC(v.of, fuel)
      [] OTHER -> Result(v)

(***************************************************************************)
(* A build: compile, let gcc check, run.                                   *)
(***************************************************************************)
NoUnit == [param |-> "none", body |-> [t |-> "num", v |-> 0], fns |-> <<>>]

Init ==
    /\ program \in Programs
    /\ order \in {"ltr", "rtl"}
    /\ stage = "parsed"
    /\ unit = NoUnit
    /\ result = Result(NumVal(0))

Generate ==
    /\ stage = "parsed"
    /\ LET r == Cgc(program.body, Start(program), "none")
       IN unit' = [param |-> CName(program.param), body |-> r.c, fns |-> r.s.fns]
    /\ stage' = "compiled"
    /\ UNCHANGED <<program, order, result>>

Refuse ==
    /\ stage = "compiled"
    /\ ~Accepted(unit)
    /\ stage' = "refused"
    /\ UNCHANGED <<program, order, unit, result>>

Run ==
    /\ stage = "compiled"
    /\ Accepted(unit)
    /\ result' = Then(Exec(unit.body, [n \in {unit.param} |-> NumVal(1)], 2 * Fuel),
                      LAMBDA v : ProbeC(v, 2 * Fuel))
    /\ stage' = "ran"
    /\ UNCHANGED <<program, order, unit>>

Next == Generate \/ Refuse \/ Run

Spec == Init /\ [][Next]_vars

(***************************************************************************)
(* Properties.                                                             *)
(***************************************************************************)
\* Programs the compiler can be trusted with: a name bound by let is bound
\* nowhere else, no variable has the name of a function or the C name of
\* another variable, no function literal is inside another one, and what a
\* function literal uses is bound by let or is the parameter of the program,
\* and appears in it as a value outside map literals.
RECURSIVE BindersOf(_)
BindersOf(e) == (IF Binds(e) THEN <<e>> ELSE <<>>) \o
    CASE e.op = "fn" -> BindersOf(e.b)
      [] e.op \in {"num", "var"} -> <<>>
      [] e.op = "if" -> BindersOf(e.c) \o BindersOf(e.a) \o BindersOf(e.b)
      [] e.op \in {"let", "loop", "add"} -> BindersOf(e.a) \o BindersOf(e.b)
      [] OTHER -> BindersOf(e.a)

\* the variables that stand as values in an expression, outside map literals
RECURSIVE Mentioned(_)
Mentioned(e) ==
    IF e.op = "var" THEN {e.n}
    ELSE IF e.op = "map" THEN {} ELSE UNION {Mentioned(q) : q \in Parts(e)}

Disciplined(p) ==
    LET bs == BindersOf(p.body)
        all == {p.param} \cup {bs[i].n : i \in DOMAIN bs}
        lets == {i \in DOMAIN bs : bs[i].op = "let"}
        fns == {i \in DOMAIN bs : bs[i].op = "fn"}
    IN /\ \A i \in lets : bs[i].n # p.param /\ \A j \in DOMAIN bs : bs[j].n = bs[i].n => j = i
       /\ all \cap Functions = {}
       /\ \A m, n \in all : CName(m) = CName(n) => m = n
       /\ \A i \in fns :
             /\ \A e \in Within(bs[i].b) : e.op # "fn"
             /\ Free(bs[i]) \subseteq {p.param} \cup {bs[j].n : j \in lets}
             /\ Free(bs[i]) \subseteq Mentioned(bs[i].b)

\* as many lines of each kind, whatever their order
Permuted(o, q) ==
    \A v \in {o[i] : i \in DOMAIN o} \cup {q[i] : i \in DOMAIN q} :
        Cardinality({i \in DOMAIN o : o[i] = v}) = Cardinality({i \in DOMAIN q : q[i] = v})

\* A disciplined program is never refused by gcc: every name a closure uses is
\* captured, and captured only where it is in scope (cgc-main.fl:1085-1158).
Builds == stage = "refused" => ~Disciplined(program)

\* A disciplined program that was built returns what the language says and prints
\* the same lines, in the same order if gcc evaluates arguments from the left:
\* closures see the values of their names at their creation, recur assigns the
\* variable of its loop, a let is evaluated before its name (cgc-main.fl:1131-1243,
\* 1475-1507).  With arguments evaluated from the right, an error may come before
\* lines that should precede it, so only programs without an error are compared.
KeepsMeaning ==
    stage = "ran" /\ Disciplined(program) =>
        LET r == Meaning(program, Fuel) IN
        r.v # Spent /\ (order = "ltr" \/ r.v # Error) =>
            /\ Shown(result.v) = Shown(r.v)
            /\ Permuted(result.out, r.out)
            /\ order = "ltr" => result.out = r.out

\* docs/SPEC.md:99: fn closures capture the surrounding parameters and local
\* bindings that they use: so every closed program is built.
ClosuresCapture == stage # "refused"

=============================================================================
