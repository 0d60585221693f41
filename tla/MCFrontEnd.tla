----------------------------- MODULE MCFrontEnd -----------------------------
(* The steps of a build in front of gcc for TLC, side by side: loads,        *)
(* parser, code generator and packages share no state, so a behaviour is one *)
(* of them.                                                                  *)
EXTENDS MCCodeGen, Loads, Reader, Packages, TLC

VARIABLE part

----------------------------------------------------------------------------
\* texts: all tokens, longer ones of brackets and one symbol, and of brackets alone
MCTexts ==
    UNION {[1 .. n -> {"(", ")", "[", "]", "s", "S", "k", "@"}] : n \in 0 .. 5}
    \cup [1 .. 6 -> {"(", ")", "[", "]", "s"}] \cup [1 .. 7 -> {"(", ")", "[", "]"}]

----------------------------------------------------------------------------
\* file systems: a root that loads up to two files of app and app/lib, each of
\* which loads up to one file beside it; lib/b may be missing
File(dir, name) == [dir |-> dir, name |-> name]
MCRoot == File("app", "m")
Kinds == {"line", "inline", "comment"}
RootLoads == {Load(k, TRUE, n) : k \in Kinds, n \in {"a", "b"}} \cup {Load(k, FALSE, "a") : k \in Kinds}
OtherLoads == {Load("line", FALSE, n) : n \in {"a", "b", "m"}}
              \cup {Load("inline", FALSE, n) : n \in {"a", "b"}} \cup {Load("comment", FALSE, "a")}
Others == {File("app", "a"), File("app/lib", "a"), File("app/lib", "b")}
UpTo(n, S) == UNION {[1 .. k -> S] : k \in 0 .. n}
MCDisks ==
    {d @@ (MCRoot :> r) : r \in UpTo(2, RootLoads),
                          d \in UNION {[F -> UpTo(1, OtherLoads)] : F \in {Others, Others \ {File("app/lib", "b")}}}}

----------------------------------------------------------------------------
\* two profiles of up to two packages, of which "d" is missing and "c" may have the C
\* name of another one, and a profile that depends on them
Profile(list, depends) == [packages |-> list, depends |-> depends, readable |-> TRUE]
Package(name, skip) == [name |-> name, skip |-> skip, readable |-> TRUE]
PackageLists == {Profile(l, {}) : l \in UpTo(2, {"a-b", "c", "d"})}
Web == {"web" :> Profile(l, {"p", "q"}) : l \in UpTo(1, {"c"})}
MCProfiles ==
    {w @@ f : w \in Web, f \in [{"p", "q"} -> PackageLists] \cup [{"p"} -> PackageLists]}
    \cup {w @@ ("p" :> [l EXCEPT !.readable = FALSE]) : w \in Web, l \in PackageLists}
MCPackages ==
    {[q \in {"a-b", "c"} |-> IF q = "c" THEN r ELSE Package(q, skip)] : skip \in BOOLEAN,
        r \in {Package("c", FALSE), Package("c", TRUE), Package("a_b", FALSE),
               [Package("c", FALSE) EXCEPT !.readable = FALSE]}}
MCRepositories == {[profiles |-> f, packages |-> g] : f \in MCProfiles, g \in MCPackages}
MCUseLists == {<<>>, <<"p">>, <<"p", "q">>, <<"p", "p">>, <<"web", "p">>, <<"p", "web">>}
NoRepository == [profiles |-> <<>>, packages |-> <<>>]

----------------------------------------------------------------------------
NoProgram == [param |-> "none", body |-> Num(0)]

CompilerIdle ==
    program = NoProgram /\ order = "ltr" /\ stage = "idle" /\ unit = NoUnit /\ result = Result(NumVal(0))
LoadsIdle ==
    /\ disk = <<>> /\ open = <<>> /\ visited = {} /\ plan = <<>> /\ text = <<>> /\ nodes = <<>>
    /\ loadStage = "idle"
PackagesIdle ==
    /\ repo = NoRepository
    /\ uses = <<>> /\ prof = 1 /\ item = 1 /\ seen = 0
    /\ planned = <<>> /\ packages = <<>> /\ chosen = <<>> /\ metas = <<>> /\ functions = <<>>
    /\ pkgStage = "idle"
ReaderIdle ==
    tokens = <<>> /\ idx = 1 /\ calls = <<>> /\ made = <<>> /\ tree = <<>> /\ reading = "idle"

FrontInit ==
    \/ part = "loads" /\ LoadsInit /\ ReaderIdle /\ CompilerIdle /\ PackagesIdle
    \/ part = "reader" /\ LoadsIdle /\ ReadInit /\ CompilerIdle /\ PackagesIdle
    \/ part = "compiler" /\ LoadsIdle /\ ReaderIdle /\ Init /\ PackagesIdle
    \/ part = "packages" /\ LoadsIdle /\ ReaderIdle /\ CompilerIdle /\ PkgInit

FrontNext ==
    /\ \/ part = "loads" /\ LoadsNext /\ UNCHANGED <<readVars, vars, pkgVars>>
       \/ part = "reader" /\ ReadNext /\ UNCHANGED <<loadVars, vars, pkgVars>>
       \/ part = "compiler" /\ Next /\ UNCHANGED <<loadVars, readVars, pkgVars>>
       \/ part = "packages" /\ PkgNext /\ UNCHANGED <<loadVars, readVars, vars>>
    /\ UNCHANGED part

FrontSpec == FrontInit /\ [][FrontNext]_<<part, loadVars, readVars, vars, pkgVars>>
=============================================================================
