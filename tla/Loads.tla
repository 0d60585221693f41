------------------------------- MODULE Loads --------------------------------
(***************************************************************************)
(* (load "file") in a build: fl-build-plan.c lists what a build would      *)
(* load, fl-build-helper.c puts the text of the files in place of the      *)
(* lines that hold nothing but a load, and cgc-main.fl expands the loads   *)
(* that are left when it has parsed the result.  The three recognise a     *)
(* load differently and keep different books of what they have seen.       *)
(* Each of them recurses into a file it loads: here a stack of the files   *)
(* that are open, with the line each is at.                                *)
(* A file is a directory and a name; its content is its loads, then a text *)
(* of its own that is named by the file.                                   *)
(***************************************************************************)
EXTENDS Naturals, Sequences

CONSTANTS
    Disks,   \* the file systems of the instance: [file -> sequence of loads]
    Root,    \* the file that is built
    Cwd,     \* the directory the build is started in
    Depth    \* bound: files that cgc expands inside each other

\* a load: "line" has its line for itself, "inline" shares it with something,
\* "comment" is in a comment
LoadLines == [kind : {"line", "inline", "comment"}, sub : BOOLEAN, name : STRING]

ASSUME LoadsAssumption ==
    /\ \A d \in Disks : Root \in DOMAIN d /\ \A f \in DOMAIN d : d[f] \in Seq(LoadLines)
    /\ Depth \in Nat

VARIABLES
    disk,
    open,       \* the files that are read inside each other, innermost last
    visited,    \* the files the plan, and then the inliner, has been to
    plan,       \* what fl-build --plan lists, in order
    text,       \* /tmp/fl_preprocessed: texts of files and the loads left over
    nodes,      \* the top-level forms the compiler goes on with
    loadStage   \* what runs or has run last; "overflow" when cgc does not end

loadVars == <<disk, open, visited, plan, text, nodes, loadStage>>

Load(kind, sub, name) == [kind |-> kind, sub |-> sub, name |-> name]
Own(f) == [kind |-> "own", file |-> f]

\* where a load leads from a directory: beside it or in its lib
Resolve(dir, l) == [dir |-> IF l.sub THEN dir \o "/lib" ELSE dir, name |-> l.name]

Exists(f) == f \in DOMAIN disk

Opened(f, lines) == [file |-> f, lines |-> lines, at |-> 1]
OpenFile(f) == Opened(f, Append(disk[f], Own(f)))

Inner == open[Len(open)]
Line == Inner.lines[Inner.at]
Reading(kinds) == open # <<>> /\ Inner.at <= Len(Inner.lines) /\ Line.kind \in kinds
Advanced == [open EXCEPT ![Len(open)].at = @ + 1]

\* past the line, and into file g if the line takes it there and it can be read
Into(g, goes) == IF goes /\ Exists(g) THEN Append(Advanced, OpenFile(g)) ELSE Advanced

\* the innermost file ends; with the outermost one, what was running
Return(stage, next) ==
    /\ loadStage = stage
    /\ open # <<>> /\ Inner.at > Len(Inner.lines)
    /\ open' = SubSeq(open, 1, Len(open) - 1)
    /\ loadStage' = IF Len(open) = 1 THEN next ELSE stage
    /\ UNCHANGED <<disk, visited, plan, text, nodes>>

LoadsInit ==
    /\ disk \in Disks
    /\ open = <<>> /\ visited = {}
    /\ plan = <<>> /\ text = <<>> /\ nodes = <<>>
    /\ loadStage = "source"

(***************************************************************************)
(* collect_loads_recursive: extract_load_path takes a load anywhere in a   *)
(* line, in a comment too; a load is listed before its file is looked up   *)
(* among the visited ones.  A build reads nothing the plan has left.       *)
(***************************************************************************)
Plan ==
    /\ loadStage = "source"
    /\ open' = <<OpenFile(Root)>> /\ visited' = {Root}
    /\ loadStage' = "planning"
    /\ UNCHANGED <<disk, plan, text, nodes>>

\* mutant: the loads of every file are looked for beside the root
TargetFromRoot(l) == Resolve(Root.dir, l)

Target(l) == Resolve(Inner.file.dir, l)

CollectLoad ==
    /\ loadStage = "planning" /\ Reading({"line", "inline", "comment"})
    /\ LET g == Target(Line) IN
       /\ plan' = Append(plan, g)
       /\ open' = Into(g, g \notin visited)
       /\ visited' = visited \cup {g}
    /\ UNCHANGED <<disk, text, nodes, loadStage>>

CollectText ==
    /\ loadStage = "planning" /\ Reading({"own"})
    /\ open' = Advanced
    /\ UNCHANGED <<disk, visited, plan, text, nodes, loadStage>>

CollectReturn == Return("planning", "planned")

(***************************************************************************)
(* inline_loads: a file on the stack gives a comment about a cycle, one    *)
(* that was visited before nothing.  parse_load_path takes a load that has *)
(* the line for itself.                                                    *)
(***************************************************************************)
Preprocess ==
    /\ loadStage = "planned"
    /\ open' = <<OpenFile(Root)>> /\ visited' = {Root}
    /\ loadStage' = "inlining"
    /\ UNCHANGED <<disk, plan, text, nodes>>

OnStack == {open[i].file : i \in DOMAIN open}

\* mutant: only the cycle check, the visited list is never asked
NewOnStack(g) == g \notin OnStack

New(g) == g \notin OnStack /\ g \notin visited

InlineLoad ==
    /\ loadStage = "inlining" /\ Reading({"line"})
    /\ LET g == Resolve(Inner.file.dir, Line) IN
       /\ open' = Into(g, New(g))
       /\ visited' = visited \cup {g}
    /\ UNCHANGED <<disk, plan, text, nodes, loadStage>>

\* any other line is copied; nobody reads a comment again
InlineText ==
    /\ loadStage = "inlining" /\ Reading({"inline", "comment", "own"})
    /\ text' = IF Line.kind = "comment" THEN text ELSE Append(text, Line)
    /\ open' = Advanced
    /\ UNCHANGED <<disk, visited, plan, nodes, loadStage>>

InlineReturn == Return("inlining", "text")

(***************************************************************************)
(* expand-loads: relative to the directory of the file at hand, /tmp for   *)
(* the preprocessed text, else to the directory of the process, else the   *)
(* load is dropped with a message.  Nothing is remembered.                 *)
(***************************************************************************)
Preprocessed == [dir |-> "/tmp", name |-> "fl_preprocessed"]

ExpandLoads ==
    /\ loadStage = "text"
    /\ open' = <<Opened(Preprocessed, text)>>
    /\ loadStage' = "expanding"
    /\ UNCHANGED <<disk, visited, plan, text, nodes>>

Located(dir, l) ==
    IF Exists(Resolve(dir, l)) THEN Resolve(dir, l) ELSE Resolve(Cwd, l)

ExpandLoad ==
    /\ loadStage = "expanding" /\ Reading({"line", "inline"})
    /\ LET g == Located(Inner.file.dir, Line)
           deep == Len(open) > Depth
       IN /\ open' = Into(g, ~deep)
          /\ loadStage' = IF Exists(g) /\ deep THEN "overflow" ELSE loadStage
    /\ UNCHANGED <<disk, visited, plan, text, nodes>>

\* the lexer drops comments
ExpandText ==
    /\ loadStage = "expanding" /\ Reading({"comment", "own"})
    /\ nodes' = IF Line.kind = "own" THEN Append(nodes, Line) ELSE nodes
    /\ open' = Advanced
    /\ UNCHANGED <<disk, visited, plan, text, loadStage>>

ExpandReturn == Return("expanding", "expanded")

LoadsNext ==
    \/ Plan \/ CollectLoad \/ CollectText \/ CollectReturn
    \/ Preprocess \/ InlineLoad \/ InlineText \/ InlineReturn
    \/ ExpandLoads \/ ExpandLoad \/ ExpandText \/ ExpandReturn

LoadsSpec == LoadsInit /\ [][LoadsNext]_loadVars

(***************************************************************************)
(* Properties.  Loaded is the reference: the files behind a load, wherever *)
(* it stands in its line, are part of the program.                         *)
(***************************************************************************)
Needs(d, f) ==
    {g \in DOMAIN d : \E i \in DOMAIN d[f] : d[f][i].kind # "comment" /\ g = Resolve(f.dir, d[f][i])}

\* the files that f leads to, f among them: what is in every set of files that has f
\* and, with a file, what this file needs
Closed(d, S) == \A f \in S : Needs(d, f) \subseteq S
From(d, f) == {g \in DOMAIN d : \A S \in SUBSET DOMAIN d : f \in S /\ Closed(d, S) => g \in S}
Loaded == From(disk, Root)

Entries(seq) == {seq[i] : i \in DOMAIN seq}

\* every load has its line for itself, as in all programs of the repository
Tidy == \A f \in DOMAIN disk : \A i \in DOMAIN disk[f] : disk[f][i].kind # "inline"

\* Whatever the loads are, diamonds, repetitions, cycles and files that are missing
\* included, cgc ends and the program has the text of each loaded file once, and no
\* other (fl-build-helper.c:380-446, docs/SPEC.md:90); a file's own text comes after
\* that of the files it loads, unless they load each other.
IncludedOnce ==
    Tidy /\ loadStage \in {"expanded", "overflow"} =>
        /\ loadStage = "expanded"
        /\ Entries(nodes) = {Own(f) : f \in Loaded}
        /\ \A i, j \in DOMAIN nodes : nodes[i] = nodes[j] => i = j
        /\ \A i, j \in DOMAIN nodes :
              nodes[i].file \in Needs(disk, nodes[j].file) /\ nodes[j].file \notin From(disk, nodes[i].file)
              => i < j

\* The plan names every file the build includes, and with no load in a comment nothing
\* but these files and files that are missing (fl-build-plan.c:262-331 against
\* fl-build-helper.c:332-446).
PlanAgrees ==
    Tidy /\ loadStage = "expanded" =>
        /\ \A n \in Entries(nodes) : n.file \in Entries(plan) \cup {Root}
        /\ (\A f \in Loaded : \A i \in DOMAIN disk[f] : disk[f][i].kind # "comment") =>
              \A f \in Entries(plan) : Exists(f) => Own(f) \in Entries(nodes)
=============================================================================
