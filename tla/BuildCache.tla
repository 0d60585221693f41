----------------------------- MODULE BuildCache -----------------------------
(***************************************************************************)
(* fl-build.sh: what builds leave on disk and reuse.  The archive of the   *)
(* runtime (runtime/libfx.a) and the object of the program (app.o in       *)
(* /tmp/fl_app_cache, one per output name) are kept with a hash file each, *)
(* the package functions (runtime/user-fns.c) are written over.  No build  *)
(* locks anything, and a build may be killed between any two steps.        *)
(***************************************************************************)
EXTENDS Naturals

CONSTANTS
    Builders,   \* processes running fl-build.sh for one output name
    Sources,    \* programs that are built
    Good,       \* the ones that compile
    PackagesOf, \* the packages each source :uses
    Versions,   \* states of the runtime's sources
    Habits,     \* how the script may be used, see HabitNames
    MaxBuilds   \* bound: builds started, for each set of habits

\* what a use of the script may include:
\*   "parallel"  builds run at the same time
\*   "kill"      a build is killed (^C, timeout)
\*   "edit"      the runtime's sources change between builds
\*   "flaky"     gcc may fail on a good source (memory, disk)
HabitNames == {"parallel", "kill", "edit", "flaky"}

ASSUME BuildAssumption ==
    /\ Good \subseteq Sources
    /\ Habits \subseteq SUBSET HabitNames
    /\ MaxBuilds \in [Habits -> Nat]

NoFile == [file |-> "none"]

VARIABLES
    habits,     \* the habits of this run
    rt,         \* the version of the runtime's sources
    lib,        \* runtime/libfx.a
    libHash,    \* runtime/.libfx_hash
    obj,        \* /tmp/fl_app_cache/<output>.o
    objHash,    \* /tmp/fl_app_cache/<output>.hash
    fns,        \* the packages in runtime/user-fns.c
    job,        \* what each builder is at
    builds      \* builds started

disk == <<rt, lib, libHash, obj, objHash, fns>>
buildVars == <<habits, disk, job, builds>>

NoJob == [pc |-> "idle"]
Job(s, n) == [pc |-> "deps", src |-> s, net |-> n, hash |-> "unread", objs |-> NoFile]
Ended(j, exit, out) == [pc |-> "ended", src |-> j.src, net |-> j.net, rt |-> j.hash,
                        exit |-> exit, out |-> out]

Nets == BOOLEAN     \* with the network sources, or --no-net
Libs == [file : {"lib"}, rt : Versions, nets : SUBSET Nets, whole : BOOLEAN]
Objs == [file : {"obj"}, src : Sources, net : Nets, rt : Versions, whole : BOOLEAN]

\* the hash files: "${CURRENT_HASH}_${NO_NET}" and "${APP_HASH}_${NO_NET}"
LibHash(v, n) == [file |-> "hash", rt |-> v, net |-> n]
ObjHash(s, n) == [file |-> "hash", src |-> s, net |-> n]
LibHashes == {LibHash(v, n) : v \in Versions, n \in Nets}
ObjHashes == {ObjHash(s, n) : s \in Sources, n \in Nets}

BuildTypeOK ==
    /\ habits \in Habits
    /\ rt \in Versions
    /\ lib \in Libs \cup {NoFile}
    /\ libHash \in LibHashes \cup {NoFile}
    /\ obj \in Objs \cup {NoFile}
    /\ objHash \in ObjHashes \cup {NoFile}
    /\ fns \in {PackagesOf[s] : s \in Sources} \cup {{}}
    /\ \A b \in Builders :
          job[b].pc \in {"idle", "deps", "front", "lib", "compile", "remove", "archive",
                         "libhash", "app", "cc", "emit", "apphash", "link", "ended"}
    /\ builds \in 0 .. MaxBuilds[habits]

\* a fresh checkout
BuildInit ==
    /\ habits \in Habits
    /\ rt \in Versions
    /\ lib = NoFile /\ libHash = NoFile
    /\ obj = NoFile /\ objHash = NoFile
    /\ fns = {}
    /\ job = [b \in Builders |-> NoJob]
    /\ builds = 0

Running(b) == job[b].pc \notin {"idle", "ended"}

Goto(b, l) == job' = [job EXCEPT ![b].pc = l]

Exit(b, code) == job' = [job EXCEPT ![b] = Ended(@, code, NoFile)]

Begin(b, s, n) ==
    /\ ~Running(b)
    /\ builds < MaxBuilds[habits]
    /\ "parallel" \in habits \/ \A c \in Builders : ~Running(c)
    /\ builds' = builds + 1
    /\ job' = [job EXCEPT ![b] = Job(s, n)]
    /\ UNCHANGED <<habits, disk>>

\* mutant: the packages of a program that is in the cache are not written again
ResolveUncached(b) ==
    /\ job[b].pc = "deps"
    /\ fns' = IF PackagesOf[job[b].src] = {} \/ objHash # NoFile THEN fns
              ELSE PackagesOf[job[b].src]
    /\ Goto(b, "front")
    /\ UNCHANGED <<habits, rt, lib, libHash, obj, objHash, builds>>

\* the packages of the module declaration are resolved and user-fns.c is
\* written; a module without :use leaves the file as it is
Resolve(b) ==
    /\ job[b].pc = "deps"
    /\ fns' = IF PackagesOf[job[b].src] = {} THEN fns ELSE PackagesOf[job[b].src]
    /\ Goto(b, "front")
    /\ UNCHANGED <<habits, rt, lib, libHash, obj, objHash, builds>>

\* the resolver, the reading of the packages' metadata or the generator fails
\* (set -e): a package is missing or wrong, or gcc does not build the tool.  (A
\* generator that runs out of disk while it writes is left out.)
ResolveFails(b) ==
    /\ job[b].pc = "deps"
    /\ PackagesOf[job[b].src] # {}
    /\ job[b].src \notin Good \/ "flaky" \in habits
    /\ Exit(b, 1)
    /\ UNCHANGED <<habits, disk, builds>>

\* preprocessing, the checks and cgc-bin work on files of this process; a bad
\* source may be found out here
Front(b) ==
    /\ job[b].pc = "front"
    /\ \/ Goto(b, "lib")
       \/ job[b].src \notin Good /\ Exit(b, 1)
    /\ UNCHANGED <<habits, disk, builds>>

(***************************************************************************)
(* The archive of the runtime.                                             *)
(***************************************************************************)

\* mutant: the flag --no-net is not part of the hash
LibCurrentAnyNet(b) == lib # NoFile /\ libHash # NoFile /\ libHash.rt = rt

LibCurrent(b) == lib # NoFile /\ libHash = LibHash(rt, job[b].net)

TestLib(b) ==
    /\ job[b].pc = "lib"
    /\ job' = [job EXCEPT ![b].hash = rt,
                          ![b].pc = IF LibCurrent(b) THEN "app" ELSE "compile"]
    /\ UNCHANGED <<habits, disk, builds>>

\* one gcc per source in the background and a bare wait, which is successful
\* even when a gcc was not
CompileLib(b) ==
    /\ job[b].pc = "compile"
    /\ \E w \in IF "flaky" \in habits THEN BOOLEAN ELSE {TRUE} :
          job' = [job EXCEPT ![b].pc = "remove",
                             ![b].objs = [file |-> "lib", rt |-> rt,
                                          nets |-> {job[b].net}, whole |-> w]]
    /\ UNCHANGED <<habits, disk, builds>>

RemoveLib(b) ==
    /\ job[b].pc = "remove"
    /\ lib' = NoFile
    /\ Goto(b, "archive")
    /\ UNCHANGED <<habits, rt, libHash, obj, objHash, fns, builds>>

\* ar rcs: members of an archive that is there again stay unless replaced
Archive(b) ==
    /\ job[b].pc = "archive"
    /\ lib' = IF lib = NoFile THEN job[b].objs
              ELSE [job[b].objs EXCEPT !.nets = @ \cup lib.nets,
                                       !.whole = @ \/ lib.whole]
    /\ Goto(b, "libhash")
    /\ UNCHANGED <<habits, rt, libHash, obj, objHash, fns, builds>>

HashLib(b) ==
    /\ job[b].pc = "libhash"
    /\ libHash' = LibHash(job[b].hash, job[b].net)
    /\ Goto(b, "app")
    /\ UNCHANGED <<habits, rt, lib, obj, objHash, fns, builds>>

(***************************************************************************)
(* The object of the program.                                              *)
(***************************************************************************)

TestApp(b) ==
    /\ job[b].pc = "app"
    /\ Goto(b, IF obj # NoFile /\ objHash = ObjHash(job[b].src, job[b].net)
               THEN "link" ELSE "cc")
    /\ UNCHANGED <<habits, disk, builds>>

\* gcc compiles, and begins to write the object
CompileApp(b) ==
    /\ job[b].pc = "cc"
    /\ job[b].src \in Good
    /\ obj' = [file |-> "obj", src |-> job[b].src, net |-> job[b].net,
               rt |-> rt, whole |-> FALSE]
    /\ Goto(b, "emit")
    /\ UNCHANGED <<habits, rt, lib, libHash, objHash, fns, builds>>

EmitApp(b) ==
    /\ job[b].pc = "emit"
    /\ obj' = [file |-> "obj", src |-> job[b].src, net |-> job[b].net,
               rt |-> rt, whole |-> TRUE]
    /\ Goto(b, "apphash")
    /\ UNCHANGED <<habits, rt, lib, libHash, objHash, fns, builds>>

HashApp(b) ==
    /\ job[b].pc = "apphash"
    /\ objHash' = ObjHash(job[b].src, job[b].net)
    /\ Goto(b, "link")
    /\ UNCHANGED <<habits, rt, lib, libHash, obj, fns, builds>>

\* gcc fails: the object and its hash are removed
AppFails(b) ==
    /\ job[b].pc = "cc"
    /\ job[b].src \notin Good
    /\ obj' = NoFile
    /\ objHash' = NoFile
    /\ Exit(b, 1)
    /\ UNCHANGED <<habits, rt, lib, libHash, fns, builds>>

\* the link takes whatever object, archive and package functions are there
Link(b) ==
    /\ job[b].pc = "link"
    /\ IF /\ obj # NoFile /\ obj.whole
          /\ lib # NoFile /\ lib.whole
          /\ PackagesOf[obj.src] \subseteq fns
       THEN job' = [job EXCEPT ![b] = Ended(@, 0, [obj |-> obj, lib |-> lib])]
       ELSE Exit(b, 1)
    /\ UNCHANGED <<habits, disk, builds>>

(***************************************************************************)
(* What happens around a build.                                            *)
(***************************************************************************)

\* killed: the disk stays as it is; gcc removes the file it was writing,
\* unless it had no time to
Kill(b) ==
    /\ "kill" \in habits
    /\ Running(b)
    /\ obj' \in IF job[b].pc = "emit" THEN {obj, NoFile} ELSE {obj}
    /\ Exit(b, 124)
    /\ UNCHANGED <<habits, rt, lib, libHash, objHash, fns, builds>>

Edit ==
    /\ "edit" \in habits
    /\ \A b \in Builders : ~Running(b)
    /\ \E v \in Versions \ {rt} : rt' = v
    /\ UNCHANGED <<habits, lib, libHash, obj, objHash, fns, job, builds>>

BuildStep(b) ==
    \/ Resolve(b) \/ ResolveFails(b) \/ Front(b)
    \/ TestLib(b) \/ CompileLib(b) \/ RemoveLib(b) \/ Archive(b) \/ HashLib(b)
    \/ TestApp(b) \/ CompileApp(b) \/ EmitApp(b) \/ HashApp(b) \/ AppFails(b)
    \/ Link(b)

(***************************************************************************)
(* Properties.                                                             *)
(***************************************************************************)

\* A build that succeeds has linked its own program, with its own flag, against
\* the archive of the runtime as it was when the build tested it, whatever
\* other programs, flags, failed builds and runtime changes came before on the
\* same caches.  (Holds as long as builds neither overlap nor are killed: the
\* hash files and what they vouch for are written apart, without a lock.)
FreshBinary ==
    habits \cap {"parallel", "kill"} = {} =>
        \A b \in Builders :
            job[b].pc = "ended" /\ job[b].exit = 0 =>
                /\ job[b].out.obj.src = job[b].src
                /\ job[b].out.obj.net = job[b].net
                /\ job[b].out.lib.nets = {job[b].net}
                /\ job[b].out.lib.rt = job[b].rt
                /\ "edit" \notin habits => job[b].out.obj.rt = job[b].rt

\* A build of a program that compiles succeeds, whatever was built and failed
\* before.  (A runtime source that once failed to compile is vouched for by the
\* hash file, and every later build fails: only "flaky" is left out with the
\* two habits above.)
GoodBuilds ==
    habits \subseteq {"edit"} =>
        \A b \in Builders :
            job[b].pc = "ended" /\ job[b].src \in Good => job[b].exit = 0
=============================================================================
