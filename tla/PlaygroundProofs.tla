-------------------------- MODULE PlaygroundProofs --------------------------
(***************************************************************************)
(* Proofs about builds and checks (BuildCache, Playground), for any number *)
(* of builders, requests, programs and runtime versions and any set of     *)
(* habits.  The argument: where builds do not overlap and none is killed,  *)
(* a hash file and what it vouches for disagree only between two steps of  *)
(* the one build that runs, which itself does not look at them there.      *)
(***************************************************************************)
EXTENDS Playground, TLAPS

RunningStates == {"deps", "front", "lib", "compile", "remove", "archive", "libhash",
                  "app", "cc", "emit", "apphash", "link"}
CheckStates == {"entering", "entered", "test", "space", "build", "leave", "leaving", "answered"}

JobRecs == [pc : RunningStates, src : Sources, net : Nets,
            hash : Versions \cup {"unread"}, objs : Libs \cup {NoFile}]
EndedRecs == [pc : {"ended"}, src : Sources, net : Nets, rt : Versions \cup {"unread"},
              exit : {0, 1, 124}, out : [obj : Objs, lib : Libs] \cup {NoFile}]
Statuses == {0, 200, 408, 422, 429, 500}
CheckRecs == [pc : CheckStates, src : Sources, n : Int, status : Statuses]

Types ==
    /\ habits \in Habits
    /\ rt \in Versions
    /\ lib \in Libs \cup {NoFile}
    /\ libHash \in LibHashes \cup {NoFile}
    /\ obj \in Objs \cup {NoFile}
    /\ objHash \in ObjHashes \cup {NoFile}
    /\ fns \in {PackagesOf[s] : s \in Sources} \cup {{}}
    /\ builds \in 0 .. MaxBuilds[habits]
    /\ job \in [Builders -> {NoJob} \cup JobRecs \cup EndedRecs]

(* Whatever the habits: the runtime does not change under a build, only    *)
(* programs that compile have objects, and a build that has ended with 124 *)
(* was killed.                                                             *)
Always ==
    /\ \A b \in Builders :
          /\ Running(b) /\ job[b].pc \notin {"deps", "front", "lib"} => job[b].hash = rt
          /\ job[b].pc \in {"remove", "archive", "libhash"} => job[b].objs \in Libs
          /\ job[b].pc = "emit" => job[b].src \in Good
          /\ job[b].pc = "ended" =>
                /\ job[b].exit = 124 => "kill" \in habits
                /\ job[b].exit = 0 => /\ job[b].out \in [obj : Objs, lib : Libs]
                                      /\ job[b].out.obj.src \in Good
    /\ obj # NoFile => /\ obj.src \in Good
                       /\ "edit" \notin habits => obj.rt = rt

(* Builds that do not overlap.                                             *)
Solo == "parallel" \notin habits =>
    \A b, c \in Builders : Running(b) /\ Running(c) => b = c

Orderly == habits \cap {"parallel", "kill"} = {}

(* What the hash files say, except while the build that runs is between    *)
(* the two writes.                                                         *)
Vouched ==
    /\ /\ \A b \in Builders : job[b].pc # "libhash"
       /\ lib # NoFile /\ libHash # NoFile
       => lib.rt = libHash.rt /\ lib.nets = {libHash.net}
    /\ /\ \A b \in Builders : job[b].pc \notin {"emit", "apphash"}
       /\ obj # NoFile /\ objHash # NoFile
       => obj.src = objHash.src /\ obj.net = objHash.net
    /\ /\ \A b \in Builders : job[b].pc # "emit"
       /\ obj # NoFile
       => obj.whole

(* The build that runs has the archive from its test or its own writing on *)
(* and the object likewise.                                                *)
OwnArchive(b) ==
    /\ job[b].pc \in {"remove", "archive", "libhash"} =>
          job[b].objs.rt = job[b].hash /\ job[b].objs.nets = {job[b].net}
    /\ job[b].pc = "archive" => lib = NoFile
    /\ job[b].pc = "libhash" => lib = job[b].objs
    /\ job[b].pc \in {"app", "cc", "emit", "apphash", "link"} =>
          lib # NoFile /\ lib.rt = job[b].hash /\ lib.nets = {job[b].net}
OwnObject(b) ==
    job[b].pc \in {"emit", "apphash", "link"} =>
        obj # NoFile /\ obj.src = job[b].src /\ obj.net = job[b].net
FreshEnd(b) ==
    job[b].pc = "ended" /\ job[b].exit = 0 =>
        /\ job[b].out.obj.src = job[b].src
        /\ job[b].out.obj.net = job[b].net
        /\ job[b].out.lib.nets = {job[b].net}
        /\ job[b].out.lib.rt = job[b].rt
        /\ "edit" \notin habits => job[b].out.obj.rt = job[b].rt

Own(b) == OwnArchive(b) /\ OwnObject(b) /\ FreshEnd(b)

Caches == Orderly => Vouched /\ \A b \in Builders : Own(b)

(* Archives are whole and the packages of the program written.             *)
Complete == habits \subseteq {"edit"} =>
    /\ lib # NoFile => lib.whole
    /\ \A b \in Builders :
          /\ job[b].pc \in {"remove", "archive", "libhash"} => job[b].objs.whole
          /\ Running(b) /\ job[b].pc # "deps" => PackagesOf[job[b].src] \subseteq fns
          /\ job[b].pc = "ended" /\ job[b].src \in Good => job[b].exit = 0

BuildInv == Types /\ Always /\ Solo /\ Caches /\ Complete

(* The checks: a check's build is of its program; one at a time they count *)
(* from zero to one and back.                                              *)
CheckTypes ==
    /\ active \in Int
    /\ check \in [Requests -> {NoCheck} \cup CheckRecs]
    /\ \A r \in Requests :
          check[r].pc = "build" => job[r].pc # "idle" /\ job[r].src = check[r].src

Counted(r) ==
    /\ check[r].pc = "entering" => active = 0 /\ check[r].n = 0
    /\ check[r].pc \in {"entered", "space", "build", "leave"} => active = 1
    /\ check[r].pc \in {"test", "leaving"} => active = 1 /\ check[r].n = 1

Verdict(r) ==
    check[r].pc \in {"leave", "leaving", "answered"} =>
        /\ check[r].status = 408 => "kill" \in habits
        /\ check[r].status = 429 => MaxActive = 0
        /\ habits \subseteq {"edit"} =>
              /\ check[r].status = 200 => check[r].src \in Good
              /\ check[r].status = 422 => check[r].src \notin Good

OneCheck == "parallel" \notin habits =>
    /\ \A r, q \in Requests : Busy(r) /\ Busy(q) => r = q
    /\ \A r \in Requests : Counted(r) /\ Verdict(r)
    /\ (\A r \in Requests : ~Busy(r)) => active = 0

CheckInv == CheckTypes /\ OneCheck

(***************************************************************************)
(* How a step of a builder moves its record.                               *)
(***************************************************************************)

Jobs == {NoJob} \cup JobRecs \cup EndedRecs

LEMMA JobKinds ==
    ASSUME Types, NEW b \in Builders
    PROVE  /\ Running(b) => job[b] \in JobRecs
           /\ Running(b) <=> job[b].pc \in RunningStates
           /\ job[b].pc = "ended" => job[b] \in EndedRecs
BY DEF Types, JobRecs, EndedRecs, NoJob, Running, RunningStates

(* A step writes one builder's record.                                     *)
LEMMA MovedOne ==
    ASSUME Types, NEW b \in Builders, NEW j \in Jobs, job' = [job EXCEPT ![b] = j]
    PROVE  /\ job' \in [Builders -> Jobs]
           /\ job'[b] = j
           /\ \A c \in Builders : c # b => job'[c] = job[c]
BY DEF Types, Jobs

(* The record b has after it went on to l.                                 *)
WentOn(b, l) ==
    /\ job' \in [Builders -> Jobs]
    /\ \A c \in Builders : c # b => job'[c] = job[c]
    /\ job'[b] \in JobRecs /\ job'[b].pc = l
    /\ job'[b].src = job[b].src /\ job'[b].net = job[b].net

LEMMA GotoMoves ==
    ASSUME Types, NEW b \in Builders, Running(b), NEW l \in RunningStates, Goto(b, l)
    PROVE  WentOn(b, l) /\ job'[b].hash = job[b].hash /\ job'[b].objs = job[b].objs
<1> DEFINE j == [job[b] EXCEPT !.pc = l]
<1>1. job[b] \in JobRecs
  BY JobKinds
<1>2. j \in JobRecs /\ j.pc = l /\ j.src = job[b].src /\ j.net = job[b].net
      /\ j.hash = job[b].hash /\ j.objs = job[b].objs
  BY <1>1 DEF JobRecs
<1>3. job' = [job EXCEPT ![b] = j]
  BY DEF Goto
<1> HIDE DEF j
<1> QED
  BY <1>2, <1>3, MovedOne DEF Jobs, WentOn

(* The record b has after it ended.                                        *)
Stopped(b, code) ==
    /\ job' \in [Builders -> Jobs]
    /\ \A c \in Builders : c # b => job'[c] = job[c]
    /\ job'[b] \in EndedRecs /\ job'[b].pc = "ended" /\ job'[b].exit = code
    /\ job'[b].src = job[b].src /\ job'[b].net = job[b].net

LEMMA ExitMoves ==
    ASSUME Types, NEW b \in Builders, Running(b), NEW code \in {1, 124}, Exit(b, code)
    PROVE  Stopped(b, code)
<1> DEFINE j == Ended(job[b], code, NoFile)
<1>1. job[b] \in JobRecs
  BY JobKinds
<1>2. j \in EndedRecs /\ j.pc = "ended" /\ j.exit = code /\ j.src = job[b].src /\ j.net = job[b].net
  BY <1>1 DEF JobRecs, EndedRecs, Ended
<1>3. job' = [job EXCEPT ![b] = j]
  BY DEF Exit
<1> HIDE DEF j
<1> QED
  BY ZenonT(40), <1>2, <1>3, MovedOne DEF Jobs, Stopped

(***************************************************************************)
(* Every step of a build keeps the invariant, whoever else builds.         *)
(***************************************************************************)

LEMMA OnlyOne ==
    ASSUME BuildInv, NEW b \in Builders, Running(b), "parallel" \notin habits
    PROVE  \A c \in Builders : c # b => job[c].pc \in {"idle", "ended"}
BY DEF BuildInv, Solo, Running

LEMMA ResolveKeeps ==
    ASSUME BuildInv, NEW b \in Builders, Resolve(b)
    PROVE  BuildInv'
<1>1. Running(b)
  BY DEF Running, Resolve
<1>2. WentOn(b, "front") /\ job'[b].hash = job[b].hash /\ job'[b].objs = job[b].objs
  BY <1>1, GotoMoves DEF BuildInv, Resolve, RunningStates
<1>3. Types'
  <2>1. job[b].src \in Sources /\ job[b].net \in Nets /\ job[b].hash \in Versions \cup {"unread"}
    BY <1>1, JobKinds DEF BuildInv, JobRecs
  <2>2. fns' \in {PackagesOf[s] : s \in Sources} \cup {{}}
    BY <2>1 DEF BuildInv, Types, Resolve
  <2> QED
    BY <1>2, <2>1, <2>2 DEF BuildInv, Types, Resolve, WentOn, Jobs
<1>4. Always'
  BY <1>1, <1>2 DEF BuildInv, Types, Always, Resolve, Running, WentOn, Libs, Objs, NoFile
<1>5. Solo'
  BY <1>1, <1>2 DEF BuildInv, Solo, Resolve, Running, WentOn
<1>6. Caches'
  <2> SUFFICES ASSUME Orderly
               PROVE  Vouched' /\ \A c \in Builders : Own(c)'
    BY DEF Caches, Orderly, Resolve
  <2>1. \A c \in Builders : c # b => job[c].pc \in {"idle", "ended"} /\ job'[c] = job[c]
    BY <1>1, <1>2, OnlyOne DEF Orderly, WentOn
  <2>2. Vouched'
    BY <1>1, <1>2, <2>1 DEF BuildInv, Types, Caches, Orderly, Vouched, Own, OwnArchive,
                            OwnObject, FreshEnd, Resolve, WentOn
  <2>3. Own(b)'
    BY <1>1, <1>2 DEF BuildInv, Types, Always, Caches, Orderly, Vouched, Own, OwnArchive,
                      OwnObject, FreshEnd, Resolve, WentOn
  <2>4. ASSUME NEW c \in Builders, c # b PROVE Own(c)'
    BY <2>1, <2>4 DEF BuildInv, Caches, Orderly, Vouched, Own, OwnArchive, OwnObject, FreshEnd,
                      Resolve
  <2> QED
    BY <2>2, <2>3, <2>4
<1>7. Complete'
  BY <1>1, <1>2 DEF BuildInv, Types, Solo, Complete, Resolve, Running, WentOn
<1> QED
  BY <1>3, <1>4, <1>5, <1>6, <1>7 DEF BuildInv

LEMMA ResolveFailsKeeps ==
    ASSUME BuildInv, NEW b \in Builders, ResolveFails(b)
    PROVE  BuildInv'
<1>1. Running(b)
  BY DEF Running, ResolveFails
<1>2. Stopped(b, 1)
  BY <1>1, ExitMoves DEF BuildInv, ResolveFails
<1>3. Types'
  BY <1>2 DEF BuildInv, Types, ResolveFails, Stopped, Jobs, disk
<1>4. Always'
  BY <1>1, <1>2 DEF BuildInv, Types, Always, ResolveFails, Running, Stopped, NoFile, disk
<1>5. Solo'
  BY <1>1, <1>2 DEF BuildInv, Solo, ResolveFails, Running, Stopped
<1>6. Caches'
  <2> SUFFICES ASSUME Orderly
               PROVE  Vouched' /\ \A c \in Builders : Own(c)'
    BY DEF Caches, Orderly, ResolveFails
  <2>1. \A c \in Builders : c # b => job[c].pc \in {"idle", "ended"} /\ job'[c] = job[c]
    BY <1>1, <1>2, OnlyOne DEF Orderly, Stopped
  <2>2. Vouched'
    BY <1>1, <1>2, <2>1 DEF BuildInv, Types, Caches, Orderly, Vouched, Own, OwnArchive,
                            OwnObject, FreshEnd, ResolveFails, Stopped, NoFile, disk
  <2>3. Own(b)'
    BY <1>1, <1>2, <2>1 DEF BuildInv, Types, Always, Caches, Orderly, Vouched, Own, OwnArchive,
                            OwnObject, FreshEnd, ResolveFails, Running, Stopped, NoFile, disk
  <2>4. ASSUME NEW c \in Builders, c # b PROVE Own(c)'
    BY <2>1, <2>4 DEF BuildInv, Caches, Orderly, Vouched, Own, OwnArchive, OwnObject, FreshEnd,
                      ResolveFails, disk
  <2> QED
    BY <2>2, <2>3, <2>4
<1>7. Complete'
  BY <1>1, <1>2 DEF BuildInv, Types, Solo, Complete, ResolveFails, Running, Stopped, NoFile,
                    disk
<1> QED
  BY <1>3, <1>4, <1>5, <1>6, <1>7 DEF BuildInv

LEMMA RemoveLibKeeps ==
    ASSUME BuildInv, NEW b \in Builders, RemoveLib(b)
    PROVE  BuildInv'
<1>1. Running(b)
  BY DEF Running, RemoveLib
<1>2. WentOn(b, "archive") /\ job'[b].hash = job[b].hash /\ job'[b].objs = job[b].objs
  BY <1>1, GotoMoves DEF BuildInv, RemoveLib, RunningStates
<1>3. Types'
  BY <1>2 DEF BuildInv, Types, RemoveLib, WentOn, Jobs
<1>4. Always'
  BY <1>1, <1>2 DEF BuildInv, Types, Always, RemoveLib, Running, WentOn
<1>5. Solo'
  BY <1>1, <1>2 DEF BuildInv, Solo, RemoveLib, Running, WentOn
<1>6. Caches'
  BY <1>1, <1>2 DEF BuildInv, Types, Solo, Caches, Orderly, Vouched, Own, OwnArchive, OwnObject,
                    FreshEnd, RemoveLib, Running, WentOn
<1>7. Complete'
  BY <1>1, <1>2 DEF BuildInv, Types, Solo, Complete, RemoveLib, Running, WentOn
<1> QED
  BY <1>3, <1>4, <1>5, <1>6, <1>7 DEF BuildInv

LEMMA ArchiveKeeps ==
    ASSUME BuildInv, NEW b \in Builders, Archive(b)
    PROVE  BuildInv'
<1>1. Running(b)
  BY DEF Running, Archive
<1>2. WentOn(b, "libhash") /\ job'[b].hash = job[b].hash /\ job'[b].objs = job[b].objs
  BY <1>1, GotoMoves DEF BuildInv, Archive, RunningStates
<1>3. Types'
  <2>1. job[b].src \in Sources /\ job[b].net \in Nets /\ job[b].hash \in Versions \cup {"unread"}
    BY <1>1, JobKinds DEF BuildInv, JobRecs
  <2>2. lib' \in Libs
    BY <1>1 DEF BuildInv, Types, Always, Archive, Libs
  <2> QED
    BY <1>2, <2>1, <2>2 DEF BuildInv, Types, Archive, WentOn, Jobs
<1>4. Always'
  BY <1>1, <1>2 DEF BuildInv, Types, Always, Archive, Running, WentOn, Libs, Objs, NoFile
<1>5. Solo'
  BY <1>1, <1>2 DEF BuildInv, Solo, Archive, Running, WentOn
<1>6. Caches'
  <2> SUFFICES ASSUME Orderly
               PROVE  Vouched' /\ \A c \in Builders : Own(c)'
    BY DEF Caches, Orderly, Archive
  <2>1. \A c \in Builders : c # b => job[c].pc \in {"idle", "ended"} /\ job'[c] = job[c]
    BY <1>1, <1>2, OnlyOne DEF Orderly, WentOn
  <2>2. Vouched'
    BY <1>1, <1>2, <2>1 DEF BuildInv, Types, Caches, Orderly, Vouched, Own, OwnArchive,
                            OwnObject, FreshEnd, Archive, WentOn, Libs, NoFile
  <2>3. Own(b)'
    BY <1>1, <1>2 DEF BuildInv, Types, Always, Caches, Orderly, Vouched, Own, OwnArchive,
                      OwnObject, FreshEnd, Archive, WentOn, Libs, NoFile
  <2>4. ASSUME NEW c \in Builders, c # b PROVE Own(c)'
    BY <2>1, <2>4 DEF BuildInv, Caches, Orderly, Vouched, Own, OwnArchive, OwnObject, FreshEnd,
                      Archive
  <2> QED
    BY <2>2, <2>3, <2>4
<1>7. Complete'
  BY <1>1, <1>2 DEF BuildInv, Types, Solo, Complete, Archive, Running, WentOn, Libs, NoFile
<1> QED
  BY <1>3, <1>4, <1>5, <1>6, <1>7 DEF BuildInv

LEMMA HashLibKeeps ==
    ASSUME BuildInv, NEW b \in Builders, HashLib(b)
    PROVE  BuildInv'
<1>1. Running(b)
  BY DEF Running, HashLib
<1>2. WentOn(b, "app") /\ job'[b].hash = job[b].hash /\ job'[b].objs = job[b].objs
  BY <1>1, GotoMoves DEF BuildInv, HashLib, RunningStates
<1>3. Types'
  <2>1. job[b].src \in Sources /\ job[b].net \in Nets /\ job[b].hash \in Versions \cup {"unread"}
    BY <1>1, JobKinds DEF BuildInv, JobRecs
  <2>2. libHash' \in LibHashes
    BY <1>1, <2>1 DEF BuildInv, Types, Always, HashLib, LibHashes, Running
  <2> QED
    BY <1>2, <2>1, <2>2 DEF BuildInv, Types, HashLib, WentOn, Jobs
<1>4. Always'
  BY <1>1, <1>2 DEF BuildInv, Types, Always, HashLib, Running, WentOn, Libs, Objs, NoFile
<1>5. Solo'
  BY <1>1, <1>2 DEF BuildInv, Solo, HashLib, Running, WentOn
<1>6. Caches'
  <2> SUFFICES ASSUME Orderly
               PROVE  Vouched' /\ \A c \in Builders : Own(c)'
    BY DEF Caches, Orderly, HashLib
  <2>1. \A c \in Builders : c # b => job[c].pc \in {"idle", "ended"} /\ job'[c] = job[c]
    BY <1>1, <1>2, OnlyOne DEF Orderly, WentOn
  <2>2. lib \in Libs /\ lib.rt = job[b].hash /\ lib.nets = {job[b].net}
    BY DEF BuildInv, Always, Caches, Own, OwnArchive, HashLib
  <2>3. Vouched'
    <3>1. libHash'.rt = job[b].hash /\ libHash'.net = job[b].net
      BY DEF HashLib, LibHash
    <3> QED
      BY <1>1, <1>2, <2>1, <2>2, <3>1 DEF BuildInv, Caches, Vouched, HashLib, WentOn
  <2>4. Own(b)'
    BY <1>2, <2>2 DEF Own, OwnArchive, OwnObject, FreshEnd, HashLib, WentOn, Libs, NoFile
  <2>5. ASSUME NEW c \in Builders, c # b PROVE Own(c)'
    BY <2>1, <2>5 DEF BuildInv, Caches, Orderly, Vouched, Own, OwnArchive, OwnObject, FreshEnd,
                      HashLib
  <2> QED
    BY <2>3, <2>4, <2>5
<1>7. Complete'
  BY <1>1, <1>2 DEF BuildInv, Types, Solo, Complete, HashLib, Running, WentOn, LibHash,
                    LibHashes, NoFile
<1> QED
  BY <1>3, <1>4, <1>5, <1>6, <1>7 DEF BuildInv

LEMMA CompileAppKeeps ==
    ASSUME BuildInv, NEW b \in Builders, CompileApp(b)
    PROVE  BuildInv'
<1>1. Running(b)
  BY DEF Running, CompileApp
<1>2. WentOn(b, "emit") /\ job'[b].hash = job[b].hash /\ job'[b].objs = job[b].objs
  BY <1>1, GotoMoves DEF BuildInv, CompileApp, RunningStates
<1>3. Types'
  <2>1. job[b].src \in Sources /\ job[b].net \in Nets /\ job[b].hash \in Versions \cup {"unread"}
    BY <1>1, JobKinds DEF BuildInv, JobRecs
  <2>2. obj' \in Objs
    BY <2>1 DEF BuildInv, Types, CompileApp, Objs
  <2> QED
    BY <1>2, <2>1, <2>2 DEF BuildInv, Types, CompileApp, WentOn, Jobs
<1>4. Always'
  BY <1>1, <1>2 DEF BuildInv, Types, Always, CompileApp, Running, WentOn, Libs, Objs, NoFile
<1>5. Solo'
  BY <1>1, <1>2 DEF BuildInv, Solo, CompileApp, Running, WentOn
<1>6. Caches'
  <2> SUFFICES ASSUME Orderly
               PROVE  Vouched' /\ \A c \in Builders : Own(c)'
    BY DEF Caches, Orderly, CompileApp
  <2>1. \A c \in Builders : c # b => job[c].pc \in {"idle", "ended"} /\ job'[c] = job[c]
    BY <1>1, <1>2, OnlyOne DEF Orderly, WentOn
  <2>2. Vouched'
    BY <1>1, <1>2, <2>1 DEF BuildInv, Types, Caches, Orderly, Vouched, Own, OwnArchive,
                            OwnObject, FreshEnd, CompileApp, WentOn, Objs, NoFile
  <2>3. Own(b)'
    BY <1>1, <1>2 DEF BuildInv, Types, Always, Caches, Orderly, Vouched, Own, OwnArchive,
                      OwnObject, FreshEnd, CompileApp, WentOn, Objs, NoFile
  <2>4. ASSUME NEW c \in Builders, c # b PROVE Own(c)'
    BY <2>1, <2>4 DEF BuildInv, Caches, Orderly, Vouched, Own, OwnArchive, OwnObject, FreshEnd,
                      CompileApp
  <2> QED
    BY <2>2, <2>3, <2>4
<1>7. Complete'
  BY <1>1, <1>2 DEF BuildInv, Types, Solo, Complete, CompileApp, Running, WentOn, Objs,
                    NoFile
<1> QED
  BY <1>3, <1>4, <1>5, <1>6, <1>7 DEF BuildInv

LEMMA EmitAppKeeps ==
    ASSUME BuildInv, NEW b \in Builders, EmitApp(b)
    PROVE  BuildInv'
<1>1. Running(b)
  BY DEF Running, EmitApp
<1>2. WentOn(b, "apphash") /\ job'[b].hash = job[b].hash /\ job'[b].objs = job[b].objs
  BY <1>1, GotoMoves DEF BuildInv, EmitApp, RunningStates
<1>3. Types'
  <2>1. job[b].src \in Sources /\ job[b].net \in Nets /\ job[b].hash \in Versions \cup {"unread"}
    BY <1>1, JobKinds DEF BuildInv, JobRecs
  <2>2. obj' \in Objs
    BY <2>1 DEF BuildInv, Types, EmitApp, Objs
  <2> QED
    BY <1>2, <2>1, <2>2 DEF BuildInv, Types, EmitApp, WentOn, Jobs
<1>4. Always'
  BY <1>1, <1>2 DEF BuildInv, Types, Always, EmitApp, Running, WentOn, Libs, Objs, NoFile
<1>5. Solo'
  BY <1>1, <1>2 DEF BuildInv, Solo, EmitApp, Running, WentOn
<1>6. Caches'
  <2> SUFFICES ASSUME Orderly
               PROVE  Vouched' /\ \A c \in Builders : Own(c)'
    BY DEF Caches, Orderly, EmitApp
  <2>1. \A c \in Builders : c # b => job[c].pc \in {"idle", "ended"} /\ job'[c] = job[c]
    BY <1>1, <1>2, OnlyOne DEF Orderly, WentOn
  <2>2. Vouched'
    BY <1>1, <1>2, <2>1 DEF BuildInv, Types, Caches, Orderly, Vouched, Own, OwnArchive,
                            OwnObject, FreshEnd, EmitApp, WentOn, Objs, NoFile
  <2>3. Own(b)'
    BY <1>1, <1>2 DEF BuildInv, Types, Always, Caches, Orderly, Vouched, Own, OwnArchive,
                      OwnObject, FreshEnd, EmitApp, WentOn, Objs, NoFile
  <2>4. ASSUME NEW c \in Builders, c # b PROVE Own(c)'
    BY <2>1, <2>4 DEF BuildInv, Caches, Orderly, Vouched, Own, OwnArchive, OwnObject, FreshEnd,
                      EmitApp
  <2> QED
    BY <2>2, <2>3, <2>4
<1>7. Complete'
  BY <1>1, <1>2 DEF BuildInv, Types, Solo, Complete, EmitApp, Running, WentOn, Objs, NoFile
<1> QED
  BY <1>3, <1>4, <1>5, <1>6, <1>7 DEF BuildInv

LEMMA HashAppKeeps ==
    ASSUME BuildInv, NEW b \in Builders, HashApp(b)
    PROVE  BuildInv'
<1>1. Running(b)
  BY DEF Running, HashApp
<1>2. WentOn(b, "link") /\ job'[b].hash = job[b].hash /\ job'[b].objs = job[b].objs
  BY <1>1, GotoMoves DEF BuildInv, HashApp, RunningStates
<1>3. Types'
  <2>1. job[b].src \in Sources /\ job[b].net \in Nets /\ job[b].hash \in Versions \cup {"unread"}
    BY <1>1, JobKinds DEF BuildInv, JobRecs
  <2>2. objHash' \in ObjHashes
    BY <2>1 DEF BuildInv, Types, HashApp, ObjHashes
  <2> QED
    BY <1>2, <2>1, <2>2 DEF BuildInv, Types, HashApp, WentOn, Jobs
<1>4. Always'
  BY <1>1, <1>2 DEF BuildInv, Types, Always, HashApp, Running, WentOn, Libs, Objs, NoFile
<1>5. Solo'
  BY <1>1, <1>2 DEF BuildInv, Solo, HashApp, Running, WentOn
<1>6. Caches'
  <2> SUFFICES ASSUME Orderly
               PROVE  Vouched' /\ \A c \in Builders : Own(c)'
    BY DEF Caches, Orderly, HashApp
  <2>1. \A c \in Builders : c # b => job[c].pc \in {"idle", "ended"} /\ job'[c] = job[c]
    BY <1>1, <1>2, OnlyOne DEF Orderly, WentOn
  <2>2. Vouched'
    BY <1>1, <1>2, <2>1 DEF BuildInv, Types, Caches, Orderly, Vouched, Own, OwnArchive,
                            OwnObject, FreshEnd, HashApp, WentOn, ObjHash, ObjHashes, NoFile
  <2>3. Own(b)'
    BY <1>1, <1>2 DEF BuildInv, Types, Always, Caches, Orderly, Vouched, Own, OwnArchive,
                      OwnObject, FreshEnd, HashApp, WentOn, ObjHash, ObjHashes, NoFile
  <2>4. ASSUME NEW c \in Builders, c # b PROVE Own(c)'
    BY <2>1, <2>4 DEF BuildInv, Caches, Orderly, Vouched, Own, OwnArchive, OwnObject, FreshEnd,
                      HashApp
  <2> QED
    BY <2>2, <2>3, <2>4
<1>7. Complete'
  BY <1>1, <1>2 DEF BuildInv, Types, Solo, Complete, HashApp, Running, WentOn, ObjHash,
                    ObjHashes, NoFile
<1> QED
  BY <1>3, <1>4, <1>5, <1>6, <1>7 DEF BuildInv

LEMMA FrontKeeps ==
    ASSUME BuildInv, NEW b \in Builders, Front(b)
    PROVE  BuildInv'
<1>1. Running(b)
  BY DEF Running, Front
<1>2. \/ WentOn(b, "lib")
      \/ job[b].src \notin Good /\ Stopped(b, 1)
  BY <1>1, GotoMoves, ExitMoves DEF BuildInv, Front, RunningStates
<1>3. Types'
  BY <1>2 DEF BuildInv, Types, Front, WentOn, Stopped, Jobs, disk
<1>4. Always'
  BY <1>1, <1>2 DEF BuildInv, Types, Always, Front, Running, WentOn, Stopped, disk
<1>5. Solo'
  BY <1>1, <1>2 DEF BuildInv, Solo, Front, Running, WentOn, Stopped
<1>6. Caches'
  <2> SUFFICES ASSUME Orderly
               PROVE  Vouched' /\ \A c \in Builders : Own(c)'
    BY DEF Caches, Orderly, Front
  <2>1. \A c \in Builders : c # b => job[c].pc \in {"idle", "ended"} /\ job'[c] = job[c]
    BY <1>1, <1>2, OnlyOne DEF Orderly, WentOn, Stopped
  <2>2. Vouched'
    BY <1>1, <1>2, <2>1 DEF BuildInv, Types, Caches, Orderly, Vouched, Own, OwnArchive,
                            OwnObject, FreshEnd, Front, WentOn, Stopped, disk
  <2>3. Own(b)'
    BY <1>1, <1>2, <2>1 DEF BuildInv, Types, Always, Caches, Orderly, Vouched, Own, OwnArchive,
                            OwnObject, FreshEnd, Front, Running, WentOn, Stopped, disk
  <2>4. ASSUME NEW c \in Builders, c # b PROVE Own(c)'
    BY <2>1, <2>4 DEF BuildInv, Caches, Orderly, Vouched, Own, OwnArchive, OwnObject, FreshEnd,
                      Front, disk
  <2> QED
    BY <2>2, <2>3, <2>4
<1>7. Complete'
  BY <1>1, <1>2 DEF BuildInv, Types, Solo, Complete, Front, Running, WentOn, Stopped, disk
<1> QED
  BY <1>3, <1>4, <1>5, <1>6, <1>7 DEF BuildInv

LEMMA TestLibKeeps ==
    ASSUME BuildInv, NEW b \in Builders, TestLib(b)
    PROVE  BuildInv'
<1>1. Running(b)
  BY DEF Running, TestLib
<1>2. /\ WentOn(b, IF LibCurrent(b) THEN "app" ELSE "compile")
      /\ job'[b].hash = rt
  <2> DEFINE l == IF LibCurrent(b) THEN "app" ELSE "compile"
             j == [job[b] EXCEPT !.hash = rt, !.pc = l]
  <2>1. job[b] \in JobRecs /\ rt \in Versions /\ l \in RunningStates
    BY <1>1, JobKinds DEF BuildInv, Types, RunningStates
  <2>2. j \in JobRecs /\ j.pc = l /\ j.hash = rt /\ j.src = job[b].src /\ j.net = job[b].net
    BY <2>1 DEF JobRecs
  <2>3. job' = [job EXCEPT ![b] = j]
    BY DEF TestLib
  <2> HIDE DEF j
  <2> QED
    BY <2>2, <2>3, MovedOne DEF Jobs, WentOn, BuildInv
<1>3. Types'
  BY <1>2 DEF BuildInv, Types, TestLib, WentOn, Jobs, disk
<1>4. Always'
  BY <1>1, <1>2 DEF BuildInv, Types, Always, TestLib, Running, WentOn, LibCurrent, LibHash,
                    disk, NoFile, Libs
<1>5. Solo'
  BY <1>1, <1>2 DEF BuildInv, Solo, TestLib, Running, WentOn
<1>6. Caches'
  <2> SUFFICES ASSUME Orderly
               PROVE  Vouched' /\ \A c \in Builders : Own(c)'
    BY DEF Caches, Orderly, TestLib
  <2>1. \A c \in Builders : c # b => job[c].pc \in {"idle", "ended"} /\ job'[c] = job[c]
    BY <1>1, <1>2, OnlyOne DEF Orderly, WentOn
  <2>2. Vouched'
    BY <1>1, <1>2, <2>1 DEF BuildInv, Types, Caches, Orderly, Vouched, Own, OwnArchive,
                            OwnObject, FreshEnd, TestLib, WentOn, LibCurrent, LibHash,
                            disk, NoFile, Libs
  <2>3. Own(b)'
    <3>1. CASE LibCurrent(b)
      <4>1. lib # NoFile /\ libHash # NoFile /\ libHash.rt = rt /\ libHash.net = job[b].net
        BY <3>1 DEF LibCurrent, LibHash, NoFile
      <4>2. lib.rt = rt /\ lib.nets = {job[b].net}
        BY <2>1, <4>1 DEF BuildInv, Caches, Vouched, TestLib
      <4> QED
        BY <1>2, <3>1, <4>1, <4>2 DEF Own, OwnArchive, OwnObject, FreshEnd, TestLib, WentOn, disk
    <3>2. CASE ~LibCurrent(b)
      BY <1>2, <3>2 DEF Own, OwnArchive, OwnObject, FreshEnd, TestLib, WentOn, disk
    <3> QED
      BY <3>1, <3>2
  <2>4. ASSUME NEW c \in Builders, c # b PROVE Own(c)'
    <3>1. FreshEnd(c)
      BY DEF BuildInv, Caches, Own
    <3>2. habits' = habits
      BY DEF TestLib
    <3> QED
      BY <2>1, <2>4, <3>1, <3>2 DEF Own, OwnArchive, OwnObject, FreshEnd
  <2> QED
    BY <2>2, <2>3, <2>4
<1>7. Complete'
  BY <1>1, <1>2 DEF BuildInv, Types, Solo, Complete, TestLib, Running, WentOn, LibCurrent,
                    LibHash, disk, NoFile, Libs
<1> QED
  BY <1>3, <1>4, <1>5, <1>6, <1>7 DEF BuildInv

LEMMA CompileLibKeeps ==
    ASSUME BuildInv, NEW b \in Builders, CompileLib(b)
    PROVE  BuildInv'
<1>1. Running(b)
  BY DEF Running, CompileLib
<1>2. PICK w \in IF "flaky" \in habits THEN BOOLEAN ELSE {TRUE} :
         job' = [job EXCEPT ![b].pc = "remove",
                            ![b].objs = [file |-> "lib", rt |-> rt,
                                         nets |-> {job[b].net}, whole |-> w]]
  BY DEF CompileLib
<1>3. /\ WentOn(b, "remove") /\ job'[b].hash = job[b].hash
      /\ job'[b].objs \in Libs
      /\ job'[b].objs.rt = rt /\ job'[b].objs.nets = {job[b].net} /\ job'[b].objs.whole = w
  <2> DEFINE o == [file |-> "lib", rt |-> rt, nets |-> {job[b].net}, whole |-> w]
             j == [job[b] EXCEPT !.pc = "remove", !.objs = o]
  <2>1. job[b] \in JobRecs /\ job[b].net \in Nets /\ rt \in Versions
    BY <1>1, JobKinds DEF BuildInv, Types, JobRecs
  <2>2. o \in Libs /\ o.rt = rt /\ o.nets = {job[b].net} /\ o.whole = w
    BY <2>1 DEF Libs
  <2> HIDE DEF o
  <2>3. j \in JobRecs /\ j.pc = "remove" /\ j.objs = o
        /\ j.hash = job[b].hash /\ j.src = job[b].src /\ j.net = job[b].net
    BY <2>1, <2>2 DEF JobRecs, RunningStates
  <2>4. job' = [job EXCEPT ![b] = j]
    BY <1>2 DEF o
  <2> HIDE DEF j
  <2> QED
    BY <2>2, <2>3, <2>4, MovedOne DEF Jobs, WentOn, BuildInv
<1>4. Types'
  BY <1>2, <1>3 DEF BuildInv, Types, CompileLib, WentOn, Jobs, disk
<1>5. Always'
  BY <1>1, <1>2, <1>3 DEF BuildInv, Types, Always, CompileLib, Running, WentOn, disk
<1>6. Solo'
  BY <1>1, <1>2, <1>3 DEF BuildInv, Solo, CompileLib, Running, WentOn
<1>7. Caches'
  <2> SUFFICES ASSUME Orderly
               PROVE  Vouched' /\ \A c \in Builders : Own(c)'
    BY DEF Caches, Orderly, CompileLib
  <2>1. \A c \in Builders : c # b => job[c].pc \in {"idle", "ended"} /\ job'[c] = job[c]
    BY <1>1, <1>2, <1>3, OnlyOne DEF Orderly, WentOn
  <2>2. Vouched'
    BY <1>1, <1>2, <1>3, <2>1 DEF BuildInv, Types, Caches, Orderly, Vouched, Own, OwnArchive,
                                  OwnObject, FreshEnd, CompileLib, WentOn, disk
  <2>3. Own(b)'
    <3>1. job[b].hash = rt
      BY <1>1 DEF BuildInv, Always, CompileLib
    <3> QED
      BY <1>3, <3>1 DEF Own, OwnArchive, OwnObject, FreshEnd, WentOn
  <2>4. ASSUME NEW c \in Builders, c # b PROVE Own(c)'
    <3>1. FreshEnd(c)
      BY DEF BuildInv, Caches, Own
    <3>2. habits' = habits
      BY DEF CompileLib
    <3> QED
      BY <2>1, <2>4, <3>1, <3>2 DEF Own, OwnArchive, OwnObject, FreshEnd
  <2> QED
    BY <2>2, <2>3, <2>4
<1>8. Complete'
  BY ZenonT(40), <1>1, <1>2, <1>3 DEF BuildInv, Types, Solo, Complete, CompileLib, Running, WentOn, disk
<1> QED
  BY <1>4, <1>5, <1>6, <1>7, <1>8 DEF BuildInv

LEMMA TestAppKeeps ==
    ASSUME BuildInv, NEW b \in Builders, TestApp(b)
    PROVE  BuildInv'
<1>1. Running(b)
  BY DEF Running, TestApp
<1>2. /\ WentOn(b, IF obj # NoFile /\ objHash = ObjHash(job[b].src, job[b].net)
                   THEN "link" ELSE "cc")
      /\ job'[b].hash = job[b].hash
  <2> DEFINE l == IF obj # NoFile /\ objHash = ObjHash(job[b].src, job[b].net) THEN "link" ELSE "cc"
  <2>1. l \in RunningStates /\ Goto(b, l)
    BY DEF TestApp, RunningStates
  <2> HIDE DEF l
  <2> WentOn(b, l) /\ job'[b].hash = job[b].hash
    BY <1>1, <2>1, GotoMoves DEF BuildInv
  <2> QED
    BY DEF l
<1>3. Types'
  BY <1>2 DEF BuildInv, Types, TestApp, WentOn, Jobs, disk
<1>4. Always'
  BY <1>1, <1>2 DEF BuildInv, Types, Always, TestApp, Running, WentOn, ObjHash, disk, NoFile
<1>5. Solo'
  BY <1>1, <1>2 DEF BuildInv, Solo, TestApp, Running, WentOn
<1>6. Caches'
  <2> SUFFICES ASSUME Orderly
               PROVE  Vouched' /\ \A c \in Builders : Own(c)'
    BY DEF Caches, Orderly, TestApp
  <2>1. \A c \in Builders : c # b => job[c].pc \in {"idle", "ended"} /\ job'[c] = job[c]
    BY <1>1, <1>2, OnlyOne DEF Orderly, WentOn
  <2>2. Vouched'
    BY <1>1, <1>2, <2>1 DEF BuildInv, Types, Caches, Orderly, Vouched, Own, OwnArchive,
                            OwnObject, FreshEnd, TestApp, WentOn, ObjHash, disk, NoFile
  <2>3. Own(b)'
    BY <1>1, <1>2, <2>1 DEF BuildInv, Types, Always, Caches, Orderly, Vouched, Own, OwnArchive,
                            OwnObject, FreshEnd, TestApp, Running, WentOn, ObjHash, disk,
                            NoFile
  <2>4. ASSUME NEW c \in Builders, c # b PROVE Own(c)'
    BY <2>1, <2>4 DEF BuildInv, Caches, Orderly, Vouched, Own, OwnArchive, OwnObject, FreshEnd,
                      TestApp, disk
  <2> QED
    BY <2>2, <2>3, <2>4
<1>7. Complete'
  BY <1>1, <1>2 DEF BuildInv, Types, Solo, Complete, TestApp, Running, WentOn, ObjHash,
                    disk, NoFile
<1> QED
  BY <1>3, <1>4, <1>5, <1>6, <1>7 DEF BuildInv

LEMMA AppFailsKeeps ==
    ASSUME BuildInv, NEW b \in Builders, AppFails(b)
    PROVE  BuildInv'
<1>1. Running(b)
  BY DEF Running, AppFails
<1>2. Stopped(b, 1)
  BY <1>1, ExitMoves DEF BuildInv, AppFails
<1>3. Types'
  BY <1>2 DEF BuildInv, Types, AppFails, Stopped, Jobs, disk
<1>4. Always'
  BY <1>1, <1>2 DEF BuildInv, Types, Always, AppFails, Running, Stopped, NoFile, disk
<1>5. Solo'
  BY <1>1, <1>2 DEF BuildInv, Solo, AppFails, Running, Stopped
<1>6. Caches'
  <2> SUFFICES ASSUME Orderly
               PROVE  Vouched' /\ \A c \in Builders : Own(c)'
    BY DEF Caches, Orderly, AppFails
  <2>1. \A c \in Builders : c # b => job[c].pc \in {"idle", "ended"} /\ job'[c] = job[c]
    BY <1>1, <1>2, OnlyOne DEF Orderly, Stopped
  <2>2. Vouched'
    BY <1>1, <1>2, <2>1 DEF BuildInv, Types, Caches, Orderly, Vouched, Own, OwnArchive,
                            OwnObject, FreshEnd, AppFails, Stopped, NoFile, disk
  <2>3. Own(b)'
    BY <1>1, <1>2, <2>1 DEF BuildInv, Types, Always, Caches, Orderly, Vouched, Own, OwnArchive,
                            OwnObject, FreshEnd, AppFails, Running, Stopped, NoFile, disk
  <2>4. ASSUME NEW c \in Builders, c # b PROVE Own(c)'
    BY <2>1, <2>4 DEF BuildInv, Caches, Orderly, Vouched, Own, OwnArchive, OwnObject, FreshEnd,
                      AppFails, disk
  <2> QED
    BY <2>2, <2>3, <2>4
<1>7. Complete'
  BY <1>1, <1>2 DEF BuildInv, Types, Solo, Complete, AppFails, Running, Stopped, NoFile,
                    disk
<1> QED
  BY <1>3, <1>4, <1>5, <1>6, <1>7 DEF BuildInv

LEMMA LinkKeeps ==
    ASSUME BuildInv, NEW b \in Builders, Link(b)
    PROVE  BuildInv'
<1>1. Running(b)
  BY DEF Running, Link
<1>2. PICK x \in {0, 1} :
         /\ Stopped(b, x)
         /\ x = 0 <=> /\ obj # NoFile /\ obj.whole
                      /\ lib # NoFile /\ lib.whole
                      /\ PackagesOf[obj.src] \subseteq fns
         /\ x = 0 => job'[b].out = [obj |-> obj, lib |-> lib] /\ job'[b].rt = job[b].hash
  <2> DEFINE fits == /\ obj # NoFile /\ obj.whole
                     /\ lib # NoFile /\ lib.whole
                     /\ PackagesOf[obj.src] \subseteq fns
             j == Ended(job[b], 0, [obj |-> obj, lib |-> lib])
  <2>1. CASE fits
    <3>1. job[b] \in JobRecs /\ obj \in Objs /\ lib \in Libs
      BY <1>1, <2>1, JobKinds DEF BuildInv, Types
    <3>2. /\ j \in EndedRecs /\ j.pc = "ended" /\ j.exit = 0 /\ j.src = job[b].src
          /\ j.net = job[b].net /\ j.out = [obj |-> obj, lib |-> lib] /\ j.rt = job[b].hash
      BY <3>1 DEF JobRecs, EndedRecs, Ended
    <3>3. job' = [job EXCEPT ![b] = j]
      BY <2>1 DEF Link
    <3> HIDE DEF j
    <3>4. Stopped(b, 0) /\ job'[b].out = [obj |-> obj, lib |-> lib] /\ job'[b].rt = job[b].hash
      BY <3>2, <3>3, MovedOne DEF Jobs, Stopped, BuildInv
    <3> QED
      BY <2>1, <3>4
  <2>2. CASE ~fits
    <3>1. Stopped(b, 1)
      BY <1>1, <2>2, ExitMoves DEF BuildInv, Link
    <3> QED
      BY <2>2, <3>1
  <2> QED
    BY <2>1, <2>2
<1>3. Types'
  BY <1>2 DEF BuildInv, Types, Link, Stopped, Jobs, disk
<1>4. Always'
  BY <1>1, <1>2 DEF BuildInv, Types, Always, Link, Running, Stopped, disk
<1>5. Solo'
  BY <1>1, <1>2 DEF BuildInv, Solo, Link, Running, Stopped
<1>6. Caches'
  <2> SUFFICES ASSUME Orderly
               PROVE  Vouched' /\ \A c \in Builders : Own(c)'
    BY DEF Caches, Orderly, Link
  <2>1. \A c \in Builders : c # b => job[c].pc \in {"idle", "ended"} /\ job'[c] = job[c]
    BY <1>1, <1>2, OnlyOne DEF Orderly, Stopped
  <2>2. Vouched'
    BY <1>1, <1>2, <2>1 DEF BuildInv, Types, Caches, Orderly, Vouched, Own, OwnArchive,
                            OwnObject, FreshEnd, Link, Stopped, disk
  <2>3. Own(b)'
    BY <1>1, <1>2, <2>1 DEF BuildInv, Types, Always, Caches, Orderly, Vouched, Own, OwnArchive,
                            OwnObject, FreshEnd, Link, Running, Stopped, disk
  <2>4. ASSUME NEW c \in Builders, c # b PROVE Own(c)'
    BY <2>1, <2>4 DEF BuildInv, Caches, Orderly, Vouched, Own, OwnArchive, OwnObject, FreshEnd,
                      Link, disk
  <2> QED
    BY <2>2, <2>3, <2>4
<1>7. Complete'
  <2> SUFFICES ASSUME habits \subseteq {"edit"}
               PROVE  Complete'
    BY DEF Complete, Link
  <2>1. job[b].src \in Good => job'[b].exit = 0
    <3>1. /\ lib # NoFile /\ lib.whole
          /\ PackagesOf[job[b].src] \subseteq fns
      BY <1>1 DEF BuildInv, Caches, Orderly, Own, OwnArchive, Complete, Link
    <3>2. obj # NoFile /\ obj.src = job[b].src /\ \A c \in Builders : job[c].pc # "emit"
      BY <1>1, OnlyOne DEF BuildInv, Caches, Orderly, Own, OwnObject, Link
    <3>3. obj.whole
      BY <3>2 DEF BuildInv, Caches, Orderly, Vouched
    <3> QED
      BY <1>2, <3>1, <3>2, <3>3 DEF Stopped
  <2> QED
    BY <1>1, <1>2, <2>1 DEF BuildInv, Complete, Link, Running, Stopped, disk
<1> QED
  BY <1>3, <1>4, <1>5, <1>6, <1>7 DEF BuildInv

LEMMA KillKeeps ==
    ASSUME BuildInv, NEW b \in Builders, Kill(b)
    PROVE  BuildInv'
<1>1. Running(b)
  BY DEF Running, Kill
<1>2. Stopped(b, 124)
  BY <1>1, ExitMoves DEF BuildInv, Kill
<1>3. Types'
  BY <1>2 DEF BuildInv, Types, Kill, Stopped, Jobs, disk
<1>4. Always'
  BY <1>1, <1>2 DEF BuildInv, Types, Always, Kill, Running, Stopped
<1>5. Solo'
  BY <1>1, <1>2 DEF BuildInv, Solo, Kill, Running, Stopped
<1>6. Caches'
  <2> SUFFICES ASSUME Orderly
               PROVE  Vouched' /\ \A c \in Builders : Own(c)'
    BY DEF Caches, Orderly, Kill
  <2>1. \A c \in Builders : c # b => job[c].pc \in {"idle", "ended"} /\ job'[c] = job[c]
    BY <1>1, <1>2, OnlyOne DEF Orderly, Stopped
  <2>2. Vouched'
    BY <1>1, <1>2, <2>1 DEF BuildInv, Types, Caches, Orderly, Vouched, Own, OwnArchive,
                            OwnObject, FreshEnd, Kill, Stopped
  <2>3. Own(b)'
    BY <1>1, <1>2, <2>1 DEF BuildInv, Types, Always, Caches, Orderly, Vouched, Own, OwnArchive,
                            OwnObject, FreshEnd, Kill, Running, Stopped
  <2>4. ASSUME NEW c \in Builders, c # b PROVE Own(c)'
    BY <2>1, <2>4 DEF BuildInv, Caches, Orderly, Vouched, Own, OwnArchive, OwnObject, FreshEnd,
                      Kill, disk
  <2> QED
    BY <2>2, <2>3, <2>4
<1>7. Complete'
  BY <1>1, <1>2 DEF BuildInv, Types, Solo, Complete, Kill, Running, Stopped
<1> QED
  BY <1>3, <1>4, <1>5, <1>6, <1>7 DEF BuildInv

(* A build begins: its record was idle or ended, so nothing is vouched for *)
(* by a step of it that is still to come.                                  *)
LEMMA BeginKeeps ==
    ASSUME BuildInv, NEW b \in Builders, NEW s \in Sources, NEW n \in Nets, Begin(b, s, n)
    PROVE  /\ BuildInv'
           /\ job'[b] = Job(s, n)
           /\ \A c \in Builders : c # b => job'[c] = job[c]
<1>1. Job(s, n) \in JobRecs
  BY DEF Job, JobRecs, RunningStates
<1>2. /\ job' \in [Builders -> Jobs]
      /\ job'[b] = Job(s, n)
      /\ \A c \in Builders : c # b => job'[c] = job[c]
  BY <1>1, MovedOne DEF BuildInv, Begin, Jobs
<1>3. /\ UNCHANGED <<habits, rt, lib, libHash, obj, objHash, fns>>
      /\ job'[b].pc = "deps" /\ job[b].pc \in {"idle", "ended"}
  BY <1>2 DEF Begin, disk, Job, Running
<1>4. Types'
  <2>1. builds' \in 0 .. MaxBuilds[habits]
    BY BuildAssumption DEF BuildInv, Types, Begin
  <2> QED
    BY <1>2, <1>3, <2>1 DEF BuildInv, Types, Jobs
<1>5. Always'
  BY <1>2, <1>3 DEF BuildInv, Always, Running
<1>6. Solo'
  BY <1>2, <1>3 DEF BuildInv, Solo, Begin, Running
<1>7. Caches'
  BY <1>2, <1>3 DEF BuildInv, Caches, Orderly, Vouched, Own, OwnArchive, OwnObject, FreshEnd
<1>8. Complete'
  BY <1>2, <1>3 DEF BuildInv, Complete, Running
<1> QED
  BY <1>2, <1>4, <1>5, <1>6, <1>7, <1>8 DEF BuildInv

LEMMA EditKeeps ==
    ASSUME BuildInv, Edit
    PROVE  BuildInv'
<1>1. /\ UNCHANGED <<habits, lib, libHash, obj, objHash, fns, job, builds>>
      /\ rt' \in Versions /\ "edit" \in habits
      /\ \A b \in Builders : ~Running(b)
  BY DEF Edit
<1>2. Types' /\ Solo' /\ Caches' /\ Complete'
  BY <1>1 DEF BuildInv, Types, Solo, Caches, Orderly, Vouched, Own, OwnArchive, OwnObject,
              FreshEnd,
              Complete, Running
<1>3. Always'
  BY <1>1 DEF BuildInv, Always, Running
<1> QED
  BY <1>2, <1>3 DEF BuildInv

LEMMA BuildUnchanged ==
    ASSUME BuildInv, UNCHANGED buildVars
    PROVE  BuildInv'
BY DEF BuildInv, buildVars, disk, Types, Always, Solo, Caches, Orderly, Vouched, Own, OwnArchive,
       OwnObject, FreshEnd, Complete, Running

LEMMA BuildStepKeeps ==
    ASSUME BuildInv, NEW b \in Builders, BuildStep(b) \/ Kill(b)
    PROVE  BuildInv'
BY ResolveKeeps, ResolveFailsKeeps, FrontKeeps, TestLibKeeps, CompileLibKeeps, RemoveLibKeeps,
   ArchiveKeeps, HashLibKeeps, TestAppKeeps, CompileAppKeeps, EmitAppKeeps, HashAppKeeps, AppFailsKeeps,
   LinkKeeps, KillKeeps DEF BuildStep

LEMMA BuildNext ==
    ASSUME BuildInv, CheckTypes, [Next]_vars
    PROVE  BuildInv'
<1>1. ASSUME NEW r \in Requests, Check(r) PROVE BuildInv'
  <2>1. CASE Build(r)
    <3>1. r \in Builders /\ check[r].src \in Sources
      BY <2>1, PlaygroundAssumption DEF CheckTypes, CheckRecs, NoCheck, Build
    <3> QED
      BY <2>1, <3>1, BeginKeeps DEF Build, Nets
  <2>2. CASE ~Build(r)
    BY <1>1, <2>2, BuildUnchanged
       DEF Check, Enter, Entered, Returned, TooMany, Admit, NoSpace, Built, Release, Released
  <2> QED
    BY <2>1, <2>2
<1>2. ASSUME NEW b \in Builders, BuildStep(b) \/ Kill(b) PROVE BuildInv'
  BY <1>2, BuildStepKeeps
<1>3. ASSUME NEW b \in Builders \ Requests, Develop(b) PROVE BuildInv'
  BY <1>3, BeginKeeps DEF Develop
<1>4. CASE UNCHANGED vars
  BY <1>4, BuildUnchanged DEF vars
<1> QED
  BY <1>1, <1>2, <1>3, <1>4, EditKeeps DEF Next

LEMMA BuildStart == Init => BuildInv
<1> SUFFICES ASSUME Init PROVE BuildInv
  OBVIOUS
<1>1. Types
  BY BuildAssumption DEF Init, BuildInit, Types
<1> QED
  BY <1>1 DEF Init, BuildInit, BuildInv, Always, Solo, Caches, Vouched, Own, OwnArchive,
              OwnObject,
              FreshEnd, Complete, Running, NoJob

(***************************************************************************)
(* The checks.                                                             *)
(***************************************************************************)

LEMMA CheckKinds ==
    ASSUME CheckTypes, NEW r \in Requests, check[r].pc # "none"
    PROVE  check[r] \in CheckRecs
BY DEF CheckTypes, CheckRecs, NoCheck

LEMMA CheckStart == Init => CheckInv
BY DEF Init, CheckInv, CheckTypes, OneCheck, Counted, Verdict, Busy, NoCheck

(* A builder's record keeps its program through every step of its build.   *)
LEMMA KeepsProgram ==
    ASSUME BuildInv, NEW b \in Builders, BuildStep(b) \/ Kill(b)
    PROVE  /\ habits' = habits
           /\ \A c \in Builders : job[c].pc # "idle" =>
                 job'[c].pc # "idle" /\ job'[c].src = job[c].src
<1>1. Running(b) /\ habits' = habits
  BY DEF BuildStep, Resolve, ResolveFails, Front, TestLib, CompileLib, RemoveLib, Archive, HashLib,
         TestApp,
         CompileApp, EmitApp, HashApp, AppFails, Link, Kill, Running
<1>2. job[b] \in JobRecs /\ job \in [Builders -> Jobs]
  BY <1>1, JobKinds DEF BuildInv, Types, Jobs
<1>3. CASE \E l \in RunningStates : Goto(b, l)
  BY <1>1, <1>3, GotoMoves DEF BuildInv, WentOn, RunningStates
<1>4. CASE \E code \in {1, 124} : Exit(b, code)
  BY <1>1, <1>4, ExitMoves DEF BuildInv, Stopped
<1>5. CASE \E w : job' = [job EXCEPT ![b] = w] /\ w.pc # "idle" /\ w.src = job[b].src
  <2>1. PICK w : job' = [job EXCEPT ![b] = w] /\ w.pc # "idle" /\ w.src = job[b].src
    BY <1>5
  <2>2. job'[b] = w /\ \A c \in Builders : c # b => job'[c] = job[c]
    BY <1>2, <2>1
  <2> QED
    BY <1>1, <2>1, <2>2
<1>6. CASE TestLib(b)
  <2> DEFINE w == [job[b] EXCEPT !.hash = rt, !.pc = IF LibCurrent(b) THEN "app" ELSE "compile"]
  <2>1. job' = [job EXCEPT ![b] = w]
    BY <1>6 DEF TestLib
  <2>2. w.pc # "idle" /\ w.src = job[b].src
    BY <1>2 DEF JobRecs
  <2> HIDE DEF w
  <2> QED
    BY <1>5, <2>1, <2>2
<1>7. CASE CompileLib(b)
  <2>1. PICK o : job' = [job EXCEPT ![b].pc = "remove", ![b].objs = o]
    BY <1>7 DEF CompileLib
  <2> DEFINE w == [job[b] EXCEPT !.pc = "remove", !.objs = o]
  <2>2. job' = [job EXCEPT ![b] = w]
    BY <2>1
  <2>3. w.pc # "idle" /\ w.src = job[b].src
    BY <1>2 DEF JobRecs
  <2> HIDE DEF w
  <2> QED
    BY <1>5, <2>2, <2>3
<1>8. CASE Link(b)
  <2> DEFINE w == Ended(job[b], 0, [obj |-> obj, lib |-> lib])
  <2>1. CASE job' = [job EXCEPT ![b] = w]
    <3>1. w.pc # "idle" /\ w.src = job[b].src
      BY DEF Ended
    <3> HIDE DEF w
    <3> QED
      BY <1>5, <2>1, <3>1
  <2> QED
    BY <1>4, <1>8, <2>1 DEF Link
<1> QED
  BY <1>1, <1>3, <1>4, <1>6, <1>7, <1>8
     DEF BuildStep, Resolve, ResolveFails, Front, RemoveLib, Archive, HashLib, TestApp,
         CompileApp, EmitApp, HashApp, AppFails, Kill, RunningStates

(* The record of a check after it went on to l.                            *)
Became(r, l) ==
    /\ check' \in [Requests -> {NoCheck} \cup CheckRecs]
    /\ \A q \in Requests : q # r => check'[q] = check[q]
    /\ check'[r] \in CheckRecs /\ check'[r].pc = l

LEMMA CheckMoves ==
    ASSUME CheckTypes, NEW r \in Requests, NEW j \in CheckRecs, check' = [check EXCEPT ![r] = j]
    PROVE  Became(r, j.pc) /\ check'[r] = j
BY DEF CheckTypes, Became

LEMMA EnterKeeps ==
    ASSUME CheckInv, NEW r \in Requests, Enter(r)
    PROVE  CheckInv'
<1>1. PICK s \in Sources :
         check' = [check EXCEPT ![r] = [pc |-> "entering", src |-> s, n |-> active, status |-> 0]]
  BY DEF Enter
<1>2. Became(r, "entering") /\ check'[r].n = active
  <2> DEFINE j == [pc |-> "entering", src |-> s, n |-> active, status |-> 0]
  <2>1. j \in CheckRecs /\ j.pc = "entering" /\ j.n = active
    BY DEF CheckInv, CheckTypes, CheckRecs, CheckStates, Statuses
  <2>2. check' = [check EXCEPT ![r] = j]
    BY <1>1
  <2> HIDE DEF j
  <2> QED
    BY <2>1, <2>2, CheckMoves DEF CheckInv
<1>3. UNCHANGED <<habits, job, active>>
  BY DEF Enter, buildVars
<1>4. CheckTypes'
  BY <1>2, <1>3 DEF CheckInv, CheckTypes, Became
<1>5. OneCheck'
  BY <1>2, <1>3 DEF CheckInv, OneCheck, Counted, Verdict, Busy, Became, Enter
<1> QED
  BY <1>4, <1>5 DEF CheckInv

LEMMA EnteredKeeps ==
    ASSUME CheckInv, NEW r \in Requests, Entered(r)
    PROVE  CheckInv'
<1>1. check[r] \in CheckRecs
  BY CheckKinds DEF CheckInv, Entered
<1>2. Became(r, "entered")
  <2> DEFINE j == [check[r] EXCEPT !.pc = "entered"]
  <2>1. j \in CheckRecs /\ j.pc = "entered"
    BY <1>1 DEF CheckRecs, CheckStates, CheckInv, CheckTypes
  <2>2. check' = [check EXCEPT ![r] = j]
    BY DEF Entered
  <2> HIDE DEF j
  <2>3. Became(r, j.pc) /\ check'[r] = j
    BY <2>1, <2>2, CheckMoves DEF CheckInv
  <2> QED
    BY <2>1, <2>3
<1>3. UNCHANGED <<habits, job>> /\ active' = check[r].n + 1 /\ active' \in Int
  BY <1>1 DEF Entered, buildVars, CheckRecs
<1>4. CheckTypes'
  BY <1>2, <1>3 DEF CheckInv, CheckTypes, Became
<1>5. OneCheck'
  BY <1>2, <1>3 DEF CheckInv, OneCheck, Counted, Verdict, Busy, Became, Entered
<1> QED
  BY <1>4, <1>5 DEF CheckInv

LEMMA ReturnedKeeps ==
    ASSUME CheckInv, NEW r \in Requests, Returned(r)
    PROVE  CheckInv'
<1>1. check[r] \in CheckRecs
  BY CheckKinds DEF CheckInv, Returned
<1>2. Became(r, "test") /\ check'[r].n = active
  <2> DEFINE j == [check[r] EXCEPT !.pc = "test", !.n = active]
  <2>1. j \in CheckRecs /\ j.pc = "test"
    BY <1>1 DEF CheckRecs, CheckStates, CheckInv, CheckTypes
  <2>2. check' = [check EXCEPT ![r] = j]
    BY DEF Returned, Read
  <2>4. j.n = active
    BY <1>1 DEF CheckRecs
  <2> HIDE DEF j
  <2>3. Became(r, j.pc) /\ check'[r] = j
    BY <2>1, <2>2, CheckMoves DEF CheckInv
  <2> QED
    BY <2>1, <2>3, <2>4
<1>3. UNCHANGED <<habits, job, active>>
  BY <1>1 DEF Returned, buildVars
<1>4. CheckTypes'
  BY <1>2, <1>3 DEF CheckInv, CheckTypes, Became
<1>5. OneCheck'
  BY <1>2, <1>3 DEF CheckInv, OneCheck, Counted, Verdict, Busy, Became, Returned, Read
<1> QED
  BY <1>4, <1>5 DEF CheckInv

LEMMA TooManyKeeps ==
    ASSUME CheckInv, NEW r \in Requests, TooMany(r)
    PROVE  CheckInv'
<1>1. check[r] \in CheckRecs
  BY CheckKinds DEF CheckInv, TooMany
<1>2. Became(r, "leave") /\ check'[r].status = 429
  <2> DEFINE j == [check[r] EXCEPT !.pc = "leave", !.status = 429]
  <2>1. 429 \in Statuses
    BY DEF Statuses
  <2>2. j \in CheckRecs /\ j.pc = "leave" /\ j.status = 429
    BY ZenonT(40), <1>1, <2>1 DEF CheckRecs, CheckStates
  <2>3. check' = [check EXCEPT ![r] = j]
    BY ZenonT(40) DEF TooMany, Leave
  <2> HIDE DEF j
  <2>4. j \in CheckRecs /\ j.pc = "leave"
    BY <2>2
  <2>5. Became(r, j.pc) /\ check'[r] = j
    BY <2>3, <2>4, CheckMoves DEF CheckInv
  <2> QED
    BY <2>2, <2>5
<1>3. UNCHANGED <<habits, job, active>>
  BY <1>1 DEF TooMany, buildVars
<1>4. CheckTypes'
  BY <1>2, <1>3 DEF CheckInv, CheckTypes, Became
<1>5. OneCheck'
  BY <1>2, <1>3, PlaygroundAssumption DEF CheckInv, OneCheck, Counted, Verdict, Busy,
                                          Became, TooMany
<1> QED
  BY <1>4, <1>5 DEF CheckInv

LEMMA AdmitKeeps ==
    ASSUME CheckInv, NEW r \in Requests, Admit(r)
    PROVE  CheckInv'
<1>1. check[r] \in CheckRecs
  BY CheckKinds DEF CheckInv, Admit
<1>2. Became(r, "space")
  <2> DEFINE j == [check[r] EXCEPT !.pc = "space"]
  <2>1. j \in CheckRecs /\ j.pc = "space"
    BY <1>1 DEF CheckRecs, CheckStates, CheckInv, CheckTypes
  <2>2. check' = [check EXCEPT ![r] = j]
    BY DEF Admit
  <2> HIDE DEF j
  <2>3. Became(r, j.pc) /\ check'[r] = j
    BY <2>1, <2>2, CheckMoves DEF CheckInv
  <2> QED
    BY <2>1, <2>3
<1>3. UNCHANGED <<habits, job, active>>
  BY <1>1 DEF Admit, buildVars
<1>4. CheckTypes'
  BY <1>2, <1>3 DEF CheckInv, CheckTypes, Became
<1>5. OneCheck'
  BY <1>2, <1>3 DEF CheckInv, OneCheck, Counted, Verdict, Busy, Became, Admit
<1> QED
  BY <1>4, <1>5 DEF CheckInv

LEMMA NoSpaceKeeps ==
    ASSUME CheckInv, NEW r \in Requests, NoSpace(r)
    PROVE  CheckInv'
<1>1. check[r] \in CheckRecs
  BY CheckKinds DEF CheckInv, NoSpace
<1>2. Became(r, "leave") /\ check'[r].status = 500
  <2> DEFINE j == [check[r] EXCEPT !.pc = "leave", !.status = 500]
  <2>1. 500 \in Statuses
    BY DEF Statuses
  <2>2. j \in CheckRecs /\ j.pc = "leave" /\ j.status = 500
    BY ZenonT(40), <1>1, <2>1 DEF CheckRecs, CheckStates
  <2>3. check' = [check EXCEPT ![r] = j]
    BY ZenonT(40) DEF NoSpace, Leave
  <2> HIDE DEF j
  <2>4. j \in CheckRecs /\ j.pc = "leave"
    BY <2>2
  <2>5. Became(r, j.pc) /\ check'[r] = j
    BY <2>3, <2>4, CheckMoves DEF CheckInv
  <2> QED
    BY <2>2, <2>5
<1>3. UNCHANGED <<habits, job, active>>
  BY <1>1 DEF NoSpace, buildVars
<1>4. CheckTypes'
  BY <1>2, <1>3 DEF CheckInv, CheckTypes, Became
<1>5. OneCheck'
  BY <1>2, <1>3 DEF CheckInv, OneCheck, Counted, Verdict, Busy, Became, NoSpace, Leave
<1> QED
  BY <1>4, <1>5 DEF CheckInv

LEMMA ReleaseKeeps ==
    ASSUME CheckInv, NEW r \in Requests, Release(r)
    PROVE  CheckInv'
<1>1. check[r] \in CheckRecs
  BY CheckKinds DEF CheckInv, Release
<1>2. /\ Became(r, "leaving") /\ check'[r].n = active
      /\ check'[r].src = check[r].src /\ check'[r].status = check[r].status
  <2> DEFINE j == [check[r] EXCEPT !.pc = "leaving", !.n = active]
  <2>1. j \in CheckRecs /\ j.pc = "leaving"
    BY <1>1 DEF CheckRecs, CheckStates, CheckInv, CheckTypes
  <2>2. check' = [check EXCEPT ![r] = j]
    BY DEF Release, Read
  <2>4. j.n = active /\ j.src = check[r].src /\ j.status = check[r].status
    BY <1>1 DEF CheckRecs
  <2> HIDE DEF j
  <2>3. Became(r, j.pc) /\ check'[r] = j
    BY <2>1, <2>2, CheckMoves DEF CheckInv
  <2> QED
    BY <2>1, <2>3, <2>4
<1>3. UNCHANGED <<habits, job, active>>
  BY <1>1 DEF Release, buildVars
<1>4. CheckTypes'
  BY <1>2, <1>3 DEF CheckInv, CheckTypes, Became
<1>5. OneCheck'
  BY <1>2, <1>3 DEF CheckInv, OneCheck, Counted, Verdict, Busy, Became, Release, Read
<1> QED
  BY <1>4, <1>5 DEF CheckInv

LEMMA ReleasedKeeps ==
    ASSUME CheckInv, NEW r \in Requests, Released(r)
    PROVE  CheckInv'
<1>1. check[r] \in CheckRecs
  BY CheckKinds DEF CheckInv, Released
<1>2. Became(r, "answered") /\ check'[r].src = check[r].src /\ check'[r].status = check[r].status
  <2> DEFINE j == [check[r] EXCEPT !.pc = "answered"]
  <2>1. j \in CheckRecs /\ j.pc = "answered"
    BY <1>1 DEF CheckRecs, CheckStates, CheckInv, CheckTypes
  <2>2. check' = [check EXCEPT ![r] = j]
    BY DEF Released
  <2>4. j.src = check[r].src /\ j.status = check[r].status
    BY <1>1 DEF CheckRecs
  <2> HIDE DEF j
  <2>3. Became(r, j.pc) /\ check'[r] = j
    BY <2>1, <2>2, CheckMoves DEF CheckInv
  <2> QED
    BY <2>1, <2>3, <2>4
<1>3. UNCHANGED <<habits, job>> /\ active' = check[r].n - 1 /\ active' \in Int
  BY <1>1 DEF Released, buildVars, CheckRecs
<1>4. CheckTypes'
  BY <1>2, <1>3 DEF CheckInv, CheckTypes, Became
<1>5. OneCheck'
  BY <1>2, <1>3 DEF CheckInv, OneCheck, Counted, Verdict, Busy, Became, Released
<1> QED
  BY <1>4, <1>5 DEF CheckInv

(* A check enters its build: the builder of its name is given its program. *)
LEMMA CheckBuildKeeps ==
    ASSUME BuildInv, CheckInv, NEW r \in Requests, Build(r)
    PROVE  CheckInv'
<1>1. check[r] \in CheckRecs /\ r \in Builders
  BY CheckKinds, PlaygroundAssumption DEF CheckInv, Build
<1>2. Became(r, "build") /\ check'[r].src = check[r].src
  <2> DEFINE j == [check[r] EXCEPT !.pc = "build"]
  <2>1. j \in CheckRecs /\ j.pc = "build" /\ j.src = check[r].src
    BY <1>1 DEF CheckRecs, CheckStates
  <2>2. check' = [check EXCEPT ![r] = j]
    BY DEF Build
  <2> HIDE DEF j
  <2> QED
    BY <2>1, <2>2, CheckMoves DEF CheckInv
<1>3. /\ job'[r] = Job(check[r].src, FALSE)
      /\ \A c \in Builders : c # r => job'[c] = job[c]
  <2>1. check[r].src \in Sources /\ FALSE \in Nets
    BY <1>1 DEF CheckRecs, Nets
  <2>2. Begin(r, check[r].src, FALSE)
    BY DEF Build
  <2> QED
    BY <1>1, <2>1, <2>2, BeginKeeps
<1>4. UNCHANGED <<habits, active>>
  BY DEF Build, Begin
<1>5. CheckTypes'
  BY <1>1, <1>2, <1>3, <1>4, PlaygroundAssumption DEF CheckInv, CheckTypes, Became, Job
<1>6. OneCheck'
  BY <1>2, <1>4 DEF CheckInv, OneCheck, Counted, Verdict, Busy, Became, Build
<1> QED
  BY <1>5, <1>6 DEF CheckInv

(* The build has ended: the status says what became of it.                 *)
LEMMA BuiltKeeps ==
    ASSUME BuildInv, CheckInv, NEW r \in Requests, Built(r)
    PROVE  CheckInv'
<1>1. /\ check[r] \in CheckRecs /\ r \in Builders
      /\ job[r] \in EndedRecs /\ job[r].src = check[r].src
  BY CheckKinds, JobKinds, PlaygroundAssumption DEF CheckInv, CheckTypes, BuildInv, Built
<1>2. PICK st : st = StatusOf(job[r].exit)
  OBVIOUS
<1>3. /\ st \in Statuses /\ st # 429
      /\ st = 200 => job[r].exit = 0
      /\ st = 408 => job[r].exit = 124
      /\ st = 422 => job[r].exit = 1
  BY <1>1, <1>2 DEF StatusOf, EndedRecs, Statuses
<1>4. Became(r, "leave") /\ check'[r].src = check[r].src /\ check'[r].status = st
  <2> DEFINE j == [check[r] EXCEPT !.pc = "leave", !.status = st]
  <2>1. j \in CheckRecs /\ j.pc = "leave" /\ j.src = check[r].src /\ j.status = st
    BY <1>1, <1>3 DEF CheckRecs, CheckStates
  <2>2. check' = [check EXCEPT ![r] = j]
    BY <1>2 DEF Built, Leave
  <2> HIDE DEF j
  <2>3. Became(r, j.pc) /\ check'[r] = j
    BY <2>1, <2>2, CheckMoves DEF CheckInv
  <2> QED
    BY <2>1, <2>3
<1>5. UNCHANGED <<habits, job, active>>
  BY DEF Built, buildVars
<1>6. CheckTypes'
  BY <1>4, <1>5 DEF CheckInv, CheckTypes, Became
<1>7. ASSUME "parallel" \notin habits
      PROVE  /\ st = 408 => "kill" \in habits
             /\ habits \subseteq {"edit"} =>
                   /\ st = 200 => check[r].src \in Good
                   /\ st = 422 => check[r].src \notin Good
  <2>1. st = 408 => "kill" \in habits
    BY <1>1, <1>3 DEF BuildInv, Always, Built
  <2>2. ASSUME habits \subseteq {"edit"}, st = 200
        PROVE  check[r].src \in Good
    <3>1. job[r].exit = 0 /\ job[r].out.obj.src \in Good
      BY <1>1, <1>3, <2>2 DEF BuildInv, Always, Built
    <3>2. FreshEnd(r)
      BY <1>1, <1>7, <2>2 DEF BuildInv, Caches, Orderly, Own
    <3> QED
      BY <1>1, <3>1, <3>2 DEF FreshEnd, Built
  <2>3. ASSUME habits \subseteq {"edit"}, st = 422
        PROVE  check[r].src \notin Good
    BY <1>1, <1>3, <2>3 DEF BuildInv, Complete, Built
  <2> QED
    BY <2>1, <2>2, <2>3
<1>8. OneCheck'
  <2> SUFFICES ASSUME "parallel" \notin habits PROVE OneCheck'
    BY <1>5 DEF OneCheck
  <2>1. Verdict(r)'
    <3>1. check'[r].status = st /\ check'[r].src = check[r].src /\ habits' = habits /\ st # 429
      BY <1>3, <1>4, <1>5
    <3> QED
      BY <1>7, <3>1, Zenon DEF Verdict
  <2> QED
    BY <1>4, <1>5, <2>1 DEF CheckInv, OneCheck, Counted, Verdict, Busy, Became, Built
<1> QED
  BY <1>6, <1>8 DEF CheckInv

(* Builds of others, and what happens around them.                         *)
LEMMA AsideKeeps ==
    ASSUME CheckInv, UNCHANGED <<habits, active, check>>,
           \A c \in Builders : job[c].pc # "idle" /\ (\E r \in Requests : c = r) =>
              job'[c].pc # "idle" /\ job'[c].src = job[c].src
    PROVE  CheckInv'
<1>1. CheckTypes'
  BY PlaygroundAssumption DEF CheckInv, CheckTypes
<1>2. OneCheck'
  BY DEF CheckInv, OneCheck, Counted, Verdict, Busy
<1> QED
  BY <1>1, <1>2 DEF CheckInv

LEMMA CheckNext ==
    ASSUME BuildInv, CheckInv, [Next]_vars
    PROVE  CheckInv'
<1>1. ASSUME NEW r \in Requests, Check(r) PROVE CheckInv'
  BY <1>1, EnterKeeps, EnteredKeeps, ReturnedKeeps, TooManyKeeps, AdmitKeeps, NoSpaceKeeps,
     CheckBuildKeeps, BuiltKeeps, ReleaseKeeps, ReleasedKeeps DEF Check
<1>2. ASSUME NEW b \in Builders, BuildStep(b) \/ Kill(b), Idle PROVE CheckInv'
  BY <1>2, KeepsProgram, AsideKeeps DEF Idle
<1>3. ASSUME NEW b \in Builders \ Requests, Develop(b) PROVE CheckInv'
  <2>1. PICK s \in Sources, n \in Nets : Begin(b, s, n)
    BY <1>3 DEF Develop
  <2>2. \A c \in Builders : c # b => job'[c] = job[c]
    BY <2>1, BeginKeeps
  <2>3. UNCHANGED <<habits, active, check>>
    BY <1>3, <2>1 DEF Develop, Begin, Idle
  <2> QED
    BY <2>2, <2>3, AsideKeeps
<1>4. CASE Edit /\ Idle
  BY <1>4, AsideKeeps DEF Edit, Idle
<1>5. CASE UNCHANGED vars
  BY <1>5, AsideKeeps DEF vars, buildVars
<1> QED
  BY <1>1, <1>2, <1>3, <1>4, <1>5 DEF Next

(* What every reachable state of builds and checks satisfies.              *)
THEOREM PlaygroundInvariant == Spec => [](BuildInv /\ CheckInv)
<1>1. Init => BuildInv /\ CheckInv
  BY BuildStart, CheckStart
<1>2. BuildInv /\ CheckInv /\ [Next]_vars => (BuildInv /\ CheckInv)'
  BY BuildNext, CheckNext DEF CheckInv
<1> QED
  BY <1>1, <1>2, PTL DEF Spec

(* The types of the files, the builds and the checks.                      *)
THEOREM PlaygroundTypeOK == Spec => []TypeOK
<1>1. BuildInv /\ CheckInv => TypeOK
  <2> SUFFICES ASSUME BuildInv, CheckInv PROVE TypeOK
    OBVIOUS
  <2>1. BuildTypeOK
    BY JobKinds DEF BuildInv, Types, BuildTypeOK, Running, RunningStates
  <2>2. \A r \in Requests : check[r].pc = "none" \/ check[r].pc \in CheckStates
    BY CheckKinds DEF CheckInv, CheckRecs
  <2> QED
    BY <2>1, <2>2 DEF TypeOK, CheckInv, CheckTypes, CheckStates
<1> QED
  BY <1>1, PlaygroundInvariant, PTL

(* A build that succeeds, where none overlaps with another and none is     *)
(* killed, has linked its own program with its own flag and the archive    *)
(* of the runtime it tested, whatever the caches were left with.           *)
THEOREM BuildFreshBinary == Spec => []FreshBinary
<1>1. BuildInv => FreshBinary
  BY DEF BuildInv, Caches, Orderly, Own, FreshEnd, FreshBinary
<1> QED
  BY <1>1, PlaygroundInvariant, PTL

(* A program that compiles is built, whatever was built or failed before.  *)
THEOREM BuildGoodBuilds == Spec => []GoodBuilds
<1>1. BuildInv => GoodBuilds
  BY DEF BuildInv, Complete, GoodBuilds
<1> QED
  BY <1>1, PlaygroundInvariant, PTL

(* Checks one at a time: each answer is about the check's own program, and *)
(* every path out of a check gives its place back.                         *)
THEOREM PlaygroundOwnVerdict == Spec => []OwnVerdict
<1>1. CheckInv => OwnVerdict
  BY DEF CheckInv, OneCheck, Verdict, OwnVerdict
<1> QED
  BY <1>1, PlaygroundInvariant, PTL
=============================================================================
