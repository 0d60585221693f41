----------------------------- MODULE Playground -----------------------------
(***************************************************************************)
(* fx2-playground/app.fl: check-source, run by the HTTP workers, counts    *)
(* the checks in progress in an atom, builds the program with fl-build.sh  *)
(* under a timeout in a directory of its own, and answers with a status.   *)
(* Every check has the same output name, hence the same cached object.     *)
(* Developers build on the same machine.                                   *)
(***************************************************************************)
EXTENDS BuildCache, Integers, FiniteSets

CONSTANTS
    Requests,   \* checks, each running its build as a builder of that name
    Callers,    \* bound: the requests that come, for each set of habits
    MaxActive   \* MAX_ACTIVE_CHECKS

ASSUME PlaygroundAssumption ==
    /\ Requests \subseteq Builders
    /\ Callers \in [Habits -> SUBSET Requests]
    /\ MaxActive \in Nat

VARIABLES
    active,     \* the atom ACTIVE_CHECKS
    check       \* where each check is, the value its swap! read, its status

vars == <<buildVars, active, check>>

NoCheck == [pc |-> "none"]

TypeOK ==
    /\ BuildTypeOK
    /\ active \in Int
    /\ \A r \in Requests :
          check[r].pc \in {"none", "entering", "entered", "test", "space", "build", "leave",
                           "leaving", "answered"}

Init ==
    /\ BuildInit
    /\ active = 0
    /\ check = [r \in Requests |-> NoCheck]

Busy(r) == check[r].pc \notin {"none", "answered"}

\* swap! is a read of the atom, a call of the function and a write:
\* fl_atom_deref and fl_atom_reset, without a lock
Read(r, next) == check' = [check EXCEPT ![r].pc = next, ![r].n = active]

\* bound: of requests that overlap each comes once (their lost updates of the
\* atom would add up without end)
MayCome(r) ==
    /\ r \in Callers[habits]
    /\ check[r].pc \in {"none"} \cup IF "parallel" \in habits THEN {} ELSE {"answered"}

\* a source within the size limit enters; the others are answered 413 without
\* touching any state
Enter(r) ==
    /\ MayCome(r)
    /\ "parallel" \in habits \/ \A b \in Builders : ~Running(b)
    /\ "parallel" \in habits \/ \A q \in Requests : ~Busy(q)
    /\ \E s \in Sources :
          check' = [check EXCEPT ![r] = [pc |-> "entering", src |-> s, n |-> active,
                                         status |-> 0]]
    /\ UNCHANGED <<buildVars, active>>

Entered(r) ==
    /\ check[r].pc = "entering"
    /\ active' = check[r].n + 1
    /\ check' = [check EXCEPT ![r].pc = "entered"]
    /\ UNCHANGED buildVars

\* fl_atom_reset returns the atom's slot, read again
Returned(r) ==
    /\ check[r].pc = "entered"
    /\ Read(r, "test")
    /\ UNCHANGED <<buildVars, active>>

Leave(r, status) == check' = [check EXCEPT ![r].pc = "leave", ![r].status = status]

\* $active is what the swap! returned
TooMany(r) ==
    /\ check[r].pc = "test"
    /\ check[r].n > MaxActive
    /\ Leave(r, 429)
    /\ UNCHANGED <<buildVars, active>>

Admit(r) ==
    /\ check[r].pc = "test"
    /\ check[r].n <= MaxActive
    /\ check' = [check EXCEPT ![r].pc = "space"]
    /\ UNCHANGED <<buildVars, active>>

\* mutant: no workspace, and the place is kept
NoSpaceKept(r) ==
    /\ check[r].pc = "space"
    /\ check' = [check EXCEPT ![r].pc = "answered", ![r].status = 500]
    /\ UNCHANGED <<buildVars, active>>

NoSpace(r) ==
    /\ check[r].pc = "space"
    /\ Leave(r, 500)
    /\ UNCHANGED <<buildVars, active>>

\* timeout 15s fl-build.sh source.fl check-bin --no-net
Build(r) ==
    /\ check[r].pc = "space"
    /\ Begin(r, check[r].src, FALSE)
    /\ check' = [check EXCEPT ![r].pc = "build"]
    /\ UNCHANGED active

StatusOf(exit) == CASE exit = 0 -> 200 [] exit = 124 -> 408 [] OTHER -> 422

Built(r) ==
    /\ check[r].pc = "build"
    /\ job[r].pc = "ended"
    /\ Leave(r, StatusOf(job[r].exit))
    /\ UNCHANGED <<buildVars, active>>

\* release-check
Release(r) ==
    /\ check[r].pc = "leave"
    /\ Read(r, "leaving")
    /\ UNCHANGED <<buildVars, active>>

Released(r) ==
    /\ check[r].pc = "leaving"
    /\ active' = check[r].n - 1
    /\ check' = [check EXCEPT ![r].pc = "answered"]
    /\ UNCHANGED buildVars

Check(r) ==
    \/ Enter(r) \/ Entered(r) \/ Returned(r)
    \/ TooMany(r) \/ Admit(r) \/ NoSpace(r)
    \/ Build(r) \/ Built(r) \/ Release(r) \/ Released(r)

Idle == UNCHANGED <<active, check>>

Develop(b) ==
    /\ "parallel" \in habits \/ \A r \in Requests : ~Busy(r)
    /\ \E s \in Sources, n \in Nets : Begin(b, s, n)
    /\ Idle

Next ==
    \/ \E r \in Requests : Check(r)
    \/ \E b \in Builders : (BuildStep(b) \/ Kill(b)) /\ Idle
    \/ \E b \in Builders \ Requests : Develop(b)
    \/ Edit /\ Idle

Spec == Init /\ [][Next]_vars

(***************************************************************************)
(* Properties.                                                             *)
(***************************************************************************)

\* A check's answer is about its own program: 200 exactly if it compiles, 422 if
\* not, 408 only if its build was killed, 500 and 429 only before any build; and
\* every path out of a check gives its place back.  (Requests one at a time:
\* the atom is read and written without a lock, and all checks share one
\* cached object.)
OwnVerdict ==
    "parallel" \notin habits =>
        /\ \A r \in Requests :
              check[r].pc = "answered" =>
                  /\ check[r].status = 408 => "kill" \in habits
                  /\ check[r].status = 429 => MaxActive = 0
                  /\ habits \subseteq {"edit"} =>
                        /\ check[r].status = 200 => check[r].src \in Good
                        /\ check[r].status = 422 => check[r].src \notin Good
        /\ (\A r \in Requests : ~Busy(r)) => active = 0

\* README.md:62, app.fl:63: no more than MAX_ACTIVE_CHECKS checks run at a time.
ActiveLimit == Cardinality({r \in Requests : check[r].pc = "build"}) <= MaxActive
=============================================================================
