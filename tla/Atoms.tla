------------------------------- MODULE Atoms --------------------------------
(***************************************************************************)
(* Atoms (math.c 187-222) and the counted heap that keeps their values     *)
(* (gc.c 181-295) apart from what requests allocate in their thread's      *)
(* arena (collection.c).  A program names values; deref gives it the       *)
(* atom's value itself, reset copies the new value and releases the old.   *)
(***************************************************************************)
EXTENDS Integers, FiniteSets, Sequences

CONSTANTS
    Workers,    \* threads that serve requests
    Addrs,      \* bound: addresses of the counted heap
    Fns,        \* bound: closures
    MaxNamed,   \* bound: values a request can name at a time
    MaxRc,      \* 0xFE, where the count of a closure sticks
    AtomPrograms    \* what programs may do, see ProgramHabits

\* what a program may include:
\*   "share"    threads use the atom at the same time
\*   "keep"     a value taken from the atom is used after the atom is reset
\*   "capture"  a closure put in the atom has captured a value
\*   "crowd"    a closure is in the atom's value more than once
ProgramHabits == {"share", "keep", "capture", "crowd"}

\* a closure's maker, the atom's value and the one it replaces count
ASSUME AtomsAssumption ==
    /\ Addrs # {}
    /\ MaxRc \in Nat /\ MaxRc >= 3
    /\ AtomPrograms \subseteq SUBSET ProgramHabits

\* values: a string of a thread's arena, a collection there with its members,
\* a closure, an object of the counted heap
Str(t) == [is |-> "str", by |-> t]
Coll(t, kids) == [is |-> "coll", by |-> t, kids |-> kids]
Fn(f) == [is |-> "fn", fn |-> f]
Obj(a) == [is |-> "obj", at |-> a]

\* members are no collections themselves (bound: values of two levels)
Members == {Str(t) : t \in Workers} \cup {Fn(f) : f \in Fns} \cup {Obj(a) : a \in Addrs}
MemberSeqs == {<<>>} \cup {<<m>> : m \in Members} \cup {<<m, n>> : m, n \in Members}
Values == Members \cup {Coll(t, kids) : t \in Workers, kids \in MemberSeqs}

VARIABLES
    habits,     \* the habits of this program
    heap,       \* what is at each address of the counted heap
    fn,         \* the count of each closure and what it captured
    atom,       \* data[0] of an atom
    named,      \* the values each thread's program can name
    stage,      \* where each thread is: in no request, or in fl_atom_reset
    old, val,   \* its old and its argument
    ub          \* undefined behaviour met so far: the run ends there

atomsVars == <<habits, heap, fn, atom, named, stage, old, val, ub>>
atomVars == <<heap, atom, stage, old, val>>

\* heap objects: what frees them finds a count of one, fl_heap_retain has no
\* caller and only closures are shared
Free == [kind |-> "free", kids |-> <<>>]
Leaf == [kind |-> "leaf", kids |-> <<>>]
Node(kids) == [kind |-> "node", kids |-> kids]
NoFn == [made |-> FALSE, rc |-> 0, env |-> <<>>]

Used == {a \in Addrs : heap[a] # Free}

AtomsTypeOK ==
    /\ habits \in AtomPrograms
    /\ heap \in [Addrs -> [kind : {"free", "leaf", "node"}, kids : MemberSeqs]]
    /\ fn \in [Fns -> [made : BOOLEAN, rc : 0 .. MaxRc, env : MemberSeqs]]
    /\ atom \in Members
    /\ named \in [Workers -> SUBSET Values]
    /\ stage \in [Workers -> {"out", "run", "copy", "release"}]
    /\ old \in [Workers -> Members]
    /\ val \in [Workers -> Values]

\* addresses are interchangeable: any n free ones that differ are taken
Differ(g) == \A i, j \in DOMAIN g : g[i] = g[j] => i = j
Room(n) == \E g \in [1..n -> Addrs \ Used] : Differ(g)
Fresh(n) == CHOOSE g \in [1..n -> Addrs \ Used] : Differ(g)
FirstAddr == CHOOSE a \in Addrs : TRUE

\* fl_atom_new with a string, before any request
AtomsInit ==
    /\ habits \in AtomPrograms
    /\ heap = [a \in Addrs |-> IF a = FirstAddr THEN Leaf ELSE Free]
    /\ fn = [f \in Fns |-> NoFn]
    /\ atom = Obj(FirstAddr)
    /\ named = [t \in Workers |-> {}]
    /\ stage = [t \in Workers |-> "out"]
    /\ old = [t \in Workers |-> Obj(FirstAddr)]
    /\ val = [t \in Workers |-> Obj(FirstAddr)]
    /\ ub = {}

IsColl(v) == \/ v.is = "coll"
             \/ v.is = "obj" /\ heap[v.at].kind = "node"

\* what reading a value gives
Parts(v) == CASE v.is = "coll" -> v.kids
              [] v.is = "obj" -> heap[v.at].kids
              [] v.is = "fn" -> fn[v.fn].env
              [] OTHER -> <<>>
Elements(s) == {s[i] : i \in DOMAIN s}
Times(v, s) == Cardinality({i \in DOMAIN s : s[i] = v})

Gone(v) == \/ v.is = "obj" /\ v.at \notin Used
           \/ v.is = "fn" /\ fn[v.fn].rc = 0
Reads(S) == ub' = ub \cup (IF \E v \in S : Gone(v) THEN {"read of freed memory"} ELSE {})

Name(t, S) ==
    /\ Cardinality(named[t] \cup S) <= MaxNamed
    /\ named' = [named EXCEPT ![t] = @ \cup S]

(***************************************************************************)
(* Requests.                                                               *)
(***************************************************************************)

Begin(t) ==
    /\ stage[t] = "out"
    /\ stage' = [stage EXCEPT ![t] = "run"]
    /\ UNCHANGED <<habits, heap, fn, atom, named, old, val, ub>>

\* the handler has returned, fl_arena_end takes everything it allocated
End(t) ==
    /\ stage[t] = "run"
    /\ stage' = [stage EXCEPT ![t] = "out"]
    /\ named' = [named EXCEPT ![t] = {}]
    /\ UNCHANGED <<habits, heap, fn, atom, old, val, ub>>

\* a value goes out of scope
Forget(t) ==
    /\ stage[t] = "run"
    /\ \E v \in named[t] : named' = [named EXCEPT ![t] = @ \ {v}]
    /\ UNCHANGED <<habits, fn, atomVars, ub>>

\* fl_str_val and its kind
New(t) ==
    /\ stage[t] = "run"
    /\ Name(t, {Str(t)})
    /\ UNCHANGED <<habits, fn, atomVars, ub>>

\* fl_vec_from, fl_map_from_pairs
Gather(t) ==
    /\ stage[t] = "run"
    /\ \E v \in named[t] : ~IsColl(v) /\ Name(t, {Coll(t, <<v>>)})
    /\ UNCHANGED <<habits, fn, atomVars, ub>>

\* fl_vec_push, fl_map_set with a new key: a copy that shares the members, with
\* which the program goes on
Extend(t) ==
    /\ stage[t] = "run"
    /\ \E c, v \in named[t] :
          /\ IsColl(c) /\ ~IsColl(v) /\ Len(Parts(c)) = 1
          /\ v.is = "fn" /\ v \in Elements(Parts(c)) => "crowd" \in habits
          /\ Reads({c})
          /\ named' = [named EXCEPT ![t] = (@ \ {c}) \cup {Coll(t, Append(Parts(c), v))}]
    /\ UNCHANGED <<habits, fn, atomVars>>

\* fl_vec_get, fl_map_get; a call of a closure names what it captured
Get(t) ==
    /\ stage[t] = "run"
    /\ \E v \in named[t] : Reads({v}) /\ Name(t, Elements(Parts(v)))
    /\ UNCHANGED <<habits, fn, atomVars>>

\* fl_fn_new: malloc, for good
Capture(t) ==
    /\ stage[t] = "run"
    /\ \E f \in Fns, env \in {<<>>} \cup {<<v>> : v \in named[t]} :
          /\ ~fn[f].made
          /\ env # <<>> => "capture" \in habits /\ ~IsColl(env[1]) /\ env[1].is # "fn"
          /\ fn' = [fn EXCEPT ![f] = [made |-> TRUE, rc |-> 1, env |-> env]]
          /\ Name(t, {Fn(f)})
    /\ UNCHANGED <<habits, atomVars, ub>>

(***************************************************************************)
(* Atoms.                                                                  *)
(***************************************************************************)

\* unless the program shares the atom, one thread at a time has to do with it
Touches(t) ==
    \/ stage[t] \in {"copy", "release"}
    \/ \E v \in named[t] : \E w \in {v} \cup Elements(Parts(v)) : w.is \in {"obj", "fn"}
Alone(t) == "share" \in habits \/ \A u \in Workers \ {t} : ~Touches(u)

\* fl_atom_deref: the value itself, uncounted
Deref(t) ==
    /\ stage[t] = "run"
    /\ Alone(t)
    /\ Name(t, {atom})
    /\ UNCHANGED <<habits, fn, atomVars, ub>>

\* fl_atom_reset, for reset! and for swap!
ResetRead(t) ==
    /\ stage[t] = "run"
    /\ Alone(t)
    /\ old' = [old EXCEPT ![t] = atom]
    /\ \E v \in named[t] : val' = [val EXCEPT ![t] = v]
    /\ stage' = [stage EXCEPT ![t] = "copy"]
    /\ UNCHANGED <<habits, heap, fn, atom, named, ub>>

\* rc++ below 0xFE
Stuck(n) == IF n > MaxRc THEN MaxRc ELSE n

\* mutant: the members of a collection are shared
CopyShared(s) == s

\* members of a collection: closures are shared and counted, the rest is copied
CopyMembers(s) ==
    [i \in DOMAIN s |-> IF s[i].is = "fn" THEN s[i] ELSE Obj(Fresh(1 + Len(s))[i + 1])]

\* fl_heap_copy, and the store
ResetCopy(t) ==
    LET v == val[t]
        members == IF IsColl(v) THEN Parts(v) ELSE <<>>
        top == Fresh(1 + Len(members))[1]
        copies == CopyMembers(members)
        counted == IF v.is = "fn" THEN <<v>> ELSE members IN
    /\ stage[t] = "copy"
    /\ Room(1 + Len(members))
    /\ Reads({v} \cup Elements(members))
    /\ IF v.is = "fn"
       THEN atom' = v /\ UNCHANGED heap
       ELSE /\ atom' = Obj(top)
            /\ heap' = [a \in Addrs |->
                  IF a = top THEN IF IsColl(v) THEN Node(copies) ELSE Leaf
                  ELSE IF a \notin Used /\ Obj(a) \in Elements(copies) THEN Leaf
                  ELSE heap[a]]
    /\ fn' = [f \in Fns |-> [fn[f] EXCEPT !.rc = Stuck(@ + Times(Fn(f), counted))]]
    /\ stage' = [stage EXCEPT ![t] = "release"]
    /\ UNCHANGED <<habits, named, old, val>>

\* mutant: the members of the old collection are not released
DroppedTop(v) == <<v>>

\* the references fl_heap_release gives up
Dropped(v) == <<v>> \o IF IsColl(v) THEN Parts(v) ELSE <<>>

ResetRelease(t) ==
    LET drops == Dropped(old[t]) IN
    /\ stage[t] = "release"
    /\ ub' = ub \cup
          (IF \E v \in Elements(drops) :
                 \/ Gone(v)
                 \/ v.is = "obj" /\ Times(v, drops) > 1
                 \/ v.is = "fn" /\ Times(v, drops) > fn[v.fn].rc
                 \/ v.is = "str"
           THEN {"free of freed memory"} ELSE {})
    /\ heap' = [a \in Addrs |-> IF Obj(a) \in Elements(drops) THEN Free ELSE heap[a]]
    /\ fn' = [f \in Fns |->
          LET n == Times(Fn(f), drops) IN
          [fn[f] EXCEPT !.rc = IF n > @ THEN 0 ELSE @ - n]]
    /\ named' = [named EXCEPT ![t] = (IF "keep" \in habits THEN @ ELSE {}) \cup {atom}]
    /\ stage' = [stage EXCEPT ![t] = "run"]
    /\ old' = [old EXCEPT ![t] = Obj(FirstAddr)]
    /\ val' = [val EXCEPT ![t] = Obj(FirstAddr)]
    /\ UNCHANGED <<habits, atom>>

AtomStep(t) ==
    \/ Begin(t) \/ End(t) \/ Forget(t)
    \/ New(t) \/ Gather(t) \/ Extend(t) \/ Get(t) \/ Capture(t)
    \/ Deref(t) \/ ResetRead(t) \/ ResetCopy(t) \/ ResetRelease(t)

AtomsNext == ub = {} /\ \E t \in Workers : AtomStep(t)

AtomsSpec == AtomsInit /\ [][AtomsNext]_atomsVars

(***************************************************************************)
(* Properties.                                                             *)
(***************************************************************************)

\* After every reset the atom owns its value: all of it is on the counted heap,
\* so that it outlives the request that made it, each part once; nothing else
\* is there, so that no old value leaks; and the count of a closure is its
\* maker's reference and the atom's (gc.c:181-190, math.c:188-194).  Left out:
\* threads that share the atom, closures that have captured values (those stay
\* where they were) and crowds of one closure.
AtomOwnsItsValue ==
    /\ habits \cap {"share", "capture", "crowd"} = {}
    /\ \A t \in Workers : stage[t] # "release"
    => LET parts == <<atom>> \o IF IsColl(atom) THEN Parts(atom) ELSE <<>> IN
       /\ \A v \in Elements(parts) : \A w \in {v} \cup Elements(Parts(v)) :
             w.is \in {"obj", "fn"} /\ ~Gone(w)
       /\ \A a \in Used : Times(Obj(a), parts) = 1
       /\ \A f \in Fns : fn[f].made => fn[f].rc = 1 + Times(Fn(f), parts)

\* A program with none of the habits meets no freed memory and frees nothing
\* twice, in any interleaving of requests and resets: the new value, which may
\* share members with the old one, is copied before that is released.
NoMisuse == habits = {} => ub = {}

=============================================================================
