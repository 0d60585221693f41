---------------------------- MODULE MemoryProofs ----------------------------
(***************************************************************************)
(* Proofs about the memory of a process.  The arena (Arena) hands out      *)
(* memory that nobody else has, for every chunk size, header and set of    *)
(* object sizes.  What an atom holds (Atoms) is the atom's own, for any    *)
(* number of workers, addresses and closures.                              *)
(***************************************************************************)
EXTENDS Arena, Atoms, FiniteSetTheorems, SequenceTheorems, TLAPS

(***************************************************************************)
(* The arena.                                                              *)
(***************************************************************************)

(* What InBounds rests on: an object lies in the used part of its chunk,   *)
(* which is the current one or one before it; no chunk is smaller than     *)
(* ChunkSize; and small objects never made a chunk overflow where they     *)
(* are.                                                                    *)
Placed ==
    \A o \in objects :
        /\ o.chunk \in 1 .. head
        /\ o.off + o.size <= chunks[o.chunk].used
        /\ o.size <= ChunkSize => o.off + o.size <= chunks[o.chunk].cap

Roomy == \A i \in 1 .. Len(chunks) : chunks[i].cap >= ChunkSize

Alive == head = 0 => chunks = <<>> /\ objects = {}

Disjoint == \A o, p \in objects : o.chunk = p.chunk => o = p \/ Apart(o, p)

ArenaInv == ArenaTypeOK /\ Placed /\ Roomy /\ Alive /\ Disjoint

(* A new chunk is one, holds what it was made for and is no smaller than   *)
(* the others.                                                             *)
LEMMA NewChunkRoomy ==
    ASSUME NEW size \in Nat
    PROVE  /\ NewChunk(size) \in Chunks
           /\ NewChunk(size).used = size
           /\ NewChunk(size).cap >= ChunkSize
           /\ size <= NewChunk(size).cap
  BY ArenaAssumption DEF NewChunk, Chunks

(* A chunk with another use has the same capacity.                        *)
LEMMA WithUse ==
    ASSUME NEW c \in Chunks, NEW n \in Nat
    PROVE  /\ [c EXCEPT !.used = n] \in Chunks
           /\ [c EXCEPT !.used = n].used = n
           /\ [c EXCEPT !.used = n].cap = c.cap
           /\ c.cap \in Nat /\ c.used \in Nat
  BY DEF Chunks

(* No arena yet.                                                           *)
LEMMA InitInv == ArenaInit => ArenaInv
  <1>1. ArenaInit => ArenaTypeOK
    BY DEF ArenaInit, ArenaTypeOK
  <1>2. ArenaInit => Placed /\ Roomy /\ Alive /\ Disjoint
    BY DEF ArenaInit, Placed, Roomy, Alive, Disjoint
  <1> QED BY <1>1, <1>2 DEF ArenaInv

(* A reset keeps the chunks and their capacities.                          *)
LEMMA ResetInv == ArenaInv /\ BeginOrEnd => ArenaInv'
  <1> SUFFICES ASSUME ArenaInv, BeginOrEnd PROVE ArenaInv'
    OBVIOUS
  <1> USE DEF ArenaInv, BeginOrEnd, Reset
  <1>1. /\ chunks' \in Seq(Chunks) /\ Len(chunks') = Len(chunks)
        /\ \A i \in 1 .. Len(chunks) : chunks'[i].cap = chunks[i].cap
    <2>1. chunks \in Seq(Chunks) BY DEF ArenaTypeOK
    <2>2. \A i \in DOMAIN chunks : [chunks[i] EXCEPT !.used = 0] \in Chunks
      <3>1. \A i \in DOMAIN chunks : chunks[i] \in Chunks BY <2>1
      <3> QED BY <3>1, WithUse
    <2>3. chunks' = [i \in 1 .. Len(chunks) |-> [chunks[i] EXCEPT !.used = 0]]
      BY <2>1
    <2>4. \A i \in 1 .. Len(chunks) : chunks'[i].cap = chunks[i].cap
      <3>1. \A i \in 1 .. Len(chunks) : chunks[i] \in Chunks BY <2>1
      <3> QED BY <2>3, <3>1, WithUse
    <2>5. chunks' \in Seq(Chunks) /\ Len(chunks') = Len(chunks)
      BY <2>1, <2>2, <2>3
    <2> QED BY <2>4, <2>5
  <1>2. head \in 1 .. Len(chunks)
    BY DEF ArenaTypeOK
  <1>3. ArenaTypeOK' BY <1>1, <1>2 DEF ArenaTypeOK
  <1>4. Roomy' BY <1>1 DEF Roomy
  <1>5. Placed' /\ Alive' /\ Disjoint' BY DEF Placed, Alive, Disjoint
  <1> QED BY <1>3, <1>4, <1>5

(* The first chunk is empty.                                               *)
LEMMA CreateInv == ArenaInv /\ Create => ArenaInv'
  <1> SUFFICES ASSUME ArenaInv, Create PROVE ArenaInv'
    OBVIOUS
  <1>1. objects = {} BY DEF ArenaInv, Create, Alive
  <1>2. NewChunk(0) \in Chunks /\ NewChunk(0).cap >= ChunkSize BY NewChunkRoomy
  <1>3. chunks' = <<NewChunk(0)>> /\ head' = 1 /\ objects' = {} BY <1>1 DEF Create
  <1>4. Len(chunks') = 1 /\ chunks'[1] = NewChunk(0) /\ chunks' \in Seq(Chunks) BY <1>2, <1>3
  <1>5. ArenaTypeOK' BY <1>3, <1>4 DEF ArenaTypeOK
  <1>6. Roomy' BY <1>2, <1>4 DEF Roomy
  <1>7. Placed' /\ Alive' /\ Disjoint' BY <1>3 DEF Placed, Alive, Disjoint
  <1> QED BY <1>5, <1>6, <1>7 DEF ArenaInv

(* Everything is gone.                                                     *)
LEMMA DestroyInv == ArenaInv /\ Destroy => ArenaInv'
  <1> SUFFICES ASSUME Destroy PROVE ArenaInv'
    OBVIOUS
  <1>1. ArenaTypeOK' BY DEF Destroy, ArenaTypeOK
  <1>2. Placed' /\ Roomy' /\ Alive' /\ Disjoint' BY DEF Destroy, Placed, Roomy, Alive, Disjoint
  <1> QED BY <1>1, <1>2 DEF ArenaInv

(* The object goes after everything in the current chunk.                  *)
LEMMA BumpInv ==
    ASSUME NEW size \in Sizes, ArenaInv, head # 0, Fits(size), Bump(size)
    PROVE  ArenaInv'
  <1> DEFINE c == chunks[head]
             new == [chunk |-> head, off |-> c.used, size |-> size]
  <1>1. /\ size \in Nat /\ chunks \in Seq(Chunks) /\ head \in 1 .. Len(chunks)
        /\ c \in Chunks /\ c.used \in Nat /\ c.cap \in Nat
        /\ objects \subseteq [chunk : Nat, off : Nat, size : Nat]
    <2>1. /\ size \in Nat /\ chunks \in Seq(Chunks) /\ head \in 1 .. Len(chunks)
          /\ objects \subseteq [chunk : Nat, off : Nat, size : Nat]
      BY ArenaAssumption DEF ArenaInv, ArenaTypeOK
    <2>2. c \in Chunks BY <2>1
    <2> QED BY <2>1, <2>2 DEF Chunks
  <1>2. /\ head' = head /\ objects' = objects \cup {new}
        /\ chunks' \in Seq(Chunks) /\ Len(chunks') = Len(chunks)
        /\ \A i \in 1 .. Len(chunks) : chunks'[i].cap = chunks[i].cap
        /\ \A i \in 1 .. Len(chunks) :
              chunks'[i].used = IF i = head THEN c.used + size ELSE chunks[i].used
    <2> DEFINE d == [c EXCEPT !.used = c.used + size]
    <2>1. chunks' = [chunks EXCEPT ![head] = d]
      BY DEF Bump
    <2>2. d \in Chunks /\ d.used = c.used + size /\ d.cap = c.cap
      <3>1. c.used + size \in Nat BY <1>1
      <3> QED BY <1>1, <3>1, WithUse
    <2> HIDE DEF d
    <2>3. chunks' \in Seq(Chunks) /\ Len(chunks') = Len(chunks) BY <1>1, <2>1, <2>2
    <2>4. \A i \in 1 .. Len(chunks) : chunks'[i] = IF i = head THEN d ELSE chunks[i]
      BY <1>1, <2>1
    <2> QED BY <2>2, <2>3, <2>4 DEF Bump
  <1>3. ArenaTypeOK'
    BY <1>1, <1>2 DEF ArenaTypeOK
  <1>4. Roomy' BY <1>2 DEF ArenaInv, Roomy
  <1>5. Alive' BY <1>2 DEF ArenaInv, Alive, Bump
  <1>6. \A o \in objects : /\ o.chunk \in 1 .. head /\ o.chunk \in 1 .. Len(chunks)
                           /\ o.off \in Nat /\ o.size \in Nat
                           /\ o.off + o.size <= chunks[o.chunk].used
                           /\ chunks[o.chunk].used \in Nat
    <2> TAKE o \in objects
    <2>1. o.chunk \in 1 .. head /\ o.off + o.size <= chunks[o.chunk].used
      BY DEF ArenaInv, Placed
    <2>2. o.off \in Nat /\ o.size \in Nat BY <1>1
    <2>3. o.chunk \in 1 .. Len(chunks) BY <1>1, <2>1
    <2>4. chunks[o.chunk] \in Chunks BY <1>1, <2>3
    <2>5. chunks[o.chunk].used \in Nat BY <2>4 DEF Chunks
    <2> QED BY <2>1, <2>2, <2>3, <2>5
  <1>7. Placed'
    <2> SUFFICES ASSUME NEW o \in objects'
                 PROVE  /\ o.chunk \in 1 .. head'
                        /\ o.off + o.size <= chunks'[o.chunk].used
                        /\ o.size <= ChunkSize => o.off + o.size <= chunks'[o.chunk].cap
      BY DEF Placed
    <2>1. CASE o = new
      <3>1. c.used + size <= c.cap BY DEF Fits
      <3> QED BY <1>1, <1>2, <2>1, <3>1
    <2>2. CASE o \in objects
      <3>1. o.off + o.size <= chunks'[o.chunk].used BY SMTT(30), <1>1, <1>2, <1>6, <2>2
      <3>2. o.size <= ChunkSize => o.off + o.size <= chunks'[o.chunk].cap
        BY <1>2, <1>6, <2>2 DEF ArenaInv, Placed
      <3> QED BY <1>2, <1>6, <2>2, <3>1, <3>2
    <2> QED BY <1>2, <2>1, <2>2
  <1>8. Disjoint'
    <2>1. \A o \in objects : o.chunk = head => Apart(o, new) /\ Apart(new, o)
      BY <1>1, <1>6 DEF Apart
    <2>2. \A o, p \in objects : o.chunk = p.chunk => o = p \/ Apart(o, p)
      BY DEF ArenaInv, Disjoint
    <2> QED BY <1>2, <2>1, <2>2 DEF Disjoint
  <1> QED BY <1>3, <1>4, <1>5, <1>7, <1>8 DEF ArenaInv

(* Nothing was in the next chunk.                                          *)
LEMMA AdvanceInv ==
    ASSUME NEW size \in Sizes, ArenaInv, head # 0, Advance(size)
    PROVE  ArenaInv'
  <1> DEFINE new == [chunk |-> head + 1, off |-> 0, size |-> size]
  <1>1. /\ size \in Nat /\ chunks \in Seq(Chunks) /\ head \in 1 .. Len(chunks)
        /\ objects \subseteq [chunk : Nat, off : Nat, size : Nat]
        /\ ChunkSize \in Nat
    BY ArenaAssumption DEF ArenaInv, ArenaTypeOK
  <1>2. /\ chunks' \in Seq(Chunks)
        /\ head + 1 \in 1 .. Len(chunks') /\ Len(chunks) <= Len(chunks')
        /\ \A i \in 1 .. head : chunks'[i] = chunks[i]
        /\ \A i \in 1 .. Len(chunks') : chunks'[i].cap >= ChunkSize
        /\ chunks'[head + 1].used = size
    <2>1. CASE head < Len(chunks)
      <3>1. chunks' = [chunks EXCEPT ![head + 1] = [chunks[head + 1] EXCEPT !.used = size]]
        BY <2>1 DEF Advance
      <3>2. [chunks[head + 1] EXCEPT !.used = size] \in Chunks
        <4>1. chunks[head + 1] \in Chunks BY <1>1, <2>1
        <4> QED BY <1>1, <4>1, WithUse
      <3>3. \A i \in 1 .. Len(chunks) : chunks[i] \in Chunks /\ chunks[i].cap >= ChunkSize
        BY <1>1 DEF ArenaInv, Roomy
      <3>4. chunks' \in Seq(Chunks) /\ Len(chunks') = Len(chunks)
        BY <1>1, <2>1, <3>1, <3>2
      <3>5. \A i \in 1 .. Len(chunks) : chunks'[i].cap = chunks[i].cap
        BY <1>1, <3>1, <3>3 DEF Chunks
      <3>6. chunks'[head + 1].used = size
        BY <1>1, <2>1, <3>1, <3>3 DEF Chunks
      <3> QED BY <1>1, <2>1, <3>1, <3>3, <3>4, <3>5, <3>6
    <2>2. CASE ~(head < Len(chunks))
      <3>1. chunks' = Append(chunks, NewChunk(size)) BY <2>2 DEF Advance
      <3>2. head = Len(chunks) BY <1>1, <2>2
      <3>3. /\ NewChunk(size) \in Chunks /\ NewChunk(size).used = size
            /\ NewChunk(size).cap >= ChunkSize
        BY <1>1, NewChunkRoomy
      <3> QED BY <1>1, <3>1, <3>2, <3>3 DEF ArenaInv, Roomy
    <2> QED BY <2>1, <2>2
  <1>3. head' = head + 1 /\ objects' = objects \cup {new} BY DEF Advance
  <1>4. ArenaTypeOK' BY <1>1, <1>2, <1>3 DEF ArenaTypeOK
  <1>5. Roomy' BY <1>2 DEF Roomy
  <1>6. Alive' BY <1>1, <1>3 DEF Alive
  <1>7. \A o \in objects : o.chunk \in 1 .. head /\ chunks'[o.chunk] = chunks[o.chunk]
    BY <1>2 DEF ArenaInv, Placed
  <1>8. Placed'
    <2> SUFFICES ASSUME NEW o \in objects'
                 PROVE  /\ o.chunk \in 1 .. head'
                        /\ o.off + o.size <= chunks'[o.chunk].used
                        /\ o.size <= ChunkSize => o.off + o.size <= chunks'[o.chunk].cap
      BY DEF Placed
    <2>1. CASE o = new
      <3>1. chunks'[head + 1].cap >= ChunkSize /\ chunks'[head + 1].cap \in Nat
        <4>1. chunks'[head + 1] \in Chunks BY <1>2
        <4> QED BY <1>2, <4>1 DEF Chunks
      <3> QED BY <1>1, <1>2, <1>3, <2>1, <3>1
    <2>2. CASE o \in objects
      BY <1>1, <1>3, <1>7, <2>2 DEF ArenaInv, Placed
    <2> QED BY <1>3, <2>1, <2>2
  <1>9. Disjoint'
    <2>1. \A o \in objects : o.chunk # head + 1 BY <1>1, <1>7
    <2>2. \A o, p \in objects : o.chunk = p.chunk => o = p \/ Apart(o, p)
      BY DEF ArenaInv, Disjoint
    <2> QED BY <1>3, <2>1, <2>2 DEF Disjoint
  <1> QED BY <1>4, <1>5, <1>6, <1>8, <1>9 DEF ArenaInv

(* One step per operation of the allocator.                                *)
LEMMA NextInv == ArenaInv /\ [ArenaNext]_arenaVars => ArenaInv'
  <1> SUFFICES ASSUME ArenaInv, [ArenaNext]_arenaVars PROVE ArenaInv'
    OBVIOUS
  <1>1. CASE Create BY <1>1, CreateInv
  <1>2. CASE BeginOrEnd BY <1>2, ResetInv
  <1>3. CASE Destroy BY <1>3, DestroyInv
  <1>4. ASSUME NEW size \in Sizes, Alloc(size) PROVE ArenaInv'
    <2>1. head # 0 BY <1>4 DEF Alloc
    <2>2. CASE Fits(size) /\ Bump(size) BY <2>1, <2>2, BumpInv
    <2>3. CASE Advance(size) BY <2>1, <2>3, AdvanceInv
    <2> QED BY <1>4, <2>2, <2>3 DEF Alloc
  <1>5. CASE UNCHANGED arenaVars
    BY <1>5 DEF arenaVars, ArenaInv, ArenaTypeOK, Placed, Roomy, Alive, Disjoint
  <1> QED BY <1>1, <1>2, <1>3, <1>4, <1>5 DEF ArenaNext

(* In every behaviour of the arena the variables keep their types and what *)
(* the allocator relies on holds.                                          *)
THEOREM ArenaInvariant == ArenaSpec => []ArenaInv
  BY InitInv, NextInv, PTL DEF ArenaSpec

(* gc.c:81-107: objects that are alive at the same time do not overlap,    *)
(* and those no larger than a chunk stay within it.                        *)
THEOREM ArenaInBounds == ArenaSpec => []InBounds
  <1>1. ArenaInv => InBounds BY DEF ArenaInv, Placed, Disjoint, InBounds
  <1> QED BY <1>1, ArenaInvariant, PTL

(***************************************************************************)
(* Atoms.  The argument: a reset copies what it is given to addresses that *)
(* were free, so the atom's value is a tree of its own of at most two      *)
(* levels, apart from the one it replaces, and the two are all there is on *)
(* the counted heap.  A closure's count then is one for its maker and one  *)
(* for each of the two trees it is in.                                     *)
(***************************************************************************)

HeapCells == [kind : {"free", "leaf", "node"}, kids : MemberSeqs]

(* Programs whose workers take turns at the atom, whose closures capture   *)
(* nothing and are in a collection once.                                   *)
Plain == habits \cap {"share", "capture", "crowd"} = {}

(* What is said of a sequence of members anywhere: its closures are made   *)
(* and in it once.                                                         *)
Sound(s) ==
    /\ \A i \in DOMAIN s : s[i].is = "fn" => fn[s[i].fn].made
    /\ \A i, j \in DOMAIN s : s[i].is = "fn" /\ s[i] = s[j] => i = j
SoundValue(v) ==
    /\ v.is = "fn" => fn[v.fn].made
    /\ v.is = "coll" => Sound(v.kids)

ValuesSound ==
    /\ \A f \in Fns : fn[f].env = <<>>
    /\ \A a \in Addrs : Sound(heap[a].kids) /\ (heap[a].kind # "node" => heap[a].kids = <<>>)
    /\ \A t \in Workers : /\ \A v \in named[t] : SoundValue(v)
                          /\ SoundValue(val[t])

(* A value of the counted heap: its top and its members, each once.        *)
Tree(v) ==
    /\ v.is \in {"obj", "fn"}
    /\ v.is = "fn" => fn[v.fn].made
    /\ v.is = "obj" =>
          /\ v.at \in Used
          /\ Differ(heap[v.at].kids)
          /\ \A i \in DOMAIN heap[v.at].kids :
                LET w == heap[v.at].kids[i] IN
                /\ w.is \in {"obj", "fn"}
                /\ w.is = "obj" => w.at \in Used /\ heap[w.at].kind = "leaf" /\ w # v
\* the members of a value and the value itself
Whole(v) == {v} \cup (IF IsColl(v) THEN Elements(Parts(v)) ELSE {})
Owns(v) == {a \in Addrs : Obj(a) \in Whole(v)}

Busy(t) == stage[t] \in {"copy", "release"}
Holders(f) == 1 + (IF Fn(f) \in Whole(atom) THEN 1 ELSE 0)
                + (IF \E t \in Workers : stage[t] = "release" /\ Fn(f) \in Whole(old[t]) THEN 1 ELSE 0)

Trees ==
    /\ \A t, u \in Workers : Busy(t) /\ Busy(u) => t = u
    /\ \A t \in Workers : stage[t] = "copy" => old[t] = atom
    /\ Tree(atom)
    /\ \A t \in Workers : stage[t] = "release" =>
          Tree(old[t]) /\ Owns(old[t]) \cap Owns(atom) = {}
    /\ \A a \in Used : \/ a \in Owns(atom)
                       \/ \E t \in Workers : stage[t] = "release" /\ a \in Owns(old[t])
    /\ \A f \in Fns : fn[f].rc = IF fn[f].made THEN Holders(f) ELSE 0

(* Programs with none of the habits: what a worker can name of the counted *)
(* heap is there, and one worker at a time can name any of it.             *)
ObjsOf(v) == {a \in Addrs : v = Obj(a) \/ (v.is = "coll" /\ Obj(a) \in Elements(v.kids))}
NamedObjs(t) == {a \in Addrs : \E v \in named[t] : a \in ObjsOf(v)}
Engaged(t) == Busy(t) \/ NamedObjs(t) # {}

Turns ==
    /\ \A t, u \in Workers : Engaged(t) /\ Engaged(u) => t = u
    /\ \A t \in Workers : stage[t] # "release" => NamedObjs(t) \subseteq Used
    /\ \A t \in Workers : stage[t] = "copy" => val[t] \in named[t]
    /\ ub = {}

AtomInv ==
    /\ AtomsTypeOK
    /\ Plain => ValuesSound /\ Trees
    /\ habits = {} => Turns

(* Values by kind, and sequences of members.                               *)
LEMMA ValueKinds ==
    ASSUME NEW v \in Values
    PROVE  /\ v.is \in {"str", "coll", "fn", "obj"}
           /\ v.is = "obj" => v.at \in Addrs /\ v = Obj(v.at)
           /\ v.is = "fn" => v.fn \in Fns /\ v = Fn(v.fn)
           /\ v.is = "coll" => v.kids \in MemberSeqs
           /\ v.is # "coll" <=> v \in Members
BY DEF Values, Members, Str, Coll, Fn, Obj

LEMMA Names ==
    /\ \A a, b : Obj(a) = Obj(b) => a = b
    /\ \A f, g : Fn(f) = Fn(g) => f = g
    /\ \A a, f : Obj(a) # Fn(f)
    /\ \A a : Obj(a).is = "obj" /\ Obj(a).at = a
    /\ \A f : Fn(f).is = "fn" /\ Fn(f).fn = f
    /\ \A t : Str(t).is = "str"
    /\ \A t, k : Coll(t, k).is = "coll" /\ Coll(t, k).kids = k
<1>1. \A a, b : Obj(a) = Obj(b) => a = b
  <2> SUFFICES ASSUME NEW a, NEW b, Obj(a) = Obj(b) PROVE a = b
    OBVIOUS
  <2>1. Obj(a).at = a /\ Obj(b).at = b
    BY DEF Obj
  <2> QED
    BY <2>1
<1>2. \A f, g : Fn(f) = Fn(g) => f = g
  <2> SUFFICES ASSUME NEW f, NEW g, Fn(f) = Fn(g) PROVE f = g
    OBVIOUS
  <2>1. Fn(f).fn = f /\ Fn(g).fn = g
    BY DEF Fn
  <2> QED
    BY <2>1
<1>3. /\ \A a : Obj(a).is = "obj" /\ Obj(a).at = a
      /\ \A f : Fn(f).is = "fn" /\ Fn(f).fn = f
      /\ \A t : Str(t).is = "str"
      /\ \A t, k : Coll(t, k).is = "coll" /\ Coll(t, k).kids = k
  BY DEF Obj, Fn, Str, Coll
<1>4. \A a, f : Obj(a) # Fn(f)
  <2> SUFFICES ASSUME NEW a, NEW f, Obj(a) = Fn(f) PROVE FALSE
    OBVIOUS
  <2>1. Obj(a).is = "obj" /\ Fn(f).is = "fn"
    BY <1>3
  <2> QED
    BY <2>1
<1> QED
  BY <1>1, <1>2, <1>3, <1>4

LEMMA Kinds ==
    /\ \A a \in Addrs : Obj(a) \in Members
    /\ \A f \in Fns : Fn(f) \in Members
    /\ \A t \in Workers : Str(t) \in Members
    /\ \A t \in Workers, s \in MemberSeqs : Coll(t, s) \in Values
    /\ Members \subseteq Values
BY DEF Members, Values

LEMMA SeqKinds ==
    ASSUME NEW s \in MemberSeqs
    PROVE  /\ Len(s) \in 0 .. 2
           /\ DOMAIN s = 1 .. Len(s)
           /\ \A i \in DOMAIN s : s[i] \in Members
           /\ Elements(s) \subseteq Members
BY DEF MemberSeqs, Elements

LEMMA SeqOf ==
    ASSUME NEW n \in 0 .. 2, NEW s, s = [i \in 1 .. n |-> s[i]], \A i \in 1 .. n : s[i] \in Members
    PROVE  s \in MemberSeqs /\ Len(s) = n
<1>1. CASE n = 0
  BY <1>1 DEF MemberSeqs
<1>2. CASE n = 1
  <2>1. s = <<s[1]>>
    BY <1>2
  <2> QED
    BY <1>2, <2>1 DEF MemberSeqs
<1>3. CASE n = 2
  <2>1. s = <<s[1], s[2]>>
    BY <1>3
  <2> QED
    BY <1>3, <2>1 DEF MemberSeqs
<1> QED
  BY <1>1, <1>2, <1>3

LEMMA AppendOne ==
    ASSUME NEW S, NEW s \in Seq(S), NEW v \in S, NEW d, d = Append(s, v)
    PROVE  /\ d \in Seq(S) /\ Len(d) = Len(s) + 1
           /\ \A i \in 1 .. Len(s) : d[i] = s[i]
           /\ d[Len(s) + 1] = v
BY SMTT(30), AppendProperties, Zenon

LEMMA AppendKinds ==
    ASSUME NEW s \in MemberSeqs, Len(s) = 1, NEW v \in Members
    PROVE  /\ Append(s, v) \in MemberSeqs
           /\ DOMAIN Append(s, v) = {1, 2}
           /\ Append(s, v)[1] = s[1] /\ Append(s, v)[2] = v
<1>1. s \in Seq(Members)
  <2>1. PICK m \in Members : s = <<m>>
    BY DEF MemberSeqs
  <2> QED
    BY <2>1
<1>2. PICK d : d = Append(s, v)
  OBVIOUS
<1>3. /\ d \in Seq(Members) /\ Len(d) = Len(s) + 1
      /\ \A i \in 1 .. Len(s) : d[i] = s[i]
      /\ d[Len(s) + 1] = v
  BY <1>1, <1>2, AppendOne
<1>4. Len(d) = 2 /\ d[1] = s[1] /\ d[2] = v
  BY <1>3
<1>5. d = [i \in 1 .. 2 |-> d[i]] /\ \A i \in 1 .. 2 : d[i] \in Members
  BY <1>3, <1>4
<1>6. d \in MemberSeqs
  BY <1>5, SeqOf<1>7. DOMAIN d = {1, 2}
  BY <1>5
<1> QED
  BY <1>2, <1>4, <1>6, <1>7

LEMMA PartsKinds ==
    ASSUME AtomsTypeOK, NEW v \in Values
    PROVE  /\ Parts(v) \in MemberSeqs
           /\ v.is = "coll" => Parts(v) = v.kids
           /\ v.is = "obj" => Parts(v) = heap[v.at].kids /\ heap[v.at] \in HeapCells
           /\ v.is = "fn" => Parts(v) = fn[v.fn].env
           /\ IsColl(v) <=> v.is = "coll" \/ (v.is = "obj" /\ heap[v.at].kind = "node")
<1>1. <<>> \in MemberSeqs
  BY DEF MemberSeqs
<1> QED
  BY <1>1, ValueKinds DEF AtomsTypeOK, Parts, IsColl, HeapCells

(* How often a value is in a sequence that has it at most once.            *)
LEMMA TimesOnce ==
    ASSUME NEW s, NEW w, \A i, j \in DOMAIN s : s[i] = w /\ s[j] = w => i = j
    PROVE  Times(w, s) = IF w \in Elements(s) THEN 1 ELSE 0
<1> DEFINE S == {i \in DOMAIN s : s[i] = w}
<1>1. CASE w \in Elements(s)
  <2>1. PICK i \in DOMAIN s : s[i] = w
    BY <1>1 DEF Elements
  <2>2. S = {i}
    BY <2>1
  <2> QED
    BY <1>1, <2>2, FS_Singleton DEF Times
<1>2. CASE w \notin Elements(s)
  <2>1. S = {}
    BY <1>2 DEF Elements
  <2> QED
    BY <1>2, <2>1, FS_EmptySet DEF Times
<1> QED
  BY <1>1, <1>2

LEMMA TimesNat ==
    ASSUME NEW s, NEW n \in Nat, DOMAIN s = 1 .. n, NEW w
    PROVE  Times(w, s) \in Nat
<1> DEFINE S == {i \in DOMAIN s : s[i] = w}
<1>1. IsFiniteSet(1 .. n)
  BY FS_Interval
<1>2. S \subseteq 1 .. n
  OBVIOUS
<1>3. IsFiniteSet(S)
  BY <1>1, <1>2, FS_Subset
<1> QED
  BY <1>3, FS_CardinalityType DEF Times

(* What a release gives up: the value and its members.                     *)
LEMMA DroppedKinds ==
    ASSUME AtomsTypeOK, NEW v \in Members
    PROVE  /\ Elements(Dropped(v)) = Whole(v)
           /\ \E n \in Nat : DOMAIN Dropped(v) = 1 .. n
           /\ Tree(v) => Differ(Dropped(v))
<1> DEFINE s == IF IsColl(v) THEN Parts(v) ELSE <<>>
           d == <<v>> \o s
<1>1. s \in MemberSeqs /\ d = Dropped(v)
  BY PartsKinds, Kinds DEF MemberSeqs, Dropped
<1>2. DOMAIN s = 1 .. Len(s) /\ Len(s) \in 0 .. 2
  BY <1>1, SeqKinds
<1>3. /\ DOMAIN d = 1 .. 1 + Len(s)
      /\ d[1] = v
      /\ \A i \in DOMAIN s : d[i + 1] = s[i]
  BY <1>1 DEF MemberSeqs
<1>4. Elements(s) = IF IsColl(v) THEN Elements(Parts(v)) ELSE {}
  BY DEF Elements
<1>5. Elements(d) = {v} \cup Elements(s)
  <2> HIDE DEF d, s
  <2>1. \A x : x \in Elements(d) => x = v \/ x \in Elements(s)
    <3> SUFFICES ASSUME NEW i \in DOMAIN d, d[i] # v PROVE d[i] \in Elements(s)
      BY DEF Elements
    <3>1. i - 1 \in DOMAIN s /\ i = (i - 1) + 1
      BY <1>2, <1>3
    <3>2. d[i] = s[i - 1]
      BY <1>3, <3>1
    <3> QED
      BY <3>1, <3>2 DEF Elements
  <2>2. \A x : x = v \/ x \in Elements(s) => x \in Elements(d)
    <3>1. 1 \in DOMAIN d
      BY <1>2, <1>3
    <3>2. \A i \in DOMAIN s : i + 1 \in DOMAIN d
      BY <1>2, <1>3
    <3> QED
      BY <1>3, <3>1, <3>2 DEF Elements
  <2> QED
    BY <2>1, <2>2
<1>6. ASSUME Tree(v) PROVE Differ(d)
  <2>1. Differ(s) /\ \A i \in DOMAIN s : s[i] # v
    <3>1. CASE v.is = "obj" /\ heap[v.at].kind = "node"
      BY <1>6, <3>1, PartsKinds, Kinds DEF Tree
    <3>2. CASE ~(v.is = "obj" /\ heap[v.at].kind = "node")
      <4>1. ~IsColl(v)
        BY <1>6, <3>2, PartsKinds, Kinds DEF Tree
      <4> QED
        BY <4>1 DEF Differ
    <3> QED
      BY <3>1, <3>2
  <2> HIDE DEF d, s
  <2> SUFFICES ASSUME NEW i \in DOMAIN d, NEW j \in DOMAIN d, d[i] = d[j] PROVE i = j
    BY DEF Differ
  <2>2. \A k \in DOMAIN d : k # 1 => k - 1 \in DOMAIN s /\ d[k] = s[k - 1]
    <3> SUFFICES ASSUME NEW k \in DOMAIN d, k # 1 PROVE k - 1 \in DOMAIN s /\ d[k] = s[k - 1]
      OBVIOUS
    <3>1. k - 1 \in DOMAIN s /\ k = (k - 1) + 1
      BY <1>2, <1>3
    <3> QED
      BY <1>3, <3>1
  <2>3. CASE i = 1 \/ j = 1
    BY <1>3, <2>1, <2>2, <2>3
  <2>4. CASE i # 1 /\ j # 1
    <3>1. i - 1 = j - 1
      BY <2>1, <2>2, <2>4 DEF Differ
    <3> QED
      BY <1>2, <1>3, <3>1
  <2> QED
    BY <2>3, <2>4
<1>7. 1 + Len(s) \in Nat
  BY <1>2
<1> QED
  BY <1>1, <1>3, <1>4, <1>5, <1>6, <1>7 DEF Whole

(* Where a copy goes: to addresses that were free and differ.              *)
LEMMA FreshPlaces ==
    ASSUME NEW n, Room(n)
    PROVE  Fresh(n) \in [1 .. n -> Addrs \ Used] /\ Differ(Fresh(n))
BY DEF Room, Fresh

LEMMA CopyKinds ==
    ASSUME NEW s \in MemberSeqs, Room(1 + Len(s))
    PROVE  /\ CopyMembers(s) \in MemberSeqs
           /\ DOMAIN CopyMembers(s) = DOMAIN s
           /\ \A i \in DOMAIN s :
                 /\ Fresh(1 + Len(s))[i + 1] \in Addrs \ Used
                 /\ s[i].is = "fn" => CopyMembers(s)[i] = s[i]
                 /\ s[i].is # "fn" => CopyMembers(s)[i] = Obj(Fresh(1 + Len(s))[i + 1])
<1> DEFINE g == Fresh(1 + Len(s))
           c == CopyMembers(s)
<1>1. Len(s) \in 0 .. 2 /\ DOMAIN s = 1 .. Len(s) /\ \A i \in DOMAIN s : s[i] \in Members
  BY SeqKinds
<1>2. g \in [1 .. 1 + Len(s) -> Addrs \ Used]
  BY FreshPlaces
<1>3. c = [i \in DOMAIN s |-> IF s[i].is = "fn" THEN s[i] ELSE Obj(g[i + 1])]
  BY DEF CopyMembers
<1> HIDE DEF g, c
<1>4. \A i \in DOMAIN s : g[i + 1] \in Addrs \ Used
  BY <1>1, <1>2
<1>5. /\ DOMAIN c = DOMAIN s
      /\ \A i \in DOMAIN s : /\ s[i].is = "fn" => c[i] = s[i]
                             /\ s[i].is # "fn" => c[i] = Obj(g[i + 1])
  BY <1>3
<1>6. \A i \in 1 .. Len(s) : c[i] \in Members
  BY <1>1, <1>4, <1>5, Kinds
<1>7. c = [i \in 1 .. Len(s) |-> c[i]]
  BY <1>1, <1>3
<1>8. c \in MemberSeqs
  BY <1>1, <1>6, <1>7, SeqOf
<1> QED
  BY <1>4, <1>5, <1>8 DEF g, c

(***************************************************************************)
(* Types, for every program.                                               *)
(***************************************************************************)

LEMMA NamesTypes ==
    ASSUME AtomsTypeOK, NEW t \in Workers, NEW S \in SUBSET Values,
           named' = [named EXCEPT ![t] = S],
           UNCHANGED <<habits, heap, fn, atom, old, val>>,
           stage' \in [Workers -> {"out", "run", "copy", "release"}]
    PROVE  AtomsTypeOK'
BY DEF AtomsTypeOK

LEMMA RequestTypes ==
    ASSUME AtomsTypeOK, NEW t \in Workers,
           Begin(t) \/ End(t) \/ Forget(t) \/ New(t) \/ Gather(t) \/ Extend(t) \/ Get(t) \/ Deref(t)
    PROVE  /\ AtomsTypeOK'
           /\ \E S \in SUBSET Values : named' = [named EXCEPT ![t] = S]
<1>0. named[t] \in SUBSET Values
  BY DEF AtomsTypeOK
<1>1. stage' \in [Workers -> {"out", "run", "copy", "release"}]
  BY DEF AtomsTypeOK, Begin, End, Forget, New, Gather, Extend, Get, Deref, atomVars
<1>2. UNCHANGED <<habits, heap, fn, atom, old, val>>
  BY DEF Begin, End, Forget, New, Gather, Extend, Get, Deref, atomVars
<1>3. \E S \in SUBSET Values : named' = [named EXCEPT ![t] = S]
  <2>1. CASE Begin(t)
    BY <1>0, <2>1 DEF Begin, AtomsTypeOK
  <2>2. CASE End(t) \/ Forget(t)
    BY <1>0, <2>2 DEF End, Forget
  <2>3. CASE New(t)
    BY <1>0, <2>3, Kinds DEF New, Name
  <2>4. CASE Gather(t)
    <3>1. PICK v \in named[t] : ~IsColl(v) /\ Name(t, {Coll(t, <<v>>)})
      BY <2>4 DEF Gather
    <3>2. v \in Members
      BY <1>0, <3>1, ValueKinds DEF IsColl
    <3>3. Coll(t, <<v>>) \in Values
      BY <3>2, Kinds DEF MemberSeqs
    <3> QED
      BY <1>0, <3>1, <3>3 DEF Name
  <2>5. CASE Extend(t)
    <3>1. PICK c \in named[t], v \in named[t] :
             /\ IsColl(c) /\ ~IsColl(v) /\ Len(Parts(c)) = 1
             /\ named' = [named EXCEPT ![t] = (@ \ {c}) \cup {Coll(t, Append(Parts(c), v))}]
      BY <2>5 DEF Extend
    <3>2. v \in Members /\ Parts(c) \in MemberSeqs
      BY <1>0, <3>1, ValueKinds, PartsKinds DEF IsColl
    <3>3. Coll(t, Append(Parts(c), v)) \in Values
      BY <3>1, <3>2, AppendKinds, Kinds
    <3> QED
      BY <1>0, <3>1, <3>3
  <2>6. CASE Get(t)
    <3>1. PICK v \in named[t] : Name(t, Elements(Parts(v)))
      BY <2>6 DEF Get
    <3>2. Elements(Parts(v)) \subseteq Values
      BY <1>0, PartsKinds, SeqKinds, Kinds
    <3> QED
      BY <1>0, <3>1, <3>2 DEF Name
  <2>7. CASE Deref(t)
    <3>1. atom \in Values
      BY Kinds DEF AtomsTypeOK
    <3> QED
      BY <1>0, <2>7, <3>1 DEF Deref, Name
  <2> QED
    BY <2>1, <2>2, <2>3, <2>4, <2>5, <2>6, <2>7
<1> QED
  BY <1>1, <1>2, <1>3, NamesTypes

LEMMA CaptureTypes ==
    ASSUME AtomsTypeOK, NEW t \in Workers, Capture(t)
    PROVE  /\ AtomsTypeOK'
           /\ \E f \in Fns :
                 /\ ~fn[f].made /\ fn'[f].made /\ fn'[f].rc = 1
                 /\ "capture" \notin habits => fn'[f].env = <<>>
                 /\ \A g \in Fns : g # f => fn'[g] = fn[g]
                 /\ named' = [named EXCEPT ![t] = @ \cup {Fn(f)}]
<1>1. PICK f \in Fns, env \in {<<>>} \cup {<<v>> : v \in named[t]} :
         /\ ~fn[f].made
         /\ env # <<>> => "capture" \in habits /\ ~IsColl(env[1]) /\ env[1].is # "fn"
         /\ fn' = [fn EXCEPT ![f] = [made |-> TRUE, rc |-> 1, env |-> env]]
         /\ Name(t, {Fn(f)})
  BY DEF Capture
<1>2. env \in MemberSeqs
  <2>1. CASE env = <<>>
    BY <2>1 DEF MemberSeqs
  <2>2. CASE env # <<>>
    <3>1. PICK v \in named[t] : env = <<v>>
      BY <1>1, <2>2
    <3>2. v \in Members
      BY <1>1, <3>1, ValueKinds DEF IsColl, AtomsTypeOK
    <3> QED
      BY <3>1, <3>2 DEF MemberSeqs
  <2> QED
    BY <2>1, <2>2
<1>3. fn' \in [Fns -> [made : BOOLEAN, rc : 0 .. MaxRc, env : MemberSeqs]]
  BY <1>1, <1>2, AtomsAssumption DEF AtomsTypeOK
<1>4. named' \in [Workers -> SUBSET Values]
  BY <1>1, Kinds DEF AtomsTypeOK, Name
<1>5. UNCHANGED <<habits, heap, atom, stage, old, val>>
  BY DEF Capture, atomVars
<1>6. AtomsTypeOK'
  BY <1>3, <1>4, <1>5 DEF AtomsTypeOK
<1>7. fn'[f] = [made |-> TRUE, rc |-> 1, env |-> env] /\ \A g \in Fns : g # f => fn'[g] = fn[g]
  BY <1>1 DEF AtomsTypeOK
<1>8. /\ fn'[f].made /\ fn'[f].rc = 1
      /\ "capture" \notin habits => fn'[f].env = <<>>
  BY <1>1, <1>7
<1>9. named' = [named EXCEPT ![t] = @ \cup {Fn(f)}]
  BY <1>1 DEF Name
<1> QED
  BY <1>1, <1>6, <1>7, <1>8, <1>9

LEMMA ResetReadTypes ==
    ASSUME AtomsTypeOK, NEW t \in Workers, ResetRead(t)
    PROVE  AtomsTypeOK'
BY DEF AtomsTypeOK, ResetRead

(* What fl_heap_copy leaves on the heap.                                   *)
LEMMA ResetCopyTypes ==
    ASSUME AtomsTypeOK, NEW t \in Workers, ResetCopy(t)
    PROVE  AtomsTypeOK'
<1> DEFINE v == val[t]
           members == IF IsColl(v) THEN Parts(v) ELSE <<>>
           top == Fresh(1 + Len(members))[1]
           copies == CopyMembers(members)
           counted == IF v.is = "fn" THEN <<v>> ELSE members
<1>1. v \in Values
  BY DEF AtomsTypeOK
<1>2. members \in MemberSeqs /\ Room(1 + Len(members))
  BY <1>1, PartsKinds DEF MemberSeqs, ResetCopy
<1>3. copies \in MemberSeqs
  BY <1>2, CopyKinds
<1>4. top \in Addrs
  <2>1. 1 \in 1 .. 1 + Len(members)
    BY <1>2, SeqKinds
  <2> QED
    BY <1>2, <2>1, FreshPlaces
<1>5. /\ v.is = "fn" => atom' = v /\ heap' = heap
      /\ v.is # "fn" =>
            /\ atom' = Obj(top)
            /\ heap' = [a \in Addrs |->
                  IF a = top THEN IF IsColl(v) THEN Node(copies) ELSE Leaf
                  ELSE IF a \notin Used /\ Obj(a) \in Elements(copies) THEN Leaf
                  ELSE heap[a]]
      /\ fn' = [f \in Fns |-> [fn[f] EXCEPT !.rc = Stuck(@ + Times(Fn(f), counted))]]
      /\ stage' = [stage EXCEPT ![t] = "release"]
      /\ UNCHANGED <<habits, named, old, val>>
  BY DEF ResetCopy
<1> HIDE DEF top, copies, members, counted
<1>6. heap' \in [Addrs -> HeapCells]
  <2>1. Node(copies) \in HeapCells /\ Leaf \in HeapCells
    BY <1>3 DEF HeapCells, Node, Leaf, MemberSeqs
  <2> QED
    BY <1>5, <2>1 DEF AtomsTypeOK, HeapCells
<1>7. atom' \in Members
  BY <1>1, <1>4, <1>5, ValueKinds, Kinds DEF AtomsTypeOK
<1>8. fn' \in [Fns -> [made : BOOLEAN, rc : 0 .. MaxRc, env : MemberSeqs]]
  <2>1. \A w : Times(w, counted) \in Nat
    <3>1. counted \in MemberSeqs
      BY <1>1, <1>2, ValueKinds DEF counted, MemberSeqs
    <3> QED
      BY <3>1, SeqKinds, TimesNat
  <2>2. \A f \in Fns : Stuck(fn[f].rc + Times(Fn(f), counted)) \in 0 .. MaxRc
    BY <2>1, AtomsAssumption DEF AtomsTypeOK, Stuck
  <2> QED
    BY <1>5, <2>2 DEF AtomsTypeOK
<1> QED
  BY <1>5, <1>6, <1>7, <1>8 DEF AtomsTypeOK, HeapCells

LEMMA ResetReleaseTypes ==
    ASSUME AtomsTypeOK, NEW t \in Workers, ResetRelease(t)
    PROVE  AtomsTypeOK'
<1> DEFINE drops == Dropped(old[t])
<1>1. /\ heap' = [a \in Addrs |-> IF Obj(a) \in Elements(drops) THEN Free ELSE heap[a]]
      /\ fn' = [f \in Fns |-> [fn[f] EXCEPT !.rc = IF Times(Fn(f), drops) > @ THEN 0
                                                   ELSE @ - Times(Fn(f), drops)]]
      /\ named' = [named EXCEPT ![t] = (IF "keep" \in habits THEN @ ELSE {}) \cup {atom}]
      /\ stage' = [stage EXCEPT ![t] = "run"]
      /\ old' = [old EXCEPT ![t] = Obj(FirstAddr)]
      /\ val' = [val EXCEPT ![t] = Obj(FirstAddr)]
      /\ UNCHANGED <<habits, atom>>
  BY DEF ResetRelease
<1>2. \A w : Times(w, drops) \in Nat
  BY DroppedKinds, TimesNat DEF AtomsTypeOK
<1> HIDE DEF drops
<1>3. heap' \in [Addrs -> HeapCells]
  <2>1. Free \in HeapCells
    BY DEF HeapCells, Free, MemberSeqs
  <2> QED
    BY <1>1, <2>1 DEF AtomsTypeOK, HeapCells
<1>4. fn' \in [Fns -> [made : BOOLEAN, rc : 0 .. MaxRc, env : MemberSeqs]]
  <2>1. \A f \in Fns : (IF Times(Fn(f), drops) > fn[f].rc THEN 0
                         ELSE fn[f].rc - Times(Fn(f), drops)) \in 0 .. MaxRc
    BY <1>2, AtomsAssumption DEF AtomsTypeOK
  <2> QED
    BY <1>1, <2>1 DEF AtomsTypeOK
<1>5. Obj(FirstAddr) \in Members /\ Members \subseteq Values
  BY Kinds, AtomsAssumption DEF FirstAddr
<1> QED
  BY <1>1, <1>3, <1>4, <1>5 DEF AtomsTypeOK, HeapCells

LEMMA AtomTypesStart == AtomsInit => AtomsTypeOK
<1> SUFFICES ASSUME AtomsInit PROVE AtomsTypeOK
  OBVIOUS
<1>1. Obj(FirstAddr) \in Members /\ Members \subseteq Values
  BY Kinds, AtomsAssumption DEF FirstAddr
<1>2. Leaf \in HeapCells /\ Free \in HeapCells /\ <<>> \in MemberSeqs
  BY DEF HeapCells, Free, Leaf, MemberSeqs
<1> QED
  BY <1>1, <1>2, AtomsAssumption DEF AtomsInit, AtomsTypeOK, HeapCells, NoFn

LEMMA AtomTypesNext ==
    ASSUME AtomsTypeOK, [AtomsNext]_atomsVars
    PROVE  AtomsTypeOK'
<1>1. ASSUME NEW t \in Workers, AtomStep(t) PROVE AtomsTypeOK'
  BY <1>1, RequestTypes, CaptureTypes, ResetReadTypes, ResetCopyTypes, ResetReleaseTypes
     DEF AtomStep
<1>2. CASE UNCHANGED atomsVars
  BY <1>2 DEF atomsVars, AtomsTypeOK
<1> QED
  BY <1>1, <1>2 DEF AtomsNext

(***************************************************************************)
(* Programs that take turns, capture nothing and do not crowd.             *)
(***************************************************************************)

(* Steps that leave the heap, the closures and the atom alone.             *)
LEMMA TreesStay ==
    ASSUME Trees, UNCHANGED <<heap, fn, atom, old>>,
           \A u \in Workers : /\ stage'[u] = "copy" <=> stage[u] = "copy"
                              /\ stage'[u] = "release" <=> stage[u] = "release"
    PROVE  Trees'
<1>1. \A v : Tree(v)' <=> Tree(v)
  BY DEF Tree, Used
<1>2. \A v : Whole(v)' = Whole(v)
  BY DEF Whole, IsColl, Parts
<1>3. \A v : Owns(v)' = Owns(v)
  BY <1>2 DEF Owns
<1>4. \A u \in Workers : Busy(u)' <=> Busy(u)
  BY DEF Busy
<1>5. Tree(atom)' /\ Owns(atom)' = Owns(atom) /\ Used' = Used
  BY <1>1, <1>3 DEF Trees, Used
<1>6. \A f \in Fns : Holders(f)' = Holders(f)
  BY <1>2 DEF Holders
<1> QED
  BY <1>1, <1>3, <1>4, <1>5, <1>6 DEF Trees

(* The members of a value, wherever it is, are made and there once.        *)
LEMMA SoundParts ==
    ASSUME AtomsTypeOK, ValuesSound, NEW v \in Values, SoundValue(v)
    PROVE  Sound(Parts(v))
<1>1. Sound(<<>>)
  BY DEF Sound
<1>2. CASE v.is = "str"
  BY <1>1, <1>2 DEF Parts
<1> QED
  BY <1>1, <1>2, ValueKinds, PartsKinds DEF ValuesSound, SoundValue

LEMMA SoundElements ==
    ASSUME NEW s \in MemberSeqs, Sound(s)
    PROVE  \A v \in Elements(s) : SoundValue(v)
BY SeqKinds, ValueKinds, Kinds DEF Sound, SoundValue, Elements

LEMMA NamesSound ==
    ASSUME AtomsTypeOK, ValuesSound, NEW t \in Workers, NEW S,
           named' = [named EXCEPT ![t] = S], \A v \in S : SoundValue(v),
           UNCHANGED <<heap, fn, val>>
    PROVE  ValuesSound'
<1>1. \A s : Sound(s)' <=> Sound(s)
  BY DEF Sound
<1>2. \A v : SoundValue(v)' <=> SoundValue(v)
  BY <1>1 DEF SoundValue
<1>3. named'[t] = S /\ \A u \in Workers : u # t => named'[u] = named[u]
  BY DEF AtomsTypeOK
<1> QED
  BY <1>1, <1>2, <1>3 DEF ValuesSound

LEMMA RequestPlain ==
    ASSUME AtomsTypeOK, Plain, ValuesSound, Trees, NEW t \in Workers,
           Begin(t) \/ End(t) \/ Forget(t) \/ New(t) \/ Gather(t) \/ Extend(t) \/ Get(t) \/ Deref(t)
    PROVE  ValuesSound' /\ Trees'
<1>0. named[t] \subseteq Values /\ \A v \in named[t] : SoundValue(v)
  BY DEF AtomsTypeOK, ValuesSound
<1>1. UNCHANGED <<heap, fn, atom, old, val>>
  BY DEF Begin, End, Forget, New, Gather, Extend, Get, Deref, atomVars
<1>2. Trees'
  <2>1. \A u \in Workers : /\ stage'[u] = "copy" <=> stage[u] = "copy"
                           /\ stage'[u] = "release" <=> stage[u] = "release"
    BY DEF AtomsTypeOK, Begin, End, Forget, New, Gather, Extend, Get, Deref, atomVars
  <2> QED
    BY <1>1, <2>1, TreesStay
<1>3. \E S : named' = [named EXCEPT ![t] = S] /\ \A v \in S : SoundValue(v)
  <2>1. CASE Begin(t)
    BY <1>0, <2>1 DEF Begin, AtomsTypeOK
  <2>2. CASE End(t) \/ Forget(t)
    BY <1>0, <2>2 DEF End, Forget
  <2>3. CASE New(t)
    <3>1. SoundValue(Str(t))
      BY Names DEF SoundValue
    <3> QED
      BY <1>0, <2>3, <3>1 DEF New, Name
  <2>4. CASE Gather(t)
    <3>1. PICK v \in named[t] : ~IsColl(v) /\ Name(t, {Coll(t, <<v>>)})
      BY <2>4 DEF Gather
    <3>2. Sound(<<v>>)
      BY <1>0, <3>1 DEF SoundValue, Sound
    <3>3. SoundValue(Coll(t, <<v>>))
      BY <3>2, Names DEF SoundValue
    <3> QED
      BY <1>0, <3>1, <3>3 DEF Name
  <2>5. CASE Extend(t)
    <3>1. PICK c \in named[t], v \in named[t] :
             /\ IsColl(c) /\ ~IsColl(v) /\ Len(Parts(c)) = 1
             /\ v.is = "fn" /\ v \in Elements(Parts(c)) => "crowd" \in habits
             /\ named' = [named EXCEPT ![t] = (@ \ {c}) \cup {Coll(t, Append(Parts(c), v))}]
      BY <2>5 DEF Extend
    <3>2. PICK s \in MemberSeqs : s = Parts(c)
      BY <1>0, PartsKinds
    <3>3. PICK d : d = Append(s, v)
      OBVIOUS
    <3>4. v \in Members /\ Sound(s)
      BY <1>0, <3>1, <3>2, ValueKinds, SoundParts DEF IsColl
    <3>5. DOMAIN d = {1, 2} /\ d[1] = s[1] /\ d[2] = v /\ DOMAIN s = {1}
      BY <3>1, <3>2, <3>3, <3>4, AppendKinds, SeqKinds
    <3>6. Sound(d)
      <4>1. ~(v.is = "fn" /\ v = s[1])
        BY <3>1, <3>2, <3>5 DEF Elements, Plain
      <4>2. v.is = "fn" => fn[v.fn].made
        BY <1>0 DEF SoundValue
      <4> QED
        BY <3>4, <3>5, <4>1, <4>2 DEF Sound
    <3>7. SoundValue(Coll(t, d))
      BY <3>6, Names DEF SoundValue
    <3> QED
      BY <1>0, <3>1, <3>2, <3>3, <3>7
  <2>6. CASE Get(t)
    <3>1. PICK v \in named[t] : Name(t, Elements(Parts(v)))
      BY <2>6 DEF Get
    <3>2. \A w \in Elements(Parts(v)) : SoundValue(w)
      BY <1>0, PartsKinds, SoundParts, SoundElements
    <3>3. PICK S : S = Elements(Parts(v))
      OBVIOUS
    <3>4. named' = [named EXCEPT ![t] = named[t] \cup S]
      BY <3>1, <3>3 DEF Name
    <3>5. \A w \in named[t] \cup S : SoundValue(w)
      BY <1>0, <3>2, <3>3
    <3> QED
      BY <3>4, <3>5
  <2>7. CASE Deref(t)
    <3>1. SoundValue(atom)
      BY ValueKinds, Kinds DEF AtomsTypeOK, SoundValue, Trees, Tree
    <3> QED
      BY <1>0, <2>7, <3>1 DEF Deref, Name
  <2> QED
    BY <2>1, <2>2, <2>3, <2>4, <2>5, <2>6, <2>7
<1>4. ValuesSound'
  BY <1>1, <1>3, NamesSound
<1> QED
  BY <1>2, <1>4

(* Closures are made and never unmade.                                     *)
LEMMA FnsGrow ==
    ASSUME AtomsTypeOK, UNCHANGED heap, \A g \in Fns : fn[g].made => fn'[g].made
    PROVE  /\ \A s \in MemberSeqs : Sound(s) => Sound(s)'
           /\ \A v \in Values : SoundValue(v) => SoundValue(v)'
           /\ \A v \in Members : Tree(v) => Tree(v)'
           /\ \A v \in Members : Whole(v)' = Whole(v)
<1>1. ASSUME NEW s \in MemberSeqs, Sound(s) PROVE Sound(s)'
  <2>1. \A i \in DOMAIN s : s[i] \in Members /\ (s[i].is = "fn" => s[i].fn \in Fns)
    BY SeqKinds, ValueKinds, Kinds
  <2> QED
    BY <1>1, <2>1 DEF Sound
<1>2. ASSUME NEW v \in Values, SoundValue(v) PROVE SoundValue(v)'
  BY <1>1, <1>2, ValueKinds DEF SoundValue
<1>3. ASSUME NEW v \in Members, Tree(v) PROVE Tree(v)'
  BY <1>3, ValueKinds, Kinds DEF Tree, Used
<1>4. ASSUME NEW v \in Members PROVE Whole(v)' = Whole(v)
  BY ValueKinds, Kinds DEF Whole, IsColl, Parts
<1> QED
  BY <1>1, <1>2, <1>3, <1>4

(* The closures of a value of the heap are made.                           *)
LEMMA WholeMade ==
    ASSUME AtomsTypeOK, ValuesSound, NEW v \in Members, Tree(v)
    PROVE  \A f \in Fns : Fn(f) \in Whole(v) => fn[f].made
<1> SUFFICES ASSUME NEW f \in Fns, Fn(f) \in Whole(v) PROVE fn[f].made
  OBVIOUS
<1>1. CASE Fn(f) = v
  BY <1>1, Names DEF Tree
<1>2. CASE Fn(f) # v
  <2>1. IsColl(v) /\ Fn(f) \in Elements(Parts(v))
    BY <1>2 DEF Whole
  <2>2. Parts(v) \in MemberSeqs /\ Sound(Parts(v))
    <3>1. v \in Values /\ v.is # "coll"
      BY Kinds DEF Tree
    <3>2. v.is = "obj" /\ v.at \in Addrs
      BY <2>1, <3>1, PartsKinds, ValueKinds
    <3> QED
      BY <3>1, <3>2, PartsKinds DEF ValuesSound
  <2>3. SoundValue(Fn(f))
    BY <2>1, <2>2, SoundElements
  <2> QED
    BY <2>3, Names DEF SoundValue
<1> QED
  BY <1>1, <1>2

LEMMA CapturePlain ==
    ASSUME AtomsTypeOK, Plain, ValuesSound, Trees, NEW t \in Workers, Capture(t)
    PROVE  ValuesSound' /\ Trees'
<1>1. PICK f \in Fns : /\ ~fn[f].made /\ fn'[f].made /\ fn'[f].rc = 1
                       /\ "capture" \notin habits => fn'[f].env = <<>>
                       /\ \A g \in Fns : g # f => fn'[g] = fn[g]
                       /\ named' = [named EXCEPT ![t] = @ \cup {Fn(f)}]
  BY CaptureTypes
<1>2. UNCHANGED <<habits, heap, atom, stage, old, val>>
  BY DEF Capture, atomVars
<1>3. \A g \in Fns : fn[g].made => fn'[g].made
  BY <1>1
<1>4. /\ \A s \in MemberSeqs : Sound(s) => Sound(s)'
      /\ \A v \in Values : SoundValue(v) => SoundValue(v)'
      /\ \A v \in Members : Tree(v) => Tree(v)'
      /\ \A v \in Members : Whole(v)' = Whole(v)
  BY <1>2, <1>3, FnsGrow
<1>5. ValuesSound'
  <2>1. \A g \in Fns : fn'[g].env = <<>>
    BY <1>1 DEF ValuesSound, Plain
  <2>2. \A a \in Addrs : Sound(heap[a].kids)' /\ (heap'[a].kind # "node" => heap'[a].kids = <<>>)
    BY <1>2, <1>4 DEF ValuesSound, AtomsTypeOK
  <2>3. SoundValue(Fn(f))'
    BY <1>1, Names DEF SoundValue
  <2>4. \A u \in Workers : \A v \in named'[u] : SoundValue(v)'
    <3> SUFFICES ASSUME NEW u \in Workers, NEW v \in named'[u] PROVE SoundValue(v)'
      OBVIOUS
    <3>1. CASE v = Fn(f)
      BY <2>3, <3>1
    <3>2. CASE v # Fn(f)
      <4>1. v \in named[u] /\ v \in Values
        BY <1>1, <3>2 DEF AtomsTypeOK
      <4> QED
        BY <1>4, <4>1 DEF ValuesSound
    <3> QED
      BY <3>1, <3>2
  <2>5. \A u \in Workers : SoundValue(val[u])'
    <3> SUFFICES ASSUME NEW u \in Workers PROVE SoundValue(val[u])'
      OBVIOUS
    <3>1. PICK v \in Values : v = val[u] /\ v = val'[u]
      BY <1>2 DEF AtomsTypeOK
    <3>2. SoundValue(v)'
      BY <1>4, <3>1 DEF ValuesSound
    <3> QED
      BY <3>1, <3>2 DEF SoundValue, Sound
  <2> QED
    BY <2>1, <2>2, <2>4, <2>5 DEF ValuesSound
<1>6. Trees'
  <2>1. atom \in Members /\ \A u \in Workers : old[u] \in Members
    BY DEF AtomsTypeOK
  <2>2. Whole(atom)' = Whole(atom) /\ \A u \in Workers : Whole(old[u])' = Whole(old[u])
    <3>1. PICK v \in Members : v = atom
      BY <2>1
    <3>2. Whole(atom)' = Whole(v)' /\ Whole(v) = Whole(atom)
      BY <1>2, <3>1 DEF Whole, IsColl, Parts
    <3>3. ASSUME NEW u \in Workers PROVE Whole(old[u])' = Whole(old[u])
      <4>1. PICK w \in Members : w = old[u]
        BY <2>1
      <4>2. Whole(old[u])' = Whole(w)' /\ Whole(w) = Whole(old[u])
        BY <1>2, <4>1 DEF Whole, IsColl, Parts
      <4> QED
        BY <1>4, <4>2
    <3> QED
      BY <1>4, <3>1, <3>2, <3>3
  <2>3. Owns(atom)' = Owns(atom) /\ \A u \in Workers : Owns(old[u])' = Owns(old[u])
    BY <2>2 DEF Owns
  <2>4. Tree(atom)' /\ \A u \in Workers : stage[u] = "release" => Tree(old[u])'
    <3>1. Tree(atom)'
      <4>1. PICK v \in Members : v = atom /\ v = atom'
        BY <1>2, <2>1
      <4>2. Tree(v)'
        BY <1>4, <4>1 DEF Trees
      <4> QED
        BY <4>1, <4>2 DEF Tree
    <3>2. ASSUME NEW u \in Workers, stage[u] = "release" PROVE Tree(old[u])'
      <4>1. PICK v \in Members : v = old[u] /\ v = old'[u]
        BY <1>2, <2>1
      <4>2. Tree(v)'
        BY <1>4, <3>2, <4>1 DEF Trees
      <4> QED
        BY <4>1, <4>2 DEF Tree
    <3> QED
      BY <3>1, <3>2
  <2>5. \A g \in Fns : Holders(g)' = Holders(g)
    BY <1>2, <2>2 DEF Holders
  <2>6. Holders(f) = 1
    BY <1>1, <2>1, WholeMade DEF Holders, Trees
  <2>7. \A g \in Fns : fn'[g].rc = IF fn'[g].made THEN Holders(g)' ELSE 0
    BY <1>1, <2>5, <2>6 DEF Trees
  <2>8. Used' = Used /\ \A u \in Workers : Busy(u)' = Busy(u)
    BY <1>2 DEF Used, Busy
  <2> QED
    BY <1>2, <2>3, <2>4, <2>7, <2>8 DEF Trees
<1> QED
  BY <1>5, <1>6

LEMMA ResetReadPlain ==
    ASSUME AtomsTypeOK, Plain, ValuesSound, Trees, NEW t \in Workers, ResetRead(t)
    PROVE  ValuesSound' /\ Trees'
<1>1. UNCHANGED <<habits, heap, fn, atom, named>>
  BY DEF ResetRead
<1>2. PICK w \in named[t] : val' = [val EXCEPT ![t] = w]
  BY DEF ResetRead
<1>3. /\ stage' = [stage EXCEPT ![t] = "copy"]
      /\ old' = [old EXCEPT ![t] = atom]
      /\ stage[t] = "run"
  BY DEF ResetRead
<1>4. \A u \in Workers : u # t => ~Busy(u)
  BY DEF ResetRead, Alone, Touches, Busy, Plain
<1>5. /\ \A v : Tree(v)' <=> Tree(v)
      /\ \A v : Whole(v)' = Whole(v)
      /\ \A v : SoundValue(v)' <=> SoundValue(v)
      /\ \A s : Sound(s)' <=> Sound(s)
  BY <1>1 DEF Tree, Used, Whole, IsColl, Parts, SoundValue, Sound
<1>6. \A v : Owns(v)' = Owns(v)
  BY <1>5 DEF Owns
<1>7. ValuesSound'
  <2>1. \A u \in Workers : val'[u] = IF u = t THEN w ELSE val[u]
    BY <1>2 DEF AtomsTypeOK
  <2>2. \A u \in Workers : SoundValue(val'[u])
    BY <1>2, <2>1 DEF ValuesSound
  <2> QED
    BY <1>1, <1>5, <2>2 DEF ValuesSound
<1>8. Trees'
  <2>1. \A u \in Workers : /\ stage'[u] = IF u = t THEN "copy" ELSE stage[u]
                           /\ old'[u] = IF u = t THEN atom ELSE old[u]
    BY <1>3 DEF AtomsTypeOK
  <2>2. \A u \in Workers : stage[u] # "release" /\ stage'[u] # "release"
    BY <1>3, <1>4, <2>1 DEF Busy
  <2>3. \A u \in Workers : stage'[u] = "copy" => u = t
    BY <1>4, <2>1 DEF Busy
  <2>4. Whole(atom)' = Whole(atom) /\ Owns(atom)' = Owns(atom) /\ Used' = Used
    BY <1>1, <1>5, <1>6 DEF Used
  <2>5. \A g \in Fns : Holders(g)' = Holders(g)
    BY <2>2, <2>4 DEF Holders
  <2> QED
    BY <1>1, <1>5, <2>1, <2>2, <2>3, <2>4, <2>5 DEF Trees, Busy
<1> QED
  BY <1>7, <1>8

(* The copy alone: a tree of its own at addresses that were free.          *)
LEMMA CopyMakes ==
    ASSUME AtomsTypeOK, ValuesSound, NEW t \in Workers, ResetCopy(t)
    PROVE  /\ \A a \in Used : heap'[a] = heap[a]
           /\ Tree(atom)'
           /\ \A a \in Owns(atom)' : a \notin Used
           /\ Used' = Used \cup Owns(atom)'
           /\ \A f \in Fns :
                 /\ fn'[f].made = fn[f].made /\ fn'[f].env = fn[f].env
                 /\ fn'[f].rc = Stuck(fn[f].rc + IF Fn(f) \in Whole(atom)' THEN 1 ELSE 0)
                 /\ Fn(f) \in Whole(atom)' => fn[f].made
           /\ \A a \in Addrs : Sound(heap[a].kids)' /\ (heap'[a].kind # "node" => heap'[a].kids = <<>>)
<1> DEFINE v == val[t]
           members == IF IsColl(v) THEN Parts(v) ELSE <<>>
           g == Fresh(1 + Len(members))
           top == g[1]
           copies == CopyMembers(members)
           counted == IF v.is = "fn" THEN <<v>> ELSE members
<1>1. v \in Values /\ SoundValue(v)
  BY DEF AtomsTypeOK, ValuesSound
<1>2. members \in MemberSeqs /\ Room(1 + Len(members)) /\ Sound(members)
  <2>1. <<>> \in MemberSeqs /\ Sound(<<>>)
    BY DEF MemberSeqs, Sound
  <2>2. Parts(v) \in MemberSeqs /\ Sound(Parts(v))
    BY <1>1, PartsKinds, SoundParts
  <2> QED
    BY <2>1, <2>2 DEF ResetCopy
<1>3. /\ copies \in MemberSeqs /\ DOMAIN copies = DOMAIN members
      /\ \A i \in DOMAIN members :
            /\ g[i + 1] \in Addrs \ Used
            /\ members[i].is = "fn" => copies[i] = members[i]
            /\ members[i].is # "fn" => copies[i] = Obj(g[i + 1])
  BY <1>2, CopyKinds
<1>4. DOMAIN members = 1 .. Len(members) /\ Len(members) \in 0 .. 2
      /\ \A i \in DOMAIN members : members[i] \in Members
  BY <1>2, SeqKinds
<1>5. g \in [1 .. 1 + Len(members) -> Addrs \ Used] /\ Differ(g)
  BY <1>2, FreshPlaces
<1>6. top \in Addrs \ Used /\ \A i \in DOMAIN members : g[i + 1] # top
  <2>1. 1 \in 1 .. 1 + Len(members) /\ \A i \in DOMAIN members : i + 1 \in 1 .. 1 + Len(members) /\ i + 1 # 1
    BY <1>4
  <2> QED
    BY <1>5, <2>1 DEF Differ
<1>7. \A i, j \in DOMAIN members : g[i + 1] = g[j + 1] => i = j
  <2> SUFFICES ASSUME NEW i \in DOMAIN members, NEW j \in DOMAIN members, g[i + 1] = g[j + 1]
               PROVE  i = j
    OBVIOUS
  <2>1. i + 1 \in DOMAIN g /\ j + 1 \in DOMAIN g /\ i \in Int /\ j \in Int
    BY <1>4, <1>5
  <2>2. i + 1 = j + 1
    BY <1>5, <2>1 DEF Differ
  <2> QED
    BY <2>1, <2>2
<1>8. /\ v.is = "fn" => atom' = v /\ heap' = heap
      /\ v.is # "fn" =>
            /\ atom' = Obj(top)
            /\ heap' = [a \in Addrs |->
                  IF a = top THEN IF IsColl(v) THEN Node(copies) ELSE Leaf
                  ELSE IF a \notin Used /\ Obj(a) \in Elements(copies) THEN Leaf
                  ELSE heap[a]]
      /\ fn' = [f \in Fns |-> [fn[f] EXCEPT !.rc = Stuck(@ + Times(Fn(f), counted))]]
  BY DEF ResetCopy
<1>9. ~IsColl(v) => members = <<>>
  OBVIOUS
<1>10. v.is = "fn" => ~IsColl(v)
  BY DEF IsColl
<1>11. counted = IF v.is = "fn" THEN <<v>> ELSE members
  OBVIOUS
<1> HIDE DEF v, members, g, top, copies, counted
\* the copies
<1>12. \A f : Fn(f) \in Elements(copies) <=> Fn(f) \in Elements(members)
  <2> SUFFICES ASSUME NEW f PROVE Fn(f) \in Elements(copies) <=> Fn(f) \in Elements(members)
    OBVIOUS
  <2>1. \A i \in DOMAIN members : copies[i] = Fn(f) <=> members[i] = Fn(f)
    BY <1>3, Names
  <2> QED
    BY <1>3, <2>1 DEF Elements
<1>13. \A i \in DOMAIN copies :
          /\ copies[i].is \in {"obj", "fn"}
          /\ copies[i].is = "obj" =>
                /\ copies[i].at \in Addrs \ Used /\ copies[i].at # top
                /\ copies[i] = Obj(copies[i].at)
  BY <1>3, <1>6, Names
<1>14. Differ(copies)
  <2> SUFFICES ASSUME NEW i \in DOMAIN members, NEW j \in DOMAIN members, copies[i] = copies[j]
               PROVE  i = j
    BY <1>3 DEF Differ
  <2>1. CASE members[i].is = "fn" /\ members[j].is = "fn"
    BY <1>2, <1>3, <2>1 DEF Sound
  <2>2. CASE members[i].is # "fn" /\ members[j].is # "fn"
    BY <1>3, <1>7, <2>2, Names
  <2>3. CASE ~(members[i].is = "fn" <=> members[j].is = "fn")
    BY <1>3, <2>3, Names
  <2> QED
    BY <2>1, <2>2, <2>3
<1>15. Sound(copies)
  <2>1. \A i \in DOMAIN copies : copies[i].is = "fn" => members[i].is = "fn" /\ copies[i] = members[i]
    BY <1>3, Names
  <2> QED
    BY <1>2, <1>3, <1>14, <2>1 DEF Sound, Differ
\* the closures
<1>16. \A f \in Fns : fn'[f].made = fn[f].made /\ fn'[f].env = fn[f].env
  BY <1>8 DEF AtomsTypeOK
<1>17. \A s \in MemberSeqs : Sound(s) => Sound(s)'
  <2> SUFFICES ASSUME NEW s \in MemberSeqs, Sound(s) PROVE Sound(s)'
    OBVIOUS
  <2>1. \A i \in DOMAIN s : s[i].is = "fn" => s[i].fn \in Fns
    BY SeqKinds, ValueKinds, Kinds
  <2> QED
    BY <1>16, <2>1 DEF Sound
<1>18. Sound(<<>>) /\ Leaf.kids = <<>> /\ Leaf.kind = "leaf" /\ Leaf # Free
       /\ \A s : Node(s).kids = s /\ Node(s).kind = "node" /\ Node(s) # Free
  BY DEF Sound, Leaf, Node, Free
<1>19. \A f \in Fns : Times(Fn(f), counted) = IF Fn(f) \in Elements(counted) THEN 1 ELSE 0
  <2> SUFFICES ASSUME NEW f \in Fns PROVE Times(Fn(f), counted) = IF Fn(f) \in Elements(counted) THEN 1 ELSE 0
    OBVIOUS
  <2>1. \A i, j \in DOMAIN counted : counted[i] = Fn(f) /\ counted[j] = Fn(f) => i = j
    BY <1>2, <1>11, Names DEF Sound
  <2> QED
    BY <2>1, TimesOnce
<1>20. \A a \in Used : heap'[a] = heap[a]
  BY <1>6, <1>8 DEF Used
<1>21. CASE v.is = "fn"
  <2>1. Whole(atom)' = {v} /\ v = Fn(v.fn) /\ v.fn \in Fns /\ atom' = v
    BY <1>1, <1>8, <1>21, ValueKinds DEF Whole, IsColl
  <2>2. Owns(atom)' = {}
    BY <2>1, Names DEF Owns
  <2>3. Tree(atom)'
    BY <1>1, <1>16, <1>21, <2>1 DEF Tree, SoundValue
  <2>4. \A f \in Fns : Fn(f) \in Elements(counted) <=> Fn(f) \in Whole(atom)'
    BY <1>11, <1>21, <2>1 DEF Elements
  <2>5. \A f \in Fns : fn'[f].rc = Stuck(fn[f].rc + IF Fn(f) \in Whole(atom)' THEN 1 ELSE 0)
    BY <1>8, <1>19, <2>4 DEF AtomsTypeOK
  <2>6. Used' = Used
    BY <1>8, <1>21 DEF Used
  <2>7. \A a \in Addrs : Sound(heap[a].kids)' /\ (heap'[a].kind # "node" => heap'[a].kids = <<>>)
    BY <1>8, <1>17, <1>21 DEF ValuesSound, AtomsTypeOK
  <2>8. \A f \in Fns : Fn(f) \in Whole(atom)' => fn[f].made
    BY <1>1, <1>21, <2>1, Names DEF SoundValue
  <2> QED
    BY <1>16, <1>20, <2>2, <2>3, <2>5, <2>6, <2>7, <2>8
<1>22. CASE v.is # "fn"
  <2>1. /\ atom' = Obj(top)
        /\ heap'[top] = IF IsColl(v) THEN Node(copies) ELSE Leaf
        /\ \A a \in Addrs : a # top /\ a \notin Used /\ Obj(a) \in Elements(copies) => heap'[a] = Leaf
        /\ \A a \in Addrs : a # top /\ ~(a \notin Used /\ Obj(a) \in Elements(copies)) => heap'[a] = heap[a]
    BY <1>6, <1>8, <1>22
  <2>2. IsColl(v) \/ copies = <<>>
    <3>1. members = <<>> => copies = <<>>
      BY DEF copies, CopyMembers
    <3> QED
      BY <1>9, <3>1
  <2>3. heap'[top].kids = copies /\ heap'[top] # Free
    BY <1>18, <2>1, <2>2
  <2>4. Whole(atom)' = {Obj(top)} \cup Elements(copies)
    <3>1. IsColl(v) => IsColl(atom)' /\ Parts(atom)' = copies
      BY <1>18, <2>1, Names DEF IsColl, Parts
    <3>2. ~IsColl(v) => ~IsColl(atom)' /\ Elements(copies) = {}
      <4>1. Elements(<<>>) = {}
        BY DEF Elements
      <4> QED
        BY <1>18, <2>1, <2>2, <4>1, Names DEF IsColl
    <3> QED
      BY <2>1, <3>1, <3>2 DEF Whole
  <2>5. \A a : a \in Owns(atom)' <=> a = top \/ (a \in Addrs /\ Obj(a) \in Elements(copies))
    BY <1>6, <2>4, Names DEF Owns
  <2>6. \A a \in Addrs : Obj(a) \in Elements(copies) => a \notin Used /\ a # top
    BY <1>13, Names DEF Elements
  <2>7. Used' = Used \cup Owns(atom)'
    <3>1. \A a \in Addrs : heap'[a] # Free <=> heap[a] # Free \/ a \in Owns(atom)'
      BY <1>18, <1>20, <2>1, <2>3, <2>5, <2>6 DEF Used
    <3>2. Owns(atom)' \subseteq Addrs
      BY DEF Owns
    <3> QED
      BY <3>1, <3>2 DEF Used
  <2>8. Tree(atom)'
    <3>1. atom'.is = "obj" /\ atom'.at = top /\ top \in Used'
      BY <1>6, <2>1, <2>3, Names DEF Used
    <3>2. \A i \in DOMAIN copies : copies[i].is = "obj" =>
             copies[i].at \in Used' /\ heap'[copies[i].at].kind = "leaf" /\ copies[i] # atom'
      <4> SUFFICES ASSUME NEW i \in DOMAIN copies, copies[i].is = "obj"
                   PROVE  copies[i].at \in Used' /\ heap'[copies[i].at].kind = "leaf" /\ copies[i] # atom'
        OBVIOUS
      <4>1. PICK a \in Addrs \ Used : copies[i] = Obj(a) /\ a # top /\ copies[i].at = a
        BY <1>13
      <4>2. heap'[a] = Leaf
        BY <2>1, <4>1 DEF Elements
      <4> QED
        BY <1>18, <2>1, <4>1, <4>2, Names DEF Used
    <3>3. PICK x, cs : x = atom' /\ cs = copies /\ heap'[x.at].kids = cs
      BY <2>3, <3>1
    <3>4. \A i, j \in DOMAIN cs : cs[i] = cs[j] => i = j
      BY <1>14, <3>3 DEF Differ
    <3>5. \A i \in DOMAIN cs :
             /\ cs[i].is \in {"obj", "fn"}
             /\ cs[i].is = "obj" =>
                   cs[i].at \in Used' /\ heap'[cs[i].at].kind = "leaf" /\ cs[i] # x
      BY <1>13, <3>2, <3>3
    <3>6. Differ(heap[x.at].kids)'
      BY <3>3, <3>4 DEF Differ
    <3>7. Tree(x)'
      BY <3>1, <3>3, <3>5, <3>6 DEF Tree
    <3> QED
      BY <3>3, <3>7 DEF Tree
  <2>9. \A f \in Fns : Fn(f) \in Elements(counted) <=> Fn(f) \in Whole(atom)'
    BY <1>11, <1>12, <1>22, <2>4, Names
  <2>10. \A f \in Fns : fn'[f].rc = Stuck(fn[f].rc + IF Fn(f) \in Whole(atom)' THEN 1 ELSE 0)
    BY <1>8, <1>19, <2>9 DEF AtomsTypeOK
  <2>11. \A a \in Addrs : Sound(heap[a].kids)' /\ (heap'[a].kind # "node" => heap'[a].kids = <<>>)
    <3> SUFFICES ASSUME NEW a \in Addrs
                 PROVE  Sound(heap[a].kids)' /\ (heap'[a].kind # "node" => heap'[a].kids = <<>>)
      OBVIOUS
    <3>1. CASE a = top
      <4>1. PICK s \in MemberSeqs : s = copies /\ s = heap'[a].kids /\ Sound(s)
        BY <1>3, <1>15, <2>3, <3>1
      <4>2. Sound(s)'
        BY <1>17, <4>1
      <4>3. Sound(heap[a].kids)'
        BY <4>1, <4>2 DEF Sound
      <4>4. heap'[a].kind # "node" => heap'[a].kids = <<>>
        BY <1>18, <2>1, <3>1
      <4> QED
        BY <4>3, <4>4
    <3>2. CASE a # top /\ heap'[a] = Leaf
      BY <1>18, <3>2 DEF Sound
    <3>3. CASE a # top /\ heap'[a] = heap[a]
      <4>1. PICK s \in MemberSeqs : s = heap[a].kids /\ s = heap'[a].kids /\ Sound(s)
        BY <3>3 DEF AtomsTypeOK, ValuesSound
      <4>2. Sound(s)'
        BY <1>17, <4>1
      <4> QED
        BY <3>3, <4>1, <4>2 DEF ValuesSound, Sound
    <3> QED
      BY <2>1, <3>1, <3>2, <3>3
  <2>12. \A f \in Fns : Fn(f) \in Whole(atom)' => fn[f].made
    <3> SUFFICES ASSUME NEW f \in Fns, Fn(f) \in Whole(atom)' PROVE fn[f].made
      OBVIOUS
    <3>1. Fn(f) \in Elements(members)
      BY <1>12, <2>4, Names
    <3> QED
      BY <1>2, <3>1, Names DEF Elements, Sound
  <2> QED
    BY <1>6, <1>16, <1>20, <2>5, <2>6, <2>7, <2>8, <2>10, <2>11, <2>12
<1> QED
  BY <1>21, <1>22

(* A tree is on the heap.                                                  *)
LEMMA TreeOwns ==
    ASSUME AtomsTypeOK, NEW v \in Members, Tree(v)
    PROVE  Owns(v) \subseteq Used
<1> SUFFICES ASSUME NEW a \in Owns(v) PROVE a \in Used
  OBVIOUS
<1>1. CASE Obj(a) = v
  <2>1. v.is = "obj" /\ v.at = a
    BY <1>1, Names
  <2> QED
    BY <2>1 DEF Tree
<1>2. CASE Obj(a) # v
  <2>1. IsColl(v) /\ Obj(a) \in Elements(Parts(v))
    BY <1>2 DEF Owns, Whole
  <2>2. v.is = "obj" /\ Parts(v) = heap[v.at].kids
    BY <2>1 DEF Tree, IsColl, Parts
  <2> QED
    BY <2>1, <2>2, Names DEF Elements, Tree
<1> QED
  BY <1>1, <1>2

(* What a tree holds stays as it is while the addresses it owns do.        *)
LEMMA TreeKept ==
    ASSUME AtomsTypeOK, ValuesSound, NEW v \in Members, Tree(v),
           \A a \in Owns(v) : heap'[a] = heap[a],
           \A f \in Fns : fn[f].made => fn'[f].made
    PROVE  Tree(v)' /\ Whole(v)' = Whole(v) /\ Owns(v)' = Owns(v) /\ Owns(v) \subseteq Used
<1>1. CASE v.is = "fn"
  <2>1. Whole(v) = {v} /\ Whole(v)' = {v}
    BY <1>1 DEF Whole, IsColl
  <2>2. Owns(v) = {} /\ Owns(v)' = {}
    BY <1>1, <2>1, Names DEF Owns
  <2>3. Tree(v)'
    BY <1>1, ValueKinds, Kinds DEF Tree
  <2> QED
    BY <2>1, <2>2, <2>3
<1>2. CASE v.is = "obj"
  <2>1. PICK a \in Addrs : v = Obj(a) /\ v.at = a
    BY <1>2, ValueKinds, Kinds
  <2>2. a \in Owns(v) /\ a \in Used
    BY <1>2, <2>1 DEF Owns, Whole, Tree
  <2>3. heap'[a] = heap[a]
    BY <2>2
  <2>4. Whole(v)' = Whole(v)
    BY <1>2, <2>1, <2>3 DEF Whole, IsColl, Parts
  <2>5. Owns(v)' = Owns(v)
    BY <2>4 DEF Owns
  <2>6. PICK s \in MemberSeqs : s = heap[a].kids /\ s = heap'[a].kids
    BY <2>3 DEF AtomsTypeOK
  <2>7. s = <<>> \/ IsColl(v)
    BY <1>2, <2>1, <2>6 DEF IsColl, ValuesSound
  <2>8. \A i \in DOMAIN s : s[i].is = "obj" => s[i].at \in Addrs /\ s[i] = Obj(s[i].at)
    BY SeqKinds, ValueKinds, Kinds
  <2>9. IsColl(v) => \A i \in DOMAIN s : s[i] \in Whole(v)
    BY <1>2, <2>1, <2>6 DEF Whole, Parts, Elements
  <2>10. \A i \in DOMAIN s : /\ s[i].is \in {"obj", "fn"}
                             /\ s[i].is = "obj" =>
                                   s[i].at \in Used /\ heap[s[i].at].kind = "leaf" /\ s[i] # v
    BY <1>2, <2>1, <2>6 DEF Tree
  <2>11. Owns(v) \subseteq Used
    BY TreeOwns
  <2>12. Tree(v)'
    <3>1. a \in Used' /\ v.is = "obj" /\ heap'[v.at].kids = s
      BY <1>2, <2>1, <2>2, <2>3, <2>6 DEF Used
    <3>2. Differ(heap[v.at].kids)'
      BY <1>2, <2>1, <2>2, <2>3 DEF Tree, Differ
    <3>3. \A i \in DOMAIN s : s[i].is = "obj" =>
             s[i].at \in Used' /\ heap'[s[i].at].kind = "leaf"
      <4>1. CASE IsColl(v)
        <5> SUFFICES ASSUME NEW i \in DOMAIN s, s[i].is = "obj"
                     PROVE  s[i].at \in Used' /\ heap'[s[i].at].kind = "leaf"
          OBVIOUS
        <5>1. PICK b \in Addrs : s[i] = Obj(b) /\ s[i].at = b
          BY <2>8
        <5>2. b \in Owns(v) /\ b \in Used /\ heap[b].kind = "leaf"
          BY <2>9, <2>10, <4>1, <5>1 DEF Owns
        <5> QED
          BY <5>1, <5>2 DEF Used
      <4>2. CASE ~IsColl(v)
        BY <2>7, <4>2
      <4> QED
        BY <4>1, <4>2
    <3>4. \A i \in DOMAIN s :
             /\ s[i].is \in {"obj", "fn"}
             /\ s[i].is = "obj" =>
                   s[i].at \in Used' /\ heap'[s[i].at].kind = "leaf" /\ s[i] # v
      BY <2>10, <3>3
    <3> QED
      BY <2>1, <3>1, <3>2, <3>4 DEF Tree
  <2> QED
    BY <2>4, <2>5, <2>11, <2>12
<1> QED
  BY <1>1, <1>2 DEF Tree

LEMMA ResetCopyPlain ==
    ASSUME AtomsTypeOK, Plain, ValuesSound, Trees, NEW t \in Workers, ResetCopy(t)
    PROVE  ValuesSound' /\ Trees'
<1>1. /\ stage[t] = "copy" /\ stage' = [stage EXCEPT ![t] = "release"]
      /\ UNCHANGED <<habits, named, old, val>>
  BY DEF ResetCopy
<1>2. /\ \A a \in Used : heap'[a] = heap[a]
      /\ Tree(atom)'
      /\ \A a \in Owns(atom)' : a \notin Used
      /\ Used' = Used \cup Owns(atom)'
      /\ \A f \in Fns :
            /\ fn'[f].made = fn[f].made /\ fn'[f].env = fn[f].env
            /\ fn'[f].rc = Stuck(fn[f].rc + IF Fn(f) \in Whole(atom)' THEN 1 ELSE 0)
            /\ Fn(f) \in Whole(atom)' => fn[f].made
      /\ \A a \in Addrs : Sound(heap[a].kids)' /\ (heap'[a].kind # "node" => heap'[a].kids = <<>>)
  BY CopyMakes
<1>3. \A u \in Workers : u # t => ~Busy(u)
  BY <1>1 DEF Trees, Busy
<1>4. \A u \in Workers : stage'[u] = IF u = t THEN "release" ELSE stage[u]
  BY <1>1 DEF AtomsTypeOK
<1>5. PICK o \in Members : o = atom /\ o = old[t] /\ o = old'[t] /\ Tree(o)
  BY <1>1 DEF AtomsTypeOK, Trees
<1>6. Tree(o)' /\ Whole(o)' = Whole(o) /\ Owns(o)' = Owns(o) /\ Owns(o) \subseteq Used
  <2>1. Owns(o) \subseteq Used
    BY <1>5, TreeOwns
  <2> QED
    BY <1>2, <1>5, <2>1, TreeKept
<1>7. Tree(old[t])' /\ Whole(old[t])' = Whole(o) /\ Owns(old[t])' = Owns(o)
  <2>1. /\ Tree(old[t])' <=> Tree(o)'
        /\ Whole(old[t])' = Whole(o)' /\ Owns(old[t])' = Owns(o)'
    BY SMTT(30), <1>5 DEF Tree, Whole, Owns, IsColl, Parts
  <2> QED
    BY <1>6, <2>1
<1>8. ValuesSound'
  <2>1. \A v \in Values : SoundValue(v) => SoundValue(v)'
    <3> SUFFICES ASSUME NEW v \in Values, SoundValue(v) PROVE SoundValue(v)'
      OBVIOUS
    <3>1. CASE v.is = "coll"
      <4>1. \A i \in DOMAIN v.kids : v.kids[i].is = "fn" => v.kids[i].fn \in Fns
        BY <3>1, SeqKinds, ValueKinds, Kinds
      <4> QED
        BY <1>2, <3>1, <4>1 DEF SoundValue, Sound
    <3>2. CASE v.is # "coll"
      BY <1>2, <3>2, ValueKinds DEF SoundValue
    <3> QED
      BY <3>1, <3>2
  <2>2. \A u \in Workers : \A v \in named'[u] : SoundValue(v)'
    BY <1>1, <2>1 DEF AtomsTypeOK, ValuesSound
  <2>3. \A u \in Workers : SoundValue(val[u])'
    <3> SUFFICES ASSUME NEW u \in Workers PROVE SoundValue(val[u])'
      OBVIOUS
    <3>1. PICK v \in Values : v = val[u] /\ v = val'[u]
      BY <1>1 DEF AtomsTypeOK
    <3>2. SoundValue(v)'
      BY <2>1, <3>1 DEF ValuesSound
    <3> QED
      BY <3>1, <3>2 DEF SoundValue, Sound
  <2> QED
    BY <1>2, <2>2, <2>3 DEF ValuesSound
<1>9. Trees'
  <2>1. \A u \in Workers : Busy(u)' => u = t
    BY <1>3, <1>4 DEF Busy
  <2>2. \A u \in Workers : stage'[u] # "copy" /\ (stage'[u] = "release" => u = t)
    BY <1>3, <1>4 DEF Busy
  <2>3. Owns(old[t])' \cap Owns(atom)' = {}
    BY <1>2, <1>6, <1>7
  <2>4. \A a \in Used' : a \in Owns(atom)' \/ a \in Owns(old[t])'
    BY <1>1, <1>2, <1>3, <1>5, <1>7 DEF Trees, Busy
  <2>5. ASSUME NEW f \in Fns PROVE fn'[f].rc = IF fn'[f].made THEN Holders(f)' ELSE 0
    <3>1. Holders(f) = 1 + IF Fn(f) \in Whole(o) THEN 1 ELSE 0
      BY <1>1, <1>3, <1>5 DEF Holders, Busy
    <3>2. Holders(f)' = 1 + (IF Fn(f) \in Whole(atom)' THEN 1 ELSE 0)
                          + IF Fn(f) \in Whole(o) THEN 1 ELSE 0
      <4>1. (\E u \in Workers : stage'[u] = "release" /\ Fn(f) \in Whole(old[u])')
               <=> Fn(f) \in Whole(o)
        BY <1>4, <1>7, <2>2
      <4> QED
        BY <4>1 DEF Holders
    <3>3. ~fn[f].made => Fn(f) \notin Whole(atom)'
      BY <1>2
    <3> QED
      BY <1>2, <3>1, <3>2, <3>3, AtomsAssumption DEF Trees, Stuck
  <2>6. \A u \in Workers : stage'[u] = "release" =>
           Tree(old[u])' /\ Owns(old[u])' \cap Owns(atom)' = {}
    BY <1>7, <2>2, <2>3
  <2>7. \A a \in Used' :
           \/ a \in Owns(atom)'
           \/ \E u \in Workers : stage'[u] = "release" /\ a \in Owns(old[u])'
    BY <1>4, <2>4
  <2> QED
    BY <1>2, <2>1, <2>2, <2>5, <2>6, <2>7 DEF Trees
<1> QED
  BY <1>8, <1>9

(* What is in a tree.                                                      *)
LEMMA TreeWhole ==
    ASSUME AtomsTypeOK, NEW v \in Members, Tree(v)
    PROVE  \A w \in Whole(v) : w \in Members /\ w.is \in {"obj", "fn"}
<1> SUFFICES ASSUME NEW w \in Whole(v) PROVE w \in Members /\ w.is \in {"obj", "fn"}
  OBVIOUS
<1>1. CASE w = v
  BY <1>1 DEF Tree
<1>2. CASE w # v
  <2>1. IsColl(v) /\ w \in Elements(Parts(v))
    BY <1>2 DEF Whole
  <2>2. v.is = "obj" /\ Parts(v) = heap[v.at].kids /\ Parts(v) \in MemberSeqs
    BY <2>1, PartsKinds, Kinds DEF Tree, IsColl, Parts
  <2> QED
    BY <2>1, <2>2, SeqKinds DEF Elements, Tree
<1> QED
  BY <1>1, <1>2

(* The release alone: exactly the old tree goes.                           *)
LEMMA ReleaseTakes ==
    ASSUME AtomsTypeOK, ValuesSound, Trees, NEW t \in Workers, ResetRelease(t)
    PROVE  /\ \A a \in Addrs : heap'[a] = IF a \in Owns(old[t]) THEN Free ELSE heap[a]
           /\ Used' = Used \ Owns(old[t])
           /\ \A f \in Fns :
                 /\ fn'[f].made = fn[f].made /\ fn'[f].env = fn[f].env
                 /\ fn'[f].rc = fn[f].rc - IF Fn(f) \in Whole(old[t]) THEN 1 ELSE 0
           /\ ub' = ub
<1> DEFINE drops == Dropped(old[t])
<1>1. /\ stage[t] = "release"
      /\ ub' = ub \cup
          (IF \E v \in Elements(drops) :
                 \/ Gone(v)
                 \/ v.is = "obj" /\ Times(v, drops) > 1
                 \/ v.is = "fn" /\ Times(v, drops) > fn[v.fn].rc
                 \/ v.is = "str"
           THEN {"free of freed memory"} ELSE {})
      /\ heap' = [a \in Addrs |-> IF Obj(a) \in Elements(drops) THEN Free ELSE heap[a]]
      /\ fn' = [f \in Fns |-> [fn[f] EXCEPT !.rc = IF Times(Fn(f), drops) > @ THEN 0
                                                   ELSE @ - Times(Fn(f), drops)]]
  BY DEF ResetRelease
<1>2. PICK o \in Members : o = old[t] /\ Tree(o)
  BY <1>1 DEF AtomsTypeOK, Trees
<1>3. Elements(drops) = Whole(o) /\ \A w : Times(w, drops) = IF w \in Whole(o) THEN 1 ELSE 0
  <2>1. Elements(drops) = Whole(o) /\ Differ(drops)
    BY <1>2, DroppedKinds
  <2> QED
    BY <2>1, TimesOnce DEF Differ
<1> HIDE DEF drops
<1>4. \A a \in Addrs : heap'[a] = IF a \in Owns(o) THEN Free ELSE heap[a]
  BY <1>1, <1>3 DEF Owns
<1>5. Used' = Used \ Owns(o)
  BY <1>4 DEF Used
<1>6. \A f \in Fns : fn[f].made => fn[f].rc \in Nat /\ fn[f].rc >= 1
  BY DEF Trees, Holders, AtomsTypeOK
<1>7. \A f \in Fns : Fn(f) \in Whole(o) => fn[f].made
  BY <1>2, WholeMade
<1>8. ASSUME NEW f \in Fns
      PROVE  /\ fn'[f].made = fn[f].made /\ fn'[f].env = fn[f].env
             /\ fn'[f].rc = fn[f].rc - IF Fn(f) \in Whole(o) THEN 1 ELSE 0
  <2>1. fn[f].rc \in Nat /\ Times(Fn(f), drops) <= fn[f].rc
    BY <1>3, <1>6, <1>7 DEF AtomsTypeOK
  <2>2. PICK n : n = Times(Fn(f), drops) /\ n = (IF Fn(f) \in Whole(o) THEN 1 ELSE 0) /\ n <= fn[f].rc
    BY <1>3, <2>1
  <2>3. fn'[f] = [fn[f] EXCEPT !.rc = IF n > @ THEN 0 ELSE @ - n]
    BY <1>1, <2>2
  <2>4. fn[f] \in [made : BOOLEAN, rc : 0 .. MaxRc, env : MemberSeqs] /\ n \in Int /\ fn[f].rc \in Int
    BY <2>1, <2>2 DEF AtomsTypeOK
  <2> HIDE DEF Whole
  <2>5. ~(n > fn[f].rc)
    BY <2>2, <2>4
  <2>6. fn'[f] = [fn[f] EXCEPT !.rc = fn[f].rc - n]
    BY <2>3, <2>5
  <2> QED
    BY <2>2, <2>4, <2>6
<1>9. ub' = ub
  <2>1. \A a : Obj(a) \in Whole(o) => a \in Used
    <3>1. Owns(o) \subseteq Used
      BY <1>2, TreeOwns
    <3>2. \A a : Obj(a) \in Whole(o) => a \in Addrs
      BY <1>2, TreeWhole, ValueKinds, Kinds, Names
    <3> QED
      BY <3>1, <3>2 DEF Owns
  <2>2. ASSUME NEW v \in Whole(o)
        PROVE  ~ \/ Gone(v)
                 \/ v.is = "obj" /\ Times(v, drops) > 1
                 \/ v.is = "fn" /\ Times(v, drops) > fn[v.fn].rc
                 \/ v.is = "str"
    <3>1. v.is \in {"obj", "fn"} /\ v \in Members
      BY <1>2, TreeWhole
    <3>2. CASE v.is = "obj"
      BY <1>3, <2>1, <3>1, <3>2, ValueKinds, Kinds DEF Gone
    <3>3. CASE v.is = "fn"
      <4>1. v.fn \in Fns /\ v = Fn(v.fn)
        BY <3>1, <3>3, ValueKinds, Kinds
      <4> QED
        BY <1>3, <1>6, <1>7, <3>3, <4>1 DEF Gone
    <3> QED
      BY <3>1, <3>2, <3>3
  <2> QED
    BY <1>1, <1>3, <2>2
<1> QED
  BY <1>2, <1>4, <1>5, <1>8, <1>9

LEMMA ResetReleasePlain ==
    ASSUME AtomsTypeOK, Plain, ValuesSound, Trees, NEW t \in Workers, ResetRelease(t)
    PROVE  ValuesSound' /\ Trees' /\ Tree(atom)' /\ Owns(atom) \subseteq Used'
<1>1. /\ stage[t] = "release" /\ stage' = [stage EXCEPT ![t] = "run"]
      /\ named' = [named EXCEPT ![t] = (IF "keep" \in habits THEN @ ELSE {}) \cup {atom}]
      /\ old' = [old EXCEPT ![t] = Obj(FirstAddr)]
      /\ val' = [val EXCEPT ![t] = Obj(FirstAddr)]
      /\ UNCHANGED <<habits, atom>>
  BY DEF ResetRelease
<1>2. /\ \A a \in Addrs : heap'[a] = IF a \in Owns(old[t]) THEN Free ELSE heap[a]
      /\ Used' = Used \ Owns(old[t])
      /\ \A f \in Fns :
            /\ fn'[f].made = fn[f].made /\ fn'[f].env = fn[f].env
            /\ fn'[f].rc = fn[f].rc - IF Fn(f) \in Whole(old[t]) THEN 1 ELSE 0
  BY ReleaseTakes
<1>3. \A u \in Workers : u # t => ~Busy(u)
  BY <1>1 DEF Trees, Busy
<1>4. \A u \in Workers : stage'[u] = IF u = t THEN "run" ELSE stage[u]
  BY <1>1 DEF AtomsTypeOK
<1>5. \A u \in Workers : stage'[u] \notin {"copy", "release"}
  BY <1>3, <1>4 DEF Busy
<1>6. PICK v \in Members : v = atom /\ v = atom' /\ Tree(v) /\ Owns(v) \cap Owns(old[t]) = {}
  BY <1>1 DEF AtomsTypeOK, Trees
<1>7. Tree(v)' /\ Whole(v)' = Whole(v) /\ Owns(v)' = Owns(v) /\ Owns(v) \subseteq Used
  <2>1. \A a \in Owns(v) : heap'[a] = heap[a]
    BY <1>2, <1>6 DEF Owns
  <2> QED
    BY <1>2, <1>6, <2>1, TreeKept
<1>8. Tree(atom)' /\ Whole(atom)' = Whole(atom) /\ Owns(atom)' = Owns(atom)
  <2>1. /\ Tree(atom)' <=> Tree(v)'
        /\ Whole(atom)' = Whole(v)' /\ Owns(atom)' = Owns(v)'
    BY <1>6 DEF Tree, Whole, Owns, IsColl, Parts
  <2>2. Whole(atom) = Whole(v) /\ Owns(atom) = Owns(v)
    BY <1>6
  <2> QED
    BY <1>7, <2>1, <2>2
<1>9. Owns(atom) \subseteq Used'
  BY <1>2, <1>6, <1>7
<1>10. \A s \in MemberSeqs : Sound(s) => Sound(s)'
  <2> SUFFICES ASSUME NEW s \in MemberSeqs, Sound(s) PROVE Sound(s)'
    OBVIOUS
  <2>1. \A i \in DOMAIN s : s[i].is = "fn" => s[i].fn \in Fns
    BY SeqKinds, ValueKinds, Kinds
  <2> QED
    BY <1>2, <2>1 DEF Sound
<1>11. \A w \in Values : SoundValue(w) => SoundValue(w)'
  BY <1>2, <1>10, ValueKinds DEF SoundValue
<1>12. ValuesSound'
  <2>1. \A f \in Fns : fn'[f].env = <<>>
    BY <1>2 DEF ValuesSound
  <2>2. ASSUME NEW a \in Addrs
        PROVE  Sound(heap[a].kids)' /\ (heap'[a].kind # "node" => heap'[a].kids = <<>>)
    <3>1. CASE a \in Owns(old[t])
      BY <1>2, <3>1 DEF Free, Sound
    <3>2. CASE a \notin Owns(old[t])
      <4>1. heap'[a] = heap[a]
        BY <1>2, <3>2
      <4>2. PICK s \in MemberSeqs : s = heap[a].kids /\ s = heap'[a].kids /\ Sound(s)
        BY <4>1 DEF AtomsTypeOK, ValuesSound
      <4>3. Sound(s)'
        BY <1>10, <4>2
      <4> QED
        BY <4>1, <4>2, <4>3 DEF ValuesSound, Sound
    <3> QED
      BY <3>1, <3>2
  <2>3. SoundValue(atom)
    BY ValueKinds, Kinds DEF AtomsTypeOK, SoundValue, Trees, Tree
  <2>4. \A u \in Workers : \A w \in named'[u] : w \in Values /\ SoundValue(w)
    BY <1>1, <2>3, Kinds DEF AtomsTypeOK, ValuesSound
  <2>5. \A u \in Workers : \A w \in named'[u] : SoundValue(w)'
    BY <1>11, <2>4
  <2>6. ASSUME NEW u \in Workers PROVE SoundValue(val[u])'
    <3>1. val'[u] = IF u = t THEN Obj(FirstAddr) ELSE val[u]
      BY <1>1 DEF AtomsTypeOK
    <3>2. PICK w \in Values : w = val'[u] /\ SoundValue(w)
      <4>1. Obj(FirstAddr) \in Values /\ SoundValue(Obj(FirstAddr))
        BY Kinds, Names, AtomsAssumption DEF FirstAddr, SoundValue
      <4> QED
        BY <3>1, <4>1 DEF AtomsTypeOK, ValuesSound
    <3>3. SoundValue(w)'
      BY <1>11, <3>2
    <3> QED
      BY <3>2, <3>3 DEF SoundValue, Sound
  <2> QED
    BY <2>1, <2>2, <2>5, <2>6 DEF ValuesSound
<1>13. Trees'
  <2>1. \A a \in Used' : a \in Owns(atom)'
    BY <1>1, <1>2, <1>3, <1>8 DEF Trees, Busy
  <2>2. ASSUME NEW f \in Fns PROVE fn'[f].rc = IF fn'[f].made THEN Holders(f)' ELSE 0
    <3>1. Holders(f) = 1 + (IF Fn(f) \in Whole(atom) THEN 1 ELSE 0)
                         + IF Fn(f) \in Whole(old[t]) THEN 1 ELSE 0
      <4>1. (\E u \in Workers : stage[u] = "release" /\ Fn(f) \in Whole(old[u]))
               <=> Fn(f) \in Whole(old[t])
        BY <1>1, <1>3 DEF Busy
      <4> QED
        BY <4>1 DEF Holders
    <3>2. Holders(f)' = 1 + IF Fn(f) \in Whole(atom) THEN 1 ELSE 0
      BY <1>5, <1>8 DEF Holders
    <3>3. Fn(f) \in Whole(old[t]) => fn[f].made
      BY <1>1, WholeMade DEF AtomsTypeOK, Trees
    <3> QED
      BY <1>2, <3>1, <3>2, <3>3 DEF Trees
  <2> QED
    BY <1>5, <1>8, <2>1, <2>2 DEF Trees, Busy
<1> QED
  BY <1>8, <1>9, <1>12, <1>13

(***************************************************************************)
(* Programs with none of the habits: nothing that is freed can be named.   *)
(***************************************************************************)

(* What is on the heap holds only what is on the heap.                     *)
LEMMA KidsUsed ==
    ASSUME AtomsTypeOK, ValuesSound, Trees, NEW a \in Used
    PROVE  \A w \in Elements(heap[a].kids) : w.is = "obj" => w.at \in Used
<1>1. PICK v \in Members : Tree(v) /\ Obj(a) \in Whole(v)
  <2>1. CASE a \in Owns(atom)
    BY <2>1 DEF Trees, AtomsTypeOK, Owns
  <2>2. CASE a \notin Owns(atom)
    BY <2>2 DEF Trees, AtomsTypeOK, Owns
  <2> QED
    BY <2>1, <2>2
<1>2. CASE Obj(a) = v
  <2>1. v.is = "obj" /\ v.at = a
    BY <1>2, Names
  <2> QED
    BY <1>1, <2>1 DEF Tree, Elements
<1>3. CASE Obj(a) # v
  <2>1. v.is = "obj" /\ Obj(a) \in Elements(heap[v.at].kids)
    BY <1>1, <1>3 DEF Whole, IsColl, Parts, Tree
  <2>2. heap[a].kind = "leaf"
    BY <1>1, <2>1, Names DEF Tree, Elements
  <2>3. heap[a].kids = <<>>
    BY <2>2 DEF ValuesSound, Used
  <2> QED
    BY <2>3 DEF Elements
<1> QED
  BY <1>2, <1>3

(* A closure that is made is counted.                                      *)
LEMMA MadeCounted ==
    ASSUME AtomsTypeOK, Trees, NEW v \in Values, SoundValue(v), v.is = "fn"
    PROVE  ~Gone(v)
<1>1. v.fn \in Fns /\ fn[v.fn].made
  BY ValueKinds DEF SoundValue
<1>2. fn[v.fn].rc >= 1 /\ fn[v.fn].rc \in Int
  BY <1>1 DEF Trees, Holders, AtomsTypeOK
<1> QED
  BY <1>2 DEF Gone

(* What a worker that is in a request can name is there.                   *)
LEMMA NamedUsed ==
    ASSUME AtomsTypeOK, ValuesSound, Trees, Turns, NEW t \in Workers, stage[t] # "release",
           NEW v \in named[t]
    PROVE  /\ ObjsOf(v) \subseteq Used
           /\ ObjsOf(v) # {} => \A u \in Workers \ {t} : ~Engaged(u)
           /\ ~Gone(v)
           /\ \A w \in Elements(Parts(v)) :
                 /\ w.is = "obj" => w.at \in ObjsOf(v) \/ (ObjsOf(v) # {} /\ w.at \in Used)
                 /\ ~Gone(w)
<1>1. v \in Values /\ SoundValue(v)
  BY DEF AtomsTypeOK, ValuesSound
<1>2. ObjsOf(v) \subseteq NamedObjs(t)
  BY DEF NamedObjs, ObjsOf
<1>3. ObjsOf(v) \subseteq Used
  BY <1>2 DEF Turns
<1>4. ObjsOf(v) # {} => \A u \in Workers \ {t} : ~Engaged(u)
  BY <1>2 DEF Turns, Engaged
<1>5. v.is = "obj" => v.at \in ObjsOf(v) /\ v.at \in Used
  BY <1>1, <1>3, ValueKinds DEF ObjsOf
<1>6. ~Gone(v)
  BY <1>1, <1>5, MadeCounted DEF Gone
<1>7. ASSUME NEW w \in Elements(Parts(v))
      PROVE  /\ w.is = "obj" => w.at \in ObjsOf(v) \/ (ObjsOf(v) # {} /\ w.at \in Used)
             /\ ~Gone(w)
  <2>1. Parts(v) \in MemberSeqs /\ Sound(Parts(v))
    BY <1>1, PartsKinds, SoundParts
  <2>2. w \in Members /\ SoundValue(w)
    BY <2>1, SeqKinds, SoundElements
  <2>3. w.is = "obj" => w.at \in Addrs /\ w = Obj(w.at)
    BY <2>2, ValueKinds, Kinds
  <2>4. w.is = "obj" => w.at \in ObjsOf(v) \/ (ObjsOf(v) # {} /\ w.at \in Used)
    <3>1. CASE v.is = "coll"
      BY <1>1, <2>3, <3>1, PartsKinds DEF ObjsOf
    <3>2. CASE v.is = "obj"
      BY <1>1, <1>5, <3>2, PartsKinds, KidsUsed
    <3>3. CASE v.is = "fn"
      <4>1. Parts(v) = <<>>
        BY <1>1, <3>3, PartsKinds, ValueKinds DEF ValuesSound
      <4> QED
        BY <4>1 DEF Elements
    <3>4. CASE v.is = "str"
      <4>1. Parts(v) = <<>>
        BY <3>4 DEF Parts
      <4> QED
        BY <4>1 DEF Elements
    <3> QED
      BY <1>1, <3>1, <3>2, <3>3, <3>4, ValueKinds
  <2>5. ~Gone(w)
    BY <1>3, <2>2, <2>4, MadeCounted, Kinds DEF Gone
  <2> QED
    BY <2>4, <2>5
<1> QED
  BY <1>3, <1>4, <1>6, <1>7

(* A worker that names more keeps the turn, or takes it while no other     *)
(* worker has it.                                                          *)
LEMMA TurnsKept ==
    ASSUME AtomsTypeOK, Turns, NEW t \in Workers, NEW S,
           named' = [named EXCEPT ![t] = S], UNCHANGED <<heap, val, ub>>,
           \A v \in S : /\ ObjsOf(v) \subseteq Used
                        /\ ObjsOf(v) # {} => \A u \in Workers \ {t} : ~Engaged(u),
           \A u \in Workers \ {t} : stage'[u] = stage[u],
           stage'[t] \notin {"copy", "release"}
    PROVE  Turns'
<1>1. named'[t] = S /\ \A u \in Workers \ {t} : named'[u] = named[u]
  BY DEF AtomsTypeOK
<1>2. Used' = Used /\ \A v : ObjsOf(v)' = ObjsOf(v)
  BY DEF Used, ObjsOf
<1>3. \A u \in Workers \ {t} : NamedObjs(u)' = NamedObjs(u) /\ (Engaged(u)' <=> Engaged(u))
  BY <1>1 DEF NamedObjs, Engaged, Busy, ObjsOf
<1>4. NamedObjs(t)' \subseteq Used
  BY <1>1, <1>2 DEF NamedObjs, ObjsOf
<1>5. Engaged(t)' => \A u \in Workers \ {t} : ~Engaged(u)
  <2> SUFFICES ASSUME Engaged(t)' PROVE \A u \in Workers \ {t} : ~Engaged(u)
    OBVIOUS
  <2>1. PICK v \in S : ObjsOf(v) # {}
    BY <1>1 DEF Engaged, Busy, NamedObjs, ObjsOf
  <2> QED
    BY <2>1
<1>6. \A u, w \in Workers : Engaged(u)' /\ Engaged(w)' => u = w
  BY <1>3, <1>5 DEF Turns
<1>7. \A u \in Workers : stage'[u] # "release" => NamedObjs(u)' \subseteq Used'
  BY <1>2, <1>3, <1>4 DEF Turns
<1>8. \A u \in Workers : stage'[u] = "copy" => val'[u] \in named'[u]
  BY <1>1 DEF Turns
<1> QED
  BY <1>6, <1>7, <1>8 DEF Turns

(* Alone: while a worker has to do with the atom, no other does.           *)
LEMMA AloneTurns ==
    ASSUME AtomsTypeOK, "share" \notin habits, NEW t \in Workers, Alone(t)
    PROVE  \A u \in Workers \ {t} : ~Engaged(u)
<1> SUFFICES ASSUME NEW u \in Workers \ {t}, Engaged(u) PROVE FALSE
  OBVIOUS
<1>1. ~Touches(u)
  BY DEF Alone
<1>2. PICK a \in Addrs, v \in named[u] : a \in ObjsOf(v)
  BY <1>1 DEF Engaged, Busy, NamedObjs, Touches
<1>3. Obj(a) \in {v} \cup Elements(Parts(v))
  BY <1>2 DEF ObjsOf, Parts
<1> QED
  BY <1>1, <1>2, <1>3, Names DEF Touches

LEMMA RequestTurns ==
    ASSUME AtomsTypeOK, habits = {}, ValuesSound, Trees, Turns, NEW t \in Workers,
           Begin(t) \/ End(t) \/ Forget(t) \/ New(t) \/ Gather(t) \/ Extend(t) \/ Get(t)
              \/ Capture(t) \/ Deref(t)
    PROVE  Turns'
<1> DEFINE Fine(v) == /\ ObjsOf(v) \subseteq Used
                      /\ ObjsOf(v) # {} => \A u \in Workers \ {t} : ~Engaged(u)
<1>1. /\ UNCHANGED <<heap, val>> /\ stage[t] \in {"out", "run"}
      /\ stage' = [stage EXCEPT ![t] = stage'[t]] /\ stage'[t] \in {"out", "run"}
  BY DEF AtomsTypeOK, Begin, End, Forget, New, Gather, Extend, Get, Capture, Deref, atomVars
<1>2. /\ \A u \in Workers \ {t} : stage'[u] = stage[u]
      /\ stage'[t] \notin {"copy", "release"} /\ stage[t] # "release"
  BY <1>1 DEF AtomsTypeOK
<1>3. named[t] \subseteq Values /\ \A v \in named[t] : Fine(v) /\ ~Gone(v)
  BY <1>2, NamedUsed DEF AtomsTypeOK
<1>4. \A v : v.is \notin {"obj", "coll"} => ObjsOf(v) = {}
  BY Names DEF ObjsOf
<1>5. \A a \in Addrs : ObjsOf(Obj(a)) = {a}
  BY Names DEF ObjsOf
<1>6. \A v \in named[t] : \A w \in Elements(Parts(v)) :
         w \in Members /\ (w.is = "obj" => w.at \in Used /\ ObjsOf(v) # {} /\ ObjsOf(w) = {w.at})
  <2> SUFFICES ASSUME NEW v \in named[t], NEW w \in Elements(Parts(v))
               PROVE  w \in Members /\ (w.is = "obj" => w.at \in Used /\ ObjsOf(v) # {} /\ ObjsOf(w) = {w.at})
    OBVIOUS
  <2>1. w \in Members
    BY <1>3, PartsKinds, SeqKinds
  <2>2. w.is = "obj" => w.at \in Addrs /\ ObjsOf(w) = {w.at}
    BY <1>5, <2>1, ValueKinds, Kinds
  <2>3. w.is = "obj" => w.at \in Used /\ ObjsOf(v) # {}
    BY <1>2, NamedUsed
  <2> QED
    BY <2>1, <2>2, <2>3
<1>7. \A v \in named[t] : \A w \in Elements(Parts(v)) : Fine(w)
  BY <1>3, <1>4, <1>6, ValueKinds, Kinds
<1>8. \E S : /\ named' = [named EXCEPT ![t] = S] /\ \A v \in S : Fine(v)
             /\ ub' = ub
  <2>1. CASE Begin(t)
    BY <1>3, <2>1 DEF Begin, AtomsTypeOK
  <2>2. CASE End(t) \/ Forget(t)
    BY <1>3, <2>2 DEF End, Forget
  <2>3. CASE New(t)
    <3>1. Fine(Str(t))
      BY <1>4, Names
    <3> HIDE DEF Fine
    <3> QED
      BY <1>3, <2>3, <3>1 DEF New, Name
  <2>4. CASE Gather(t)
    <3>1. PICK v \in named[t] : ~IsColl(v) /\ Name(t, {Coll(t, <<v>>)})
      BY <2>4 DEF Gather
    <3>2. ObjsOf(Coll(t, <<v>>)) \subseteq ObjsOf(v)
      BY Names DEF ObjsOf, Elements
    <3>3. Fine(Coll(t, <<v>>))
      BY <1>3, <3>2
    <3>4. UNCHANGED ub
      BY <2>4 DEF Gather
    <3> HIDE DEF Fine
    <3> QED
      BY <1>3, <3>1, <3>3, <3>4 DEF Name
  <2>5. CASE Extend(t)
    <3>1. PICK c \in named[t], v \in named[t] :
             /\ IsColl(c) /\ ~IsColl(v) /\ Len(Parts(c)) = 1
             /\ Reads({c})
             /\ named' = [named EXCEPT ![t] = (@ \ {c}) \cup {Coll(t, Append(Parts(c), v))}]
      BY <2>5 DEF Extend
    <3>2. PICK s \in MemberSeqs : s = Parts(c)
      BY <1>3, PartsKinds
    <3>3. PICK d : d = Append(s, v)
      OBVIOUS
    <3>4. v \in Members
      BY <1>3, <3>1, ValueKinds DEF IsColl
    <3>5. DOMAIN d = {1, 2} /\ d[1] = s[1] /\ d[2] = v /\ DOMAIN s = {1}
      BY <3>1, <3>2, <3>3, <3>4, AppendKinds, SeqKinds
    <3>6. s[1] \in Elements(Parts(c))
      BY <3>2, <3>5 DEF Elements
    <3>7. ObjsOf(Coll(t, d)) \subseteq ObjsOf(s[1]) \cup ObjsOf(v)
      BY <3>5, Names DEF ObjsOf, Elements
    <3>8. Fine(s[1]) /\ Fine(v)
      BY <1>3, <1>7, <3>6
    <3>9. Fine(Coll(t, d))
      BY <3>7, <3>8
    <3>10. ub' = ub
      BY <1>3, <3>1 DEF Reads
    <3>11. PICK S : S = (named[t] \ {c}) \cup {Coll(t, d)}
      OBVIOUS
    <3>12. named' = [named EXCEPT ![t] = S]
      BY <3>1, <3>2, <3>3, <3>11
    <3> HIDE DEF Fine
    <3>13. \A w \in S : Fine(w)
      BY <1>3, <3>9, <3>11
    <3> QED
      BY <3>10, <3>12, <3>13
  <2>6. CASE Get(t)
    <3>1. PICK v \in named[t] : Reads({v}) /\ Name(t, Elements(Parts(v)))
      BY <2>6 DEF Get
    <3>2. ub' = ub
      BY <1>3, <3>1 DEF Reads
    <3>3. PICK E : E = Elements(Parts(v))
      OBVIOUS
    <3> HIDE DEF Fine
    <3>4. named' = [named EXCEPT ![t] = named[t] \cup E]
      BY <3>1, <3>3 DEF Name
    <3>5. \A w \in named[t] \cup E : Fine(w)
      BY <1>3, <1>7, <3>3
    <3> QED
      BY <3>2, <3>4, <3>5
  <2>7. CASE Capture(t)
    <3>1. PICK f \in Fns : named' = [named EXCEPT ![t] = @ \cup {Fn(f)}]
      BY <2>7, CaptureTypes
    <3>2. Fine(Fn(f))
      BY <1>4, Names
    <3>3. ub' = ub
      BY <2>7 DEF Capture
    <3> HIDE DEF Fine
    <3> QED
      BY <1>3, <3>1, <3>2, <3>3
  <2>8. CASE Deref(t)
    <3>1. \A u \in Workers \ {t} : ~Engaged(u)
      BY <2>8, AloneTurns DEF Deref
    <3>2. ObjsOf(atom) \subseteq Used
      <4>1. atom.is = "obj" => atom.at \in Used /\ atom = Obj(atom.at)
        BY ValueKinds, Kinds DEF AtomsTypeOK, Trees, Tree
      <4>2. atom.is # "coll"
        BY DEF Trees, Tree
      <4>3. ASSUME NEW a \in ObjsOf(atom) PROVE a \in Used
        <5>1. atom = Obj(a)
          BY <4>2, <4>3 DEF ObjsOf
        <5> QED
          BY <4>1, <5>1, Names
      <4> QED
        BY <4>3
    <3>3. Fine(atom)
      BY <3>1, <3>2
    <3> HIDE DEF Fine
    <3> QED
      BY <1>3, <2>8, <3>3 DEF Deref, Name
  <2> QED
    BY <2>1, <2>2, <2>3, <2>4, <2>5, <2>6, <2>7, <2>8
<1> QED
  BY <1>1, <1>2, <1>8, TurnsKept

LEMMA ResetReadTurns ==
    ASSUME AtomsTypeOK, habits = {}, ValuesSound, Trees, Turns, NEW t \in Workers, ResetRead(t)
    PROVE  Turns'
<1>1. PICK w \in named[t] : val' = [val EXCEPT ![t] = w]
  BY DEF ResetRead
<1>2. /\ stage' = [stage EXCEPT ![t] = "copy"] /\ stage[t] = "run"
      /\ UNCHANGED <<heap, named, ub>>
  BY DEF ResetRead
<1>3. \A u \in Workers \ {t} : ~Engaged(u)
  BY AloneTurns DEF ResetRead
<1>4. \A u \in Workers : /\ stage'[u] = IF u = t THEN "copy" ELSE stage[u]
                         /\ val'[u] = IF u = t THEN w ELSE val[u]
                         /\ NamedObjs(u)' = NamedObjs(u)
  BY <1>1, <1>2 DEF AtomsTypeOK, NamedObjs, ObjsOf
<1>5. \A u \in Workers : Engaged(u)' => u = t
  BY <1>3, <1>4 DEF Engaged, Busy
<1>6. Used' = Used
  BY <1>2 DEF Used
<1> QED
  BY <1>1, <1>2, <1>4, <1>5, <1>6 DEF Turns

LEMMA ResetCopyTurns ==
    ASSUME AtomsTypeOK, habits = {}, ValuesSound, Trees, Turns, NEW t \in Workers, ResetCopy(t)
    PROVE  Turns'
<1> DEFINE v == val[t]
           members == IF IsColl(v) THEN Parts(v) ELSE <<>>
<1>1. /\ stage[t] = "copy" /\ stage' = [stage EXCEPT ![t] = "release"]
      /\ Reads({v} \cup Elements(members))
      /\ UNCHANGED <<habits, named, old, val>>
  BY DEF ResetCopy
<1>2. v \in named[t]
  BY <1>1 DEF Turns
<1>3. \A w \in {v} \cup Elements(members) : ~Gone(w)
  <2>1. ~Gone(v) /\ \A w \in Elements(Parts(v)) : ~Gone(w)
    BY <1>1, <1>2, NamedUsed
  <2>2. Elements(<<>>) = {}
    BY DEF Elements
  <2> QED
    BY <2>1, <2>2
<1>4. ub' = ub
  BY <1>1, <1>3 DEF Reads
<1>5. \A u \in Workers : u # t => ~Engaged(u)
  BY <1>1 DEF Turns, Engaged, Busy
<1>6. \A u \in Workers : /\ stage'[u] = IF u = t THEN "release" ELSE stage[u]
                         /\ NamedObjs(u)' = NamedObjs(u)
  BY <1>1 DEF AtomsTypeOK, NamedObjs, ObjsOf
<1>7. \A u \in Workers : Engaged(u)' => u = t
  BY <1>5, <1>6 DEF Engaged, Busy
<1>8. \A u \in Workers : u # t => NamedObjs(u)' = {} /\ ~Busy(u)
  BY <1>5, <1>6 DEF Engaged
<1> QED
  BY <1>1, <1>4, <1>6, <1>7, <1>8 DEF Turns, Busy

LEMMA ResetReleaseTurns ==
    ASSUME AtomsTypeOK, habits = {}, ValuesSound, Trees, Turns, NEW t \in Workers, ResetRelease(t)
    PROVE  Turns'
<1>1. /\ stage[t] = "release" /\ stage' = [stage EXCEPT ![t] = "run"]
      /\ named' = [named EXCEPT ![t] = (IF "keep" \in habits THEN @ ELSE {}) \cup {atom}]
      /\ UNCHANGED <<habits, atom>>
  BY DEF ResetRelease
<1>2. ub' = ub
  BY ReleaseTakes
<1>3. \A u \in Workers : u # t => ~Engaged(u)
  BY <1>1 DEF Turns, Engaged, Busy
<1>4. \A u \in Workers : /\ stage'[u] = IF u = t THEN "run" ELSE stage[u]
                         /\ named'[u] = IF u = t THEN {atom} ELSE named[u]
  BY <1>1 DEF AtomsTypeOK
<1>5. \A u \in Workers : u # t => NamedObjs(u)' = {} /\ ~Busy(u)' /\ ~Busy(u)
  BY <1>3, <1>4 DEF Engaged, Busy, NamedObjs, ObjsOf
<1>6. NamedObjs(t)' \subseteq Used'
  <2>1. Owns(atom) \subseteq Used'
    BY ResetReleasePlain DEF Plain
  <2>2. NamedObjs(t)' \subseteq Owns(atom)
    <3>1. atom.is # "coll"
      BY DEF Trees, Tree
    <3>2. ASSUME NEW a \in NamedObjs(t)' PROVE a \in Owns(atom)
      <4>1. named'[t] = {atom}
        BY <1>4
      <4>2. a \in Addrs /\ atom = Obj(a)
        BY <3>1, <3>2, <4>1 DEF NamedObjs, ObjsOf
      <4> QED
        BY <4>2 DEF Owns, Whole
    <3> QED
      BY <3>2
  <2> QED
    BY <2>1, <2>2
<1>7. ~Busy(t)'
  BY <1>4 DEF Busy
<1> QED
  BY <1>2, <1>4, <1>5, <1>6, <1>7 DEF Turns, Engaged, Busy

(***************************************************************************)
(* The invariant.                                                          *)
(***************************************************************************)

LEMMA AtomStart == AtomsInit => AtomInv
<1> SUFFICES ASSUME AtomsInit PROVE AtomInv
  OBVIOUS
<1>1. AtomsTypeOK
  BY AtomTypesStart
<1>2. PICK a \in Addrs : a = FirstAddr
  BY AtomsAssumption DEF FirstAddr
<1>3. /\ atom = Obj(a) /\ heap[a] = Leaf /\ \A b \in Addrs : b # a => heap[b] = Free
      /\ \A t \in Workers : stage[t] = "out" /\ named[t] = {} /\ val[t] = Obj(a)
      /\ \A f \in Fns : fn[f] = NoFn
      /\ ub = {}
  BY <1>2 DEF AtomsInit
<1>4. /\ Leaf.kids = <<>> /\ Leaf.kind = "leaf" /\ Leaf # Free /\ Free.kids = <<>>
      /\ ~NoFn.made /\ NoFn.rc = 0 /\ NoFn.env = <<>>
  BY DEF Leaf, Free, NoFn
<1>5. Used = {a}
  BY <1>2, <1>3, <1>4 DEF Used
<1>6. ValuesSound
  <2>1. Sound(<<>>) /\ SoundValue(Obj(a))
    BY Names DEF Sound, SoundValue
  <2>2. \A b \in Addrs : heap[b].kids = <<>>
    BY <1>3, <1>4
  <2> QED
    BY <1>3, <1>4, <2>1, <2>2 DEF ValuesSound
<1>7. Trees
  <2>1. Tree(atom)
    BY <1>3, <1>4, <1>5, Names DEF Tree, Differ
  <2>2. a \in Owns(atom)
    BY <1>2, <1>3 DEF Owns, Whole
  <2> QED
    BY <1>3, <1>4, <1>5, <2>1, <2>2 DEF Trees, Busy
<1>8. Turns
  BY <1>3 DEF Turns, Engaged, Busy, NamedObjs
<1> QED
  BY <1>1, <1>6, <1>7, <1>8 DEF AtomInv

LEMMA AtomKept == AtomInv /\ [AtomsNext]_atomsVars => AtomInv'
<1> SUFFICES ASSUME AtomInv, [AtomsNext]_atomsVars PROVE AtomInv'
  OBVIOUS
<1>1. AtomsTypeOK /\ AtomsTypeOK'
  BY AtomTypesNext DEF AtomInv
<1>2. ASSUME NEW t \in Workers, AtomStep(t), Plain, ValuesSound, Trees
      PROVE  ValuesSound' /\ Trees'
  BY <1>1, <1>2, RequestPlain, CapturePlain, ResetReadPlain, ResetCopyPlain, ResetReleasePlain
     DEF AtomStep
<1>3. ASSUME NEW t \in Workers, AtomStep(t), habits = {}, ValuesSound, Trees, Turns
      PROVE  Turns'
  BY <1>1, <1>3, RequestTurns, ResetReadTurns, ResetCopyTurns, ResetReleaseTurns DEF AtomStep
<1>4. ASSUME NEW t \in Workers, AtomStep(t) PROVE habits' = habits
  BY <1>4 DEF AtomStep, Begin, End, Forget, New, Gather, Extend, Get, Capture, Deref,
              ResetRead, ResetCopy, ResetRelease
<1>5. CASE AtomsNext
  <2>1. PICK t \in Workers : AtomStep(t)
    BY <1>5 DEF AtomsNext
  <2>2. habits' = habits
    BY <1>4, <2>1
  <2>3. habits = {} => Plain
    BY DEF Plain
  <2> QED
    BY <1>1, <1>2, <1>3, <2>1, <2>2, <2>3 DEF AtomInv, Plain
<1>6. CASE UNCHANGED atomsVars
  <2>1. UNCHANGED <<habits, heap, fn, atom, named, stage, old, val, ub>>
    BY <1>6 DEF atomsVars
  <2>2. Plain => ValuesSound' /\ Trees'
    <3>1. \A u \in Workers : /\ stage'[u] = "copy" <=> stage[u] = "copy"
                             /\ stage'[u] = "release" <=> stage[u] = "release"
      BY <2>1
    <3>2. Trees => Trees'
      BY <2>1, <3>1, TreesStay
    <3>3. ValuesSound => ValuesSound'
      BY <2>1 DEF ValuesSound, SoundValue, Sound
    <3> QED
      BY <3>2, <3>3 DEF AtomInv
  <2>3. Turns => Turns'
    BY <2>1 DEF Turns, Engaged, Busy, NamedObjs, ObjsOf, Used
  <2> QED
    BY <1>1, <2>1, <2>2, <2>3 DEF AtomInv, Plain
<1> QED
  BY <1>5, <1>6

(* In every interleaving of requests and resets of every program: the      *)
(* state of fl_atom_reset and of the counted heap (math.c 187-222, gc.c    *)
(* 181-295) is of its types; where workers take turns at the atom, what it *)
(* holds is a tree of its own apart from the one a reset is releasing, and *)
(* the two are all of the counted heap; where moreover no value is kept    *)
(* over a reset, what a request can name of the heap is there.             *)
THEOREM AtomsInvariant == AtomsSpec => []AtomInv
  <1>1. AtomsInit => AtomInv BY AtomStart
  <1>2. AtomInv /\ [AtomsNext]_atomsVars => AtomInv' BY AtomKept
  <1> QED BY <1>1, <1>2, PTL DEF AtomsSpec

(* The values a program names, the atom's and those of a reset under way   *)
(* are values, and no count of a closure goes past the one where it sticks *)
(* (fl_heap_copy, gc.c 246-249).                                           *)
THEOREM AtomsTypes == AtomsSpec => []AtomsTypeOK
  <1>1. AtomInv => AtomsTypeOK BY DEF AtomInv
  <1> QED BY <1>1, AtomsInvariant, PTL

LEMMA TreeIsOwned == AtomInv => AtomOwnsItsValue
<1> SUFFICES ASSUME AtomInv, habits \cap {"share", "capture", "crowd"} = {},
                    \A t \in Workers : stage[t] # "release"
             PROVE  AtomOwnsItsValue
  BY DEF AtomOwnsItsValue
<1> DEFINE parts == <<atom>> \o IF IsColl(atom) THEN Parts(atom) ELSE <<>>
<1>1. AtomsTypeOK /\ ValuesSound /\ Trees /\ atom \in Members /\ Tree(atom)
  BY DEF AtomInv, Plain, Trees, AtomsTypeOK
<1>2. Elements(parts) = Whole(atom) /\ Differ(parts)
  BY <1>1, DroppedKinds DEF Dropped
<1> HIDE DEF parts
<1>3. \A w : Times(w, parts) = IF w \in Whole(atom) THEN 1 ELSE 0
  BY <1>2, TimesOnce DEF Differ
<1>4. ASSUME NEW v \in Whole(atom)
      PROVE  v.is \in {"obj", "fn"} /\ ~Gone(v)
  <2>1. v \in Members /\ v.is \in {"obj", "fn"}
    BY <1>1, TreeWhole
  <2>2. CASE v.is = "obj"
    <3>1. v = Obj(v.at) /\ v.at \in Addrs
      BY <2>1, <2>2, ValueKinds, Kinds
    <3>2. v.at \in Used
      BY <1>1, <3>1, TreeOwns DEF Owns
    <3> QED
      BY <2>2, <3>2 DEF Gone
  <2>3. CASE v.is = "fn"
    <3>1. v = Fn(v.fn) /\ v.fn \in Fns
      BY <2>1, <2>3, ValueKinds, Kinds
    <3>2. SoundValue(v)
      BY <1>1, <2>3, <3>1, WholeMade DEF SoundValue
    <3> QED
      BY <1>1, <2>1, <2>3, <3>2, MadeCounted, Kinds
  <2> QED
    BY <2>1, <2>2, <2>3
<1>5. ASSUME NEW v \in Whole(atom), NEW w \in Elements(Parts(v)) PROVE w \in Whole(atom)
  <2>1. v \in Members /\ v.is \in {"obj", "fn"}
    BY <1>1, TreeWhole
  <2>2. CASE v.is = "fn"
    <3>1. Parts(v) = <<>>
      BY <1>1, <2>1, <2>2, PartsKinds, ValueKinds, Kinds DEF ValuesSound
    <3> QED
      BY <3>1 DEF Elements
  <2>3. CASE v.is = "obj" /\ v = atom
    <3>1. IsColl(v)
      <4>1. v.at \in Addrs /\ Parts(v) = heap[v.at].kids
        BY <1>1, <2>1, <2>3, ValueKinds, Kinds, PartsKinds
      <4>2. Parts(v) # <<>>
        BY DEF Elements
      <4> QED
        BY <1>1, <2>3, <4>1, <4>2 DEF ValuesSound, IsColl
    <3> QED
      BY <2>3, <3>1 DEF Whole
  <2>4. CASE v.is = "obj" /\ v # atom
    <3>1. IsColl(atom) /\ v \in Elements(Parts(atom))
      BY <2>4 DEF Whole
    <3>2. atom.is = "obj" /\ Parts(atom) = heap[atom.at].kids
      BY <1>1, <3>1 DEF Tree, IsColl, Parts
    <3>3. heap[v.at].kind = "leaf" /\ v.at \in Addrs
      BY <1>1, <2>4, <3>1, <3>2 DEF Tree, Elements, Used
    <3>4. Parts(v) = <<>>
      BY <1>1, <2>1, <2>4, <3>3, PartsKinds, Kinds DEF ValuesSound
    <3> QED
      BY <3>4 DEF Elements
  <2> QED
    BY <2>1, <2>2, <2>3, <2>4
<1>6. \A v \in Elements(parts) : \A w \in {v} \cup Elements(Parts(v)) :
         w.is \in {"obj", "fn"} /\ ~Gone(w)
  BY <1>2, <1>4, <1>5
<1>7. \A a \in Used : Times(Obj(a), parts) = 1
  BY <1>1, <1>3 DEF Trees, Owns
<1>8. \A f \in Fns : fn[f].made => fn[f].rc = 1 + Times(Fn(f), parts)
  BY <1>1, <1>3 DEF Trees, Holders
<1> QED
  BY <1>6, <1>7, <1>8 DEF AtomOwnsItsValue, parts

(* However many workers reset an atom, in turns and with values of their   *)
(* requests: between resets all of its value is on the counted heap, each  *)
(* part once, nothing else is there, and the count of a closure is its     *)
(* maker's reference and the atom's (fl_heap_copy, fl_heap_release, gc.c   *)
(* 181-295; fl_atom_reset, math.c 205-222).                                *)
THEOREM AtomsOwnTheirValue == AtomsSpec => []AtomOwnsItsValue
  <1>1. AtomInv => AtomOwnsItsValue BY TreeIsOwned
  <1> QED BY <1>1, AtomsInvariant, PTL

(* A program with none of the habits never reads memory that a reset has   *)
(* freed, and no reset frees anything twice, in any interleaving of any    *)
(* number of workers (gc.c 181-295, math.c 187-222).                       *)
THEOREM AtomsNoMisuse == AtomsSpec => []NoMisuse
  <1>1. AtomInv => NoMisuse BY DEF AtomInv, Turns, NoMisuse
  <1> QED BY <1>1, AtomsInvariant, PTL
=============================================================================
