------------------------------- MODULE Arena --------------------------------
(***************************************************************************)
(* gc.c 34-127: the arena of a thread, a list of chunks that requests fill *)
(* from the front and leave for the next one.  Sizes are in words of 8     *)
(* bytes, to which they are rounded up.                                    *)
(***************************************************************************)
EXTENDS Naturals, Sequences

CONSTANTS
    ChunkSize,  \* ARENA_CHUNK_SIZE
    Header,     \* sizeof(ArenaChunk)
    Sizes,      \* sizes of objects
    MaxChunks   \* bound: chunks of the arena

ASSUME ArenaAssumption ==
    /\ ChunkSize \in Nat /\ Header \in Nat
    /\ Sizes \subseteq Nat

VARIABLES
    chunks,     \* the list from g_arena->first on: capacity and use of each
    head,       \* the current chunk, 0 when the thread has no arena
    objects     \* what was allocated since the last reset, and where

arenaVars == <<chunks, head, objects>>

Chunks == [cap : Nat, used : Nat]

ArenaTypeOK ==
    /\ chunks \in Seq(Chunks)
    /\ head \in 0 .. Len(chunks)
    /\ objects \subseteq [chunk : Nat, off : Nat, size : Nat]

ArenaInit == chunks = <<>> /\ head = 0 /\ objects = {}

\* arena_new_chunk
NewChunk(size) ==
    [cap |-> IF size + Header > ChunkSize THEN size + Header ELSE ChunkSize, used |-> size]

\* every chunk is empty again, the first one is current
Reset ==
    /\ chunks' = [i \in DOMAIN chunks |-> [chunks[i] EXCEPT !.used = 0]]
    /\ head' = 1
    /\ objects' = {}

\* fl_arena_begin of a thread's first request
Create ==
    /\ head = 0
    /\ chunks' = <<NewChunk(0)>>
    /\ head' = 1
    /\ UNCHANGED objects

\* fl_arena_begin of its next ones, fl_arena_end
BeginOrEnd == head # 0 /\ Reset

\* fl_arena_destroy
Destroy ==
    /\ head # 0
    /\ chunks' = <<>> /\ head' = 0 /\ objects' = {}

\* mutant: any room in the chunk will do
FitsAny(size) == chunks[head].used < chunks[head].cap

Fits(size) == chunks[head].used + size <= chunks[head].cap

Bump(size) ==
    /\ objects' = objects \cup {[chunk |-> head, off |-> chunks[head].used, size |-> size]}
    /\ chunks' = [chunks EXCEPT ![head].used = @ + size]
    /\ UNCHANGED head

\* the next chunk, whatever its capacity, or a new one
Advance(size) ==
    /\ chunks' = IF head < Len(chunks) THEN [chunks EXCEPT ![head + 1].used = size]
                 ELSE Append(chunks, NewChunk(size))
    /\ head' = head + 1
    /\ objects' = objects \cup {[chunk |-> head + 1, off |-> 0, size |-> size]}

\* fl_arena_alloc with an arena
Alloc(size) ==
    /\ head # 0
    /\ \/ Fits(size) /\ Bump(size)
       \/ ~Fits(size) /\ head < MaxChunks /\ Advance(size)

ArenaNext == Create \/ BeginOrEnd \/ Destroy \/ \E size \in Sizes : Alloc(size)

ArenaSpec == ArenaInit /\ [][ArenaNext]_arenaVars

(***************************************************************************)
(* Properties.                                                             *)
(***************************************************************************)

\* No two objects that are alive at the same time overlap, and every object no
\* larger than a chunk lies within its chunk, whatever chunks earlier requests
\* have left (gc.c:81-107).  (A larger one is written past the end of a chunk
\* of the usual size, when that comes next in the list.)
Apart(o, p) == o.off + o.size <= p.off \/ p.off + p.size <= o.off
InBounds ==
    /\ \A o, p \in objects : o.chunk = p.chunk => o = p \/ Apart(o, p)
    /\ \A o \in objects :
          o.size <= ChunkSize => o.off + o.size <= chunks[o.chunk].cap
=============================================================================
