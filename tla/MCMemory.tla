------------------------------ MODULE MCMemory ------------------------------
(* The arena, the atoms and the database connections for TLC, side by      *)
(* side: they share no state, so a behaviour is one of the three.           *)
EXTENDS Arena, Atoms, DbPool, TLC

VARIABLE part

MCLibraries == {"sqlite", "mariadb"}
MCPrograms == {{}, {"close"}}

\* well-behaved programs, and one closure more often than its count can tell
MCHabits == {{}, {"crowd"}}

Symmetry == Permutations(Threads) \cup Permutations(Keys)

\* the parts that stand still have one initial state
MemoryInit ==
    /\ part \in {"arena", "atoms", "databases"}
    /\ ArenaInit /\ AtomsInit /\ Init
    /\ part # "atoms" => habits = {}
    /\ part # "databases" =>
          library = "sqlite" /\ program = {} /\ \A t, u \in Threads : want[t] = want[u]

MemoryNext ==
    /\ \/ part = "arena" /\ ArenaNext /\ UNCHANGED <<atomsVars, vars>>
       \/ part = "atoms" /\ AtomsNext /\ UNCHANGED <<arenaVars, vars>>
       \/ part = "databases" /\ Next /\ UNCHANGED <<arenaVars, atomsVars>>
    /\ UNCHANGED part

MemorySpec == MemoryInit /\ [][MemoryNext]_<<part, arenaVars, atomsVars, vars>>
=============================================================================
