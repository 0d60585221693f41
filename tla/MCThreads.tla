------------------------------ MODULE MCThreads ------------------------------
(* Objects that threads hold by a number or an address, for TLC, side by    *)
(* side: a future, and the descriptors of connections.  They share no       *)
(* state, so a behaviour is one of the two.                                 *)
EXTENDS Future, Connection

VARIABLE part

MCPrograms == Uses
AllServers == SUBSET Features
SseServers == {{"sse"}}

\* the part that stands still has one initial state, with nothing to be done
ThreadsInit ==
    /\ part \in {"future", "connections"}
    /\ Init /\ ConnInit
    /\ part # "future" => program = "once" /\ yields = Nil /\ ~started
    /\ part # "connections" => server = {}

ThreadsNext ==
    /\ \/ part = "future" /\ Next /\ UNCHANGED connVars
       \/ part = "connections" /\ ConnNext /\ UNCHANGED vars
    /\ UNCHANGED part

ThreadsSpec ==
    /\ ThreadsInit /\ [][ThreadsNext]_<<part, vars, connVars>>
    /\ Fairness /\ ConnFairness
=============================================================================
