----------------------------- MODULE ConnService -----------------------------
(***************************************************************************)
(* What the HTTP server of runtime/http.c promises to its clients, with no *)
(* threads, locks or condition variables: a connection is either turned    *)
(* away with a 503, and only when the server is full, or admitted to a     *)
(* first-in-first-out backlog, taken by exactly one server at a time and   *)
(* served once.  WorkerPool implements this specification.                 *)
(***************************************************************************)
EXTENDS Naturals, Sequences, FiniteSets

CONSTANTS Conns,           (* the client connections                         *)
          MaxConnections,  (* waiting plus busy connections (MAX_CONNECTIONS) *)
          QueueCap         (* waiting connections (FL_QUEUE)                 *)

VARIABLES backlog,         (* the admitted connections nobody serves yet     *)
          stage            (* where each connection is in its life           *)

vars == <<backlog, stage>>

Stages == {"outside", "waiting", "busy", "served", "refused"}

Busy == {c \in Conns : stage[c] = "busy"}

(* The two limits of the accept loop: all connections, and the queue.      *)
Full == \/ Len(backlog) + Cardinality(Busy) >= MaxConnections
        \/ Len(backlog) >= QueueCap

Init == /\ backlog = <<>>
        /\ stage = [c \in Conns |-> "outside"]

Admit(c) == /\ stage[c] = "outside"
            /\ ~Full
            /\ backlog' = Append(backlog, c)
            /\ stage' = [stage EXCEPT ![c] = "waiting"]

Refuse(c) == /\ stage[c] = "outside"
             /\ Full
             /\ stage' = [stage EXCEPT ![c] = "refused"]
             /\ UNCHANGED backlog

(* The oldest waiting connection is the next to be served.                 *)
Start == /\ backlog # <<>>
         /\ stage' = [stage EXCEPT ![Head(backlog)] = "busy"]
         /\ backlog' = Tail(backlog)

Finish(c) == /\ stage[c] = "busy"
             /\ stage' = [stage EXCEPT ![c] = "served"]
             /\ UNCHANGED backlog

Next == \/ Start
        \/ \E c \in Conns : Admit(c) \/ Refuse(c) \/ Finish(c)

Spec == Init /\ [][Next]_vars
=============================================================================
