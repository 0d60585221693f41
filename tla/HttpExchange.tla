---------------------------- MODULE HttpExchange ----------------------------
(***************************************************************************)
(* What one HTTP connection promises its client, with no bytes, buffers or *)
(* timeouts: the answers come in the order of the requests, one for each,  *)
(* never one nobody asked for, and none after the exchange is over.        *)
(* HttpStream implements this specification for a client that waits.       *)
(***************************************************************************)
EXTENDS Naturals, Sequences

CONSTANT MaxAsked      (* bound: the requests of one connection              *)

VARIABLES asked,       (* how many requests the client has made              *)
          replies,     (* the requests answered, in the order of the answers *)
          over         (* whether the server has said or made its end        *)

vars == <<asked, replies, over>>

Init == /\ asked = 0
        /\ replies = <<>>
        /\ over = FALSE

Ask == /\ asked < MaxAsked
       /\ asked' = asked + 1
       /\ UNCHANGED <<replies, over>>

Answer == /\ ~over
          /\ Len(replies) < asked
          /\ replies' = Append(replies, Len(replies) + 1)
          /\ over' \in BOOLEAN
          /\ UNCHANGED asked

End == /\ over' = TRUE
       /\ UNCHANGED <<asked, replies>>

Next == Ask \/ Answer \/ End

Spec == Init /\ [][Next]_vars
=============================================================================
