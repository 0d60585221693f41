----------------------------- MODULE WorkerPool -----------------------------
(***************************************************************************)
(* The thread pool, the accept loop and the graceful shutdown of           *)
(* runtime/http.c: server_start runs in the main thread, worker_loop in    *)
(* the workers and handle_shutdown_signal in whatever thread SIGTERM or    *)
(* SIGINT reaches, concurrently with all of them.                          *)
(*                                                                         *)
(* g_pool.lock is held across two steps only while a worker has found the  *)
(* queue empty and is about to call pthread_cond_wait (wpc = "sleep"):     *)
(* every other critical section is one action, enabled when LockFree.      *)
(* The handler takes no lock, so its steps interleave with that window.    *)
(***************************************************************************)
EXTENDS Naturals, Sequences, FiniteSets

CONSTANTS Workers,         (* the threads pool_init tries to create          *)
          Conns,           (* the client connections of one execution        *)
          Signals,         (* the shutdown signals of one execution          *)
          MaxConnections,  (* MAX_CONNECTIONS                                *)
          QueueCap,        (* g_pool.queue_cap                               *)
          None             (* no connection                                  *)

ASSUME PoolAssumption ==
    /\ IsFiniteSet(Workers)
    /\ MaxConnections \in Nat \ {0}
    /\ QueueCap \in Nat \ {0}
    /\ None \notin Conns

VARIABLES queue,     (* g_pool.head .. g_pool.tail                           *)
          queueLen,  (* g_pool.queue_len                                     *)
          active,    (* g_pool.active                                        *)
          shutdown,  (* g_pool.shutdown                                      *)
          wpc,       (* where each worker is in worker_loop                  *)
          cur,       (* the connection a worker handles, or None             *)
          mpc,       (* where the main thread is in server_start             *)
          held,      (* the client_fd the accept loop holds, or None         *)
          conn,      (* what became of each connection                       *)
          listener,  (* the listening socket of the operating system         *)
          gfd,       (* g_server_fd >= 0                                     *)
          spc        (* where each signal's handler is                       *)

poolVars == <<queue, queueLen, active>>
sockVars == <<listener, gfd>>
vars == <<queue, queueLen, active, shutdown, wpc, cur, mpc, held, conn,
          listener, gfd, spc>>

WorkerStates == {"unborn", "start", "sleep", "waiting", "serving", "done",
                 "exited"}
MainStates == {"spawn", "socket", "bind", "loop", "accept", "enqueue", "close",
               "clear", "stop", "draining", "unlocked", "joining", "returned", "failed"}
ConnStates == {"pending", "accepted", "queued", "serving", "closed", "refused"}
SignalStates == {"idle", "test", "close", "clear", "wake", "handled"}

LockFree == \A w \in Workers : wpc[w] # "sleep"
Waiting == {w \in Workers : wpc[w] = "waiting"}
Born == {w \in Workers : wpc[w] # "unborn"}
InService == {w \in Workers : wpc[w] \in {"serving", "done"}}

\* The state pool_init leaves.  A signal that comes between the installation of
\* the handlers (http.c:1041-1043) and the reset of the flag (http.c:982) is
\* lost in the code: it is before this state, and no behaviour has it.
Init == /\ queue = <<>>
        /\ queueLen = 0
        /\ active = 0
        /\ shutdown = FALSE
        /\ wpc = [w \in Workers |-> "unborn"]
        /\ cur = [w \in Workers |-> None]
        /\ mpc = "spawn"
        /\ held = None
        /\ conn = [c \in Conns |-> "pending"]
        /\ listener = "none"
        /\ gfd = FALSE
        /\ spc = [s \in Signals |-> "idle"]

-----------------------------------------------------------------------------
(* Waking workers: a signal takes one waiter, if there is one, and a       *)
(* broadcast takes them all; a woken worker has to take the lock again.    *)

WakeOneForgotten == UNCHANGED wpc   \* mutant: enqueue without a signal

WakeOne == IF Waiting = {} THEN UNCHANGED wpc
           ELSE \E w \in Waiting : wpc' = [wpc EXCEPT ![w] = "start"]

WakeAll == wpc' = [w \in Workers |->
                     IF wpc[w] = "waiting" THEN "start" ELSE wpc[w]]

-----------------------------------------------------------------------------
(* worker_loop                                                             *)

\* mutant: the wait loop tests the queue but not g_pool.shutdown
WIdleDeaf(w) == /\ wpc[w] = "start" /\ LockFree
                /\ queue = <<>>
                /\ wpc' = [wpc EXCEPT ![w] = "sleep"]
                /\ UNCHANGED <<poolVars, shutdown, cur, mpc, held, conn, sockVars, spc>>

(* The queue is empty and nobody asked to stop: go to sleep, still locked. *)
WIdle(w) == /\ wpc[w] = "start" /\ LockFree
            /\ queue = <<>> /\ ~shutdown
            /\ wpc' = [wpc EXCEPT ![w] = "sleep"]
            /\ UNCHANGED <<poolVars, shutdown, cur, mpc, held, conn, sockVars, spc>>

(* pthread_cond_wait: unlock and start to wait in one step.                *)
WWait(w) == /\ wpc[w] = "sleep"
            /\ wpc' = [wpc EXCEPT ![w] = "waiting"]
            /\ UNCHANGED <<poolVars, shutdown, cur, mpc, held, conn, sockVars, spc>>

(* pthread_cond_wait may return with no signal.                            *)
WSpurious(w) == /\ wpc[w] = "waiting"
                /\ wpc' = [wpc EXCEPT ![w] = "start"]
                /\ UNCHANGED <<poolVars, shutdown, cur, mpc, held, conn, sockVars, spc>>

\* mutant: a worker leaves at the flag, without draining the queue
WExitEager(w) == /\ wpc[w] = "start" /\ LockFree
                 /\ shutdown
                 /\ wpc' = [wpc EXCEPT ![w] = "exited"]
                 /\ UNCHANGED <<poolVars, shutdown, cur, mpc, held, conn, sockVars, spc>>

WExit(w) == /\ wpc[w] = "start" /\ LockFree
            /\ queue = <<>> /\ shutdown
            /\ wpc' = [wpc EXCEPT ![w] = "exited"]
            /\ UNCHANGED <<poolVars, shutdown, cur, mpc, held, conn, sockVars, spc>>

\* mutant: the item is read but not unlinked
WTakeUnlinked(w) == /\ wpc[w] = "start" /\ LockFree
                    /\ queue # <<>>
                    /\ active' = active + 1
                    /\ cur' = [cur EXCEPT ![w] = Head(queue)]
                    /\ conn' = [conn EXCEPT ![Head(queue)] = "serving"]
                    /\ wpc' = [wpc EXCEPT ![w] = "serving"]
                    /\ UNCHANGED <<queue, queueLen, shutdown, mpc, held, sockVars, spc>>

WTake(w) == /\ wpc[w] = "start" /\ LockFree
            /\ queue # <<>>
            /\ queue' = Tail(queue)
            /\ queueLen' = queueLen - 1
            /\ active' = active + 1
            /\ cur' = [cur EXCEPT ![w] = Head(queue)]
            /\ conn' = [conn EXCEPT ![Head(queue)] = "serving"]
            /\ wpc' = [wpc EXCEPT ![w] = "serving"]
            /\ UNCHANGED <<shutdown, mpc, held, sockVars, spc>>

(* handle_connection runs without the lock and ends by closing the socket. *)
WServe(w) == /\ wpc[w] = "serving"
             /\ conn' = [conn EXCEPT ![cur[w]] = "closed"]
             /\ wpc' = [wpc EXCEPT ![w] = "done"]
             /\ UNCHANGED <<poolVars, shutdown, cur, mpc, held, sockVars, spc>>

(* The broadcast of cond_drain is left out: see MDrained.                  *)
WRelease(w) == /\ wpc[w] = "done" /\ LockFree
               /\ active' = active - 1
               /\ cur' = [cur EXCEPT ![w] = None]
               /\ wpc' = [wpc EXCEPT ![w] = "start"]
               /\ UNCHANGED <<queue, queueLen, shutdown, mpc, held, conn, sockVars, spc>>

Worker(w) == \/ WIdle(w) \/ WWait(w) \/ WSpurious(w) \/ WExit(w)
             \/ WTake(w) \/ WServe(w) \/ WRelease(w)

-----------------------------------------------------------------------------
(* handle_shutdown_signal                                                  *)

SFlag(s) == /\ spc[s] = "idle"
            /\ shutdown' = TRUE
            /\ spc' = [spc EXCEPT ![s] = "test"]
            /\ UNCHANGED <<poolVars, wpc, cur, mpc, held, conn, sockVars>>

STest(s) == /\ spc[s] = "test"
            /\ spc' = [spc EXCEPT ![s] = IF gfd THEN "close" ELSE "wake"]
            /\ UNCHANGED <<poolVars, shutdown, wpc, cur, mpc, held, conn, sockVars>>

(* g_server_fd is read again here: closing -1 does nothing.                *)
SClose(s) == /\ spc[s] = "close"
             /\ listener' = IF gfd THEN "closed" ELSE listener
             /\ spc' = [spc EXCEPT ![s] = "clear"]
             /\ UNCHANGED <<poolVars, shutdown, wpc, cur, mpc, held, conn, gfd>>

SClear(s) == /\ spc[s] = "clear"
             /\ gfd' = FALSE
             /\ spc' = [spc EXCEPT ![s] = "wake"]
             /\ UNCHANGED <<poolVars, shutdown, wpc, cur, mpc, held, conn, listener>>

(* The broadcast is made without g_pool.lock.                              *)
SWake(s) == /\ spc[s] = "wake"
            /\ WakeAll
            /\ spc' = [spc EXCEPT ![s] = "handled"]
            /\ UNCHANGED <<poolVars, shutdown, cur, mpc, held, conn, sockVars>>

Handler(s) == SFlag(s) \/ STest(s) \/ SClose(s) \/ SClear(s) \/ SWake(s)

-----------------------------------------------------------------------------
(* pool_init and server_start                                              *)

MSpawn == /\ mpc = "spawn"
          /\ \E w \in Workers : /\ wpc[w] = "unborn"
                                /\ wpc' = [wpc EXCEPT ![w] = "start"]
          /\ UNCHANGED <<poolVars, shutdown, cur, mpc, held, conn, sockVars, spc>>

(* All workers run, or pthread_create failed: the pool keeps what it has.  *)
MSpawned == /\ mpc = "spawn"
            /\ mpc' = "socket"
            /\ UNCHANGED <<poolVars, shutdown, wpc, cur, held, conn, sockVars, spc>>

MSocket == /\ mpc = "socket"
           /\ listener' = "open"
           /\ gfd' = TRUE
           /\ mpc' = "bind"
           /\ UNCHANGED <<poolVars, shutdown, wpc, cur, held, conn, spc>>

MBind == /\ mpc = "bind"
         /\ listener = "open"
         /\ mpc' = "loop"
         /\ UNCHANGED <<poolVars, shutdown, wpc, cur, held, conn, sockVars, spc>>

(* socket() or bind() fails, as bind does when the handler has closed the  *)
(* socket: server_start returns, the workers stay, and after a failed bind *)
(* g_server_fd still names the closed socket.                              *)
MOpenFails == /\ mpc \in {"socket", "bind"}
              /\ listener' = IF mpc = "bind" THEN "closed" ELSE listener
              /\ mpc' = "failed"
              /\ UNCHANGED <<poolVars, shutdown, wpc, cur, held, conn, gfd, spc>>

MLoop == /\ mpc = "loop"
         /\ mpc' = IF shutdown THEN "close" ELSE "accept"
         /\ UNCHANGED <<poolVars, shutdown, wpc, cur, held, conn, sockVars, spc>>

MAccept == /\ mpc = "accept"
           /\ listener = "open"
           /\ \E c \in Conns : /\ conn[c] = "pending"
                               /\ held' = c
                               /\ conn' = [conn EXCEPT ![c] = "accepted"]
           /\ mpc' = "enqueue"
           /\ UNCHANGED <<poolVars, shutdown, wpc, cur, sockVars, spc>>

(* accept() fails: EINTR tries again; any other error, such as EMFILE or a *)
(* listener the handler closed, leaves the loop.                           *)
MAcceptFails == /\ mpc = "accept"
                /\ \/ mpc' = "loop" /\ listener = "open"
                   \/ mpc' = "close"
                /\ UNCHANGED <<poolVars, shutdown, wpc, cur, held, conn, sockVars, spc>>

\* mutant: FL_QUEUE is not looked at
AtLimitTotalOnly == queueLen + active >= MaxConnections

AtLimit == \/ queueLen + active >= MaxConnections
           \/ queueLen >= QueueCap

MRefuse == /\ mpc = "enqueue" /\ LockFree
           /\ AtLimit
           /\ conn' = [conn EXCEPT ![held] = "refused"]
           /\ held' = None
           /\ mpc' = "loop"
           /\ UNCHANGED <<poolVars, shutdown, wpc, cur, sockVars, spc>>

\* mutant: queue_len is not counted up
MEnqueueUncounted == /\ mpc = "enqueue" /\ LockFree
                     /\ ~AtLimit
                     /\ queue' = Append(queue, held)
                     /\ conn' = [conn EXCEPT ![held] = "queued"]
                     /\ held' = None
                     /\ WakeOne
                     /\ mpc' = "loop"
                     /\ UNCHANGED <<queueLen, active, shutdown, cur, sockVars, spc>>

MEnqueue == /\ mpc = "enqueue" /\ LockFree
            /\ ~AtLimit
            /\ queue' = Append(queue, held)
            /\ queueLen' = queueLen + 1
            /\ conn' = [conn EXCEPT ![held] = "queued"]
            /\ held' = None
            /\ WakeOne
            /\ mpc' = "loop"
            /\ UNCHANGED <<active, shutdown, cur, sockVars, spc>>

(* After the loop: if (g_server_fd >= 0) { close; g_server_fd = -1; }      *)
MClose == /\ mpc = "close"
          /\ IF gfd THEN /\ listener' = "closed"
                         /\ mpc' = "clear"
                    ELSE /\ mpc' = "stop"
                         /\ UNCHANGED listener
          /\ UNCHANGED <<poolVars, shutdown, wpc, cur, held, conn, gfd, spc>>

MClear == /\ mpc = "clear"
          /\ gfd' = FALSE
          /\ mpc' = "stop"
          /\ UNCHANGED <<poolVars, shutdown, wpc, cur, held, conn, listener, spc>>

-----------------------------------------------------------------------------
(* pool_shutdown                                                           *)

(* Here the broadcast is made under the lock: no worker is between its     *)
(* test of the queue and its wait.                                         *)
MStop == /\ mpc = "stop" /\ LockFree
         /\ shutdown' = TRUE
         /\ WakeAll
         /\ mpc' = IF active > 0 \/ queueLen > 0 THEN "draining" ELSE "unlocked"
         /\ UNCHANGED <<poolVars, cur, held, conn, sockVars, spc>>

(* The one pthread_cond_timedwait on cond_drain returns: by a broadcast of *)
(* a worker, by the timeout or spuriously; no test follows, whichever it   *)
(* was.                                                                    *)
MDrained == /\ mpc = "draining" /\ LockFree
            /\ mpc' = "unlocked"
            /\ UNCHANGED <<poolVars, shutdown, wpc, cur, held, conn, sockVars, spc>>

MRebroadcast == /\ mpc = "unlocked"
                /\ WakeAll
                /\ mpc' = "joining"
                /\ UNCHANGED <<poolVars, shutdown, cur, held, conn, sockVars, spc>>

(* pthread_join on every worker, without a time limit.                     *)
MJoined == /\ mpc = "joining"
           /\ \A w \in Born : wpc[w] = "exited"
           /\ mpc' = "returned"
           /\ UNCHANGED <<poolVars, shutdown, wpc, cur, held, conn, sockVars, spc>>

Main == \/ MSpawn \/ MSpawned \/ MSocket \/ MBind \/ MOpenFails \/ MLoop
        \/ MAccept \/ MAcceptFails \/ MRefuse \/ MEnqueue \/ MClose \/ MClear \/ MStop
        \/ MDrained \/ MRebroadcast \/ MJoined

(* server_start has returned: nothing is left to happen.                   *)
Terminated == /\ mpc \in {"returned", "failed"}
              /\ UNCHANGED vars

Next == \/ \E w \in Workers : Worker(w)
        \/ \E s \in Signals : Handler(s)
        \/ Main
        \/ Terminated

Spec == Init /\ [][Next]_vars

-----------------------------------------------------------------------------
(* Fairness.  A runnable thread runs (weak fairness of each thread), and a *)
(* thread that asks for g_pool.lock again and again gets it (strong        *)
(* fairness of the steps that take the lock).  accept() has to fail once    *)
(* its socket is closed, and owes nothing before; spurious wakeups,        *)
(* arriving clients and signals never have to happen.                      *)

Scheduling ==
    /\ \A w \in Workers : /\ SF_vars(WIdle(w) \/ WExit(w) \/ WTake(w))
                          /\ SF_vars(WRelease(w))
                          /\ WF_vars(WWait(w))
    /\ \A s \in Signals : WF_vars(STest(s) \/ SClose(s) \/ SClear(s) \/ SWake(s))
    /\ WF_vars(\/ MSpawned \/ MSocket \/ MBind \/ MOpenFails \/ MLoop
               \/ MClose \/ MClear \/ MRebroadcast \/ MJoined)
    /\ WF_vars(MAcceptFails /\ listener = "closed")
    /\ SF_vars(MRefuse \/ MEnqueue)
    /\ SF_vars(MStop)
    /\ SF_vars(MDrained)

(* Every request handler ends: recv and send have their timeouts, but the  *)
(* application code a route or a WebSocket runs has none.                  *)
HandlersEnd == \A w \in Workers : WF_vars(WServe(w))

FairSpec == Spec /\ Scheduling /\ HandlersEnd

-----------------------------------------------------------------------------
(* Properties                                                              *)

(* The values the variables of http.c's pool and server_start can have.    *)
TypeOK ==
    /\ queue \in Seq(Conns)
    /\ queueLen \in Nat
    /\ active \in Nat
    /\ shutdown \in BOOLEAN
    /\ wpc \in [Workers -> WorkerStates]
    /\ cur \in [Workers -> Conns \cup {None}]
    /\ mpc \in MainStates
    /\ held \in Conns \cup {None}
    /\ conn \in [Conns -> ConnStates]
    /\ listener \in {"none", "open", "closed"}
    /\ gfd \in BOOLEAN
    /\ spc \in [Signals -> SignalStates]

(* queue_len and active, which the accept loop trusts for its limit and    *)
(* pool_shutdown for its wait, are the length of the list and the number   *)
(* of workers between taking a connection and giving it back.              *)
CountersMatch == /\ queueLen = Len(queue)
                 /\ active = Cardinality(InService)

(* The server never holds more connections than MAX_CONNECTIONS, nor more  *)
(* waiting ones than FL_QUEUE, whatever the workers do in between.         *)
WithinLimits == /\ Len(queue) + Cardinality(InService) <= MaxConnections
                /\ Len(queue) <= QueueCap

(* One socket never reaches two workers, and none is taken or closed while *)
(* it still is in the queue.                                               *)
OneOwner ==
    /\ \A i, j \in 1..Len(queue) : queue[i] = queue[j] => i = j
    /\ \A i \in 1..Len(queue) : conn[queue[i]] = "queued"
    /\ \A v, w \in InService : cur[v] = cur[w] => v = w
    /\ \A w \in Workers : wpc[w] = "serving" => conn[cur[w]] = "serving"

(* No lost wakeup: workers never all sleep on cond_work while a connection *)
(* waits in the queue.                                                     *)
NoLostWakeup ==
    queue # <<>> /\ Waiting # {} =>
        \E w \in Workers : wpc[w] \in {"start", "serving", "done"}

(* A worker leaves only after draining the queue, and the accept loop adds *)
(* at most the one connection it was accepting: server_start never returns *)
(* with two connections nobody serves.                                     *)
AtMostOneStranded ==
    mpc = "returned" /\ Born # {} => Len(queue) <= 1

(* What a client sees of a connection.  It is busy from the moment a       *)
(* worker takes it until the worker gives it back, even when its socket is *)
(* closed before that.                                                     *)
StageOf(c) ==
    IF \E w \in Workers : cur[w] = c THEN "busy"
    ELSE IF conn[c] = "queued" THEN "waiting"
    ELSE IF conn[c] = "closed" THEN "served"
    ELSE IF conn[c] = "refused" THEN "refused" ELSE "outside"

Service == INSTANCE ConnService WITH backlog <- queue,
                                     stage <- [c \in Conns |-> StageOf(c)]

(* The pool implements ConnService: first in, first out, a 503 only at one *)
(* of the two limits, each admitted connection served once and only once   *)
(* (http.c:917-942, 1089-1107).                                            *)
ImplementsService == Service!Spec

(* Graceful: what was in the queue before the shutdown flag is served.     *)
QueuedIsServed ==
    \A c \in Conns :
        (conn[c] = "queued" /\ ~shutdown /\ Born # {}) ~> (conn[c] = "closed")

(* When every handler ends, a shutdown ends: server_start returns.         *)
ShutdownCompletes == shutdown ~> (mpc \in {"returned", "failed"})
=============================================================================
