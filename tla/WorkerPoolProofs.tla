-------------------------- MODULE WorkerPoolProofs --------------------------
(***************************************************************************)
(* Proofs about WorkerPool, for any number of workers, connections and     *)
(* signals and any limits.  The inductive invariant adds to the properties *)
(* what they rest on: where the connection held by each thread comes from, *)
(* that a worker about to wait has seen an empty queue, and how little can *)
(* be enqueued once the first worker has left.                             *)
(***************************************************************************)
EXTENDS WorkerPool, FiniteSetTheorems, TLAPS

(* A thread that is about to use a connection has one.                     *)
Held == /\ mpc = "enqueue" => held \in Conns
        /\ \A w \in Workers : wpc[w] = "serving" => cur[w] \in Conns

(* The counters equal what they count and respect the limits.              *)
Counted == /\ CountersMatch
           /\ queueLen + active <= MaxConnections
           /\ queueLen <= QueueCap

(* A worker on its way to wait still sees the empty queue it tested.       *)
SleepersSawEmpty == \A w \in Workers : wpc[w] = "sleep" => queue = <<>>

SomeExited == \E w \in Workers : wpc[w] = "exited"

(* Once a worker has left, the flag is set, and the queue stays empty but  *)
(* for what the accept loop already had in hand.                           *)
Draining == SomeExited => /\ shutdown
                          /\ Len(queue) <= 1
                          /\ mpc \in {"accept", "enqueue"} => queue = <<>>

Joined == mpc = "returned" => \A w \in Born : wpc[w] = "exited"

IInv == /\ TypeOK /\ Held /\ Counted /\ SleepersSawEmpty /\ NoLostWakeup
        /\ Draining /\ Joined

-----------------------------------------------------------------------------
(* The set of workers in service is finite, and changes by one worker at a *)
(* time, so that its cardinality is what active counts.                    *)

LEMMA InServiceFinite == IsFiniteSet(InService)
BY PoolAssumption, FS_Subset DEF InService

LEMMA InServiceGrows ==
    ASSUME NEW w \in Workers, TypeOK, wpc[w] = "start",
           wpc' = [wpc EXCEPT ![w] = "serving"]
    PROVE  Cardinality(InService') = Cardinality(InService) + 1
<1>1. InService' = InService \cup {w} /\ w \notin InService
  BY DEF InService, TypeOK
<1> QED
  BY <1>1, InServiceFinite, FS_AddElement

LEMMA InServiceShrinks ==
    ASSUME NEW w \in Workers, TypeOK, wpc[w] = "done",
           wpc' = [wpc EXCEPT ![w] = "start"]
    PROVE  /\ Cardinality(InService') = Cardinality(InService) - 1
           /\ Cardinality(InService) \in Nat \ {0}
<1>1. InService' = InService \ {w} /\ w \in InService
  BY DEF InService, TypeOK
<1>2. Cardinality(InService') = Cardinality(InService) - 1
  BY <1>1, InServiceFinite, FS_RemoveElement
<1>3. Cardinality(InService) \in Nat /\ Cardinality(InService) # 0
  BY <1>1, InServiceFinite, FS_CardinalityType, FS_EmptySet
<1> QED
  BY <1>2, <1>3

(* Waking threads, or moving them between states that are not in service,  *)
(* leaves the set as it is.                                                *)
LEMMA WakeAllKeepsService ==
    ASSUME TypeOK, WakeAll
    PROVE  wpc' \in [Workers -> WorkerStates] /\ InService' = InService
BY DEF TypeOK, WakeAll, InService, WorkerStates

LEMMA WakeOneKeepsService ==
    ASSUME TypeOK, WakeOne
    PROVE  wpc' \in [Workers -> WorkerStates] /\ InService' = InService
BY DEF TypeOK, WakeOne, Waiting, InService, WorkerStates

-----------------------------------------------------------------------------
(* The initial state satisfies the invariant.                              *)
LEMMA InitIInv == Init => IInv
<1> SUFFICES ASSUME Init PROVE IInv
  OBVIOUS
<1>1. InService = {} /\ Cardinality(InService) = 0
  BY FS_EmptySet DEF Init, InService
<1>2. TypeOK
  <2>1. queue \in Seq(Conns) /\ queueLen \in Nat /\ active \in Nat
    BY DEF Init
  <2>2. shutdown \in BOOLEAN /\ gfd \in BOOLEAN /\ listener \in {"none", "open", "closed"}
    BY Zenon DEF Init
  <2>3. /\ wpc \in [Workers -> WorkerStates]
        /\ cur \in [Workers -> Conns \cup {None}]
        /\ mpc \in MainStates /\ held \in Conns \cup {None}
    BY DEF Init, WorkerStates, MainStates
  <2>4. conn \in [Conns -> ConnStates] /\ spc \in [Signals -> SignalStates]
    BY DEF Init, ConnStates, SignalStates
  <2> QED
    BY <2>1, <2>2, <2>3, <2>4 DEF TypeOK
<1>3. Counted
  BY <1>1, PoolAssumption DEF Init, Counted, CountersMatch
<1> QED
  BY <1>2, <1>3 DEF Init, IInv, Held, SleepersSawEmpty, NoLostWakeup, Draining,
     SomeExited, Joined
-----------------------------------------------------------------------------
(* Every step of a worker preserves the invariant.                         *)
LEMMA WorkerIInv ==
    ASSUME IInv, NEW w \in Workers, Worker(w)
    PROVE  IInv'
<1> USE DEF IInv
<1>1. CASE WIdle(w)
  <2>1. TypeOK' /\ InService' = InService
    BY <1>1 DEF WIdle, TypeOK, poolVars, sockVars, InService, WorkerStates
  <2>2. Counted' /\ Held'
    BY <1>1, <2>1 DEF WIdle, poolVars, sockVars, Counted, CountersMatch, Held, TypeOK
  <2> QED
    BY <1>1, <2>1, <2>2 DEF WIdle, poolVars, SleepersSawEmpty, NoLostWakeup, Waiting,
       Draining, SomeExited, Joined, Born, TypeOK
<1>2. CASE WWait(w)
  <2>1. TypeOK' /\ InService' = InService
    BY <1>2 DEF WWait, TypeOK, poolVars, sockVars, InService, WorkerStates
  <2>2. Counted' /\ Held'
    BY <1>2, <2>1 DEF WWait, poolVars, sockVars, Counted, CountersMatch, Held, TypeOK
  <2> QED
    BY <1>2, <2>1, <2>2 DEF WWait, poolVars, SleepersSawEmpty, NoLostWakeup, Waiting,
       Draining, SomeExited, Joined, Born, TypeOK
<1>3. CASE WSpurious(w)
  <2>1. TypeOK' /\ InService' = InService
    BY <1>3 DEF WSpurious, TypeOK, poolVars, sockVars, InService, WorkerStates
  <2>2. Counted' /\ Held'
    BY <1>3, <2>1 DEF WSpurious, poolVars, sockVars, Counted, CountersMatch, Held, TypeOK
  <2> QED
    BY <1>3, <2>1, <2>2 DEF WSpurious, poolVars, SleepersSawEmpty, NoLostWakeup, Waiting,
       Draining, SomeExited, Joined, Born, TypeOK
<1>4. CASE WExit(w)
  <2>1. TypeOK' /\ InService' = InService
    BY <1>4 DEF WExit, TypeOK, poolVars, sockVars, InService, WorkerStates
  <2>2. Counted' /\ Held'
    BY <1>4, <2>1 DEF WExit, poolVars, sockVars, Counted, CountersMatch, Held, TypeOK
  <2> QED
    BY <1>4, <2>1, <2>2 DEF WExit, poolVars, SleepersSawEmpty, NoLostWakeup, Waiting,
       Draining, SomeExited, Joined, Born, TypeOK
<1>5. CASE WTake(w)
  <2>1. /\ Head(queue) \in Conns /\ Tail(queue) \in Seq(Conns)
        /\ Len(Tail(queue)) = Len(queue) - 1 /\ Len(queue) \in Nat \ {0}
    BY <1>5 DEF WTake, TypeOK
  <2>2. TypeOK'
    BY <1>5, <2>1 DEF WTake, TypeOK, sockVars, WorkerStates, ConnStates, Counted,
       CountersMatch
  <2>3. Counted'
    <3>1. Cardinality(InService') = Cardinality(InService) + 1
      BY <1>5, InServiceGrows DEF WTake
    <3> QED
      BY <1>5, <2>1, <3>1, PoolAssumption DEF WTake, Counted, CountersMatch, TypeOK
  <2>4. Held'
    BY <1>5, <2>1 DEF WTake, Held, TypeOK
  <2> QED
    BY <1>5, <2>1, <2>2, <2>3, <2>4 DEF WTake, LockFree, SleepersSawEmpty, NoLostWakeup,
       Waiting, Draining, SomeExited, Joined, Born, TypeOK
<1>6. CASE WServe(w)
  <2>1. TypeOK' /\ InService' = InService
    BY <1>6 DEF WServe, TypeOK, poolVars, sockVars, InService, WorkerStates, ConnStates,
       Held
  <2>2. Counted' /\ Held'
    BY <1>6, <2>1 DEF WServe, poolVars, sockVars, Counted, CountersMatch, Held, TypeOK
  <2> QED
    BY <1>6, <2>1, <2>2 DEF WServe, poolVars, SleepersSawEmpty, NoLostWakeup, Waiting,
       Draining, SomeExited, Joined, Born, TypeOK
<1>7. CASE WRelease(w)
  <2>1. /\ Cardinality(InService') = Cardinality(InService) - 1
        /\ Cardinality(InService) \in Nat \ {0}
    BY <1>7, InServiceShrinks DEF WRelease
  <2>2. TypeOK'
    BY <1>7, <2>1 DEF WRelease, TypeOK, sockVars, WorkerStates, Counted, CountersMatch
  <2>3. Counted' /\ Held'
    BY <1>7, <2>1, PoolAssumption DEF WRelease, sockVars, Counted, CountersMatch, Held,
       TypeOK
  <2> QED
    BY <1>7, <2>2, <2>3 DEF WRelease, SleepersSawEmpty, NoLostWakeup, Waiting,
       Draining, SomeExited, Joined, Born, TypeOK
<1> QED
  BY <1>1, <1>2, <1>3, <1>4, <1>5, <1>6, <1>7 DEF Worker

-----------------------------------------------------------------------------
(* Every step of a signal handler preserves the invariant: it takes no     *)
(* lock, but only raises the flag, closes the listener and wakes workers.  *)
LEMMA HandlerIInv ==
    ASSUME IInv, NEW s \in Signals, Handler(s)
    PROVE  IInv'
<1> USE DEF IInv
<1>1. CASE SFlag(s) \/ STest(s) \/ SClose(s) \/ SClear(s)
  <2>1. /\ UNCHANGED <<queue, queueLen, active, wpc, cur, mpc, held, conn>>
        /\ shutdown' \in {shutdown, TRUE}
    BY <1>1 DEF SFlag, STest, SClose, SClear, poolVars, sockVars
  <2>2. spc' \in [Signals -> SignalStates] /\ gfd' \in BOOLEAN
        /\ listener' \in {"none", "open", "closed"}
    BY <1>1 DEF SFlag, STest, SClose, SClear, sockVars, TypeOK, SignalStates
  <2>3. TypeOK'
    BY <2>1, <2>2 DEF TypeOK
  <2>4. Counted' /\ Held' /\ SleepersSawEmpty' /\ NoLostWakeup' /\ Joined'
    BY <2>1 DEF Counted, CountersMatch, InService, Held, SleepersSawEmpty, NoLostWakeup,
       Waiting, Joined, Born
  <2>5. Draining'
    BY <2>1 DEF Draining, SomeExited
  <2> QED
    BY <2>3, <2>4, <2>5
<1>2. CASE SWake(s)
  <2>1. wpc' \in [Workers -> WorkerStates] /\ InService' = InService
    BY <1>2, WakeAllKeepsService DEF SWake
  <2>2. TypeOK'
    BY <1>2, <2>1 DEF SWake, TypeOK, poolVars, sockVars, SignalStates
  <2>3. Counted'
    BY <1>2, <2>1 DEF SWake, poolVars, Counted, CountersMatch
  <2> QED
    BY <1>2, <2>2, <2>3 DEF SWake, WakeAll, poolVars, Held, SleepersSawEmpty,
       NoLostWakeup, Waiting, Draining, SomeExited, Joined, Born, TypeOK
<1> QED
  BY <1>1, <1>2 DEF Handler

-----------------------------------------------------------------------------
(* Every step of the main thread preserves the invariant.                  *)
LEMMA MainIInv ==
    ASSUME IInv, Main
    PROVE  IInv'
<1> USE DEF IInv
<1>1. CASE MSpawn
  <2>1. PICK w \in Workers : wpc[w] = "unborn" /\ wpc' = [wpc EXCEPT ![w] = "start"]
    BY <1>1 DEF MSpawn
  <2>2. TypeOK' /\ InService' = InService
    BY <1>1, <2>1 DEF MSpawn, TypeOK, poolVars, sockVars, InService, WorkerStates
  <2>3. Counted' /\ Held'
    BY <1>1, <2>1, <2>2 DEF MSpawn, poolVars, Counted, CountersMatch, Held, TypeOK
  <2> QED
    BY <1>1, <2>1, <2>2, <2>3 DEF MSpawn, poolVars, SleepersSawEmpty, NoLostWakeup,
       Waiting, Draining, SomeExited, Joined, Born, TypeOK
<1>2. CASE \/ MSpawned \/ MSocket \/ MBind \/ MOpenFails \/ MLoop \/ MAcceptFails
           \/ MClose \/ MClear \/ MDrained \/ MJoined
  <2>1. UNCHANGED <<queue, queueLen, active, shutdown, wpc, cur, held, conn, spc>>
    BY <1>2 DEF MSpawned, MSocket, MBind, MOpenFails, MLoop, MAcceptFails, MClose,
       MClear, MDrained, MJoined, poolVars, sockVars
  <2>2. /\ mpc' \in MainStates \ {"enqueue"} /\ gfd' \in BOOLEAN
        /\ listener' \in {"none", "open", "closed"}
    BY <1>2 DEF MSpawned, MSocket, MBind, MOpenFails, MLoop, MAcceptFails, MClose,
       MClear, MDrained, MJoined, sockVars, TypeOK, MainStates
  <2>3. TypeOK'
    BY <2>1, <2>2 DEF TypeOK
  <2>4. Counted' /\ Held' /\ SleepersSawEmpty' /\ NoLostWakeup'
    BY <2>1, <2>2 DEF Counted, CountersMatch, InService, Held, SleepersSawEmpty,
       NoLostWakeup, Waiting
  <2>5. Draining'
    <3>1. mpc' = "accept" => ~shutdown
      BY <1>2 DEF MSpawned, MSocket, MBind, MOpenFails, MLoop, MAcceptFails, MClose,
         MClear, MDrained, MJoined
    <3> QED
      BY <2>1, <2>2, <3>1 DEF Draining, SomeExited
  <2>6. Joined'
    BY <1>2, <2>1 DEF MSpawned, MSocket, MBind, MOpenFails, MLoop, MAcceptFails, MClose,
       MClear, MDrained, MJoined, Joined, Born
  <2> QED
    BY <2>3, <2>4, <2>5, <2>6
<1>3. CASE MAccept
  <2>1. TypeOK' /\ held' \in Conns
    BY <1>3 DEF MAccept, TypeOK, poolVars, sockVars, MainStates, ConnStates
  <2> QED
    BY <1>3, <2>1 DEF MAccept, poolVars, Counted, CountersMatch, InService, Held,
       SleepersSawEmpty, NoLostWakeup, Waiting, Draining, SomeExited, Joined, Born
<1>4. CASE MRefuse
  <2>1. TypeOK'
    BY <1>4 DEF MRefuse, TypeOK, poolVars, sockVars, MainStates, ConnStates, Held
  <2> QED
    BY <1>4, <2>1 DEF MRefuse, poolVars, Counted, CountersMatch, InService, Held,
       SleepersSawEmpty, NoLostWakeup, Waiting, Draining, SomeExited, Joined, Born
<1>5. CASE MEnqueue
  <2>1. wpc' \in [Workers -> WorkerStates] /\ InService' = InService
    BY <1>5, WakeOneKeepsService DEF MEnqueue
  <2>2. held \in Conns /\ queue' \in Seq(Conns) /\ Len(queue') = Len(queue) + 1
    BY <1>5 DEF MEnqueue, Held, TypeOK
  <2>3. TypeOK'
    BY <1>5, <2>1, <2>2 DEF MEnqueue, TypeOK, sockVars, MainStates, ConnStates
  <2>4. Counted'
    BY <1>5, <2>1, <2>2, PoolAssumption DEF MEnqueue, AtLimit, Counted, CountersMatch,
       TypeOK
  <2>5. Held' /\ SleepersSawEmpty' /\ NoLostWakeup' /\ Joined'
    BY <1>5 DEF MEnqueue, LockFree, WakeOne, Held, SleepersSawEmpty, NoLostWakeup,
       Waiting, Joined, Born, TypeOK
  <2>6. Draining'
    <3>1. SomeExited' => SomeExited
      BY <1>5 DEF MEnqueue, WakeOne, Waiting, SomeExited, TypeOK
    <3>2. SomeExited => shutdown /\ queue = <<>>
      BY <1>5 DEF MEnqueue, Draining
    <3> QED
      BY <1>5, <2>2, <3>1, <3>2 DEF MEnqueue, Draining
  <2> QED
    BY <2>3, <2>4, <2>5, <2>6
<1>6. CASE MStop \/ MRebroadcast
  <2>1. /\ WakeAll /\ mpc' \in {"draining", "unlocked", "joining"}
        /\ UNCHANGED <<queue, queueLen, active, cur, held, conn, listener, gfd, spc>>
    BY <1>6 DEF MStop, MRebroadcast, poolVars, sockVars
  <2>0. (shutdown => shutdown') /\ shutdown' \in BOOLEAN
    BY <1>6 DEF MStop, MRebroadcast, TypeOK
  <2>2. wpc' \in [Workers -> WorkerStates] /\ InService' = InService
    BY <2>1, WakeAllKeepsService
  <2>3. TypeOK' /\ Counted'
    BY <2>0, <2>1, <2>2 DEF TypeOK, MainStates, Counted, CountersMatch
  <2>4. \A w \in Workers :
           wpc'[w] = IF wpc[w] = "waiting" THEN "start" ELSE wpc[w]
    BY <2>1 DEF WakeAll, TypeOK
  <2>5. Held' /\ SleepersSawEmpty' /\ NoLostWakeup'
    BY <2>1, <2>4 DEF Held, SleepersSawEmpty, NoLostWakeup, Waiting
  <2>6. Joined'
    BY <2>1 DEF Joined
  <2>7. SomeExited' => SomeExited
    BY <2>4 DEF SomeExited
  <2>8. Draining'
    BY <2>0, <2>1, <2>7 DEF Draining
  <2> QED
    BY <2>3, <2>5, <2>6, <2>8
<1> QED
  BY <1>1, <1>2, <1>3, <1>4, <1>5, <1>6 DEF Main

-----------------------------------------------------------------------------
LEMMA NextIInv == IInv /\ [Next]_vars => IInv'
<1> SUFFICES ASSUME IInv, [Next]_vars PROVE IInv'
  OBVIOUS
<1>1. CASE UNCHANGED vars
  BY <1>1 DEF vars, IInv, TypeOK, Held, Counted, CountersMatch, InService,
     SleepersSawEmpty, NoLostWakeup, Waiting, Draining, SomeExited, Joined, Born
<1> QED
  BY <1>1, WorkerIInv, HandlerIInv, MainIInv DEF Next, Terminated

(* The invariant holds in every reachable state of the pool.               *)
THEOREM PoolInvariant == Spec => []IInv
BY InitIInv, NextIInv, PTL DEF Spec

(* The variables of the pool and of server_start keep their types, so that *)
(* queue_len and active never go below zero.                               *)
THEOREM PoolTypeOK == Spec => []TypeOK
<1>1. IInv => TypeOK
  BY DEF IInv
<1> QED
  BY <1>1, PoolInvariant, PTL

(* queue_len and active always are the numbers they stand for.             *)
THEOREM PoolCounters == Spec => []CountersMatch
<1>1. IInv => CountersMatch
  BY DEF IInv, Counted
<1> QED
  BY <1>1, PoolInvariant, PTL

(* Neither limit of the accept loop is ever exceeded.                      *)
THEOREM PoolLimits == Spec => []WithinLimits
<1>1. IInv => WithinLimits
  BY DEF IInv, Counted, CountersMatch, WithinLimits
<1> QED
  BY <1>1, PoolInvariant, PTL

(* The workers never all sleep while a connection waits.                   *)
THEOREM PoolNoLostWakeup == Spec => []NoLostWakeup
<1>1. IInv => NoLostWakeup
  BY DEF IInv
<1> QED
  BY <1>1, PoolInvariant, PTL

(* At most one accepted connection is left unserved by a shutdown.         *)
THEOREM PoolStranded == Spec => []AtMostOneStranded
<1>1. IInv => AtMostOneStranded
  BY DEF IInv, Joined, Born, Draining, SomeExited, AtMostOneStranded
<1> QED
  BY <1>1, PoolInvariant, PTL
-----------------------------------------------------------------------------
(* Who owns each connection: the accept loop the one it has in hand, the   *)
(* queue the queued ones, and a worker the one it serves or has served.    *)
InHand == mpc = "enqueue" => held \in Conns /\ conn[held] = "accepted"

InCare == \A w \in Workers :
             /\ w \in InService => cur[w] \in Conns
             /\ w \notin InService => cur[w] = None
             /\ wpc[w] = "serving" => conn[cur[w]] = "serving"
             /\ wpc[w] = "done" => conn[cur[w]] = "closed"

Owned == TypeOK /\ InHand /\ InCare /\ OneOwner

LEMMA InitOwned == Init => Owned
BY InitIInv DEF Init, IInv, Owned, InHand, InCare, OneOwner, InService

(* Taking moves the head of the queue, which no worker had and which is in *)
(* the queue once, to the worker.                                          *)
LEMMA TakeOwned ==
    ASSUME Owned, TypeOK', NEW w \in Workers, WTake(w)
    PROVE  Owned'
<1> DEFINE h == Head(queue)
<1>1. /\ h = queue[1] /\ h \in Conns /\ conn[h] = "queued"
      /\ Len(queue) \in Nat \ {0} /\ Len(queue') = Len(queue) - 1
      /\ \A i \in 1..Len(queue') : queue'[i] = queue[i + 1] /\ queue[i + 1] \in Conns
  BY DEF WTake, Owned, TypeOK, OneOwner
<1>2. /\ cur'[w] = h /\ wpc'[w] = "serving" /\ conn'[h] = "serving"
      /\ \A v \in Workers \ {w} : cur'[v] = cur[v] /\ wpc'[v] = wpc[v]
      /\ \A c \in Conns \ {h} : conn'[c] = conn[c]
  BY <1>1 DEF WTake, Owned, TypeOK
<1>3. \A v \in InService : cur[v] # h
  BY <1>1 DEF Owned, InCare, InService
<1>4. InHand'
  BY <1>1, <1>2 DEF WTake, Owned, InHand
<1>5. InCare'
  BY <1>1, <1>2, <1>3 DEF WTake, Owned, InCare, InService
<1>6. OneOwner'
  <2>1. \A i, j \in 1..Len(queue') : queue'[i] = queue'[j] => i = j
    BY <1>1 DEF Owned, OneOwner
  <2>2. \A i \in 1..Len(queue') : queue'[i] # h /\ conn[queue'[i]] = "queued"
    BY <1>1 DEF Owned, OneOwner
  <2>3. \A i \in 1..Len(queue') : conn'[queue'[i]] = "queued"
    BY <1>1, <1>2, <2>2
  <2>4. \A u, v \in InService' : cur'[u] = cur'[v] => u = v
    BY <1>2, <1>3 DEF Owned, OneOwner, InService
  <2>5. \A v \in Workers : wpc'[v] = "serving" => conn'[cur'[v]] = "serving"
    BY <1>5 DEF InCare
  <2> QED
    BY <2>1, <2>3, <2>4, <2>5 DEF OneOwner
<1> QED
  BY <1>4, <1>5, <1>6 DEF Owned

(* Closing a connection leaves it with its worker.                         *)
LEMMA ServeOwned ==
    ASSUME Owned, TypeOK', NEW w \in Workers, WServe(w)
    PROVE  Owned'
<1> DEFINE c == cur[w]
<1>1. /\ c \in Conns /\ conn[c] = "serving" /\ w \in InService
      /\ UNCHANGED <<queue, cur, mpc, held>>
  BY DEF WServe, Owned, InCare, InService, poolVars
<1>2. /\ wpc'[w] = "done" /\ conn'[c] = "closed"
      /\ \A v \in Workers \ {w} : wpc'[v] = wpc[v]
      /\ \A d \in Conns \ {c} : conn'[d] = conn[d]
  BY <1>1 DEF WServe, Owned, TypeOK
<1>3. InService' = InService
  BY <1>1, <1>2 DEF InService
<1>4. \A v \in InService \ {w} : cur[v] # c
  BY <1>1 DEF Owned, OneOwner
<1>5. InHand'
  BY <1>1, <1>2 DEF Owned, InHand
<1>6. InCare'
  BY <1>1, <1>2, <1>3, <1>4 DEF Owned, InCare, InService
<1>7. \A i \in 1..Len(queue) : queue[i] \in Conns
  BY DEF Owned, TypeOK
<1>8. OneOwner'
  BY <1>1, <1>2, <1>3, <1>6, <1>7 DEF Owned, OneOwner, InCare
<1> QED
  BY <1>5, <1>6, <1>8 DEF Owned

LEMMA ReleaseOwned ==
    ASSUME Owned, TypeOK', NEW w \in Workers, WRelease(w)
    PROVE  Owned'
<1>1. /\ UNCHANGED <<queue, mpc, held, conn>>
      /\ cur'[w] = None /\ wpc'[w] = "start"
      /\ \A v \in Workers \ {w} : cur'[v] = cur[v] /\ wpc'[v] = wpc[v]
  BY DEF WRelease, Owned, TypeOK
<1>2. InHand' /\ InCare' /\ OneOwner'
  BY <1>1 DEF Owned, InHand, InCare, OneOwner, InService
<1> QED
  BY <1>2 DEF Owned

(* The accept loop has a connection nobody had, and gives it away.         *)
LEMMA AcceptOwned ==
    ASSUME Owned, TypeOK', MAccept
    PROVE  Owned'
<1>1. PICK c \in Conns : /\ conn[c] = "pending" /\ held' = c
                         /\ conn' = [conn EXCEPT ![c] = "accepted"]
  BY DEF MAccept
<1>2. /\ conn'[c] = "accepted" /\ \A d \in Conns \ {c} : conn'[d] = conn[d]
      /\ UNCHANGED <<queue, cur, wpc>> /\ InService' = InService
  BY <1>1 DEF MAccept, Owned, TypeOK, poolVars, InService
<1>3. \A i \in 1..Len(queue) : queue[i] \in Conns
  BY DEF Owned, TypeOK
<1>4. InHand' /\ InCare'
  BY <1>1, <1>2 DEF Owned, InHand, InCare, InService
<1>5. OneOwner'
  BY <1>1, <1>2, <1>3, <1>4 DEF Owned, OneOwner, InCare
<1> QED
  BY <1>4, <1>5 DEF Owned

LEMMA RefuseOwned ==
    ASSUME Owned, TypeOK', MRefuse
    PROVE  Owned'
<1>1. /\ held \in Conns /\ conn[held] = "accepted" /\ conn'[held] = "refused"
      /\ mpc' = "loop" /\ \A d \in Conns \ {held} : conn'[d] = conn[d]
      /\ UNCHANGED <<queue, cur, wpc>> /\ InService' = InService
  BY DEF MRefuse, Owned, TypeOK, InHand, poolVars, InService
<1>2. \A i \in 1..Len(queue) : queue[i] \in Conns
  BY DEF Owned, TypeOK
<1>3. InHand' /\ InCare'
  BY <1>1 DEF Owned, InHand, InCare, InService
<1>4. OneOwner'
  BY <1>1, <1>2, <1>3 DEF Owned, OneOwner, InCare
<1> QED
  BY <1>3, <1>4 DEF Owned

LEMMA EnqueueOwned ==
    ASSUME Owned, TypeOK', MEnqueue
    PROVE  Owned'
<1>1. /\ held \in Conns /\ conn[held] = "accepted" /\ conn'[held] = "queued"
      /\ mpc' = "loop" /\ \A d \in Conns \ {held} : conn'[d] = conn[d]
      /\ UNCHANGED cur
  BY DEF MEnqueue, Owned, TypeOK, InHand
<1>2. /\ Len(queue) \in Nat /\ Len(queue') = Len(queue) + 1
      /\ queue'[Len(queue) + 1] = held
      /\ \A i \in 1..Len(queue) : queue'[i] = queue[i] /\ queue[i] \in Conns
  BY <1>1 DEF MEnqueue, Owned, TypeOK
<1>3. /\ InService' = InService
      /\ \A w \in Workers : wpc'[w] \in {"serving", "done"} => wpc'[w] = wpc[w]
  BY DEF MEnqueue, WakeOne, Waiting, Owned, TypeOK, InService
<1>4. InHand' /\ InCare'
  BY <1>1, <1>3 DEF Owned, InHand, InCare, InService
<1>5. \A i \in 1..Len(queue') : conn'[queue'[i]] = "queued"
  BY <1>1, <1>2 DEF Owned, OneOwner
<1>6. \A i, j \in 1..Len(queue') : queue'[i] = queue'[j] => i = j
  <2>1. \A i \in 1..Len(queue) : queue[i] # held
    BY <1>1 DEF Owned, OneOwner
  <2> QED
    BY <1>2, <2>1 DEF Owned, OneOwner
<1>7. OneOwner'
  BY <1>1, <1>3, <1>4, <1>5, <1>6 DEF Owned, OneOwner, InCare
<1> QED
  BY <1>4, <1>7 DEF Owned

(* Every other step leaves connections and their owners alone and moves    *)
(* workers between states that are not in service.                         *)
Aloof ==
    /\ UNCHANGED <<queue, cur, conn>>
    /\ mpc' = "enqueue" => mpc = "enqueue" /\ held' = held
    /\ wpc' \in [Workers -> WorkerStates]
    /\ \A w \in Workers :
          wpc'[w] = wpc[w] \/ {wpc[w], wpc'[w]} \cap {"serving", "done"} = {}

LEMMA AloofOwned ==
    ASSUME Owned, TypeOK', Aloof
    PROVE  Owned'
<1>1. /\ InService' = InService
      /\ \A w \in InService : wpc'[w] = wpc[w]
  BY DEF Aloof, InService
<1>2. InHand' /\ InCare' /\ OneOwner'
  BY <1>1 DEF Aloof, Owned, InHand, InCare, OneOwner, InService
<1> QED
  BY <1>2 DEF Owned

(* The steps of the pool, sorted by what they do with connections.         *)
LEMMA Sorted ==
    ASSUME TypeOK, [Next]_vars
    PROVE  \/ Aloof
           \/ \E w \in Workers : WTake(w) \/ WServe(w) \/ WRelease(w)
           \/ MAccept \/ MRefuse \/ MEnqueue
<1>1. CASE UNCHANGED vars
  BY <1>1 DEF vars, Aloof, TypeOK
<1>2. ASSUME NEW w \in Workers, WIdle(w) \/ WWait(w) \/ WSpurious(w) \/ WExit(w)
      PROVE  Aloof
  BY <1>2 DEF WIdle, WWait, WSpurious, WExit, Aloof, TypeOK, poolVars, WorkerStates
<1>3. ASSUME NEW s \in Signals, Handler(s) PROVE Aloof
  BY <1>3 DEF Handler, SFlag, STest, SClose, SClear, SWake, WakeAll, Aloof, TypeOK,
     poolVars, WorkerStates
<1>4. CASE MSpawn
  BY <1>4 DEF MSpawn, Aloof, TypeOK, poolVars, WorkerStates
<1>5. CASE \/ MSpawned \/ MSocket \/ MBind \/ MOpenFails \/ MLoop \/ MAcceptFails
           \/ MClose \/ MClear \/ MDrained \/ MJoined
  BY <1>5 DEF MSpawned, MSocket, MBind, MOpenFails, MLoop, MAcceptFails, MClose,
     MClear, MDrained, MJoined, Aloof, TypeOK, poolVars
<1>6. CASE MStop \/ MRebroadcast
  BY <1>6 DEF MStop, MRebroadcast, WakeAll, Aloof, TypeOK, poolVars, WorkerStates
<1> QED
  BY <1>1, <1>2, <1>3, <1>4, <1>5, <1>6 DEF Next, Worker, Main, Terminated

LEMMA NextOwned == IInv /\ Owned /\ [Next]_vars => Owned'
<1> SUFFICES ASSUME IInv, Owned, [Next]_vars PROVE Owned'
  OBVIOUS
<1>1. TypeOK'
  BY NextIInv DEF IInv
<1> QED
  BY <1>1, Sorted, AloofOwned, TakeOwned, ServeOwned, ReleaseOwned, AcceptOwned,
     RefuseOwned, EnqueueOwned DEF Owned

(* Every connection has one owner at any time, however many workers and    *)
(* connections there are.                                                  *)
THEOREM PoolOwners == Spec => []Owned
BY InitIInv, NextIInv, InitOwned, NextOwned, PTL DEF Spec

(* One socket never reaches two workers, and none is taken or closed while *)
(* it still is in the queue.                                               *)
THEOREM PoolOneOwner == Spec => []OneOwner
<1>1. Owned => OneOwner
  BY DEF Owned
<1> QED
  BY <1>1, PoolOwners, PTL
-----------------------------------------------------------------------------
(* The pool implements ConnService.                                        *)
Seen == [c \in Conns |-> StageOf(c)]

(* As many connections are busy as workers are in service, so that the     *)
(* limits of the accept loop are those of the service.                     *)
LEMMA BusyCounted ==
    ASSUME Owned
    PROVE  Cardinality(Service!Busy) = Cardinality(InService)
<1> DEFINE f == [w \in InService |-> cur[w]]
<1>1. Service!Busy = {c \in Conns : \E w \in Workers : cur[w] = c}
  BY DEF Service!Busy, StageOf
<1>2. \A w \in Workers : cur[w] \in Conns <=> w \in InService
  BY PoolAssumption DEF Owned, InCare
<1>3. f \in Bijection(InService, Service!Busy)
  <2>1. f \in [InService -> Service!Busy]
    BY <1>1, <1>2 DEF InService
  <2>2. \A v, w \in InService : f[v] = f[w] => v = w
    BY DEF Owned, OneOwner
  <2>3. \A c \in Service!Busy : \E w \in InService : f[w] = c
    BY <1>1, <1>2
  <2> QED
    BY <2>1, <2>2, <2>3 DEF Bijection, Injection, Surjection, IsInjective
<1>4. ExistsBijection(InService, Service!Busy)
  BY <1>3 DEF ExistsBijection
<1> QED
  BY <1>4, InServiceFinite, FS_Bijection

LEMMA FullIsAtLimit ==
    ASSUME IInv, Owned
    PROVE  Service!Full <=> AtLimit
<1>1. Service!Cardinality(Service!Busy) = Cardinality(Service!Busy)
  BY DEF Service!Cardinality, Cardinality
<1> QED
  BY <1>1, BusyCounted DEF Service!Full, AtLimit, IInv, Counted, CountersMatch

(* Nobody serves a connection that is pending, in hand or in the queue.    *)
LEMMA Unserved ==
    ASSUME Owned, NEW c \in Conns, conn[c] \in {"pending", "accepted", "queued"}
    PROVE  \A w \in Workers : cur[w] # c
BY PoolAssumption DEF Owned, InCare, InService

LEMMA TakeStarts ==
    ASSUME IInv, Owned, NEW w \in Workers, WTake(w)
    PROVE  Service!Start
<1>1. PICK h \in Conns : h = Head(queue)
  BY DEF WTake, Owned, TypeOK
<1>2. cur[w] = None
  BY DEF WTake, Owned, InCare, InService
<1>3. /\ cur'[w] = h /\ \A v \in Workers \ {w} : cur'[v] = cur[v]
      /\ \A c \in Conns \ {h} : conn'[c] = conn[c]
  BY <1>1 DEF WTake, Owned, TypeOK
<1>4. StageOf(h)' = "busy"
  BY <1>3 DEF StageOf
<1>5. ASSUME NEW c \in Conns \ {h} PROVE StageOf(c)' = StageOf(c)
  BY <1>2, <1>3, <1>5, PoolAssumption DEF StageOf
<1>6. Seen' = [Seen EXCEPT ![h] = "busy"]
  BY <1>1, <1>4, <1>5 DEF Seen
<1> QED
  BY <1>1, <1>6 DEF Service!Start, WTake, Seen

LEMMA ReleaseFinishes ==
    ASSUME IInv, Owned, NEW w \in Workers, WRelease(w)
    PROVE  \E c \in Conns : Service!Finish(c)
<1>1. PICK d \in Conns : d = cur[w] /\ conn[d] = "closed" /\ w \in InService
  BY DEF WRelease, Owned, InCare, InService
<1>2. /\ cur'[w] = None /\ \A v \in Workers \ {w} : cur'[v] = cur[v]
      /\ conn' = conn /\ queue' = queue
  BY DEF WRelease, Owned, TypeOK
<1>3. \A v \in Workers \ {w} : cur[v] # d
  BY <1>1, PoolAssumption DEF Owned, InCare, OneOwner
<1>4. StageOf(d) = "busy" /\ StageOf(d)' = "served"
  BY <1>1, <1>2, <1>3, PoolAssumption DEF StageOf
<1>5. ASSUME NEW c \in Conns \ {d} PROVE StageOf(c)' = StageOf(c)
  BY <1>1, <1>2, <1>5, PoolAssumption DEF StageOf
<1>6. Seen' = [Seen EXCEPT ![d] = "served"]
  BY <1>1, <1>4, <1>5 DEF Seen
<1> QED
  BY <1>1, <1>2, <1>4, <1>6 DEF Service!Finish, Seen

LEMMA RefuseRefuses ==
    ASSUME IInv, Owned, MRefuse
    PROVE  \E c \in Conns : Service!Refuse(c)
<1>1. PICK c \in Conns : c = held /\ conn[c] = "accepted" /\ AtLimit
  BY DEF MRefuse, Owned, InHand
<1>2. /\ conn'[c] = "refused" /\ cur' = cur /\ queue' = queue
      /\ \A d \in Conns \ {c} : conn'[d] = conn[d]
  BY <1>1 DEF MRefuse, Owned, TypeOK, poolVars
<1>3. \A w \in Workers : cur[w] # c
  BY <1>1, Unserved
<1>4. StageOf(c) = "outside" /\ StageOf(c)' = "refused"
  BY <1>1, <1>2, <1>3 DEF StageOf
<1>5. ASSUME NEW d \in Conns \ {c} PROVE StageOf(d)' = StageOf(d)
  BY <1>2, <1>5 DEF StageOf
<1>6. Seen' = [Seen EXCEPT ![c] = "refused"]
  BY <1>1, <1>4, <1>5 DEF Seen
<1> QED
  BY <1>1, <1>2, <1>4, <1>6, FullIsAtLimit DEF Service!Refuse, Seen

LEMMA EnqueueAdmits ==
    ASSUME IInv, Owned, MEnqueue
    PROVE  \E c \in Conns : Service!Admit(c)
<1>1. PICK c \in Conns : c = held /\ conn[c] = "accepted" /\ ~AtLimit
  BY DEF MEnqueue, Owned, InHand
<1>2. /\ conn'[c] = "queued" /\ cur' = cur /\ queue' = Append(queue, c)
      /\ \A d \in Conns \ {c} : conn'[d] = conn[d]
  BY <1>1 DEF MEnqueue, Owned, TypeOK
<1>3. \A w \in Workers : cur[w] # c
  BY <1>1, Unserved
<1>4. StageOf(c) = "outside" /\ StageOf(c)' = "waiting"
  BY <1>1, <1>2, <1>3 DEF StageOf
<1>5. ASSUME NEW d \in Conns \ {c} PROVE StageOf(d)' = StageOf(d)
  BY <1>2, <1>5 DEF StageOf
<1>6. Seen' = [Seen EXCEPT ![c] = "waiting"]
  BY <1>1, <1>4, <1>5 DEF Seen
<1> QED
  BY <1>1, <1>2, <1>4, <1>6, FullIsAtLimit DEF Service!Admit, Seen

(* Accepting, closing and all the other steps are invisible to clients.    *)
LEMMA RestStutters ==
    ASSUME IInv, Owned,
           Aloof \/ MAccept \/ \E w \in Workers : WServe(w)
    PROVE  UNCHANGED <<queue, Seen>>
<1>1. CASE Aloof
  BY <1>1 DEF Aloof, Seen, StageOf
<1>2. CASE MAccept
  <2>1. PICK c \in Conns : conn[c] = "pending" /\ conn' = [conn EXCEPT ![c] = "accepted"]
    BY <1>2 DEF MAccept
  <2>2. /\ conn'[c] = "accepted" /\ cur' = cur /\ queue' = queue
        /\ \A d \in Conns \ {c} : conn'[d] = conn[d]
    BY <1>2, <2>1 DEF MAccept, Owned, TypeOK, poolVars
  <2>3. \A d \in Conns : StageOf(d)' = StageOf(d)
    BY <2>1, <2>2 DEF StageOf
  <2> QED
    BY <2>2, <2>3 DEF Seen
<1>3. ASSUME NEW w \in Workers, WServe(w) PROVE UNCHANGED <<queue, Seen>>
  <2>1. /\ cur[w] \in Conns /\ cur' = cur /\ queue' = queue
        /\ \A d \in Conns \ {cur[w]} : conn'[d] = conn[d]
    BY <1>3 DEF WServe, Owned, TypeOK, InCare, InService, poolVars
  <2>2. \A d \in Conns : StageOf(d)' = StageOf(d)
    BY <2>1 DEF StageOf
  <2> QED
    BY <2>1, <2>2 DEF Seen
<1> QED
  BY <1>1, <1>2, <1>3

LEMMA InitService == Init => Service!Init
<1> SUFFICES ASSUME Init PROVE Service!Init
  OBVIOUS
<1>1. \A c \in Conns : StageOf(c) = "outside"
  BY PoolAssumption DEF Init, StageOf
<1> QED
  BY <1>1 DEF Init, Service!Init

LEMMA NextService ==
    IInv /\ Owned /\ [Next]_vars => [Service!Next]_(Service!vars)
<1> SUFFICES ASSUME IInv, Owned, [Next]_vars PROVE [Service!Next]_(Service!vars)
  OBVIOUS
<1>1. CASE Aloof \/ MAccept \/ \E w \in Workers : WServe(w)
  BY <1>1, RestStutters DEF Seen, Service!vars
<1>2. CASE MRefuse \/ MEnqueue \/ \E w \in Workers : WTake(w) \/ WRelease(w)
  BY <1>2, RefuseRefuses, EnqueueAdmits, TakeStarts, ReleaseFinishes DEF Service!Next
<1> QED
  BY <1>1, <1>2, Sorted DEF Owned

(* Whatever the threads do, clients see the service of ConnService: first  *)
(* in first out, a 503 only at a limit, each connection served once.       *)
THEOREM PoolImplementsService == Spec => ImplementsService
BY InitIInv, NextIInv, InitOwned, NextOwned, InitService, NextService, PTL
   DEF Spec, ImplementsService, Service!Spec
=============================================================================
