---------------------------- MODULE ThreadProofs ----------------------------
(***************************************************************************)
(* Proofs about objects that threads hold by an address or a number: a     *)
(* future (Future), for any number of threads holding the handle, any      *)
(* number of calls and every program of Uses; and the descriptors of       *)
(* connections (Connection), for any number of workers, descriptors and    *)
(* connections.                                                            *)
(***************************************************************************)
EXTENDS Future, Connection, TLAPS

(***************************************************************************)
(* Futures.                                                                *)
(***************************************************************************)

\* the lock is held by the thread between its lock and its unlock, as long as
\* there is a lock
Owner ==
    alloc => /\ \A t \in Threads : pc[t] \in {"look", "unlock", "dispose"} <=> mu = t
             /\ mu = TheRunner <=> runner = "unlock"

\* what the fields of the object say about one another and about the runner
Fields ==
    /\ done <=> runner \in {"unlock", "end"}
    /\ done => result = yields
    /\ freed => done
    /\ ~alloc => freed /\ runner = "end"

\* the thread that disposes of the object: the one that set freed, alone, from
\* then until it frees
Disposer ==
    /\ \A t \in Threads : pc[t] \in {"dispose", "free"} => alloc /\ freed
    /\ \A t \in Threads : pc[t] = "free" => runner = "end"
    /\ \A t, u \in Threads :
           pc[t] \in {"dispose", "free"} /\ pc[u] \in {"dispose", "free"} => t = u

\* a thread that has not called has nothing
Fresh ==
    \A t \in Threads : calls[t] = 0 => got[t] = "none" /\ pc[t] = "out"

IInv == TypeOK /\ Owner /\ Fields /\ Disposer /\ Fresh /\ Delivered

THEOREM FutureInit == Init => IInv
<1> SUFFICES ASSUME Init PROVE IInv
    OBVIOUS
<1>1. TypeOK
  <2>1. 0 \in 0 .. MaxCalls + 1
    BY FutureAssumption
  <2>2. /\ pc \in [Threads -> Steps]
        /\ op \in [Threads -> {"deref", "timeout", "done"}]
        /\ got \in [Threads -> {Nil, Value, "none"}]
        /\ calls \in [Threads -> 0 .. MaxCalls + 1]
    BY <2>1 DEF Init, Steps
  <2>3. /\ alloc \in BOOLEAN /\ done \in BOOLEAN /\ freed \in BOOLEAN
        /\ started \in BOOLEAN
    BY DEF Init
  <2> QED BY <2>2, <2>3 DEF Init, TypeOK
<1>2. /\ alloc = TRUE /\ done = FALSE /\ freed = FALSE
      /\ mu = NoOne /\ runner = "fn"
      /\ \A t \in Threads : pc[t] = "out" /\ got[t] = "none"
    BY DEF Init
<1>3. Owner
    BY <1>2, FutureAssumption DEF Owner, NoOne, TheRunner
<1>4. Fields
    BY <1>2 DEF Fields
<1>5. Disposer
    BY <1>2 DEF Disposer
<1>6. Fresh
    BY <1>2 DEF Fresh
<1>7. Delivered
    BY <1>2 DEF Delivered
<1> QED BY <1>1, <1>3, <1>4, <1>5, <1>6, <1>7 DEF IInv

\* types
THEOREM FutureTypeStep == ASSUME TypeOK, [Next]_vars PROVE TypeOK'
<1> USE FutureAssumption DEF TypeOK, Steps, setup, object
<1>1. CASE Runner
    BY <1>1 DEF Runner, RunnerFn, RunnerStore, RunnerUnlock
<1>2. ASSUME NEW t \in Threads, NEW o \in {"deref", "timeout", "done"}, Call(t, o)
      PROVE  TypeOK'
  <2>1. MayCall(t, o) /\ program \in Uses
    BY <1>2 DEF Call
  <2>2. calls[t] = 0 \/ calls[t] < MaxCalls
    BY <2>1 DEF MayCall, Uses
  <2>3. calls[t] + 1 \in 0 .. MaxCalls + 1
    BY <2>2
  <2> QED BY <1>2, <2>3 DEF Call
<1>3. ASSUME NEW t \in Threads, Thread(t) PROVE TypeOK'
  <2>1. CASE Lock(t) \/ Wait(t) \/ AskDone(t) \/ Unlock(t) \/ Free(t)
    BY ZenonT(40), <2>1 DEF Lock, Wait, AskDone, Unlock, Free
  <2>2. CASE TimeOut(t) \/ TakeValue(t)
    BY <2>2 DEF TimeOut, TakeValue, Take, Nil
  <2>3. CASE Stray(t)
    BY <2>3 DEF Stray
  <2> QED BY <1>3, <2>1, <2>2, <2>3 DEF Thread
<1>4. ASSUME NEW t \in Threads, Spurious(t) PROVE TypeOK'
    BY <1>4 DEF Spurious
<1>5. CASE UNCHANGED vars
    BY <1>5 DEF vars
<1> QED BY <1>1, <1>2, <1>3, <1>4, <1>5 DEF Next

\* the steps of the runner
LEMMA RunnerSteps == ASSUME IInv, TypeOK', Runner
                     PROVE  Owner' /\ Fields' /\ Disposer' /\ Fresh' /\ Delivered'
<1> USE FutureAssumption DEF IInv, TypeOK, setup, object
<1>1. CASE RunnerFn
  <2>1. /\ runner = "fn" /\ runner' = "lock"
        /\ UNCHANGED <<setup, object, mu, pc, op, calls, got>>
    BY <1>1 DEF RunnerFn
  <2>2. Owner'
    BY <2>1 DEF Owner
  <2>3. Fields'
    BY <2>1 DEF Fields
  <2>4. Disposer' /\ Fresh' /\ Delivered'
    BY <2>1 DEF Disposer, Fresh, Delivered
  <2> QED BY <2>2, <2>3, <2>4
<1>2. CASE RunnerStore
  <2>1. /\ runner = "lock" /\ runner' = "unlock"
        /\ mu = NoOne /\ mu' = TheRunner
        /\ result' = yields /\ done' = TRUE
        /\ UNCHANGED <<setup, alloc, freed, op, calls, got>>
    BY <1>2 DEF RunnerStore
  <2>2. \A t \in Threads : pc'[t] = IF pc[t] = "wait" THEN "woken" ELSE pc[t]
    BY <1>2 DEF RunnerStore
  <2>3. alloc /\ ~freed
    BY <2>1 DEF Fields
  <2>4. Owner'
    BY <2>1, <2>2, <2>3 DEF Owner, NoOne, TheRunner
  <2>5. Fields'
    BY <2>1, <2>3 DEF Fields
  <2>6. Disposer'
    BY <2>1, <2>2, <2>3 DEF Disposer
  <2>7. Fresh' /\ Delivered'
    BY <2>1, <2>2 DEF Fresh, Delivered
  <2> QED BY <2>4, <2>5, <2>6, <2>7
<1>3. CASE RunnerUnlock
  <2>1. /\ runner = "unlock" /\ runner' = "end" /\ mu' = NoOne
        /\ UNCHANGED <<setup, object, pc, op, calls, got>>
    BY <1>3 DEF RunnerUnlock
  <2>2. alloc /\ mu = TheRunner
    BY <2>1 DEF Fields, Owner
  <2>3. Owner'
    BY <2>1, <2>2 DEF Owner, NoOne, TheRunner
  <2>4. Fields'
    BY <2>1 DEF Fields
  <2>5. Disposer' /\ Fresh' /\ Delivered'
    BY <2>1 DEF Disposer, Fresh, Delivered
  <2> QED BY <2>3, <2>4, <2>5
<1> QED BY <1>1, <1>2, <1>3 DEF Runner

\* a call by a thread that is outside
LEMMA CallStep == ASSUME IInv, TypeOK', NEW t \in Threads,
                         NEW o \in {"deref", "timeout", "done"}, Call(t, o)
                  PROVE  Owner' /\ Fields' /\ Disposer' /\ Fresh' /\ Delivered'
<1> USE FutureAssumption DEF IInv, TypeOK, setup, object
<1>1. /\ pc[t] = "out" /\ MayCall(t, o) /\ program \in Uses
      /\ UNCHANGED <<setup, object, mu, runner, got>>
    BY DEF Call
<1>2. \A u \in Threads : /\ pc'[u] = IF u = t THEN "lock" ELSE pc[u]
                         /\ op'[u] = IF u = t THEN o ELSE op[u]
                         /\ calls'[u] = IF u = t THEN calls[u] + 1 ELSE calls[u]
    BY DEF Call
<1>3. Owner'
    BY <1>1, <1>2 DEF Owner
<1>4. Fields'
    BY <1>1 DEF Fields
<1>5. Disposer'
    BY <1>1, <1>2 DEF Disposer
<1>6. Fresh'
    BY <1>1, <1>2 DEF Fresh
<1>7. got[t] = "none" \/ (o # "deref" /\ got[t] # Value)
    BY <1>1 DEF MayCall, Uses, Fresh
<1>8. Delivered'
    BY <1>1, <1>2, <1>7 DEF Delivered
<1> QED BY <1>3, <1>4, <1>5, <1>6, <1>8

\* a thread leaves with what it found: the value if there is one
LEMMA TakeStep == ASSUME IInv, TypeOK', NEW t \in Threads, TimeOut(t) \/ TakeValue(t)
                  PROVE  Owner' /\ Fields' /\ Disposer' /\ Fresh' /\ Delivered'
<1> USE FutureAssumption DEF IInv, TypeOK, setup, object
<1>1. /\ alloc /\ pc[t] \in {"wait", "look"} /\ mu' = t
      /\ Take(t)
      /\ done \/ op[t] # "deref"
    BY DEF TimeOut, TakeValue, Owner
<1>2. /\ freed' = (freed \/ done)
      /\ UNCHANGED <<setup, alloc, done, result, runner, op, calls>>
      /\ \A u \in Threads :
            /\ got'[u] = IF u # t THEN got[u] ELSE IF done THEN result ELSE Nil
            /\ pc'[u] = IF u # t THEN pc[u]
                        ELSE IF done /\ ~freed THEN "dispose" ELSE "unlock"
    BY <1>1 DEF Take
<1>3. mu = NoOne \/ mu = t
    BY <1>1 DEF TimeOut, TakeValue, Owner
<1>4. Owner'
    BY <1>1, <1>2, <1>3 DEF Owner, NoOne, TheRunner
<1>5. Fields'
    BY <1>1, <1>2 DEF Fields
<1>6. Disposer'
    BY <1>1, <1>2 DEF Disposer
<1>7. Fresh'
    BY <1>1, <1>2 DEF Fresh
<1>8. Delivered'
    BY <1>1, <1>2 DEF Delivered, Fields
<1> QED BY <1>4, <1>5, <1>6, <1>7, <1>8

\* the lock is taken, and the wait of a thread gives it up
LEMMA LockStep == ASSUME IInv, TypeOK', NEW t \in Threads, Lock(t) \/ Wait(t)
                  PROVE  Owner' /\ Fields' /\ Disposer' /\ Fresh' /\ Delivered'
<1> USE FutureAssumption DEF IInv, TypeOK, setup, object
<1>1. /\ UNCHANGED <<setup, object, runner, op, calls, got>>
      /\ \/ pc[t] \in {"lock", "woken"} /\ mu = NoOne /\ mu' = t
         \/ pc[t] = "look" /\ mu = t /\ mu' = NoOne
    BY DEF Lock, Wait, Owner
<1>2. \A u \in Threads :
         pc'[u] = IF u # t THEN pc[u] ELSE IF mu' = t THEN "look" ELSE "wait"
    BY DEF Lock, Wait, NoOne
<1>3. Owner'
    BY <1>1, <1>2 DEF Owner, NoOne, TheRunner
<1>4. Fields'
    BY <1>1 DEF Fields
<1>5. Disposer'
    BY <1>1, <1>2 DEF Disposer
<1>6. Fresh' /\ Delivered'
    BY <1>1, <1>2 DEF Fresh, Delivered
<1> QED BY <1>3, <1>4, <1>5, <1>6

LEMMA UnlockStep == ASSUME IInv, TypeOK', NEW t \in Threads, Unlock(t)
                    PROVE  Owner' /\ Fields' /\ Disposer' /\ Fresh' /\ Delivered'
<1> USE FutureAssumption DEF IInv, TypeOK, setup, object
<1>1. /\ alloc /\ pc[t] \in {"unlock", "dispose"} /\ mu = t /\ mu' = NoOne
      /\ UNCHANGED <<setup, object, runner, op, calls, got>>
    BY DEF Unlock, Owner
<1>2. \A u \in Threads :
         pc'[u] = IF u # t THEN pc[u] ELSE IF pc[t] = "dispose" THEN "free" ELSE "out"
    BY DEF Unlock
<1>3. Owner'
    BY <1>1, <1>2 DEF Owner, NoOne, TheRunner
<1>4. Fields'
    BY <1>1 DEF Fields
<1>5. pc[t] = "dispose" => runner = "end"
    BY <1>1 DEF Owner, Fields, Disposer, TheRunner
<1>6. Disposer'
    BY <1>1, <1>2, <1>5 DEF Disposer
<1>7. Fresh' /\ Delivered'
    BY <1>1, <1>2 DEF Fresh, Delivered
<1> QED BY <1>3, <1>4, <1>6, <1>7

LEMMA FreeStep == ASSUME IInv, TypeOK', NEW t \in Threads, Free(t)
                  PROVE  Owner' /\ Fields' /\ Disposer' /\ Fresh' /\ Delivered'
<1> USE FutureAssumption DEF IInv, TypeOK, setup, object
<1>1. /\ pc[t] = "free" /\ alloc' = FALSE
      /\ UNCHANGED <<setup, done, result, freed, runner, op, calls, got>>
      /\ \A u \in Threads : pc'[u] = IF u # t THEN pc[u] ELSE "out"
    BY DEF Free
<1>2. Owner'
    BY <1>1 DEF Owner
<1>3. Fields'
    BY <1>1 DEF Fields, Disposer
<1>4. Disposer'
    BY <1>1 DEF Disposer
<1>5. Fresh' /\ Delivered'
    BY <1>1 DEF Fresh, Delivered
<1> QED BY <1>2, <1>3, <1>4, <1>5

\* steps that touch neither the lock nor the object
LEMMA OtherSteps == ASSUME IInv, TypeOK', NEW t \in Threads,
                           AskDone(t) \/ Stray(t) \/ Spurious(t)
                    PROVE  Owner' /\ Fields' /\ Disposer' /\ Fresh' /\ Delivered'
<1> USE FutureAssumption DEF IInv, TypeOK, setup, object
<1>1. /\ UNCHANGED <<setup, object, mu, runner, op, calls, got>>
      /\ \/ \A u \in Threads : pc'[u] = pc[u]
         \/ /\ pc[t] = "look"
            /\ \A u \in Threads : pc'[u] = IF u # t THEN pc[u] ELSE "unlock"
         \/ /\ pc[t] = "wait"
            /\ \A u \in Threads : pc'[u] = IF u # t THEN pc[u] ELSE "woken"
    BY DEF AskDone, Stray, Spurious
<1>2. Owner'
    BY <1>1 DEF Owner
<1>3. Fields'
    BY <1>1 DEF Fields
<1>4. Disposer'
    BY <1>1 DEF Disposer
<1>5. Fresh' /\ Delivered'
    BY <1>1 DEF Fresh, Delivered
<1> QED BY <1>2, <1>3, <1>4, <1>5

THEOREM FutureStep == ASSUME IInv, [Next]_vars PROVE IInv'
<1>1. TypeOK'
    BY FutureTypeStep DEF IInv
<1>2. CASE Runner
    BY <1>1, <1>2, RunnerSteps DEF IInv
<1>3. ASSUME NEW t \in Threads, NEW o \in {"deref", "timeout", "done"}, Call(t, o)
      PROVE  IInv'
    BY <1>1, <1>3, CallStep DEF IInv
<1>4. ASSUME NEW t \in Threads, Thread(t) \/ Spurious(t) PROVE IInv'
    BY <1>1, <1>4, TakeStep, LockStep, UnlockStep, FreeStep, OtherSteps DEF IInv, Thread
<1>5. CASE UNCHANGED vars
    BY <1>5 DEF vars, IInv, TypeOK, Owner, Fields, Disposer, Fresh, Delivered
<1> QED BY <1>2, <1>3, <1>4, <1>5 DEF Next

\* The inductive invariant of a future (aliases.c:1066-1174), for any number of
\* threads that hold the handle.
THEOREM FutureInvariant == Spec => []IInv
<1> QED BY FutureInit, FutureStep, PTL DEF Spec

\* Types.
THEOREM FutureTypeOK == Spec => []TypeOK
<1>1. IInv => TypeOK
    BY DEF IInv
<1> QED BY <1>1, FutureInvariant, PTL

\* A deref returns what the function returned, whatever the threads do.
THEOREM FutureDelivered == Spec => []Delivered
<1>1. IInv => Delivered
    BY DEF IInv
<1> QED BY <1>1, FutureInvariant, PTL

\* However many threads deref or poll one future, one frees it at most, and
\* after the runner's last touch.
THEOREM FutureFreedOnce == Spec => []FreedOnce
<1>1. IInv => FreedOnce
    BY DEF IInv, Disposer, Fields, FreedOnce
<1> QED BY <1>1, FutureInvariant, PTL

(***************************************************************************)
(* A program with one user.                                                *)
(***************************************************************************)

OneUser == program = "once" \/ (program = "poll" /\ yields # Nil)

\* the object outlives the call that takes its value, and no call follows it
Sole ==
    /\ \A t, u \in Threads : calls[t] > 0 /\ calls[u] > 0 => t = u
    /\ freed => \E t \in Threads : calls[t] > 0
    /\ \A t \in Threads : freed /\ calls[t] > 0 =>
           got[t] = yields /\ pc[t] \in {"dispose", "free", "out"}
    /\ \A t \in Threads : got[t] = Value =>
           freed /\ (pc[t] = "out" => ~alloc)
    /\ \A t \in Threads : ~alloc => pc[t] = "out"
    /\ wild = {}

SInv == OneUser => Sole

LEMMA SoleInit == Init => SInv
<1> SUFFICES ASSUME Init PROVE Sole
    BY DEF SInv
<1>1. /\ alloc = TRUE /\ freed = FALSE /\ wild = {}
      /\ \A t \in Threads : calls[t] = 0 /\ got[t] = "none"
    BY DEF Init
<1> QED BY <1>1 DEF Sole, Value

LEMMA SoleRunner == ASSUME IInv, Sole, OneUser, Runner PROVE Sole'
<1> USE DEF IInv, TypeOK, setup, object
<1>1. UNCHANGED <<yields, alloc, freed, op, calls, got, wild>>
    BY DEF Runner, RunnerFn, RunnerStore, RunnerUnlock
<1>2. \/ \A t \in Threads : pc'[t] = pc[t]
      \/ alloc /\ ~freed /\ \A t \in Threads :
             pc'[t] = IF pc[t] = "wait" THEN "woken" ELSE pc[t]
    BY DEF Runner, RunnerFn, RunnerStore, RunnerUnlock, Fields
<1> QED BY <1>1, <1>2 DEF Sole

LEMMA SoleCall == ASSUME IInv, Sole, OneUser, NEW t \in Threads,
                         NEW o \in {"deref", "timeout", "done"}, Call(t, o)
                  PROVE  Sole'
<1> USE DEF IInv, TypeOK, setup, object
<1>1. /\ UNCHANGED <<yields, alloc, freed, got, wild>>
      /\ \A u \in Threads : /\ pc'[u] = IF u = t THEN "lock" ELSE pc[u]
                            /\ calls'[u] = IF u = t THEN calls[u] + 1 ELSE calls[u]
    BY DEF Call
<1>2. \A u \in Threads \ {t} : calls[u] = 0
    BY DEF Call, MayCall, OneUser
<1>3. calls[t] = 0 \/ (got[t] # Value /\ yields = Value)
    BY DEF Call, MayCall, OneUser
<1>4. ~freed
    BY <1>2, <1>3 DEF Sole
<1>5. alloc
    BY <1>4 DEF Fields
<1>6. \A u \in Threads : calls[u] \in Nat
    OBVIOUS
<1> QED BY <1>1, <1>2, <1>4, <1>5, <1>6 DEF Sole

LEMMA SoleTake == ASSUME IInv, Sole, OneUser, NEW t \in Threads, TimeOut(t) \/ TakeValue(t)
                  PROVE  Sole'
<1> USE DEF IInv, TypeOK, setup, object
<1>1. /\ alloc /\ pc[t] \in {"wait", "look"} /\ Take(t)
    BY DEF TimeOut, TakeValue
<1>2. /\ freed' = (freed \/ done)
      /\ UNCHANGED <<yields, alloc, done, result, calls, wild>>
      /\ \A u \in Threads :
            /\ got'[u] = IF u # t THEN got[u] ELSE IF done THEN result ELSE Nil
            /\ pc'[u] = IF u # t THEN pc[u]
                        ELSE IF done /\ ~freed THEN "dispose" ELSE "unlock"
    BY <1>1 DEF Take
<1>3. calls[t] > 0
    BY <1>1 DEF Fresh
<1>4. ~freed
    BY <1>1, <1>3 DEF Sole
<1>5. \A u \in Threads \ {t} : calls[u] = 0
    BY <1>3 DEF Sole
<1>6. CASE done
  <2>1. result = yields
    BY <1>6 DEF Fields
  <2>2. got'[t] = yields /\ pc'[t] = "dispose" /\ freed' = TRUE
    BY <1>2, <1>4, <1>6, <2>1
  <2> QED BY <1>1, <1>2, <1>3, <1>5, <2>2 DEF Sole, Fresh, Value
<1>7. CASE ~done
    BY <1>1, <1>2, <1>4, <1>7 DEF Sole, Nil, Value
<1> QED BY <1>6, <1>7

LEMMA SoleOther == ASSUME IInv, Sole, OneUser, NEW t \in Threads,
                          \/ Lock(t) \/ Wait(t) \/ AskDone(t) \/ Unlock(t)
                          \/ Free(t) \/ Stray(t) \/ Spurious(t)
                   PROVE  Sole'
<1> USE DEF IInv, TypeOK, setup, object
<1>1. pc[t] # "out" /\ ~Stray(t)
    BY DEF Lock, Wait, AskDone, Unlock, Free, Stray, Spurious, Sole, AtObject
<1>2. calls[t] > 0
    BY <1>1 DEF Fresh
<1>3. /\ UNCHANGED <<yields, freed, calls, got, wild>>
      /\ \A u \in Threads : u # t => pc'[u] = pc[u]
    BY <1>1 DEF Lock, Wait, AskDone, Unlock, Free, Spurious
<1>4. CASE pc[t] \notin {"dispose", "free"}
  <2>1. ~freed
    BY <1>1, <1>2, <1>4 DEF Sole
  <2>2. alloc /\ alloc' = alloc
    BY <1>1, <1>4 DEF Lock, Wait, AskDone, Unlock, Free, Spurious, Sole
  <2> QED BY <1>3, <2>1, <2>2 DEF Sole
<1>5. CASE pc[t] = "dispose"
  <2>1. alloc /\ alloc' = alloc /\ pc'[t] = "free"
    BY <1>1, <1>5 DEF Lock, Wait, AskDone, Unlock, Free, Spurious
  <2> QED BY <1>3, <2>1 DEF Sole
<1>6. CASE pc[t] = "free"
  <2>1. alloc' = FALSE /\ pc'[t] = "out"
    BY <1>1, <1>6 DEF Lock, Wait, AskDone, Unlock, Free, Spurious
  <2>2. \A u \in Threads \ {t} : pc[u] = "out"
    BY <1>2 DEF Sole, Fresh
  <2> QED BY <1>3, <2>1, <2>2 DEF Sole
<1> QED BY <1>4, <1>5, <1>6

\* A program with one user, which stops at the first value that is not nil,
\* never touches the freed object and does free it.
THEOREM FutureOneUser == Spec => []OneUserIsSafe
<1>1. ASSUME IInv, SInv, [Next]_vars PROVE SInv'
  <2>1. OneUser' => OneUser
    BY <1>1 DEF OneUser, Next, Runner, RunnerFn, RunnerStore, RunnerUnlock, Call, Thread,
       Lock, Wait, TimeOut, TakeValue, Take, AskDone, Unlock, Free, Stray, Spurious, setup, vars
  <2> SUFFICES ASSUME OneUser, Sole PROVE Sole'
    BY <1>1, <2>1 DEF SInv
  <2>2. CASE Next
    BY <1>1, <2>2, SoleRunner, SoleCall, SoleTake, SoleOther DEF Next, Thread
  <2>3. CASE UNCHANGED vars
    BY <2>3 DEF vars, Sole
  <2> QED BY <1>1, <2>2, <2>3
<1>2. SInv => OneUserIsSafe
    BY DEF SInv, OneUser, Sole, OneUserIsSafe
<1> QED BY SoleInit, <1>1, <1>2, FutureInvariant, PTL DEF Spec

(***************************************************************************)
(* Descriptors.  While no handler closes one itself, a descriptor is       *)
(* closed once and only by the worker that was given it, so the number     *)
(* cannot be somebody else's by then.                                      *)
(***************************************************************************)

(* A worker with a connection has a descriptor; the handlers of streams    *)
(* run only in servers that have them.                                     *)
Given == \A w \in Workers :
    wpc[w] # "idle" => fd[w] \in Fds /\ mine[w] \in 1..MaxConns
Featured == \A w \in Workers : wpc[w] \in {"sse", "cleanup"} => "sse" \in server

(* Before its stream a worker has no connection object.                    *)
NoObjectYet == \A w \in Workers : wpc[w] = "serving" => connObj[w] = "none"

CInv == ConnTypeOK /\ Given /\ Featured /\ NoObjectYet /\ Exclusive /\ ObjectAlive

-----------------------------------------------------------------------------
LEMMA InitCInv == ConnInit => CInv
<1> SUFFICES ASSUME ConnInit PROVE CInv
  OBVIOUS
<1>1. ConnTypeOK
  <2>1. 0 \in 0..MaxConns
    BY ConnectionAssumption
  <2>2. /\ os \in [Fds -> 0..MaxConns] /\ accepted \in 0..MaxConns
        /\ mine \in [Workers -> 0..MaxConns] /\ used \in [by : 0..MaxConns, at : 0..MaxConns]
    BY <2>1 DEF ConnInit, NoUse
  <2>3. /\ server \in Servers /\ wpc \in [Workers -> WorkerStates]
        /\ fd \in [Workers -> Fds \cup {NoFd}] /\ closedFlag \in [Workers -> BOOLEAN]
        /\ connObj \in [Workers -> {"none", "live", "freed"}]
    BY DEF ConnInit, WorkerStates
  <2> QED
    BY <2>2, <2>3 DEF ConnTypeOK
<1>2. Given /\ Featured /\ NoObjectYet
  BY DEF ConnInit, Given, Featured, NoObjectYet
<1>3. Exclusive /\ ObjectAlive
  BY DEF ConnInit, Exclusive, HandlerManagesFd, ObjectAlive, NoUse
<1> QED
  BY <1>1, <1>2, <1>3 DEF CInv

(* The next connection has a number nobody has, and a descriptor nobody    *)
(* has open.                                                               *)
LEMMA AcceptCInv ==
    ASSUME CInv, NEW w \in Workers, Accept(w)
    PROVE  CInv'
<1>1. PICK f \in Fds : /\ os[f] = 0 /\ os' = [os EXCEPT ![f] = accepted + 1]
                       /\ fd' = [fd EXCEPT ![w] = f]
  BY DEF Accept
<1>2. accepted + 1 \in 1..MaxConns /\ accepted + 1 \in 0..MaxConns
  BY ConnectionAssumption DEF Accept, CInv, ConnTypeOK
<1>3. ConnTypeOK'
  BY <1>1, <1>2 DEF Accept, CInv, ConnTypeOK, WorkerStates
<1>4. /\ fd'[w] = f /\ mine'[w] = accepted + 1 /\ wpc'[w] = "serving" /\ os'[f] = accepted + 1
      /\ \A v \in Workers \ {w} : fd'[v] = fd[v] /\ mine'[v] = mine[v] /\ wpc'[v] = wpc[v]
      /\ \A e \in Fds : e # f => os'[e] = os[e]
  BY <1>1 DEF Accept, CInv, ConnTypeOK
<1>5. Given' /\ Featured' /\ NoObjectYet'
  BY <1>2, <1>4 DEF Accept, CInv, ConnTypeOK, Given, Featured, NoObjectYet
<1>6. Exclusive'
  <2> SUFFICES ASSUME server = {}
               PROVE  /\ HandlerManagesFd
                      /\ \A u \in Workers : wpc'[u] # "idle" =>
                            /\ os'[fd'[u]] = mine'[u]
                            /\ \A v \in Workers \ {u} : wpc'[v] # "idle" => fd'[v] # fd'[u]
    BY DEF Accept, Exclusive, HandlerManagesFd
  <2>1. \A u \in Workers \ {w} : wpc[u] # "idle" =>
            fd[u] \in Fds /\ os[fd[u]] = mine[u] /\ fd[u] # f
    BY <1>1 DEF CInv, Given, Exclusive
  <2> QED
    BY <1>4, <2>1 DEF CInv, Exclusive
<1>7. ObjectAlive'
  BY <1>4 DEF Accept, CInv, ConnTypeOK, ObjectAlive
<1> QED
  BY <1>3, <1>5, <1>6, <1>7 DEF CInv

(* A step of a worker with a connection that closes nothing, or closes     *)
(* what only it has: its descriptor stays its own until the last close.    *)
LEMMA KeepsExclusive ==
    ASSUME CInv, NEW w \in Workers, wpc[w] # "idle", NEW to \in WorkerStates,
           wpc' = [wpc EXCEPT ![w] = to], UNCHANGED <<server, fd, mine>>,
           server = {} => \/ os' = os
                          \/ to = "idle" /\ os' = [os EXCEPT ![fd[w]] = 0],
           used' = used \/ Touch(w)
    PROVE  Exclusive'
<1> SUFFICES ASSUME server = {}
             PROVE  /\ HandlerManagesFd'
                    /\ \A u \in Workers : wpc'[u] # "idle" =>
                          /\ os'[fd[u]] = mine[u]
                          /\ \A v \in Workers \ {u} : wpc'[v] # "idle" => fd[v] # fd[u]
  BY DEF Exclusive
<1>1. os[fd[w]] = mine[w] /\ fd[w] \in Fds
  BY DEF CInv, Exclusive, Given
<1>2. HandlerManagesFd'
  BY <1>1 DEF CInv, Exclusive, HandlerManagesFd, Touch
<1>3. /\ wpc'[w] = to /\ \A u \in Workers \ {w} : wpc'[u] = wpc[u]
  BY DEF CInv, ConnTypeOK
<1>4. ASSUME NEW u \in Workers, wpc'[u] # "idle" PROVE os'[fd[u]] = mine[u]
  <2>1. os[fd[u]] = mine[u] /\ fd[u] \in Fds /\ (u # w => fd[u] # fd[w])
    BY <1>3, <1>4 DEF CInv, Exclusive, Given
  <2> QED
    BY <1>3, <1>4, <2>1 DEF CInv, ConnTypeOK
<1>5. \A u \in Workers : wpc'[u] # "idle" =>
          \A v \in Workers \ {u} : wpc'[v] # "idle" => fd[v] # fd[u]
  BY <1>3 DEF CInv, Exclusive
<1> QED
  BY <1>2, <1>4, <1>5

LEMMA WorkCInv ==
    ASSUME CInv, NEW w \in Workers, Work(w)
    PROVE  CInv'
<1>0. wpc[w] # "idle"
  BY DEF Work, Leave, Serve, ServeLast, BeginSse, BeginWs, Begin, StreamIo, Hear, WsClose,
         StreamReturns, SseCleanup, WsCleanup, WsLeave, Close
<1>1. PICK to \in WorkerStates : wpc' = [wpc EXCEPT ![w] = to]
  <2>1. wpc = [wpc EXCEPT ![w] = wpc[w]] /\ wpc[w] \in WorkerStates
    BY DEF CInv, ConnTypeOK
  <2> QED
    BY <2>1
    DEF Work, Leave, Serve, ServeLast, BeginSse, BeginWs, Begin, StreamIo, Hear, WsClose,
        StreamReturns, SseCleanup, WsCleanup, WsLeave, Close, WorkerStates
<1>2. UNCHANGED <<server, accepted, fd, mine>>
  BY DEF Work, Leave, Serve, ServeLast, BeginSse, BeginWs, Begin, StreamIo, Hear, WsClose,
         StreamReturns, SseCleanup, WsCleanup, WsLeave, Close
<1>3. /\ os' = os \/ CloseFd(w)
      /\ used' = used \/ Touch(w)
  BY DEF Work, Leave, Serve, ServeLast, BeginSse, BeginWs, Begin, StreamIo, Hear, WsClose,
         StreamReturns, SseCleanup, WsCleanup, WsLeave, Close
<1>4. fd[w] \in Fds /\ mine[w] \in 0..MaxConns
  BY <1>0 DEF CInv, Given, ConnTypeOK
<1>5. ConnTypeOK'
  <2>1. os' \in [Fds -> 0..MaxConns]
    BY <1>3, ConnectionAssumption DEF CloseFd, CInv, ConnTypeOK
  <2>2. used' \in [by : 0..MaxConns, at : 0..MaxConns]
    BY <1>3, <1>4 DEF Touch, CInv, ConnTypeOK
  <2>3. /\ connObj' \in [Workers -> {"none", "live", "freed"}]
        /\ closedFlag' \in [Workers -> BOOLEAN]
    BY DEF Work, Leave, Serve, ServeLast, BeginSse, BeginWs, Begin, StreamIo, Hear, WsClose,
           StreamReturns, SseCleanup, WsCleanup, WsLeave, Close, CInv, ConnTypeOK
  <2> QED
    BY <1>1, <1>2, <2>1, <2>2, <2>3 DEF CInv, ConnTypeOK
<1>6. Given'
  BY <1>0, <1>1, <1>2 DEF CInv, ConnTypeOK, Given
<1>7. Featured' /\ NoObjectYet'
  BY <1>2
  DEF Work, Leave, Serve, ServeLast, BeginSse, BeginWs, Begin, StreamIo, Hear, WsClose,
      StreamReturns, SseCleanup, WsCleanup, WsLeave, Close,
      CInv, ConnTypeOK, Featured, NoObjectYet
<1>8. Exclusive'
  <2>1. server = {} => os' = os \/ (to = "idle" /\ os' = [os EXCEPT ![fd[w]] = 0])
    BY <1>1
    DEF Work, Leave, Serve, ServeLast, BeginSse, BeginWs, Begin, StreamIo, Hear, WsClose,
        StreamReturns, SseCleanup, WsCleanup, WsLeave, Close, CloseFd,
        CInv, ConnTypeOK, Featured
  <2> QED
    BY <1>0, <1>1, <1>2, <1>3, <2>1, KeepsExclusive
<1>9. ObjectAlive'
  BY ZenonT(40), <1>2
  DEF Work, Leave, Serve, ServeLast, BeginSse, BeginWs, Begin, StreamIo, Hear, WsClose,
      StreamReturns, SseCleanup, WsCleanup, WsLeave, Close, SeesClosed,
      CInv, ConnTypeOK, NoObjectYet, ObjectAlive
<1> QED
  BY <1>5, <1>6, <1>7, <1>8, <1>9 DEF CInv

LEMMA NextCInv == CInv /\ [ConnNext]_connVars => CInv'
<1> SUFFICES ASSUME CInv, [ConnNext]_connVars PROVE CInv'
  OBVIOUS
<1>1. CASE UNCHANGED connVars
  BY <1>1 DEF connVars, CInv, ConnTypeOK, Given, Featured, NoObjectYet, Exclusive,
              HandlerManagesFd, ObjectAlive
<1>2. CASE ConnNext
  BY <1>2, AcceptCInv, WorkCInv DEF ConnNext
<1> QED
  BY <1>1, <1>2

(* Types, and what the two properties need, in every state.                *)
THEOREM ConnectionInvariant == ConnSpec => []CInv
BY InitCInv, NextCInv, PTL DEF ConnSpec

(* A worker's descriptor is its connection's from accept to close, and it  *)
(* touches no other connection, as long as no handler closes it.           *)
THEOREM ConnectionExclusive == ConnSpec => []Exclusive
<1>1. CInv => Exclusive
  BY DEF CInv
<1> QED
  BY <1>1, ConnectionInvariant, PTL

(* The cleanup of a WebSocket handler finds its object alive, and only the *)
(* object of a connection the client ended outlives the descriptor.        *)
THEOREM ConnectionObjectAlive == ConnSpec => []ObjectAlive
<1>1. CInv => ObjectAlive
  BY DEF CInv
<1> QED
  BY <1>1, ConnectionInvariant, PTL
=============================================================================
