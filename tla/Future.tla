------------------------------- MODULE Future -------------------------------
(***************************************************************************)
(* A future of the runtime (runtime/aliases.c): fl_future runs a function  *)
(* on a detached thread, fl_deref waits for its value, fl_deref_timeout    *)
(* waits for a while, fl_future_done asks.  The first thread that takes    *)
(* the value destroys the lock and frees the object; every handle to it    *)
(* keeps the raw address.                                                  *)
(*                                                                         *)
(* One future is modelled: futures share nothing.  A thread that touches   *)
(* the object after it was freed is recorded in `wild' and goes no         *)
(* further, since what the build does with freed memory is not defined.    *)
(***************************************************************************)
EXTENDS Naturals

CONSTANTS
    Threads,    \* the threads holding the handle
    Programs,   \* the ways they use it, see Uses
    MaxCalls    \* bound: how often a polling thread asks

\* how the program uses the handle:
\*   "once"  one thread calls deref once
\*   "poll"  one thread asks done? and retries deref-timeout while it gets nil
\*   "share" every thread derefs
Uses == {"once", "poll", "share"}

NoOne == "no one"
TheRunner == "runner"
Nil == "nil"
Value == "value"        \* the copy of what the function returned

ASSUME FutureAssumption ==
    /\ MaxCalls \in Nat
    /\ Programs \subseteq Uses
    /\ {NoOne, TheRunner} \cap Threads = {}

VARIABLES
    program,    \* the way this run uses the handle
    yields,     \* what the function returns, Nil or Value
    started,    \* whether pthread_create succeeded (its result is not looked at)
    alloc,      \* whether the FLFuture is allocated
    done,       \* f->done
    result,     \* f->result
    freed,      \* f->freed
    mu,         \* owner of f->mu
    runner,     \* where future_runner is
    pc,         \* where each thread is
    op,         \* the call each thread is making
    calls,      \* calls each thread has made
    got,        \* what its last deref or deref-timeout returned
    wild        \* threads that touched the freed object

vars == <<program, yields, started, alloc, done, result, freed, mu, runner,
          pc, op, calls, got, wild>>

object == <<alloc, done, result, freed>>
setup == <<program, yields, started>>

Steps == {"out", "lock", "look", "wait", "woken", "unlock", "dispose", "free"}

\* the positions from which the next step reads or writes the object
AtObject == {"lock", "look", "woken", "unlock", "dispose"}

TypeOK ==
    /\ program \in Programs
    /\ yields \in {Nil, Value}
    /\ started \in BOOLEAN
    /\ alloc \in BOOLEAN
    /\ done \in BOOLEAN
    /\ result \in {Nil, Value}
    /\ freed \in BOOLEAN
    /\ mu \in Threads \cup {TheRunner, NoOne}
    /\ runner \in {"fn", "lock", "unlock", "end"}
    /\ pc \in [Threads -> Steps]
    /\ op \in [Threads -> {"deref", "timeout", "done"}]
    /\ calls \in [Threads -> 0 .. MaxCalls + 1]
    /\ got \in [Threads -> {Nil, Value, "none"}]
    /\ wild \in SUBSET Threads

\* fl_future has returned: the object is initialised and the thread created,
\* or not created, which nothing looks at
Init ==
    /\ program \in Programs
    /\ yields \in {Nil, Value}
    /\ started \in BOOLEAN
    /\ alloc = TRUE
    /\ done = FALSE
    /\ result = Nil
    /\ freed = FALSE
    /\ mu = NoOne
    /\ runner = "fn"
    /\ pc = [t \in Threads |-> "out"]
    /\ op = [t \in Threads |-> "deref"]
    /\ calls = [t \in Threads |-> 0]
    /\ got = [t \in Threads |-> "none"]
    /\ wild = {}

(***************************************************************************)
(* The detached thread: future_runner.                                     *)
(***************************************************************************)

\* the function returns (one that throws ends the process, one that loops
\* is a runner that takes no step)
RunnerFn ==
    /\ started
    /\ runner = "fn"
    /\ runner' = "lock"
    /\ UNCHANGED <<setup, object, mu, pc, op, calls, got, wild>>

\* mutant: nobody is woken
RunnerStoreSilent ==
    /\ runner = "lock"
    /\ mu = NoOne
    /\ mu' = TheRunner
    /\ result' = yields
    /\ done' = TRUE
    /\ runner' = "unlock"
    /\ UNCHANGED <<setup, alloc, freed, pc, op, calls, got, wild>>

\* lock, store the copy, set done, broadcast
RunnerStore ==
    /\ runner = "lock"
    /\ mu = NoOne
    /\ mu' = TheRunner
    /\ result' = yields
    /\ done' = TRUE
    /\ pc' = [t \in Threads |-> IF pc[t] = "wait" THEN "woken" ELSE pc[t]]
    /\ runner' = "unlock"
    /\ UNCHANGED <<setup, alloc, freed, op, calls, got, wild>>

RunnerUnlock ==
    /\ runner = "unlock"
    /\ mu' = NoOne
    /\ runner' = "end"
    /\ UNCHANGED <<setup, object, pc, op, calls, got, wild>>

(***************************************************************************)
(* The holders of the handle.                                              *)
(***************************************************************************)

\* what the program of thread t calls next, with the handle it holds
MayCall(t, o) ==
    CASE program = "once"  -> o = "deref" /\ calls[t] = 0
                              /\ \A u \in Threads \ {t} : calls[u] = 0
      [] program = "poll"  -> /\ o \in {"timeout", "done"}
                              /\ got[t] # Value
                              /\ \A u \in Threads \ {t} : calls[u] = 0
                              /\ calls[t] < MaxCalls
      [] program = "share" -> o = "deref" /\ calls[t] = 0

Call(t, o) ==
    /\ pc[t] = "out"
    /\ t \notin wild
    /\ MayCall(t, o)
    /\ op' = [op EXCEPT ![t] = o]
    /\ calls' = [calls EXCEPT ![t] = @ + 1]
    /\ pc' = [pc EXCEPT ![t] = "lock"]
    /\ UNCHANGED <<setup, object, mu, runner, got, wild>>

\* pthread_mutex_lock(&f->mu), on entry and again when a wait ends
Lock(t) ==
    /\ alloc
    /\ pc[t] \in {"lock", "woken"}
    /\ mu = NoOne
    /\ mu' = t
    /\ pc' = [pc EXCEPT ![t] = "look"]
    /\ UNCHANGED <<setup, object, runner, op, calls, got, wild>>

\* while (!f->done) pthread_cond_wait / timedwait: the wait releases the lock
Wait(t) ==
    /\ alloc
    /\ pc[t] = "look"
    /\ op[t] # "done"
    /\ ~done
    /\ mu' = NoOne
    /\ pc' = [pc EXCEPT ![t] = "wait"]
    /\ UNCHANGED <<setup, object, runner, op, calls, got, wild>>

\* a wait may end by itself
Spurious(t) ==
    /\ pc[t] = "wait"
    /\ pc' = [pc EXCEPT ![t] = "woken"]
    /\ UNCHANGED <<setup, object, mu, runner, op, calls, got, wild>>

\* mutant: freed is not looked at
TakeAlways(t) ==
    /\ got' = [got EXCEPT ![t] = IF done THEN result ELSE Nil]
    /\ freed' = (freed \/ done)
    /\ pc' = [pc EXCEPT ![t] = IF done THEN "dispose" ELSE "unlock"]
    /\ UNCHANGED <<setup, alloc, done, result, runner, op, calls, wild>>

\* mutant: a wait that timed out disposes of the object too
TakeUndone(t) ==
    /\ got' = [got EXCEPT ![t] = IF done THEN result ELSE Nil]
    /\ freed' = TRUE
    /\ pc' = [pc EXCEPT ![t] = IF ~freed THEN "dispose" ELSE "unlock"]
    /\ UNCHANGED <<setup, alloc, done, result, runner, op, calls, wild>>

\* the value is there, or the wait timed out with the lock held again: return
\* f->result, nil if it has not come; the first thread to see it done sets
\* freed and is the one that disposes of the object
Take(t) ==
    /\ got' = [got EXCEPT ![t] = IF done THEN result ELSE Nil]
    /\ freed' = (freed \/ done)
    /\ pc' = [pc EXCEPT ![t] = IF done /\ ~freed THEN "dispose" ELSE "unlock"]
    /\ UNCHANGED <<setup, alloc, done, result, runner, op, calls, wild>>

\* mutant: deref times out as deref-timeout does
TimeOutAny(t) ==
    /\ alloc
    /\ pc[t] = "wait"
    /\ mu = NoOne
    /\ mu' = t
    /\ Take(t)

TimeOut(t) ==
    /\ alloc
    /\ pc[t] = "wait"
    /\ op[t] = "timeout"
    /\ mu = NoOne
    /\ mu' = t
    /\ Take(t)

TakeValue(t) ==
    /\ alloc
    /\ pc[t] = "look"
    /\ op[t] # "done"
    /\ done
    /\ UNCHANGED mu
    /\ Take(t)

\* fl_future_done reads done
AskDone(t) ==
    /\ alloc
    /\ pc[t] = "look"
    /\ op[t] = "done"
    /\ pc' = [pc EXCEPT ![t] = "unlock"]
    /\ UNCHANGED <<setup, object, mu, runner, op, calls, got, wild>>

\* the one that disposes of the object unlocks first, and frees it after
Unlock(t) ==
    /\ alloc
    /\ pc[t] \in {"unlock", "dispose"}
    /\ mu' = NoOne
    /\ pc' = [pc EXCEPT ![t] = IF @ = "dispose" THEN "free" ELSE "out"]
    /\ UNCHANGED <<setup, object, runner, op, calls, got, wild>>

\* pthread_mutex_destroy, pthread_cond_destroy, free(f)
Free(t) ==
    /\ pc[t] = "free"
    /\ alloc' = FALSE
    /\ pc' = [pc EXCEPT ![t] = "out"]
    /\ UNCHANGED <<setup, done, result, freed, mu, runner, op, calls, got, wild>>

\* the next touch of an object that is gone
Stray(t) ==
    /\ ~alloc
    /\ pc[t] \in AtObject
    /\ t \notin wild
    /\ wild' = wild \cup {t}
    /\ UNCHANGED <<setup, object, mu, runner, pc, op, calls, got>>

Runner == RunnerFn \/ RunnerStore \/ RunnerUnlock

Thread(t) ==
    \/ Lock(t) \/ Wait(t) \/ TimeOut(t) \/ TakeValue(t) \/ AskDone(t)
    \/ Unlock(t) \/ Free(t) \/ Stray(t)

Next ==
    \/ Runner
    \/ \E t \in Threads :
        \/ \E o \in {"deref", "timeout", "done"} : Call(t, o)
        \/ Thread(t)
        \/ Spurious(t)

Spec == Init /\ [][Next]_vars

\* the function returns and threads run; a lock that is free again and again
\* is obtained, as with the futex-based mutex of the C library
Fairness ==
    /\ WF_vars(RunnerFn) /\ WF_vars(RunnerUnlock) /\ SF_vars(RunnerStore)
    /\ \A t \in Threads :
        /\ SF_vars(Lock(t))
        /\ WF_vars(Wait(t) \/ TakeValue(t) \/ AskDone(t) \/ Unlock(t) \/ Free(t))

FairSpec == Spec /\ Fairness

(***************************************************************************)
(* Properties.                                                             *)
(***************************************************************************)

\* A deref returns what the function returned, in every program and however
\* the waits and wake-ups interleave; a deref-timeout returns that or nil.
Delivered ==
    \A t \in Threads :
        got[t] # "none" => \/ got[t] = yields
                           \/ op[t] # "deref" /\ got[t] = Nil

\* Whatever the threads do, one of them at most frees the object, and the
\* runner never finds it gone: its last touch comes before the value can be
\* taken.
FreedOnce ==
    /\ \A t, u \in Threads :
           pc[t] \in {"dispose", "free"} /\ pc[u] \in {"dispose", "free"} => t = u
    /\ \A t \in Threads : pc[t] = "free" => alloc
    /\ ~alloc => runner = "end"

\* A program in which one thread uses the handle, and stops as soon as it has
\* got a value that is not nil, never touches the object after it was freed,
\* and frees it.  (Two threads that deref one future do touch it, and so does
\* one that retries deref-timeout on a nil the function returned.)
OneUserIsSafe ==
    program = "once" \/ (program = "poll" /\ yields # Nil) =>
        /\ wild = {}
        /\ \A t \in Threads : pc[t] = "out" /\ got[t] = Value => ~alloc

\* A deref of a future whose thread was created returns, if the function does.
\* The time of a deref-timeout is not negative (aliases.c:1145-1149 would hand
\* pthread_cond_timedwait a deadline it refuses).
DerefReturns ==
    \A t \in Threads :
        (program = "once" /\ started /\ pc[t] = "lock") ~> (pc[t] = "out")
============================================================================
