----------------------------- MODULE NetRegistry -----------------------------
(***************************************************************************)
(* The socket registry of runtime/net.c, with the threads of a program     *)
(* that open sockets, do I/O under a guard (readline, read_bytes, write,   *)
(* writeline, write_bytes) and call net_close.  fl_net_registry_mu is held *)
(* only inside one action; poll, recv, send and close(2) are steps of      *)
(* their own, outside it.                                                  *)
(*                                                                         *)
(* A program names a socket by its descriptor, which the operating system  *)
(* gives out again once it is closed.  The sockets are numbered in the     *)
(* order they are opened, the entries by their generation; an entry's sock *)
(* is the socket that was open under its fd when it was registered.        *)
(***************************************************************************)
EXTENDS Naturals, FiniteSets

CONSTANTS Threads,     (* the threads of the program                         *)
          Fds,         (* the descriptors the operating system gives out     *)
          MaxSocks,    (* bound: the sockets opened in one execution         *)
          MaxCloses,   (* bound: the net_close calls that race for a socket  *)
          PasvAccept,  (* whether the program uses net_pasv_accept           *)
          NoFd         (* no descriptor                                      *)

ASSUME RegistryAssumption ==
    /\ IsFiniteSet(Threads)
    /\ MaxSocks \in Nat
    /\ MaxCloses \in Nat
    /\ PasvAccept \in BOOLEAN
    /\ NoFd \notin Fds

Socks == 1..MaxSocks
Gens == 1..MaxSocks

VARIABLES os,         (* the socket open under each descriptor, 0 for none   *)
          opened,     (* the number of sockets opened so far                 *)
          fdOf,       (* the descriptor each socket was opened under         *)
          entry,      (* the entries, by generation                          *)
          nextGen,    (* fl_net_next_generation                              *)
          pc,         (* where each thread is                                *)
          sock,       (* the socket each thread's call is meant for          *)
          ent,        (* the entry each thread points to, 0 for NULL         *)
          published,  (* the sockets whose descriptor the program has        *)
          gone,       (* the sockets a net_close has returned for            *)
          calls       (* how many net_close calls were made for each         *)

osVars == <<os, opened, fdOf>>
registryVars == <<entry, nextGen>>
programVars == <<published, gone, calls>>
vars == <<os, opened, fdOf, entry, nextGen, pc, sock, ent, published, gone, calls>>

EntryStates == {"none", "open", "closing", "closed", "freed"}
Entries == [fd : Fds \cup {NoFd}, sock : 0..MaxSocks, state : EntryStates,
            refs : 0..(Cardinality(Threads) + 1)]
ThreadStates == {"idle", "register", "registered", "acquire", "io", "find", "check",
                 "waiting", "osclose", "finish", "raw"}

Fd(t) == fdOf[sock[t]]

(* fl_net_find_locked and fl_net_find_close_locked: the list is searched   *)
(* from its head, the youngest generation first.                           *)
Matching(f, states) == {g \in Gens : entry[g].state \in states /\ entry[g].fd = f}
Newest(S) == {g \in S : \A h \in S : h <= g}

(* fl_net_reap_locked, on an entry that is about to become e.              *)
Reap(e) == IF e.state = "closed" /\ e.refs = 0 THEN [e EXCEPT !.state = "freed"] ELSE e

Drop(e) == [e EXCEPT !.refs = IF @ > 0 THEN @ - 1 ELSE 0]

Init == /\ os = [f \in Fds |-> 0]
        /\ opened = 0
        /\ fdOf = [s \in Socks |-> NoFd]
        /\ entry = [g \in Gens |-> [fd |-> NoFd, sock |-> 0, state |-> "none", refs |-> 0]]
        /\ nextGen = 0
        /\ pc = [t \in Threads |-> "idle"]
        /\ sock = [t \in Threads |-> 0]
        /\ ent = [t \in Threads |-> 0]
        /\ published = {}
        /\ gone = {}
        /\ calls = [s \in Socks |-> 0]

Step(t, from, to) == /\ pc[t] = from
                     /\ pc' = [pc EXCEPT ![t] = to]

-----------------------------------------------------------------------------
(* Opening a socket: socket() or accept(), then fl_net_register_fd.        *)

Open(t) == /\ Step(t, "idle", "register")
           /\ opened < MaxSocks
           /\ opened' = opened + 1
           /\ \E f \in Fds : /\ os[f] = 0
                             /\ os' = [os EXCEPT ![f] = opened']
                             /\ fdOf' = [fdOf EXCEPT ![opened'] = f]
           /\ sock' = [sock EXCEPT ![t] = opened']
           /\ UNCHANGED <<registryVars, ent, programVars>>

\* mutant: the registry takes no reference of its own
RegisterUnowned(t) == /\ Step(t, "register", "registered")
                      /\ nextGen' = nextGen + 1
                      /\ entry' = [entry EXCEPT ![nextGen'] = [fd |-> Fd(t), sock |-> sock[t],
                                                               state |-> "open", refs |-> 0]]
                      /\ ent' = [ent EXCEPT ![t] = nextGen']
                      /\ UNCHANGED <<osVars, sock, programVars>>

Register(t) == /\ Step(t, "register", "registered")
               /\ nextGen' = nextGen + 1
               /\ entry' = [entry EXCEPT ![nextGen'] = [fd |-> Fd(t), sock |-> sock[t],
                                                        state |-> "open", refs |-> 1]]
               /\ ent' = [ent EXCEPT ![t] = nextGen']
               /\ UNCHANGED <<osVars, sock, programVars>>

(* calloc fails: the socket is closed, and net_pasv_accept returns its     *)
(* descriptor all the same.                                                *)
RegisterFails(t) == /\ Step(t, "register", "idle")
                    /\ os' = [os EXCEPT ![Fd(t)] = 0]
                    /\ published' \in {published} \cup
                           (IF PasvAccept THEN {published \cup {sock[t]}} ELSE {})
                    /\ UNCHANGED <<opened, fdOf, registryVars, sock, ent, gone, calls>>

(* The generation is read from the entry after the unlock, and the program *)
(* gets the descriptor.                                                    *)
Publish(t) == /\ Step(t, "registered", "idle")
              /\ published' = published \cup {sock[t]}
              /\ ent' = [ent EXCEPT ![t] = 0]
              /\ UNCHANGED <<osVars, registryVars, sock, gone, calls>>

(* bind, listen, connect or fcntl failed: the caller closes what it opened *)
(* and returns an error.                                                   *)
Abandon(t) == /\ Step(t, "registered", "find")
              /\ ent' = [ent EXCEPT ![t] = 0]
              /\ calls' = [calls EXCEPT ![sock[t]] = @ + 1]
              /\ UNCHANGED <<osVars, registryVars, sock, published, gone>>

-----------------------------------------------------------------------------
(* I/O under a guard                                                       *)

(* The program uses a descriptor until a net_close for it has returned.    *)
BeginIo(t) == /\ Step(t, "idle", "acquire")
              /\ \E s \in published \ gone : sock' = [sock EXCEPT ![t] = s]
              /\ UNCHANGED <<osVars, registryVars, ent, programVars>>

\* mutant: a guard is handed out and not counted
AcquireUncounted(t) == /\ Step(t, "acquire", "io")
                       /\ \E g \in Newest(Matching(Fd(t), {"open"})) :
                             ent' = [ent EXCEPT ![t] = g]
                       /\ UNCHANGED <<osVars, registryVars, sock, programVars>>

(* fl_net_acquire_fd.                                                      *)
Acquire(t) == /\ Step(t, "acquire", "io")
              /\ \E g \in Newest(Matching(Fd(t), {"open"})) :
                    /\ ent' = [ent EXCEPT ![t] = g]
                    /\ entry' = [entry EXCEPT ![g].refs = @ + 1]
              /\ UNCHANGED <<osVars, nextGen, sock, programVars>>

(* With no entry write_bytes returns EBADF and the others do their I/O     *)
(* without a guard; neither touches the registry.                          *)
AcquireNothing(t) == /\ Step(t, "acquire", "idle")
                     /\ Matching(Fd(t), {"open"}) = {}
                     /\ UNCHANGED <<osVars, registryVars, sock, ent, programVars>>

\* mutant: the waiting closer is not woken
ReleaseSilent(t) == /\ Step(t, "io", "idle")
                    /\ entry' = [entry EXCEPT ![ent[t]] = Reap(Drop(@))]
                    /\ ent' = [ent EXCEPT ![t] = 0]
                    /\ UNCHANGED <<osVars, nextGen, sock, programVars>>

(* fl_net_release_fd: the broadcast wakes every waiting closer.            *)
Release(t) == /\ pc[t] = "io"
              /\ pc' = [u \in Threads |-> IF u = t THEN "idle"
                                          ELSE IF pc[u] = "waiting" THEN "check" ELSE pc[u]]
              /\ entry' = [entry EXCEPT ![ent[t]] = Reap(Drop(@))]
              /\ ent' = [ent EXCEPT ![t] = 0]
              /\ UNCHANGED <<osVars, nextGen, sock, programVars>>

-----------------------------------------------------------------------------
(* fl_net_close_once                                                       *)

BeginClose(t) == /\ Step(t, "idle", "find")
                 /\ \E s \in published \ gone : /\ calls[s] < MaxCloses
                                                /\ calls' = [calls EXCEPT ![s] = @ + 1]
                                                /\ sock' = [sock EXCEPT ![t] = s]
                 /\ UNCHANGED <<osVars, registryVars, ent, published, gone>>

(* No entry: the caller goes on to a plain close of its descriptor.        *)
FindNothing(t) == /\ Step(t, "find", "raw")
                  /\ Matching(Fd(t), {"open", "closing"}) = {}
                  /\ UNCHANGED <<osVars, registryVars, sock, ent, programVars>>

(* Another thread has claimed the entry: nothing is left to do.            *)
FindClaimed(t) == /\ Step(t, "find", "idle")
                  /\ \E g \in Newest(Matching(Fd(t), {"open", "closing"})) :
                        entry[g].state = "closing"
                  /\ gone' = gone \cup {sock[t]}
                  /\ UNCHANGED <<osVars, registryVars, sock, ent, published, calls>>

\* mutant: close does not wait for the guards
TestedNever(g) == "osclose"

(* The test of the wait loop, made with the lock held.                     *)
Tested(g) == IF entry[g].refs > 1 THEN "waiting" ELSE "osclose"

Claim(t) == /\ pc[t] = "find"
            /\ \E g \in Newest(Matching(Fd(t), {"open", "closing"})) :
                  /\ entry[g].state = "open"
                  /\ Step(t, "find", Tested(g))
                  /\ entry' = [entry EXCEPT ![g].state = "closing"]
                  /\ ent' = [ent EXCEPT ![t] = g]
            /\ UNCHANGED <<osVars, nextGen, sock, programVars>>

Check(t) == /\ Step(t, "check", Tested(ent[t]))
            /\ UNCHANGED <<osVars, registryVars, sock, ent, programVars>>

(* pthread_cond_wait may return with no broadcast.                         *)
Spurious(t) == /\ Step(t, "waiting", "check")
               /\ UNCHANGED <<osVars, registryVars, sock, ent, programVars>>

\* mutant: close(2) is tried again, as if it had been interrupted
OsCloseAgain(t) == /\ pc[t] = "osclose"
                   /\ pc' \in {pc, [pc EXCEPT ![t] = "finish"]}
                   /\ os' = [os EXCEPT ![Fd(t)] = 0]
                   /\ UNCHANGED <<opened, fdOf, registryVars, sock, ent, programVars>>

(* close(2) on a descriptor nothing is open under fails with EBADF.        *)
OsClose(t) == /\ Step(t, "osclose", "finish")
              /\ os' = [os EXCEPT ![Fd(t)] = 0]
              /\ UNCHANGED <<opened, fdOf, registryVars, sock, ent, programVars>>

\* mutant: the closed entry stays in the list
FinishUnreaped(t) == /\ Step(t, "finish", "idle")
                     /\ entry' = [entry EXCEPT ![ent[t]] = Drop([@ EXCEPT !.state = "closed"])]
                     /\ ent' = [ent EXCEPT ![t] = 0]
                     /\ gone' = gone \cup {sock[t]}
                     /\ UNCHANGED <<osVars, nextGen, sock, published, calls>>

Finish(t) == /\ Step(t, "finish", "idle")
             /\ entry' = [entry EXCEPT ![ent[t]] = Reap(Drop([@ EXCEPT !.state = "closed"]))]
             /\ ent' = [ent EXCEPT ![t] = 0]
             /\ gone' = gone \cup {sock[t]}
             /\ UNCHANGED <<osVars, nextGen, sock, published, calls>>

RawClose(t) == /\ Step(t, "raw", "idle")
               /\ os' = [os EXCEPT ![Fd(t)] = 0]
               /\ gone' = gone \cup {sock[t]}
               /\ UNCHANGED <<opened, fdOf, registryVars, sock, ent, published, calls>>

Closing(t) == \/ FindNothing(t) \/ FindClaimed(t) \/ Claim(t) \/ Check(t)
              \/ OsClose(t) \/ Finish(t) \/ RawClose(t)

Thread(t) == \/ Open(t) \/ Register(t) \/ RegisterFails(t) \/ Publish(t) \/ Abandon(t)
             \/ BeginIo(t) \/ Acquire(t) \/ AcquireNothing(t) \/ Release(t)
             \/ BeginClose(t) \/ Closing(t) \/ Spurious(t)

Next == \E t \in Threads : Thread(t)

Spec == Init /\ [][Next]_vars

-----------------------------------------------------------------------------
(* Fairness: a thread inside net.c runs on and gets the mutex, which every *)
(* critical section soon gives back.  The program need not call anything.  *)

Scheduling ==
    \A t \in Threads :
        WF_vars(Register(t) \/ RegisterFails(t) \/ Publish(t) \/ Abandon(t)
                \/ Acquire(t) \/ AcquireNothing(t) \/ Closing(t))

(* The peers of sockets under I/O answer, close or let the I/O time out:   *)
(* nothing in net.c bounds a recv of readline or read_bytes.               *)
IoEnds == \A t \in Threads : WF_vars(Release(t))

FairSpec == Spec /\ Scheduling /\ IoEnds

-----------------------------------------------------------------------------
(* Properties                                                              *)

Guards(g) == {t \in Threads : pc[t] = "io" /\ ent[t] = g}
Closers(g) == {t \in Threads : pc[t] \in {"check", "waiting", "osclose", "finish"} /\ ent[t] = g}

(* The values the registry's variables and the threads' can have.          *)
TypeOK ==
    /\ os \in [Fds -> 0..MaxSocks]
    /\ opened \in 0..MaxSocks
    /\ fdOf \in [Socks -> Fds \cup {NoFd}]
    /\ entry \in [Gens -> Entries]
    /\ nextGen \in 0..MaxSocks
    /\ pc \in [Threads -> ThreadStates]
    /\ sock \in [Threads -> 0..MaxSocks]
    /\ ent \in [Threads -> 0..MaxSocks]
    /\ published \subseteq Socks
    /\ gone \subseteq Socks
    /\ calls \in [Socks -> Nat]

(* An entry's reference count is the guards on it and the registry's own   *)
(* reference, which the end of the close gives back; a freed entry has     *)
(* neither.                                                                *)
RefsMatch ==
    \A g \in Gens :
        entry[g].refs = Cardinality(Guards(g))
                        + (IF entry[g].state \in {"open", "closing"} THEN 1 ELSE 0)

(* No use after free: the entry a guard or the closing thread points to is *)
(* in the list until that thread gives it up.                              *)
HeldAlive ==
    \A t \in Threads :
        pc[t] \in {"io", "check", "waiting", "osclose", "finish"} =>
            /\ ent[t] # 0
            /\ entry[ent[t]].state \notin {"none", "freed"}

(* Only one caller claims OPEN -> CLOSING, and an entry is CLOSING for as  *)
(* long as its claimant is at work.                                        *)
OneCloser ==
    \A g \in Gens :
        /\ \A t, u \in Closers(g) : t = u
        /\ entry[g].state = "closing" <=> Closers(g) # {}

(* The program has closed no socket twice, and was given no descriptor     *)
(* whose registration had failed (net_pasv_accept does that).              *)
Disciplined == /\ \A s \in Socks : calls[s] <= 1
               /\ published \subseteq {entry[g].sock : g \in {h \in Gens : entry[h].state # "none"}}

(* Nobody calls close(2) on a descriptor some thread is doing guarded I/O  *)
(* on: until the guard is given back, its descriptor stays the socket's.   *)
(* And the guard is on the socket the call was meant for, as long as no    *)
(* net_close was called for that one (a call delayed past a close and a    *)
(* reuse of the number gets the next socket's entry, net.c:448).           *)
GuardedSocketOpen ==
    \A t \in Threads :
        Disciplined /\ pc[t] = "io" =>
            /\ os[entry[ent[t]].fd] = entry[ent[t]].sock
            /\ calls[sock[t]] = 0 => entry[ent[t]].sock = sock[t]

(* An entry is in the list while its socket is open: from the moment its   *)
(* generation is read, after the unlock of fl_net_register_fd; and with    *)
(* every thread outside net.c the entries of the list are exactly the open *)
(* sockets, each once.                                                     *)
EntriesAreSockets ==
    Disciplined =>
        /\ \A t \in Threads : pc[t] = "registered" => entry[ent[t]].state # "freed"
        /\ (\A t \in Threads : pc[t] = "idle") =>
              /\ \A g \in Gens : entry[g].state \in {"none", "open", "freed"}
              /\ \A g \in Gens :
                    entry[g].state = "open" => os[entry[g].fd] = entry[g].sock
              /\ \A f \in Fds : os[f] # 0 => Cardinality(Matching(f, {"open"})) = 1

(* Every close(2) made for a socket closes that socket: never one that is  *)
(* closed already, nor the next one under the same descriptor.  This is    *)
(* about Disciplined programs: a second net_close that comes after the     *)
(* entry was reaped closes the bare number (net.c:98), although            *)
(* socket_registry_design.md:47 says that it does nothing.                 *)
ClosesOwnSocket ==
    [][\A t \in Threads :
          Disciplined /\ (OsClose(t) \/ RawClose(t)) => os[Fd(t)] = sock[t]]_vars

(* A net_close ends once the I/O under way on its socket has ended.        *)
CloseReturns == \A t \in Threads : (pc[t] = "find") ~> (pc[t] = "idle")
=============================================================================
