------------------------- MODULE NetRegistryProofs -------------------------
(***************************************************************************)
(* Proofs about NetRegistry, for any number of threads, descriptors,       *)
(* sockets and racing closers, and with or without net_pasv_accept.  The   *)
(* argument: an entry's references count its guards, a claimed entry has   *)
(* one closer who holds the registry's reference until it is done, so the  *)
(* last reference goes only when nobody points to the entry any more.      *)
(***************************************************************************)
EXTENDS NetRegistry, FiniteSetTheorems, TLAPS

ClosingStates == {"check", "waiting", "osclose", "finish"}

(* TypeOK without the upper bound of the reference counts, which follows   *)
(* from RefsMatch.                                                         *)
AnyRefs == [fd : Fds \cup {NoFd}, sock : 0..MaxSocks, state : EntryStates, refs : Nat]

WeakType ==
    /\ os \in [Fds -> 0..MaxSocks]
    /\ opened \in 0..MaxSocks
    /\ fdOf \in [Socks -> Fds \cup {NoFd}]
    /\ entry \in [Gens -> AnyRefs]
    /\ nextGen \in 0..MaxSocks
    /\ pc \in [Threads -> ThreadStates]
    /\ sock \in [Threads -> 0..MaxSocks]
    /\ ent \in [Threads -> 0..MaxSocks]
    /\ published \subseteq Socks
    /\ gone \subseteq Socks
    /\ calls \in [Socks -> Nat]

(* A generation is left for every socket that still is to be registered.   *)
Registering == {t \in Threads : pc[t] = "register"}
RoomToRegister == nextGen + Cardinality(Registering) <= opened

(* A call has a socket it is meant for.                                    *)
Meant == \A t \in Threads : pc[t] # "idle" => sock[t] \in Socks

(* The entries made so far are those up to the last generation.            *)
Numbered == \A g \in Gens : entry[g].state = "none" <=> g > nextGen

IInv == /\ WeakType /\ RoomToRegister /\ Meant /\ Numbered
        /\ HeldAlive /\ RefsMatch /\ OneCloser

-----------------------------------------------------------------------------
(* Facts about the sets the invariant counts.                              *)

LEMMA FiniteGuards == \A g : IsFiniteSet(Guards(g)) /\ Cardinality(Guards(g)) \in Nat
BY RegistryAssumption, FS_Subset, FS_CardinalityType DEF Guards

LEMMA FiniteRegistering == IsFiniteSet(Registering) /\ Cardinality(Registering) \in Nat
BY RegistryAssumption, FS_Subset, FS_CardinalityType DEF Registering

(* Leaving "register" makes room, entering it takes some.                  *)
LEMMA RegisteringShrinks ==
    ASSUME NEW t \in Threads, NEW to \in ThreadStates, WeakType, to # "register",
           pc[t] = "register", pc' = [pc EXCEPT ![t] = to]
    PROVE  /\ Cardinality(Registering') = Cardinality(Registering) - 1
           /\ Cardinality(Registering) >= 1
<1>1. Registering' = Registering \ {t} /\ t \in Registering
  BY DEF Registering, WeakType
<1>2. Cardinality(Registering') = Cardinality(Registering) - 1
  BY <1>1, FiniteRegistering, FS_RemoveElement
<1>3. Cardinality(Registering) # 0
  BY <1>1, FiniteRegistering, FS_EmptySet
<1> QED
  BY <1>2, <1>3, FiniteRegistering

LEMMA RegisteringGrows ==
    ASSUME NEW t \in Threads, WeakType,
           pc[t] # "register", pc' = [pc EXCEPT ![t] = "register"]
    PROVE  Cardinality(Registering') = Cardinality(Registering) + 1
<1>1. Registering' = Registering \cup {t} /\ t \notin Registering
  BY DEF Registering, WeakType
<1> QED
  BY <1>1, FiniteRegistering, FS_AddElement

(* Marking an entry closed changes nothing else of it.                     *)
LEMMA MarkedClosed ==
    ASSUME NEW e \in AnyRefs
    PROVE  /\ [e EXCEPT !.state = "closed"] \in AnyRefs
           /\ [e EXCEPT !.state = "closed"].state = "closed"
           /\ [e EXCEPT !.state = "closed"].refs = e.refs
BY DEF AnyRefs, EntryStates

(* A step that leaves the entries alone, and moves no thread in or out of  *)
(* the states in which it points to one, keeps what is said of them.       *)
LEMMA QuietStep ==
    ASSUME IInv, entry' = entry, nextGen' = nextGen,
           \A u \in Threads :
               /\ pc'[u] = "io" <=> pc[u] = "io"
               /\ pc'[u] \in ClosingStates <=> pc[u] \in ClosingStates
               /\ pc[u] \in {"io"} \cup ClosingStates => ent'[u] = ent[u]
    PROVE  Numbered' /\ HeldAlive' /\ RefsMatch' /\ OneCloser'
<1>1. \A g : Guards(g)' = Guards(g) /\ Closers(g)' = Closers(g)
  BY DEF Guards, Closers, ClosingStates
<1>2. Numbered'
  BY DEF IInv, Numbered
<1>3. HeldAlive'
  BY DEF IInv, HeldAlive, ClosingStates
<1>4. RefsMatch'
  BY <1>1 DEF IInv, RefsMatch
<1>5. OneCloser'
  BY <1>1 DEF IInv, OneCloser
<1> QED
  BY <1>2, <1>3, <1>4, <1>5

-----------------------------------------------------------------------------
LEMMA InitIInv == Init => IInv
<1> SUFFICES ASSUME Init PROVE IInv
  OBVIOUS
<1>1. WeakType
  <2>1. os \in [Fds -> 0..MaxSocks] /\ opened \in 0..MaxSocks /\ nextGen \in 0..MaxSocks
    BY RegistryAssumption DEF Init
  <2>2. fdOf \in [Socks -> Fds \cup {NoFd}] /\ calls \in [Socks -> Nat]
    BY DEF Init
  <2>3. entry \in [Gens -> AnyRefs]
    BY RegistryAssumption DEF Init, AnyRefs, EntryStates
  <2>4. /\ pc \in [Threads -> ThreadStates]
        /\ sock \in [Threads -> 0..MaxSocks] /\ ent \in [Threads -> 0..MaxSocks]
        /\ published \subseteq Socks /\ gone \subseteq Socks
    BY RegistryAssumption DEF Init, ThreadStates
  <2> QED
    BY <2>1, <2>2, <2>3, <2>4 DEF WeakType
<1>2. RoomToRegister
  <2>1. Registering = {}
    BY DEF Init, Registering
  <2> QED
    BY <2>1, FS_EmptySet DEF Init, RoomToRegister
<1>3. Meant /\ Numbered
  BY RegistryAssumption DEF Init, Meant, Numbered, Gens
<1>4. HeldAlive
  BY DEF Init, HeldAlive
<1>5. RefsMatch /\ OneCloser
  <2>1. \A g : Guards(g) = {} /\ Closers(g) = {}
    BY DEF Init, Guards, Closers
  <2>2. \A g \in Gens : entry[g].state = "none" /\ entry[g].refs = 0
    BY DEF Init
  <2>3. RefsMatch
    <3> SUFFICES ASSUME NEW g \in Gens
                 PROVE  entry[g].refs = Cardinality(Guards(g)) + 0
      BY <2>2 DEF RefsMatch
    <3>1. Cardinality(Guards(g)) = 0
      BY <2>1, FS_EmptySet
    <3> QED
      BY <3>1, <2>2
  <2>4. OneCloser
    BY <2>1, <2>2 DEF OneCloser
  <2> QED
    BY <2>3, <2>4
<1> QED
  BY <1>1, <1>2, <1>3, <1>4, <1>5 DEF IInv

-----------------------------------------------------------------------------
(* Opening a socket.                                                       *)

LEMMA OpenIInv ==
    ASSUME IInv, NEW t \in Threads, Open(t)
    PROVE  IInv'
<1>1. opened' \in Socks
  BY RegistryAssumption DEF Open, IInv, WeakType, Socks
<1>2. WeakType'
  BY <1>1, RegistryAssumption
  DEF Open, Step, IInv, WeakType, ThreadStates, Socks, registryVars, programVars
<1>3. RoomToRegister'
  <2>1. Cardinality(Registering') = Cardinality(Registering) + 1
    BY RegisteringGrows DEF Open, Step, IInv
  <2> QED
    BY <2>1, FiniteRegistering DEF Open, IInv, WeakType, RoomToRegister, registryVars
<1>4. Meant'
  BY <1>1 DEF Open, Step, IInv, WeakType, Meant
<1>5. Numbered' /\ HeldAlive' /\ RefsMatch' /\ OneCloser'
  BY QuietStep DEF Open, Step, IInv, WeakType, ClosingStates, registryVars
<1> QED
  BY <1>2, <1>3, <1>4, <1>5 DEF IInv

LEMMA RegisterFailsIInv ==
    ASSUME IInv, NEW t \in Threads, RegisterFails(t)
    PROVE  IInv'
<1>1. published' \subseteq Socks
  BY DEF RegisterFails, Step, IInv, WeakType, Meant
<1>2. WeakType'
  <2>1. os' \in [Fds -> 0..MaxSocks]
    <3>1. os' = [os EXCEPT ![Fd(t)] = 0] /\ os \in [Fds -> 0..MaxSocks]
      BY DEF RegisterFails, IInv, WeakType
    <3>2. 0 \in 0..MaxSocks
      BY RegistryAssumption
    <3> QED
      BY <3>1, <3>2
  <2>2. pc' \in [Threads -> ThreadStates]
    BY DEF RegisterFails, Step, IInv, WeakType, ThreadStates
  <2> QED
    BY <1>1, <2>1, <2>2 DEF RegisterFails, IInv, WeakType, registryVars
<1>3. RoomToRegister'
  <2>1. /\ Cardinality(Registering') = Cardinality(Registering) - 1
        /\ Cardinality(Registering) >= 1
    BY RegisteringShrinks DEF RegisterFails, Step, IInv, ThreadStates
  <2> QED
    BY <2>1, FiniteRegistering DEF RegisterFails, IInv, WeakType, RoomToRegister, registryVars
<1>4. Meant'
  BY DEF RegisterFails, Step, IInv, WeakType, Meant
<1>5. Numbered' /\ HeldAlive' /\ RefsMatch' /\ OneCloser'
  BY QuietStep DEF RegisterFails, Step, IInv, WeakType, ClosingStates, registryVars
<1> QED
  BY <1>2, <1>3, <1>4, <1>5 DEF IInv

(* The new entry has the generation after the last, which nobody has yet.  *)
LEMMA RegisterIInv ==
    ASSUME IInv, NEW t \in Threads, Register(t)
    PROVE  IInv'
<1> DEFINE n == nextGen + 1
<1>0. /\ Cardinality(Registering') = Cardinality(Registering) - 1
      /\ Cardinality(Registering) >= 1
  BY RegisteringShrinks DEF Register, Step, IInv, ThreadStates
<1>1. n \in Gens /\ nextGen' = n
  BY <1>0, FiniteRegistering, RegistryAssumption
  DEF Register, IInv, WeakType, RoomToRegister, Gens
<1>2. entry[n].state = "none" /\ sock[t] \in Socks /\ Fd(t) \in Fds \cup {NoFd}
  BY <1>1 DEF Register, Step, IInv, WeakType, Numbered, Meant, Fd
<1>3. /\ entry' = [entry EXCEPT ![n] = entry'[n]]
      /\ entry'[n] \in AnyRefs /\ entry'[n].state = "open" /\ entry'[n].refs = 1
  BY <1>1, <1>2 DEF Register, IInv, WeakType, AnyRefs, EntryStates, Socks
<1>4. /\ WeakType'
      /\ Meant'
  <2>1. entry' \in [Gens -> AnyRefs]
    BY <1>1, <1>3 DEF IInv, WeakType
  <2>2. nextGen' \in 0..MaxSocks /\ ent' \in [Threads -> 0..MaxSocks]
        /\ pc' \in [Threads -> ThreadStates]
    BY <1>1 DEF Register, Step, IInv, WeakType, ThreadStates, Gens
  <2> QED
    BY <2>1, <2>2 DEF Register, Step, IInv, WeakType, Meant, osVars, programVars
<1>5. RoomToRegister'
  BY <1>0, <1>1, FiniteRegistering
  DEF Register, IInv, WeakType, RoomToRegister, osVars
<1>6. Numbered'
  <2>1. \A g \in Gens : g # n => entry'[g] = entry[g]
    BY <1>3 DEF IInv, WeakType
  <2>2. \A g \in Gens : g # n => (g > n <=> g > nextGen)
    BY DEF IInv, WeakType, Gens
  <2> SUFFICES ASSUME NEW g \in Gens
               PROVE  entry'[g].state = "none" <=> g > n
    BY <1>1 DEF Numbered
  <2>3. CASE g = n
    BY <2>3, <1>3 DEF IInv, WeakType
  <2>4. CASE g # n
    BY <2>4, <2>1, <2>2 DEF IInv, Numbered
  <2> QED
    BY <2>3, <2>4
<1>7. HeldAlive'
  BY <1>1, <1>2, <1>3 DEF Register, Step, IInv, WeakType, HeldAlive
<1>8. \A g \in Gens : Guards(g)' = Guards(g) /\ Closers(g)' = Closers(g)
  BY DEF Register, Step, IInv, WeakType, Guards, Closers
<1>9. Guards(n) = {} /\ Closers(n) = {}
  BY <1>2 DEF IInv, HeldAlive, Guards, Closers
<1>10. RefsMatch'
  <2> SUFFICES ASSUME NEW g \in Gens
               PROVE  entry'[g].refs = Cardinality(Guards(g)')
                                       + (IF entry'[g].state \in {"open", "closing"} THEN 1 ELSE 0)
    BY DEF RefsMatch
  <2>1. CASE g = n
    BY <2>1, <1>3, <1>8, <1>9, FS_EmptySet
  <2>2. CASE g # n
    BY <2>2, <1>1, <1>3, <1>8 DEF IInv, WeakType, RefsMatch
  <2> QED
    BY <2>1, <2>2
<1>11. OneCloser'
  BY <1>1, <1>2, <1>3, <1>8, <1>9 DEF IInv, WeakType, OneCloser
<1> QED
  BY <1>4, <1>5, <1>6, <1>7, <1>10, <1>11 DEF IInv

(* Publish and Abandon, and what a call does before it touches an entry.   *)
LEMMA ProgramStepIInv ==
    ASSUME IInv, NEW t \in Threads,
           Publish(t) \/ Abandon(t) \/ BeginIo(t) \/ BeginClose(t)
    PROVE  IInv'
<1>1. WeakType' /\ Meant'
  <2>1. pc' \in [Threads -> ThreadStates]
    BY DEF Publish, Abandon, BeginIo, BeginClose, Step, IInv, WeakType, ThreadStates
  <2>2. sock' \in [Threads -> 0..MaxSocks] /\ Meant'
    <3>1. CASE Publish(t) \/ Abandon(t)
      BY <3>1 DEF Publish, Abandon, Step, IInv, WeakType, Meant
    <3>2. CASE BeginIo(t) \/ BeginClose(t)
      <4>1. PICK s \in Socks : sock' = [sock EXCEPT ![t] = s]
        BY <3>2 DEF BeginIo, BeginClose, IInv, WeakType
      <4>2. s \in 0..MaxSocks
        BY RegistryAssumption DEF Socks
      <4> QED
        BY <3>2, <4>1, <4>2 DEF BeginIo, BeginClose, Step, IInv, WeakType, Meant
    <3> QED
      BY <3>1, <3>2
  <2>3. ent' \in [Threads -> 0..MaxSocks]
    BY RegistryAssumption DEF Publish, Abandon, BeginIo, BeginClose, IInv, WeakType
  <2>4. published' \subseteq Socks /\ gone' \subseteq Socks
    BY DEF Publish, Abandon, BeginIo, BeginClose, Step, IInv, WeakType, Meant, programVars
  <2>5. calls' \in [Socks -> Nat]
    BY DEF Publish, Abandon, BeginIo, BeginClose, IInv, WeakType, programVars
  <2> QED
    BY <2>1, <2>2, <2>3, <2>4, <2>5
    DEF Publish, Abandon, BeginIo, BeginClose, IInv, WeakType, osVars, registryVars
<1>2. RoomToRegister'
  <2>1. Registering' = Registering /\ opened' = opened /\ nextGen' = nextGen
    BY DEF Publish, Abandon, BeginIo, BeginClose, Step, IInv, WeakType, Registering,
           osVars, registryVars
  <2> QED
    BY <2>1 DEF IInv, RoomToRegister
<1>3. Numbered' /\ HeldAlive' /\ RefsMatch' /\ OneCloser'
  BY QuietStep
  DEF Publish, Abandon, BeginIo, BeginClose, Step, IInv, WeakType, ClosingStates, registryVars
<1> QED
  BY <1>1, <1>2, <1>3 DEF IInv

-----------------------------------------------------------------------------
(* Steps that move one thread through the registry.                        *)

(* A thread other than "idle" and "register" keeps its socket.             *)
LEMMA MovesOn ==
    ASSUME IInv, NEW t \in Threads, NEW to \in ThreadStates \ {"register"},
           pc[t] \notin {"register", "idle"}, pc' = [pc EXCEPT ![t] = to],
           UNCHANGED <<os, opened, fdOf, nextGen, sock, published, calls>>,
           entry' \in [Gens -> AnyRefs],
           ent' \in [Threads -> 0..MaxSocks],
           gone' \subseteq Socks
    PROVE  WeakType' /\ RoomToRegister' /\ Meant'
<1>1. WeakType'
  BY DEF IInv, WeakType
<1>2. Registering' = Registering
  BY DEF IInv, WeakType, Registering
<1>3. RoomToRegister' /\ Meant'
  BY <1>2 DEF IInv, WeakType, RoomToRegister, Meant
<1> QED
  BY <1>1, <1>3

(* The steps of a call that change neither entries nor guards.             *)
LEMMA CallStepIInv ==
    ASSUME IInv, NEW t \in Threads,
           \/ AcquireNothing(t) \/ FindNothing(t) \/ FindClaimed(t)
           \/ Check(t) \/ Spurious(t)
    PROVE  IInv'
<1>1. PICK to \in ThreadStates \ {"register"} :
          /\ pc' = [pc EXCEPT ![t] = to]
          /\ pc[t] \notin {"register", "idle", "io"} /\ to # "io"
          /\ pc[t] \in ClosingStates <=> to \in ClosingStates
  BY DEF AcquireNothing, FindNothing, FindClaimed, Check, Spurious, Step, Tested,
         ThreadStates, ClosingStates
<1>2. /\ UNCHANGED <<os, opened, fdOf, entry, nextGen, sock, ent, published, calls>>
      /\ gone' \subseteq gone \cup {sock[t]}
  BY DEF AcquireNothing, FindNothing, FindClaimed, Check, Spurious,
         osVars, registryVars, programVars
<1>3. WeakType' /\ RoomToRegister' /\ Meant'
  BY <1>1, <1>2, MovesOn DEF IInv, WeakType, Meant
<1>4. Numbered' /\ HeldAlive' /\ RefsMatch' /\ OneCloser'
  BY <1>1, <1>2, QuietStep DEF IInv, WeakType
<1> QED
  BY <1>3, <1>4 DEF IInv

(* close(2), with the entry's fd or with a bare descriptor.                *)
LEMMA OsCloseIInv ==
    ASSUME IInv, NEW t \in Threads, OsClose(t) \/ RawClose(t)
    PROVE  IInv'
<1>1. PICK to \in {"idle", "finish"} :
          /\ pc' = [pc EXCEPT ![t] = to]
          /\ \/ pc[t] = "osclose" /\ to = "finish"
             \/ pc[t] = "raw" /\ to = "idle"
  BY DEF OsClose, RawClose, Step
<1>2. /\ UNCHANGED <<opened, fdOf, entry, nextGen, sock, ent, published, calls>>
      /\ gone' \subseteq gone \cup {sock[t]}
      /\ os' = [os EXCEPT ![Fd(t)] = 0]
  BY DEF OsClose, RawClose, registryVars, programVars
<1>3. os' \in [Fds -> 0..MaxSocks]
  <2>1. 0 \in 0..MaxSocks
    BY RegistryAssumption
  <2> QED
    BY <1>2, <2>1 DEF IInv, WeakType
<1>4. gone' \subseteq Socks
  BY <1>1, <1>2 DEF IInv, WeakType, Meant
<1>5. pc' \in [Threads -> ThreadStates]
  BY <1>1 DEF IInv, WeakType, ThreadStates
<1>6. WeakType'
  BY <1>2, <1>3, <1>4, <1>5 DEF IInv, WeakType
<1>7. Registering' = Registering
  BY <1>1 DEF IInv, WeakType, Registering
<1>8. RoomToRegister' /\ Meant'
  BY <1>1, <1>2, <1>7 DEF IInv, WeakType, RoomToRegister, Meant
<1>9. Numbered' /\ HeldAlive' /\ RefsMatch' /\ OneCloser'
  BY <1>1, <1>2, QuietStep DEF IInv, WeakType, ClosingStates
<1> QED
  BY <1>6, <1>8, <1>9 DEF IInv

(* A guard is taken: one more reference, one more thread that does I/O.    *)
LEMMA AcquireIInv ==
    ASSUME IInv, NEW t \in Threads, Acquire(t)
    PROVE  IInv'
<1>1. PICK g \in Gens :
          /\ entry[g].state = "open"
          /\ ent' = [ent EXCEPT ![t] = g]
          /\ entry' = [entry EXCEPT ![g].refs = @ + 1]
  BY DEF Acquire, Newest, Matching
<1>2. /\ pc[t] = "acquire" /\ pc' = [pc EXCEPT ![t] = "io"]
      /\ UNCHANGED <<os, opened, fdOf, nextGen, sock, published, gone, calls>>
  BY DEF Acquire, Step, osVars, programVars
<1>3. /\ entry' \in [Gens -> AnyRefs]
      /\ entry'[g].state = "open" /\ entry'[g].refs = entry[g].refs + 1
      /\ \A h \in Gens : entry'[h].state = entry[h].state /\ (h # g => entry'[h] = entry[h])
  BY <1>1 DEF IInv, WeakType, AnyRefs
<1>4. g \in 0..MaxSocks
  BY RegistryAssumption DEF Gens
<1>5. WeakType' /\ RoomToRegister' /\ Meant'
  BY <1>1, <1>2, <1>3, <1>4, MovesOn DEF IInv, WeakType, ThreadStates
<1>6. Numbered'
  BY <1>2, <1>3 DEF IInv, Numbered
<1>7. HeldAlive'
  BY <1>1, <1>2, <1>3, RegistryAssumption DEF IInv, WeakType, HeldAlive, Gens
<1>8. \A h \in Gens : Closers(h)' = Closers(h) /\ (h # g => Guards(h)' = Guards(h))
  BY <1>1, <1>2 DEF IInv, WeakType, Closers, Guards
<1>9. Cardinality(Guards(g)') = Cardinality(Guards(g)) + 1
  <2>1. Guards(g)' = Guards(g) \cup {t} /\ t \notin Guards(g)
    BY <1>1, <1>2 DEF IInv, WeakType, Guards
  <2> QED
    BY <2>1, FiniteGuards, FS_AddElement
<1>10. RefsMatch'
  <2> SUFFICES ASSUME NEW h \in Gens
               PROVE  entry'[h].refs = Cardinality(Guards(h)')
                                       + (IF entry'[h].state \in {"open", "closing"} THEN 1 ELSE 0)
    BY DEF RefsMatch
  <2>1. CASE h = g
    BY <2>1, <1>1, <1>3, <1>9, FiniteGuards DEF IInv, RefsMatch
  <2>2. CASE h # g
    BY <2>2, <1>3, <1>8 DEF IInv, RefsMatch
  <2> QED
    BY <2>1, <2>2
<1>11. OneCloser'
  BY <1>3, <1>8 DEF IInv, OneCloser
<1> QED
  BY <1>5, <1>6, <1>7, <1>10, <1>11 DEF IInv

(* A guard is given back: the entry goes with its last reference, and then *)
(* no other guard and no closer points to it.                              *)
LEMMA ReleaseIInv ==
    ASSUME IInv, NEW t \in Threads, Release(t)
    PROVE  IInv'
<1>0. PICK g : g = ent[t]
  OBVIOUS
<1> DEFINE n == Cardinality(Guards(g))
<1>1. g \in Gens /\ g # 0 /\ entry[g].state \notin {"none", "freed"} /\ pc[t] = "io"
  BY <1>0, RegistryAssumption DEF Release, IInv, WeakType, HeldAlive, Gens
<1>2. Guards(g)' = Guards(g) \ {t} /\ t \in Guards(g)
  BY <1>0, <1>1 DEF Release, IInv, WeakType, Guards
<1>3. Cardinality(Guards(g)') = n - 1 /\ n \in Nat /\ n >= 1
  <2>1. Cardinality(Guards(g)') = n - 1
    BY <1>2, FiniteGuards, FS_RemoveElement
  <2>2. n # 0
    BY <1>2, FiniteGuards, FS_EmptySet
  <2> QED
    BY <2>1, <2>2, FiniteGuards
<1>4. entry[g] \in AnyRefs
      /\ entry[g].refs = n + (IF entry[g].state \in {"open", "closing"} THEN 1 ELSE 0)
  BY <1>1 DEF IInv, WeakType, RefsMatch
<1>5. /\ entry' = [entry EXCEPT ![g] = Reap(Drop(entry[g]))]
      /\ Reap(Drop(entry[g])) \in AnyRefs
      /\ Reap(Drop(entry[g])).refs = entry[g].refs - 1
      /\ \/ Reap(Drop(entry[g])).state = entry[g].state
         \/ /\ Reap(Drop(entry[g])).state = "freed"
            /\ entry[g].state = "closed" /\ n = 1
  <2>1. entry' = [entry EXCEPT ![g] = Reap(Drop(entry[g]))]
    BY <1>0 DEF Release
  <2>2. /\ Drop(entry[g]) \in AnyRefs /\ Drop(entry[g]).refs = entry[g].refs - 1
        /\ Drop(entry[g]).state = entry[g].state
    BY <1>3, <1>4 DEF Drop, AnyRefs
  <2> QED
    BY <2>1, <2>2, <1>3, <1>4 DEF Reap, AnyRefs, EntryStates
<1>6. /\ entry' \in [Gens -> AnyRefs]
      /\ \A h \in Gens : h # g => entry'[h] = entry[h]
      /\ entry'[g].refs = entry[g].refs - 1
      /\ \/ entry'[g].state = entry[g].state
         \/ entry'[g].state = "freed" /\ entry[g].state = "closed" /\ n = 1
  BY <1>1, <1>5 DEF IInv, WeakType
<1>7. /\ UNCHANGED <<os, opened, fdOf, nextGen, sock, published, gone, calls>>
      /\ ent' = [ent EXCEPT ![t] = 0]
      /\ pc' = [u \in Threads |-> IF u = t THEN "idle"
                                  ELSE IF pc[u] = "waiting" THEN "check" ELSE pc[u]]
  BY DEF Release, osVars, programVars
<1>8. WeakType'
  <2>1. ent' \in [Threads -> 0..MaxSocks]
    BY <1>7, RegistryAssumption DEF IInv, WeakType
  <2>2. pc' \in [Threads -> ThreadStates]
    BY <1>7 DEF IInv, WeakType, ThreadStates
  <2> QED
    BY <1>6, <1>7, <2>1, <2>2 DEF IInv, WeakType
<1>9. Registering' = Registering
  BY <1>1, <1>7 DEF IInv, WeakType, Registering
<1>10. RoomToRegister' /\ Meant'
  BY <1>7, <1>9 DEF IInv, WeakType, RoomToRegister, Meant
<1>11. Numbered'
  BY <1>1, <1>6, <1>7 DEF IInv, Numbered
<1>12. \A h \in Gens : Closers(h)' = Closers(h) /\ (h # g => Guards(h)' = Guards(h))
  BY <1>0, <1>1, <1>7 DEF IInv, WeakType, Closers, Guards
<1>13. HeldAlive'
  <2> SUFFICES ASSUME NEW u \in Threads,
                      pc'[u] \in {"io", "check", "waiting", "osclose", "finish"}
               PROVE  ent'[u] # 0 /\ entry'[ent'[u]].state \notin {"none", "freed"}
    BY DEF HeldAlive
  <2>1. /\ u # t /\ ent'[u] = ent[u]
        /\ pc[u] \in {"io", "check", "waiting", "osclose", "finish"}
    BY <1>1, <1>7 DEF IInv, WeakType
  <2>2. /\ ent[u] \in Gens /\ ent[u] # 0
        /\ entry[ent[u]].state \notin {"none", "freed"}
    BY <2>1, RegistryAssumption DEF IInv, WeakType, HeldAlive, Gens
  <2>3. CASE ent[u] # g
    BY <2>1, <2>2, <2>3, <1>6
  <2>4. CASE ent[u] = g
    <3>1. entry'[g].state # "freed"
      <4> SUFFICES ASSUME entry'[g].state = "freed" PROVE FALSE
        OBVIOUS
      <4>1. entry[g].state = "closed" /\ n = 1
        BY <1>1, <1>6
      <4>2. Guards(g)' = {}
        BY <1>2, <1>3, <4>1, FiniteGuards, FS_Subset, FS_EmptySet
      <4>3. u \notin Guards(g)
        BY <1>2, <4>2, <2>1
      <4>4. u \notin Closers(g)
        BY <4>1, <1>1 DEF IInv, OneCloser
      <4> QED
        BY <4>3, <4>4, <2>1, <2>4 DEF Guards, Closers
    <3> QED
      BY <3>1, <2>1, <2>2, <2>4, <1>6
  <2> QED
    BY <2>3, <2>4
<1>14. RefsMatch'
  <2> SUFFICES ASSUME NEW h \in Gens
               PROVE  entry'[h].refs = Cardinality(Guards(h)')
                                       + (IF entry'[h].state \in {"open", "closing"} THEN 1 ELSE 0)
    BY DEF RefsMatch
  <2>1. CASE h = g
    BY <2>1, <1>1, <1>3, <1>4, <1>6
  <2>2. CASE h # g
    BY <2>2, <1>6, <1>12 DEF IInv, RefsMatch
  <2> QED
    BY <2>1, <2>2
<1>15. OneCloser'
  BY <1>1, <1>6, <1>12 DEF IInv, OneCloser
<1> QED
  BY <1>8, <1>10, <1>11, <1>13, <1>14, <1>15 DEF IInv

(* Only an open entry is claimed, and an open entry has no closer yet.     *)
LEMMA ClaimIInv ==
    ASSUME IInv, NEW t \in Threads, Claim(t)
    PROVE  IInv'
<1>1. PICK g \in Gens :
          /\ entry[g].state = "open"
          /\ Step(t, "find", Tested(g))
          /\ entry' = [entry EXCEPT ![g].state = "closing"]
          /\ ent' = [ent EXCEPT ![t] = g]
  BY DEF Claim, Newest, Matching
<1>2. /\ pc[t] = "find"
      /\ Tested(g) \in {"waiting", "osclose"}
      /\ pc' = [pc EXCEPT ![t] = Tested(g)]
      /\ UNCHANGED <<os, opened, fdOf, nextGen, sock, published, gone, calls>>
  BY <1>1 DEF Claim, Step, Tested, osVars, programVars
<1>3. /\ entry' \in [Gens -> AnyRefs]
      /\ entry'[g].state = "closing" /\ entry'[g].refs = entry[g].refs
      /\ \A h \in Gens : h # g => entry'[h] = entry[h]
  BY <1>1 DEF IInv, WeakType, AnyRefs, EntryStates
<1>4. g \in 0..MaxSocks /\ g # 0
  BY RegistryAssumption DEF Gens
<1>5. WeakType' /\ RoomToRegister' /\ Meant'
  BY <1>1, <1>2, <1>3, <1>4, MovesOn DEF IInv, WeakType, ThreadStates
<1>6. Numbered'
  BY <1>1, <1>2, <1>3 DEF IInv, Numbered
<1>7. HeldAlive'
  BY <1>1, <1>2, <1>3, <1>4, RegistryAssumption DEF IInv, WeakType, HeldAlive, Gens
<1>8. \A h \in Gens : Guards(h)' = Guards(h) /\ (h # g => Closers(h)' = Closers(h))
  BY <1>1, <1>2 DEF IInv, WeakType, Closers, Guards
<1>9. Closers(g) = {} /\ Closers(g)' = Closers(g) \cup {t}
  BY <1>1, <1>2 DEF IInv, WeakType, OneCloser, Closers
<1>10. RefsMatch'
  BY <1>1, <1>3, <1>8 DEF IInv, RefsMatch
<1>11. OneCloser'
  BY <1>3, <1>8, <1>9 DEF IInv, OneCloser
<1> QED
  BY <1>5, <1>6, <1>7, <1>10, <1>11 DEF IInv

(* The closer marks its entry closed and gives the registry's reference    *)
(* back: the entry is freed unless guards are left.                        *)
LEMMA FinishIInv ==
    ASSUME IInv, NEW t \in Threads, Finish(t)
    PROVE  IInv'
<1>0. PICK g : g = ent[t]
  OBVIOUS
<1> DEFINE n == Cardinality(Guards(g))
           e == Reap(Drop([entry[g] EXCEPT !.state = "closed"]))
<1>1. g \in Gens /\ g # 0 /\ pc[t] = "finish" /\ t \in Closers(g)
  BY <1>0, RegistryAssumption DEF Finish, Step, IInv, WeakType, HeldAlive, Gens, Closers
<1>2. entry[g].state = "closing" /\ \A u \in Closers(g) : u = t
  BY <1>1 DEF IInv, OneCloser
<1>3. entry[g] \in AnyRefs /\ entry[g].refs = n + 1 /\ n \in Nat
  BY <1>1, <1>2, FiniteGuards DEF IInv, WeakType, RefsMatch
<1>4. /\ e \in AnyRefs /\ e.refs = n
      /\ \/ e.state = "closed"
         \/ e.state = "freed" /\ n = 0
  <2> DEFINE c == [entry[g] EXCEPT !.state = "closed"]
  <2>1. c \in AnyRefs /\ c.state = "closed" /\ c.refs = n + 1
    BY <1>3, MarkedClosed
  <2> HIDE DEF c
  <2>2. Drop(c) \in AnyRefs /\ Drop(c).state = "closed" /\ Drop(c).refs = n
    BY <2>1, <1>3 DEF Drop, AnyRefs
  <2>3. /\ Reap(Drop(c)) \in AnyRefs /\ Reap(Drop(c)).refs = n
        /\ \/ Reap(Drop(c)).state = "closed"
           \/ Reap(Drop(c)).state = "freed" /\ n = 0
    BY <2>2, <1>3 DEF Reap, AnyRefs, EntryStates
  <2> QED
    BY <2>3 DEF c
<1>5. entry' = [entry EXCEPT ![g] = e]
  BY <1>0 DEF Finish
<1>6. /\ entry' \in [Gens -> AnyRefs]
      /\ entry'[g] = e
      /\ \A h \in Gens : h # g => entry'[h] = entry[h]
  BY <1>1, <1>4, <1>5 DEF IInv, WeakType
<1>7. /\ UNCHANGED <<os, opened, fdOf, nextGen, sock, published, calls>>
      /\ gone' = gone \cup {sock[t]}
      /\ ent' = [ent EXCEPT ![t] = 0]
      /\ pc' = [pc EXCEPT ![t] = "idle"]
  BY DEF Finish, Step, osVars
<1>8. WeakType' /\ RoomToRegister' /\ Meant'
  <2>1. gone' \subseteq Socks /\ ent' \in [Threads -> 0..MaxSocks]
    BY <1>1, <1>7, RegistryAssumption DEF IInv, WeakType, Meant
  <2> QED
    BY <1>1, <1>6, <1>7, <2>1, MovesOn DEF ThreadStates
<1>9. \A h \in Gens : Guards(h)' = Guards(h) /\ (h # g => Closers(h)' = Closers(h))
  BY <1>0, <1>1, <1>7 DEF IInv, WeakType, Closers, Guards
<1>10. Closers(g)' = {}
  BY <1>0, <1>1, <1>2, <1>7 DEF IInv, WeakType, Closers
<1>11. Numbered'
  BY <1>2, <1>4, <1>6, <1>7 DEF IInv, Numbered
<1>12. HeldAlive'
  <2> SUFFICES ASSUME NEW u \in Threads,
                      pc'[u] \in {"io", "check", "waiting", "osclose", "finish"}
               PROVE  ent'[u] # 0 /\ entry'[ent'[u]].state \notin {"none", "freed"}
    BY DEF HeldAlive
  <2>1. /\ u # t /\ ent'[u] = ent[u] /\ pc'[u] = pc[u]
    BY <1>1, <1>7 DEF IInv, WeakType
  <2>2. /\ ent[u] \in Gens /\ ent[u] # 0
        /\ entry[ent[u]].state \notin {"none", "freed"}
    BY <2>1, RegistryAssumption DEF IInv, WeakType, HeldAlive, Gens
  <2>3. CASE ent[u] # g
    BY <2>1, <2>2, <2>3, <1>6
  <2>4. CASE ent[u] = g
    <3>1. u \in Guards(g)
      BY <2>1, <2>4, <1>2 DEF Guards, Closers
    <3>2. n # 0
      BY <3>1, FiniteGuards, FS_EmptySet
    <3> QED
      BY <2>1, <2>2, <2>4, <3>2, <1>4, <1>6
  <2> QED
    BY <2>3, <2>4
<1>13. RefsMatch'
  <2> SUFFICES ASSUME NEW h \in Gens
               PROVE  entry'[h].refs = Cardinality(Guards(h)')
                                       + (IF entry'[h].state \in {"open", "closing"} THEN 1 ELSE 0)
    BY DEF RefsMatch
  <2>1. CASE h = g
    BY <2>1, <1>3, <1>4, <1>6, <1>9
  <2>2. CASE h # g
    BY <2>2, <1>6, <1>9 DEF IInv, RefsMatch
  <2> QED
    BY <2>1, <2>2
<1>14. OneCloser'
  BY <1>4, <1>6, <1>9, <1>10 DEF IInv, OneCloser
<1> QED
  BY <1>8, <1>11, <1>12, <1>13, <1>14 DEF IInv

-----------------------------------------------------------------------------
LEMMA NextIInv == IInv /\ [Next]_vars => IInv'
<1> SUFFICES ASSUME IInv, [Next]_vars PROVE IInv'
  OBVIOUS
<1>1. CASE UNCHANGED vars
  BY <1>1 DEF vars, IInv, WeakType, RoomToRegister, Registering, Meant, Numbered,
              HeldAlive, RefsMatch, Guards, OneCloser, Closers
<1>2. CASE Next
  <2>1. PICK t \in Threads : Thread(t)
    BY <1>2 DEF Next
  <2>2. CASE Open(t) \/ Register(t) \/ RegisterFails(t)
    BY <2>2, OpenIInv, RegisterIInv, RegisterFailsIInv
  <2>3. CASE Publish(t) \/ Abandon(t) \/ BeginIo(t) \/ BeginClose(t)
    BY <2>3, ProgramStepIInv
  <2>4. CASE Acquire(t) \/ Release(t) \/ AcquireNothing(t) \/ Spurious(t)
    BY <2>4, AcquireIInv, ReleaseIInv, CallStepIInv
  <2>5. CASE Closing(t)
    BY <2>5, CallStepIInv, ClaimIInv, OsCloseIInv, FinishIInv DEF Closing
  <2> QED
    BY <2>1, <2>2, <2>3, <2>4, <2>5 DEF Thread
<1> QED
  BY <1>1, <1>2

(* The inductive invariant of the registry holds in every state, whatever  *)
(* the program's threads do.                                               *)
THEOREM RegistryInvariant == Spec => []IInv
BY InitIInv, NextIInv, PTL DEF Spec

(* Reference counts are the guards plus the registry's own reference.      *)
THEOREM RegistryRefs == Spec => []RefsMatch
<1>1. IInv => RefsMatch
  BY DEF IInv
<1> QED
  BY <1>1, RegistryInvariant, PTL

(* No thread ever holds an entry that was freed.                           *)
THEOREM RegistryHeldAlive == Spec => []HeldAlive
<1>1. IInv => HeldAlive
  BY DEF IInv
<1> QED
  BY <1>1, RegistryInvariant, PTL

(* An entry is claimed by one closer only.                                 *)
THEOREM RegistryOneCloser == Spec => []OneCloser
<1>1. IInv => OneCloser
  BY DEF IInv
<1> QED
  BY <1>1, RegistryInvariant, PTL

(* Types; a reference count never exceeds the threads and the registry.    *)
THEOREM RegistryTypeOK == Spec => []TypeOK
<1>1. IInv => TypeOK
  <2> SUFFICES ASSUME IInv PROVE TypeOK
    OBVIOUS
  <2>1. ASSUME NEW g \in Gens PROVE entry[g] \in Entries
    <3>1. Cardinality(Guards(g)) <= Cardinality(Threads)
      BY RegistryAssumption, FS_Subset DEF Guards
    <3>2. entry[g].refs <= Cardinality(Threads) + 1
      BY <3>1, FiniteGuards, RegistryAssumption, FS_CardinalityType DEF IInv, RefsMatch
    <3>3. entry[g] \in AnyRefs
      BY DEF IInv, WeakType
    <3> QED
      BY <3>2, <3>3, RegistryAssumption, FS_CardinalityType DEF Entries, AnyRefs
  <2>2. entry \in [Gens -> Entries]
    BY <2>1 DEF IInv, WeakType
  <2> QED
    BY <2>2 DEF IInv, WeakType, TypeOK
<1> QED
  BY <1>1, RegistryInvariant, PTL

(***************************************************************************)
(* Proofs about descriptors, sockets and entries of NetRegistry: what a    *)
(* program may rely on that closes each of its sockets once.  The argument *)
(* has two halves.  The ledger holds whatever the program does: which      *)
(* socket has which number, which entry stands for it and how many calls   *)
(* close it.  While the program is disciplined, order holds as well: an    *)
(* open entry stands for an open socket, the youngest under its number, so *)
(* a search by number finds the entry of the socket it was meant for.      *)
(***************************************************************************)

(* The sockets opened so far, and the generations an entry was made for.   *)
Known == 1..opened
Made == {g \in Gens : entry[g].state # "none"}

(* Descriptors and sockets belong together, and calls are for sockets that *)
(* were opened, those under a guard for published ones.                    *)
Numbers ==
    /\ \A s \in Known : fdOf[s] \in Fds
    /\ \A f \in Fds : os[f] # 0 => os[f] \in Known /\ fdOf[os[f]] = f
    /\ published \subseteq Known
    /\ \A s \in Socks : calls[s] # 0 => s \in Known
    /\ \A t \in Threads : pc[t] # "idle" => sock[t] \in Known
    /\ \A t \in Threads : pc[t] \in {"acquire", "io"} => sock[t] \in published

(* An entry is made for one socket and has its descriptor.                 *)
EntryOfSocket ==
    /\ \A g \in Made : entry[g].sock \in Known /\ entry[g].fd = fdOf[entry[g].sock]
    /\ \A g, h \in Made : entry[g].sock = entry[h].sock => g = h

(* While a thread opens a socket nobody else knows of it.                  *)
Fresh(t) == /\ sock[t] \notin published
            /\ calls[sock[t]] = 0
            /\ \A u \in Threads \ {t} : pc[u] # "idle" => sock[u] # sock[t]
Opening ==
    \A t \in Threads :
        /\ pc[t] = "register" => Fresh(t) /\ \A g \in Made : entry[g].sock # sock[t]
        /\ pc[t] = "registered" => /\ Fresh(t) /\ ent[t] \in Made
                                   /\ entry[ent[t]].sock = sock[t]

(* A thread that closes was counted as a call, two of them as two.         *)
Closes(t) == pc[t] \in {"find", "raw"} \cup ClosingStates
Called ==
    /\ \A t \in Threads : Closes(t) => calls[sock[t]] >= 1
    /\ \A t, u \in Threads :
          Closes(t) /\ Closes(u) /\ t # u /\ sock[t] = sock[u] => calls[sock[t]] >= 2

(* A closer that has passed the wait has no guard on its entry, so that    *)
(* the entry is freed with the close and never stays closed.               *)
Drained ==
    /\ \A t \in Threads : pc[t] \in {"osclose", "finish"} => Guards(ent[t]) = {}
    /\ \A g \in Gens : entry[g].state # "closed"

(* What holds whatever the program does.                                   *)
Ledger == IInv /\ Numbers /\ EntryOfSocket /\ Opening /\ Called /\ Drained

(* What discipline adds.  Nobody's descriptor is taken away: an open entry *)
(* stands for an open socket, which is the youngest under its number.      *)
OpenIsOpen == \A g \in Gens : entry[g].state = "open" => os[entry[g].fd] = entry[g].sock
Youngest ==
    \A g, h \in Made :
        entry[g].fd = entry[h].fd /\ os[entry[g].fd] = entry[g].sock => h <= g
Uncalled == \A g \in Made : calls[entry[g].sock] = 0 => entry[g].state = "open"

(* A thread that opens or closes a socket has it under its number.         *)
Own(t) == os[Fd(t)] = sock[t]
OwnStates == {"register", "registered", "find", "check", "waiting", "osclose"}
Works(t) ==
    /\ pc[t] \in OwnStates => Own(t)
    /\ pc[t] = "finish" => ~Own(t)
    /\ pc[t] # "raw"
    /\ pc[t] = "find" =>
          \E g \in Gens : entry[g].sock = sock[t] /\ entry[g].state = "open"
    /\ pc[t] \in ClosingStates => entry[ent[t]].sock = sock[t]
    /\ pc[t] = "io" /\ calls[sock[t]] = 0 => entry[ent[t]].sock = sock[t]
Working == \A t \in Threads : Works(t)

(* Every open socket is about to be registered or in the list.             *)
Listed ==
    \A f \in Fds : os[f] # 0 =>
        \/ \E t \in Threads : pc[t] = "register" /\ sock[t] = os[f]
        \/ \E g \in Gens : entry[g].sock = os[f] /\ entry[g].state \in {"open", "closing"}

Order == OpenIsOpen /\ Youngest /\ Uncalled /\ Working /\ Listed

SInv == Ledger /\ (Disciplined => Order)

-----------------------------------------------------------------------------
(* What a step leaves of the entries.                                      *)

(* No entry is made, and none changes its socket or its descriptor.        *)
Kept == \A g \in Gens : /\ entry'[g].sock = entry[g].sock /\ entry'[g].fd = entry[g].fd
                        /\ entry'[g].state = "none" <=> entry[g].state = "none"

(* The steps of a call that is neither opening nor beginning.              *)
Calling(t) == \/ Acquire(t) \/ AcquireNothing(t) \/ Release(t)
              \/ Closing(t) \/ Spurious(t)

LEMMA AcquireKept ==
    ASSUME IInv, NEW t \in Threads, Acquire(t) PROVE Kept
<1>1. PICK g \in Gens : /\ entry[g].state = "open"
                        /\ entry' = [entry EXCEPT ![g].refs = @ + 1]
  BY DEF Acquire, Newest, Matching
<1> QED
  BY <1>1 DEF IInv, WeakType, AnyRefs, Kept

LEMMA ClaimKept ==
    ASSUME IInv, NEW t \in Threads, Claim(t) PROVE Kept
<1>1. PICK g \in Gens : /\ entry[g].state = "open"
                        /\ entry' = [entry EXCEPT ![g].state = "closing"]
  BY DEF Claim, Newest, Matching
<1> QED
  BY <1>1 DEF IInv, WeakType, AnyRefs, EntryStates, Kept

(* Dropping a reference and reaping keep everything but count and state.   *)
LEMMA ReapKeeps ==
    ASSUME NEW e \in AnyRefs
    PROVE  /\ Reap(Drop(e)).sock = e.sock /\ Reap(Drop(e)).fd = e.fd
           /\ Reap(Drop(e)).state = e.state \/ (Reap(Drop(e)).state = "freed" /\ e.state = "closed")
<1>1. /\ Drop(e) \in AnyRefs /\ Drop(e).sock = e.sock /\ Drop(e).fd = e.fd
      /\ Drop(e).state = e.state
  BY DEF Drop, AnyRefs
<1> HIDE DEF Drop
<1> QED
  BY <1>1 DEF Reap, AnyRefs, EntryStates

LEMMA ReleaseKept ==
    ASSUME IInv, NEW t \in Threads, Release(t) PROVE Kept
<1>0. PICK g : g = ent[t]
  OBVIOUS
<1>1. g \in Gens /\ entry[g].state # "none" /\ entry[g] \in AnyRefs
  BY <1>0, RegistryAssumption DEF Release, IInv, WeakType, HeldAlive, Gens
<1>2. entry' = [entry EXCEPT ![g] = Reap(Drop(entry[g]))]
  BY <1>0 DEF Release
<1>3. /\ entry'[g] = Reap(Drop(entry[g]))
      /\ \A h \in Gens : h # g => entry'[h] = entry[h]
  BY <1>1, <1>2 DEF IInv, WeakType
<1>4. /\ entry'[g].sock = entry[g].sock /\ entry'[g].fd = entry[g].fd
      /\ entry'[g].state # "none"
  BY <1>1, <1>3, ReapKeeps
<1> QED
  BY <1>1, <1>3, <1>4 DEF Kept

(* With no guard left the entry is freed as soon as it is closed.          *)
LEMMA FinishFrees ==
    ASSUME IInv, NEW t \in Threads, Finish(t), Guards(ent[t]) = {},
           NEW g, g = ent[t]
    PROVE  /\ g \in Gens /\ entry[g].state = "closing" /\ entry'[g].state = "freed"
           /\ entry'[g].sock = entry[g].sock /\ entry'[g].fd = entry[g].fd
           /\ \A h \in Gens : h # g => entry'[h] = entry[h]
<1> DEFINE c == [entry[g] EXCEPT !.state = "closed"]
<1>1. g \in Gens /\ t \in Closers(g)
  BY RegistryAssumption DEF Finish, Step, IInv, WeakType, HeldAlive, Gens, Closers
<1>2. entry[g].state = "closing" /\ entry[g] \in AnyRefs
  BY <1>1 DEF IInv, OneCloser, WeakType
<1>3. entry[g].refs = 1
  <2>1. Cardinality(Guards(g)) = 0
    BY FS_EmptySet
  <2> QED
    BY <1>1, <1>2, <2>1 DEF IInv, RefsMatch
<1>4. /\ c \in AnyRefs /\ c.state = "closed" /\ c.refs = 1
      /\ c.sock = entry[g].sock /\ c.fd = entry[g].fd
  BY <1>2, <1>3, MarkedClosed DEF AnyRefs
<1>5. entry' = [entry EXCEPT ![g] = Reap(Drop(c))]
  BY DEF Finish
<1> HIDE DEF c
<1>6. /\ Drop(c) \in AnyRefs /\ Drop(c).state = "closed" /\ Drop(c).refs = 0
      /\ Drop(c).sock = c.sock /\ Drop(c).fd = c.fd
  BY <1>4 DEF Drop, AnyRefs
<1>7. /\ Reap(Drop(c)).state = "freed"
      /\ Reap(Drop(c)).sock = c.sock /\ Reap(Drop(c)).fd = c.fd
  BY <1>6 DEF Reap, AnyRefs, EntryStates
<1>8. entry'[g] = Reap(Drop(c)) /\ \A h \in Gens : h # g => entry'[h] = entry[h]
  BY <1>1, <1>5 DEF IInv, WeakType
<1> QED
  BY <1>1, <1>2, <1>4, <1>7, <1>8

LEMMA FinishKept ==
    ASSUME IInv, Drained, NEW t \in Threads, Finish(t) PROVE Kept
<1>1. Guards(ent[t]) = {}
  BY DEF Drained, Finish, Step
<1>2. PICK g : g = ent[t]
  OBVIOUS
<1> QED
  BY <1>1, <1>2, FinishFrees DEF Kept

LEMMA CallingKept ==
    ASSUME IInv, Drained, NEW t \in Threads, Calling(t) PROVE Kept
<1>1. CASE entry' = entry
  BY <1>1 DEF Kept
<1> QED
  BY <1>1, AcquireKept, ReleaseKept, ClaimKept, FinishKept
  DEF Calling, Closing, AcquireNothing, FindNothing, FindClaimed, Check, OsClose,
      RawClose, Spurious, registryVars

(* What a calling thread leaves alone, and where it goes.  Only close(2)   *)
(* changes what is open, and only under the thread's descriptor.           *)
LEMMA CallingStep ==
    ASSUME IInv, NEW t \in Threads, Calling(t)
    PROVE  /\ UNCHANGED <<opened, fdOf, sock, published, calls>>
           /\ os' = os \/ os' = [os EXCEPT ![Fd(t)] = 0]
           /\ pc[t] \notin {"idle", "register", "registered"}
           /\ pc'[t] \notin {"register", "registered", "acquire", "find"}
           /\ pc'[t] = "io" => pc[t] = "acquire"
           /\ Closes(t)' => Closes(t)
           /\ \A u \in Threads \ {t} :
                 /\ pc'[u] = pc[u] \/ (pc[u] = "waiting" /\ pc'[u] = "check")
                 /\ ent'[u] = ent[u]
<1>1. CASE Release(t)
  BY <1>1 DEF Release, IInv, WeakType, osVars, programVars, Closes, ClosingStates
<1>2. CASE Calling(t) /\ ~Release(t)
  <2>1. PICK to \in ThreadStates :
            /\ Step(t, pc[t], to)
            /\ pc[t] \notin {"idle", "register", "registered"}
            /\ to \notin {"register", "registered", "acquire", "find"}
            /\ to = "io" => pc[t] = "acquire"
            /\ to \in {"find", "raw"} \cup ClosingStates
                   => pc[t] \in {"find", "raw"} \cup ClosingStates
    BY <1>2 DEF Calling, Closing, Acquire, AcquireNothing, FindNothing, FindClaimed, Claim,
                Check, OsClose, Finish, RawClose, Spurious, Step, ThreadStates, Tested,
                ClosingStates
  <2>2. /\ UNCHANGED <<opened, fdOf, sock, published, calls>>
        /\ os' = os \/ os' = [os EXCEPT ![Fd(t)] = 0]
    BY <1>2 DEF Calling, Closing, Acquire, AcquireNothing, FindNothing, FindClaimed, Claim,
                Check, OsClose, Finish, RawClose, Spurious, osVars, registryVars, programVars
  <2>3. \A u \in Threads \ {t} : ent'[u] = ent[u]
    BY <1>2 DEF Calling, Closing, Acquire, AcquireNothing, FindNothing, FindClaimed, Claim,
                Check, OsClose, Finish, RawClose, Spurious, registryVars, IInv, WeakType
  <2> QED
    BY <2>1, <2>2, <2>3 DEF Step, IInv, WeakType, Closes
<1> QED
  BY <1>1, <1>2

(* The descriptor of a thread at work is one of the operating system's.    *)
LEMMA FdOfThread ==
    ASSUME Numbers, NEW t \in Threads, pc[t] # "idle"
    PROVE  Fd(t) \in Fds /\ sock[t] \in Known
BY DEF Numbers, Fd

LEMMA CallingNumbers ==
    ASSUME IInv, Numbers, NEW t \in Threads, Calling(t)
    PROVE  Numbers'
<1>1. UNCHANGED <<opened, fdOf, sock, published, calls>>
  BY CallingStep
<1>2. \A f \in Fds : os'[f] = os[f] \/ os'[f] = 0
  BY CallingStep, FdOfThread DEF IInv, WeakType
<1>3. \A u \in Threads : /\ pc'[u] # "idle" => pc[u] # "idle"
                         /\ pc'[u] \in {"acquire", "io"} => pc[u] \in {"acquire", "io"}
  BY CallingStep
<1> QED
  BY <1>1, <1>2, <1>3 DEF Numbers, Known

LEMMA MadeKept ==
    ASSUME Kept PROVE Made' = Made
BY DEF Kept, Made

LEMMA EntriesKept ==
    ASSUME Kept, EntryOfSocket, UNCHANGED <<opened, fdOf>> PROVE EntryOfSocket'
BY MadeKept DEF Kept, EntryOfSocket, Made, Known

LEMMA CallingOpening ==
    ASSUME IInv, Opening, NEW t \in Threads, Calling(t), Kept
    PROVE  Opening'
<1>1. UNCHANGED <<published, calls, sock>> /\ Made' = Made
  BY CallingStep, MadeKept
<1> SUFFICES ASSUME NEW u \in Threads
             PROVE  /\ pc'[u] = "register"
                          => Fresh(u)' /\ \A g \in Made : entry'[g].sock # sock[u]
                    /\ pc'[u] = "registered" => /\ Fresh(u)' /\ ent'[u] \in Made
                                                /\ entry'[ent'[u]].sock = sock[u]
  BY <1>1 DEF Opening
<1> SUFFICES ASSUME pc'[u] \in {"register", "registered"} PROVE
                    /\ pc'[u] = "register"
                          => Fresh(u)' /\ \A g \in Made : entry'[g].sock # sock[u]
                    /\ pc'[u] = "registered" => /\ Fresh(u)' /\ ent'[u] \in Made
                                                /\ entry'[ent'[u]].sock = sock[u]
  OBVIOUS
<1>2. pc[u] = pc'[u] /\ ent'[u] = ent[u] /\ u # t
  BY CallingStep
<1>3. \A v \in Threads : pc'[v] # "idle" => pc[v] # "idle"
  BY CallingStep
<1>4. Fresh(u) => Fresh(u)'
  BY <1>1, <1>3 DEF Fresh
<1> QED
  BY <1>1, <1>2, <1>4 DEF Opening, Kept, Made

LEMMA CallingCalled ==
    ASSUME IInv, Called, NEW t \in Threads, Calling(t)
    PROVE  Called'
<1>1. UNCHANGED <<calls, sock>>
  BY CallingStep
<1>2. \A u \in Threads : Closes(u)' => Closes(u)
  BY CallingStep DEF Closes, ClosingStates
<1> QED
  BY <1>1, <1>2 DEF Called

(* An entry with one reference, the registry's own, has no guard.          *)
LEMMA NoGuards ==
    ASSUME IInv, NEW g \in Gens, entry[g].state \in {"open", "closing"}, ~(entry[g].refs > 1)
    PROVE  Guards(g) = {}
<1>1. entry[g].refs = Cardinality(Guards(g)) + 1
  BY DEF IInv, RefsMatch
<1>2. Cardinality(Guards(g)) = 0
  BY <1>1, FiniteGuards
<1> QED
  BY <1>2, FiniteGuards, FS_EmptySet

(* A closer points to an entry that is being closed.                       *)
LEMMA CloserEntry ==
    ASSUME IInv, NEW t \in Threads, pc[t] \in ClosingStates
    PROVE  ent[t] \in Gens /\ entry[ent[t]].state = "closing"
<1>1. ent[t] \in Gens
  BY RegistryAssumption DEF IInv, WeakType, HeldAlive, Gens, ClosingStates
<1>2. t \in Closers(ent[t])
  BY DEF Closers, ClosingStates
<1> QED
  BY <1>1, <1>2 DEF IInv, OneCloser

LEMMA GuardEntry ==
    ASSUME IInv, Drained, NEW t \in Threads, pc[t] = "io"
    PROVE  ent[t] \in Gens /\ entry[ent[t]].state \in {"open", "closing"}
<1>1. ent[t] \in Gens /\ entry[ent[t]].state \notin {"none", "freed"}
  BY RegistryAssumption DEF IInv, WeakType, HeldAlive, Gens
<1> QED
  BY <1>1 DEF IInv, WeakType, AnyRefs, EntryStates, Drained

(* What the entries go through in a call.                                  *)
LEMMA ReleaseStates ==
    ASSUME IInv, Drained, NEW t \in Threads, Release(t)
    PROVE  \A g \in Gens : entry'[g].state = entry[g].state
<1>0. PICK g : g = ent[t]
  OBVIOUS
<1>1. g \in Gens /\ entry[g].state # "closed" /\ entry[g] \in AnyRefs
  BY <1>0, GuardEntry DEF Release, IInv, WeakType
<1>2. entry' = [entry EXCEPT ![g] = Reap(Drop(entry[g]))]
  BY <1>0 DEF Release
<1>3. /\ entry'[g] = Reap(Drop(entry[g]))
      /\ \A h \in Gens : h # g => entry'[h] = entry[h]
  BY <1>1, <1>2 DEF IInv, WeakType
<1> QED
  BY <1>1, <1>3, ReapKeeps

LEMMA ClaimStates ==
    ASSUME IInv, NEW t \in Threads, Claim(t)
    PROVE  \E g \in Gens :
              /\ g \in Newest(Matching(Fd(t), {"open", "closing"})) /\ entry[g].state = "open"
              /\ ent'[t] = g /\ entry'[g].state = "closing"
              /\ pc' = [pc EXCEPT ![t] = Tested(g)]
              /\ \A h \in Gens : h # g => entry'[h] = entry[h]
<1>1. PICK g \in Gens :
          /\ g \in Newest(Matching(Fd(t), {"open", "closing"})) /\ entry[g].state = "open"
          /\ ent' = [ent EXCEPT ![t] = g] /\ entry' = [entry EXCEPT ![g].state = "closing"]
          /\ pc' = [pc EXCEPT ![t] = Tested(g)]
  BY DEF Claim, Step, Newest, Matching
<1> QED
  BY <1>1 DEF IInv, WeakType, AnyRefs, EntryStates

LEMMA AcquireStates ==
    ASSUME IInv, NEW t \in Threads, Acquire(t)
    PROVE  /\ \A g \in Gens : entry'[g].state = entry[g].state
           /\ ent'[t] \in Newest(Matching(Fd(t), {"open"}))
           /\ ent'[t] \in Gens /\ entry[ent'[t]].state = "open" /\ entry[ent'[t]].fd = Fd(t)
<1>1. PICK g \in Gens : /\ g \in Newest(Matching(Fd(t), {"open"}))
                        /\ entry[g].state = "open" /\ entry[g].fd = Fd(t)
                        /\ entry' = [entry EXCEPT ![g].refs = @ + 1]
                        /\ ent' = [ent EXCEPT ![t] = g]
  BY DEF Acquire, Newest, Matching
<1> QED
  BY <1>1 DEF IInv, WeakType, AnyRefs, EntryStates

LEMMA CallingDrained ==
    ASSUME IInv, Drained, NEW t \in Threads, Calling(t)
    PROVE  Drained'
<1>1. \A g \in Gens : entry'[g].state # "closed"
  <2>1. CASE Acquire(t) \/ Release(t)
    BY <2>1, AcquireStates, ReleaseStates DEF Drained
  <2>2. CASE Claim(t)
    BY <2>2, ClaimStates DEF Drained
  <2>3. CASE Finish(t)
    <3>1. PICK g : g = ent[t]
      OBVIOUS
    <3>2. Guards(ent[t]) = {}
      BY <2>3 DEF Drained, Finish, Step
    <3>3. entry'[g].state = "freed" /\ \A h \in Gens : h # g => entry'[h] = entry[h]
      BY <2>3, <3>1, <3>2, FinishFrees
    <3> QED
      BY <3>3 DEF Drained
  <2>4. CASE entry' = entry
    BY <2>4 DEF Drained
  <2> QED
    BY <2>1, <2>2, <2>3, <2>4
    DEF Calling, Closing, AcquireNothing, FindNothing, FindClaimed, Check, OsClose,
        RawClose, Spurious, registryVars
<1>2. ASSUME NEW u \in Threads, pc'[u] \in {"osclose", "finish"}
      PROVE  Guards(ent[u])' = {}
  <2>0. PICK g : g = ent'[u]
    OBVIOUS
  <2>1. g \in Gens /\ (t = u \/ pc[u] = pc'[u]) /\ Guards(g) = {}
    <3>1. CASE u # t
      <4>1. ent[u] = g /\ pc[u] = pc'[u]
        BY <1>2, <2>0, <3>1, CallingStep
      <4> QED
        BY <4>1, <1>2, CloserEntry DEF Drained, ClosingStates
    <3>2. CASE u = t
      <4>1. CASE Claim(t)
        BY <4>1, <3>2, <2>0, <1>2, ClaimStates, NoGuards DEF Tested, IInv, WeakType
      <4>2. CASE Check(t)
        BY <4>2, <3>2, <2>0, <1>2, CloserEntry, NoGuards
        DEF Check, Step, Tested, IInv, WeakType, registryVars, ClosingStates
      <4>3. CASE OsClose(t)
        BY <4>3, <3>2, <2>0, CloserEntry DEF OsClose, Step, Drained, ClosingStates
      <4>4. CASE Calling(t) /\ ~Claim(t) /\ ~Check(t) /\ ~OsClose(t)
        BY <4>4, <3>2, <1>2
        DEF Calling, Closing, Acquire, AcquireNothing, Release, FindNothing, FindClaimed,
            Finish, RawClose, Spurious, Step, IInv, WeakType
      <4> QED
        BY <4>1, <4>2, <4>3, <4>4
    <3> QED
      BY <3>1, <3>2
  <2>2. ASSUME NEW v \in Threads, pc'[v] = "io" PROVE ent'[v] # g
    <3>1. CASE v # t
      BY <2>1, <2>2, <3>1, CallingStep DEF Guards
    <3>2. CASE v = t
      <4>1. Acquire(t)
        BY <2>2, <3>2
        DEF Calling, Closing, Acquire, AcquireNothing, Release, FindNothing, FindClaimed,
            Claim, Check, OsClose, Finish, RawClose, Spurious, Step, Tested, IInv, WeakType
      <4>2. u # t /\ ent[u] = g /\ pc[u] \in ClosingStates
        BY <1>2, <2>0, <2>2, <3>2, CallingStep DEF ClosingStates
      <4>3. entry[g].state = "closing"
        BY <4>2, CloserEntry
      <4> QED
        BY <3>2, <4>1, <4>3, AcquireStates
    <3> QED
      BY <3>1, <3>2
  <2> QED
    BY <2>0, <2>2 DEF Guards
<1> QED
  BY <1>1, <1>2 DEF Drained

LEMMA CallingLedger ==
    ASSUME Ledger, NEW t \in Threads, Calling(t)
    PROVE  Numbers' /\ EntryOfSocket' /\ Opening' /\ Called' /\ Drained' /\ Kept
<1>1. Kept
  BY CallingKept DEF Ledger
<1>2. UNCHANGED <<opened, fdOf>>
  BY CallingStep DEF Ledger
<1> QED
  BY <1>1, <1>2, EntriesKept, CallingNumbers, CallingOpening, CallingCalled, CallingDrained
  DEF Ledger

-----------------------------------------------------------------------------
(* The ledger, when a socket is opened, registered or given up.            *)

(* Steps outside a call leave the guards of every entry as they were.      *)
LEMMA DrainedQuiet ==
    ASSUME IInv, Drained, NEW t \in Threads, NEW to \in ThreadStates,
           pc[t] \notin {"io"} \cup ClosingStates, to \notin {"io"} \cup ClosingStates,
           Step(t, pc[t], to), \A u \in Threads \ {t} : ent'[u] = ent[u],
           \A g \in Gens : entry'[g].state = entry[g].state \/ entry'[g].state = "open"
    PROVE  Drained'
<1>1. \A u \in Threads \ {t} : pc'[u] = pc[u] /\ ent'[u] = ent[u]
  BY DEF Step, IInv, WeakType
<1>2. pc'[t] = to
  BY DEF Step, IInv, WeakType
<1>3. \A g : Guards(g)' = Guards(g)
  BY <1>1, <1>2 DEF Guards
<1>4. \A g \in Gens : entry'[g].state # "closed"
  BY DEF Drained
<1>5. \A u \in Threads : pc'[u] \in {"osclose", "finish"} =>
          ent'[u] = ent[u] /\ pc[u] = pc'[u]
  BY <1>1, <1>2 DEF ClosingStates
<1> QED
  BY <1>3, <1>4, <1>5 DEF Drained

LEMMA OpenStep ==
    ASSUME Ledger, NEW t \in Threads, Open(t)
    PROVE  \E f \in Fds :
              /\ os[f] = 0 /\ os' = [os EXCEPT ![f] = opened + 1]
              /\ fdOf' = [fdOf EXCEPT ![opened + 1] = f]
              /\ opened' = opened + 1 /\ opened + 1 \in Socks \ Known
              /\ sock' = [sock EXCEPT ![t] = opened + 1]
              /\ Step(t, "idle", "register")
              /\ UNCHANGED <<entry, ent, published, calls>>
<1>1. opened + 1 \in Socks \ Known
  BY RegistryAssumption DEF Open, Ledger, IInv, WeakType, Socks, Known
<1> QED
  BY <1>1 DEF Open, registryVars, programVars

LEMMA OpenLedger ==
    ASSUME Ledger, NEW t \in Threads, Open(t)
    PROVE  Numbers' /\ EntryOfSocket' /\ Opening' /\ Called' /\ Drained'
<1> DEFINE s == opened + 1
<1>1. PICK f \in Fds :
          /\ os[f] = 0 /\ os' = [os EXCEPT ![f] = s] /\ fdOf' = [fdOf EXCEPT ![s] = f]
          /\ opened' = s /\ s \in Socks \ Known /\ sock' = [sock EXCEPT ![t] = s]
          /\ Step(t, "idle", "register") /\ UNCHANGED <<entry, ent, published, calls>>
  BY OpenStep
<1>2. Known' = Known \cup {s} /\ s \notin Known /\ s # 0 /\ Known \subseteq Socks
  BY <1>1, RegistryAssumption DEF Ledger, IInv, WeakType, Known, Socks
<1>3. /\ os'[f] = s /\ \A e \in Fds : e # f => os'[e] = os[e]
      /\ fdOf'[s] = f /\ \A k \in Known : fdOf'[k] = fdOf[k]
      /\ sock'[t] = s /\ pc[t] = "idle" /\ pc'[t] = "register"
      /\ \A u \in Threads \ {t} : sock'[u] = sock[u] /\ pc'[u] = pc[u]
  BY <1>1, <1>2 DEF Ledger, IInv, WeakType, Step
<1> HIDE DEF s
<1>4. Numbers'
  BY <1>1, <1>2, <1>3 DEF Ledger, Numbers
<1>5. EntryOfSocket'
  BY <1>1, <1>2, <1>3 DEF Ledger, EntryOfSocket, Made
<1>6. Opening'
  <2>1. s \notin published /\ calls[s] = 0 /\ \A g \in Made : entry[g].sock # s
    BY <1>1, <1>2 DEF Ledger, Numbers, EntryOfSocket
  <2>2. \A u \in Threads \ {t} : pc[u] # "idle" => sock[u] # s
    BY <1>2 DEF Ledger, Numbers
  <2>3. Fresh(t)'
    BY <1>1, <1>3, <2>1, <2>2 DEF Fresh
  <2>4. \A u \in Threads \ {t} : pc[u] # "idle" /\ Fresh(u) => Fresh(u)'
    BY <1>1, <1>3, <2>2 DEF Fresh
  <2>5. Made' = Made
    BY <1>1 DEF Made
  <2> QED
    BY <1>1, <1>3, <2>1, <2>3, <2>4, <2>5 DEF Ledger, Opening
<1>7. Called'
  BY <1>1, <1>3 DEF Ledger, Called, Closes, ClosingStates
<1>8. Drained'
  BY <1>1, <1>3, DrainedQuiet DEF Ledger, ThreadStates, ClosingStates
<1> QED
  BY <1>4, <1>5, <1>6, <1>7, <1>8

(* The new entry is the youngest, and the first for its socket.            *)
LEMMA RegisterStep ==
    ASSUME IInv, NEW t \in Threads, Register(t)
    PROVE  \E n \in Gens :
              /\ entry[n].state = "none" /\ \A g \in Made : g < n
              /\ entry'[n].state = "open" /\ entry'[n].sock = sock[t] /\ entry'[n].fd = Fd(t)
              /\ \A g \in Gens : g # n => entry'[g] = entry[g]
              /\ Made' = Made \cup {n} /\ n \notin Made
              /\ ent' = [ent EXCEPT ![t] = n] /\ ent'[t] = n
              /\ Step(t, "register", "registered")
              /\ UNCHANGED <<os, opened, fdOf, sock, published, calls>>
<1> DEFINE n == nextGen + 1
<1>1. Cardinality(Registering) >= 1
  BY RegisteringShrinks DEF Register, Step, IInv, ThreadStates
<1>2. n \in Gens /\ nextGen' = n
  BY <1>1, FiniteRegistering, RegistryAssumption
  DEF Register, IInv, WeakType, RoomToRegister, Gens
<1>3. entry[n].state = "none" /\ \A g \in Made : g < n
  BY <1>2 DEF IInv, WeakType, Numbered, Made, Gens
<1>4. /\ entry'[n] = [fd |-> Fd(t), sock |-> sock[t], state |-> "open", refs |-> 1]
      /\ \A g \in Gens : g # n => entry'[g] = entry[g]
  BY <1>2 DEF Register, IInv, WeakType
<1>5. Made' = Made \cup {n} /\ n \notin Made
  BY <1>2, <1>3, <1>4 DEF Made
<1>6. ent' = [ent EXCEPT ![t] = n] /\ ent'[t] = n
  BY <1>2 DEF Register, IInv, WeakType
<1>7. /\ entry'[n].state = "open" /\ entry'[n].sock = sock[t] /\ entry'[n].fd = Fd(t)
      /\ Step(t, "register", "registered")
      /\ UNCHANGED <<os, opened, fdOf, sock, published, calls>>
  BY <1>4 DEF Register, osVars, programVars
<1> HIDE DEF n
<1> QED
  BY <1>2, <1>3, <1>4, <1>5, <1>6, <1>7

LEMMA RegisterLedger ==
    ASSUME Ledger, NEW t \in Threads, Register(t)
    PROVE  Numbers' /\ EntryOfSocket' /\ Opening' /\ Called' /\ Drained'
<1>1. PICK n \in Gens :
          /\ entry[n].state = "none"
          /\ entry'[n].state = "open" /\ entry'[n].sock = sock[t] /\ entry'[n].fd = Fd(t)
          /\ \A g \in Gens : g # n => entry'[g] = entry[g]
          /\ Made' = Made \cup {n} /\ n \notin Made
          /\ ent' = [ent EXCEPT ![t] = n] /\ ent'[t] = n
          /\ Step(t, "register", "registered")
          /\ UNCHANGED <<os, opened, fdOf, sock, published, calls>>
  BY RegisterStep DEF Ledger
<1>2. /\ pc[t] = "register" /\ pc'[t] = "registered"
      /\ \A u \in Threads \ {t} : pc'[u] = pc[u] /\ ent'[u] = ent[u]
  BY <1>1 DEF Ledger, IInv, WeakType, Step
<1>3. Fresh(t) /\ (\A g \in Made : entry[g].sock # sock[t]) /\ sock[t] \in Known
  BY <1>2 DEF Ledger, Opening, Numbers
<1>4. Numbers'
  BY <1>1, <1>2 DEF Ledger, Numbers, Known
<1>5. EntryOfSocket'
  BY <1>1, <1>3 DEF Ledger, EntryOfSocket, Made, Known, Fd
<1>6. Opening'
  <2>1. \A u \in Threads : Fresh(u) => Fresh(u)'
    BY <1>1, <1>2 DEF Fresh
  <2>2. \A u \in Threads \ {t} : pc[u] # "idle" => sock[u] # sock[t]
    BY <1>3 DEF Fresh
  <2> SUFFICES ASSUME NEW u \in Threads
               PROVE  /\ pc'[u] = "register"
                            => Fresh(u)' /\ \A g \in Made' : entry'[g].sock # sock[u]
                      /\ pc'[u] = "registered" => /\ Fresh(u)' /\ ent'[u] \in Made'
                                                  /\ entry'[ent'[u]].sock = sock[u]
    BY <1>1 DEF Opening
  <2>3. CASE u = t
    BY <2>3, <1>1, <1>2, <1>3, <2>1
  <2>4. CASE u # t
    BY <2>4, <1>1, <1>2, <2>1, <2>2 DEF Ledger, Opening, Made
  <2> QED
    BY <2>3, <2>4
<1>7. Called'
  BY <1>1, <1>2 DEF Ledger, Called, Closes, ClosingStates
<1>8. Drained'
  BY <1>1, <1>2, DrainedQuiet DEF Ledger, ThreadStates, ClosingStates
<1> QED
  BY <1>4, <1>5, <1>6, <1>7, <1>8

(* A thread that publishes or gives up leaves the registry alone.          *)
LEMMA LeavesOpening ==
    ASSUME Ledger, NEW t \in Threads, RegisterFails(t) \/ Publish(t)
    PROVE  /\ UNCHANGED <<opened, fdOf, entry, sock, calls>>
           /\ os' = os \/ os' = [os EXCEPT ![Fd(t)] = 0]
           /\ published \subseteq published' /\ published' \subseteq published \cup {sock[t]}
           /\ pc[t] \in {"register", "registered"} /\ pc'[t] = "idle"
           /\ Step(t, pc[t], "idle")
           /\ \A u \in Threads \ {t} : pc'[u] = pc[u] /\ ent'[u] = ent[u]
BY DEF Ledger, RegisterFails, Publish, Step, IInv, WeakType, osVars, registryVars

LEMMA LeavesOpeningLedger ==
    ASSUME Ledger, NEW t \in Threads, RegisterFails(t) \/ Publish(t)
    PROVE  Numbers' /\ EntryOfSocket' /\ Opening' /\ Called' /\ Drained'
<1>1. /\ UNCHANGED <<opened, fdOf, entry, sock, calls>>
      /\ os' = os \/ os' = [os EXCEPT ![Fd(t)] = 0]
      /\ published \subseteq published' /\ published' \subseteq published \cup {sock[t]}
      /\ pc[t] \in {"register", "registered"} /\ pc'[t] = "idle"
      /\ Step(t, pc[t], "idle")
      /\ \A u \in Threads \ {t} : pc'[u] = pc[u] /\ ent'[u] = ent[u]
  BY LeavesOpening
<1>2. \A f \in Fds : os'[f] = os[f] \/ os'[f] = 0
  BY <1>1, FdOfThread DEF Ledger, IInv, WeakType
<1>3. Made' = Made
  BY <1>1 DEF Made
<1>4. Numbers'
  BY <1>1, <1>2 DEF Ledger, Numbers, Known
<1>5. EntryOfSocket'
  BY <1>1, <1>3 DEF Ledger, EntryOfSocket, Known
<1>6. Opening'
  <2>1. \A u \in Threads \ {t} : pc[u] # "idle" /\ Fresh(u) => Fresh(u)'
    BY <1>1 DEF Fresh
  <2> QED
    BY <1>1, <1>3, <2>1 DEF Ledger, Opening
<1>7. Called'
  BY <1>1 DEF Ledger, Called, Closes, ClosingStates
<1>8. Drained'
  BY <1>1, DrainedQuiet DEF Ledger, ThreadStates, ClosingStates
<1> QED
  BY <1>4, <1>5, <1>6, <1>7, <1>8

(* A call to close is counted, for the socket it was meant for.            *)
LEMMA BeginsClosing ==
    ASSUME Ledger, NEW t \in Threads, Abandon(t) \/ BeginClose(t)
    PROVE  \E s \in Known :
              /\ \/ pc[t] = "registered" /\ s = sock[t]
                 \/ pc[t] = "idle" /\ s \in published
              /\ sock' = [sock EXCEPT ![t] = s] /\ calls' = [calls EXCEPT ![s] = @ + 1]
              /\ UNCHANGED <<os, opened, fdOf, entry, published>>
              /\ Step(t, pc[t], "find")
              /\ \A u \in Threads \ {t} : ent'[u] = ent[u]
<1>1. CASE Abandon(t)
  <2>1. sock' = [sock EXCEPT ![t] = sock[t]]
    BY <1>1 DEF Abandon, Ledger, IInv, WeakType
  <2>2. sock[t] \in Known
    BY <1>1 DEF Abandon, Step, Ledger, Numbers
  <2>3. \A u \in Threads \ {t} : ent'[u] = ent[u]
    BY <1>1 DEF Abandon, Ledger, IInv, WeakType
  <2> QED
    BY <1>1, <2>1, <2>2, <2>3 DEF Abandon, Step, osVars, registryVars
<1>2. CASE BeginClose(t)
  <2>1. PICK s \in published : /\ calls' = [calls EXCEPT ![s] = @ + 1]
                               /\ sock' = [sock EXCEPT ![t] = s]
    BY <1>2 DEF BeginClose
  <2>2. s \in Known
    BY <2>1 DEF Ledger, Numbers
  <2> QED
    BY <1>2, <2>1, <2>2 DEF BeginClose, Step, osVars, registryVars
<1> QED
  BY <1>1, <1>2

LEMMA BeginsClosingLedger ==
    ASSUME Ledger, NEW t \in Threads, Abandon(t) \/ BeginClose(t)
    PROVE  Numbers' /\ EntryOfSocket' /\ Opening' /\ Called' /\ Drained'
<1>1. PICK s \in Known :
          /\ \/ pc[t] = "registered" /\ s = sock[t]
             \/ pc[t] = "idle" /\ s \in published
          /\ sock' = [sock EXCEPT ![t] = s] /\ calls' = [calls EXCEPT ![s] = @ + 1]
          /\ UNCHANGED <<os, opened, fdOf, entry, published>>
          /\ Step(t, pc[t], "find")
          /\ \A u \in Threads \ {t} : ent'[u] = ent[u]
  BY BeginsClosing
<1>2. /\ pc'[t] = "find" /\ sock'[t] = s
      /\ \A u \in Threads \ {t} : pc'[u] = pc[u] /\ sock'[u] = sock[u]
  BY <1>1 DEF Step, Ledger, IInv, WeakType
<1>3. /\ s \in Socks /\ calls[s] \in Nat /\ calls'[s] = calls[s] + 1
      /\ \A k \in Socks \ {s} : calls'[k] = calls[k]
  BY <1>1, RegistryAssumption DEF Ledger, IInv, WeakType, Known, Socks
<1>4. Made' = Made /\ Known' = Known /\ Known \subseteq Socks
  BY <1>1, RegistryAssumption DEF Made, Known, Socks, Ledger, IInv, WeakType
<1>5. Numbers'
  BY <1>1, <1>2, <1>3, <1>4 DEF Ledger, Numbers
<1>6. EntryOfSocket'
  BY <1>1, <1>4 DEF Ledger, EntryOfSocket
<1>7. Opening'
  <2>1. \A u \in Threads \ {t} :
            pc[u] \in {"register", "registered"} => Fresh(u) /\ sock[u] # s
    BY <1>1 DEF Ledger, Opening, Fresh
  <2>2. \A u \in Threads \ {t} : pc[u] \in {"register", "registered"} => sock[u] \in Socks
    BY <1>4 DEF Ledger, Numbers
  <2>3. \A u \in Threads \ {t} : pc[u] \in {"register", "registered"} => Fresh(u)'
    BY <1>1, <1>2, <1>3, <2>1, <2>2 DEF Fresh
  <2> QED
    BY <1>1, <1>2, <1>4, <2>3 DEF Ledger, Opening
<1>8. Called'
  <2>1. \A u \in Threads \ {t} : Closes(u)' => Closes(u) /\ sock[u] \in Socks
    BY <1>2, <1>4 DEF Closes, ClosingStates, Ledger, Numbers
  <2>2. \A u \in Threads : Closes(u) => calls[sock[u]] >= 1 /\ calls[sock[u]] \in Nat
    BY <1>4 DEF Ledger, Called, IInv, WeakType, Numbers, Closes, ClosingStates
  <2>3. ASSUME NEW u \in Threads, Closes(u)' PROVE calls'[sock'[u]] >= 1
    BY <1>2, <1>3, <2>1, <2>2, <2>3
  <2>4. ASSUME NEW u \in Threads, NEW v \in Threads,
               Closes(u)', Closes(v)', u # v, sock'[u] = sock'[v]
        PROVE  calls'[sock'[u]] >= 2
    <3>1. CASE u # t /\ v # t
      BY <3>1, <2>4, <1>2, <1>3, <2>1, <2>2 DEF Ledger, Called
    <3>2. CASE u = t \/ v = t
      BY <3>2, <2>4, <1>2, <1>3, <2>1, <2>2
    <3> QED
      BY <3>1, <3>2
  <2> QED
    BY <2>3, <2>4 DEF Called
<1>9. Drained'
  BY <1>1, DrainedQuiet DEF Ledger, ThreadStates, ClosingStates
<1> QED
  BY <1>5, <1>6, <1>7, <1>8, <1>9

LEMMA BeginIoLedger ==
    ASSUME Ledger, NEW t \in Threads, BeginIo(t)
    PROVE  Numbers' /\ EntryOfSocket' /\ Opening' /\ Called' /\ Drained'
<1>1. PICK s \in published : sock' = [sock EXCEPT ![t] = s]
  BY DEF BeginIo
<1>2. /\ UNCHANGED <<os, opened, fdOf, entry, ent, published, calls>>
      /\ Step(t, "idle", "acquire")
  BY DEF BeginIo, osVars, registryVars, programVars
<1>3. /\ pc[t] = "idle" /\ pc'[t] = "acquire" /\ sock'[t] = s
      /\ \A u \in Threads \ {t} : pc'[u] = pc[u] /\ sock'[u] = sock[u]
  BY <1>1, <1>2 DEF Step, Ledger, IInv, WeakType
<1>4. Made' = Made /\ Known' = Known
  BY <1>2 DEF Made, Known
<1>5. Numbers'
  BY <1>2, <1>3, <1>4 DEF Ledger, Numbers
<1>6. EntryOfSocket'
  BY <1>2, <1>4 DEF Ledger, EntryOfSocket
<1>7. Opening'
  <2>1. \A u \in Threads \ {t} : pc[u] # "idle" /\ Fresh(u) => Fresh(u)'
    BY <1>2, <1>3 DEF Fresh
  <2> QED
    BY <1>2, <1>3, <1>4, <2>1 DEF Ledger, Opening
<1>8. Called'
  BY <1>2, <1>3 DEF Ledger, Called, Closes, ClosingStates
<1>9. Drained'
  BY <1>2, <1>3, DrainedQuiet DEF Ledger, ThreadStates, ClosingStates
<1> QED
  BY <1>5, <1>6, <1>7, <1>8, <1>9

LEMMA ThreadLedger ==
    ASSUME Ledger, NEW t \in Threads, Thread(t)
    PROVE  Ledger'
<1>1. IInv'
  BY NextIInv DEF Ledger, Next
<1>2. \/ Open(t) \/ Register(t) \/ (RegisterFails(t) \/ Publish(t))
      \/ (Abandon(t) \/ BeginClose(t)) \/ BeginIo(t) \/ Calling(t)
  BY DEF Thread, Calling
<1> QED
  BY <1>1, <1>2, OpenLedger, RegisterLedger, LeavesOpeningLedger, BeginsClosingLedger,
     BeginIoLedger, CallingLedger DEF Ledger

LEMMA InitLedger == Init => Ledger
<1> SUFFICES ASSUME Init PROVE Ledger
  OBVIOUS
<1>1. IInv
  BY InitIInv
<1>2. Numbers
  BY DEF Init, Numbers, Known
<1>3. EntryOfSocket /\ Opening /\ Called
  BY DEF Init, EntryOfSocket, Opening, Called, Closes, ClosingStates, Made
<1>4. Drained
  BY DEF Init, Drained
<1> QED
  BY <1>1, <1>2, <1>3, <1>4 DEF Ledger

-----------------------------------------------------------------------------
(* Discipline is never regained: calls are not taken back, a published     *)
(* socket stays published and gets no entry later.                         *)
LEMMA DisciplinedMeans ==
    Disciplined <=> /\ \A s \in Socks : calls[s] <= 1
                    /\ \A s \in published : \E g \in Made : entry[g].sock = s
BY DEF Disciplined, Made

LEMMA StaysDisciplined ==
    ASSUME Ledger, NEW t \in Threads, Thread(t), Disciplined'
    PROVE  Disciplined
<1>1. /\ \A s \in Socks : calls'[s] <= 1
      /\ \A s \in published' : \E g \in Made' : entry'[g].sock = s
  BY DEF Disciplined, Made
<1>2. \/ Open(t) \/ Register(t) \/ (RegisterFails(t) \/ Publish(t))
      \/ (Abandon(t) \/ BeginClose(t)) \/ BeginIo(t) \/ Calling(t)
  BY DEF Thread, Calling
<1>3. \A s \in Socks : calls[s] <= calls'[s]
  <2>1. CASE UNCHANGED calls
    BY <2>1 DEF Ledger, IInv, WeakType
  <2>2. CASE Abandon(t) \/ BeginClose(t)
    <3>1. PICK s \in Known : calls' = [calls EXCEPT ![s] = @ + 1]
      BY <2>2, BeginsClosing
    <3> QED
      BY <3>1 DEF Ledger, IInv, WeakType
  <2> QED
    BY <1>2, <2>1, <2>2, CallingStep
    DEF Ledger, Open, Register, RegisterFails, Publish, BeginIo, programVars
<1>4. published \subseteq published'
  BY <1>2, CallingStep, LeavesOpening, BeginsClosing
  DEF Ledger, Open, Register, BeginIo, programVars
<1>5. ASSUME NEW s \in published PROVE \E g \in Made : entry[g].sock = s
  <2>1. PICK g \in Made' : entry'[g].sock = s
    BY <1>1, <1>4
  <2>2. CASE Register(t)
    <3>1. PICK n \in Gens : /\ entry'[n].sock = sock[t]
                            /\ \A h \in Gens : h # n => entry'[h] = entry[h]
                            /\ Made' = Made \cup {n}
      BY <2>2, RegisterStep DEF Ledger
    <3>2. sock[t] \notin published
      BY <2>2 DEF Register, Step, Ledger, Opening, Fresh
    <3> QED
      BY <2>1, <3>1, <3>2 DEF Made
  <2>3. CASE Kept
    BY <2>1, <2>3, MadeKept DEF Kept, Made
  <2>4. CASE entry' = entry
    BY <2>1, <2>4 DEF Made
  <2> QED
    BY <1>2, <2>2, <2>3, <2>4, CallingLedger, LeavesOpening, BeginsClosing
    DEF Open, BeginIo, registryVars
<1>6. \A s \in Socks : calls[s] <= 1
  <2>1. \A s \in Socks : calls[s] \in Nat /\ calls'[s] \in Nat
    BY ThreadLedger DEF Ledger, IInv, WeakType
  <2> QED
    BY <1>1, <1>3, <2>1
<1> QED
  BY <1>5, <1>6, DisciplinedMeans

-----------------------------------------------------------------------------
(* Order, when a socket is opened, registered or given up.                 *)

LEMMA OpenOrder ==
    ASSUME Ledger, Order, NEW t \in Threads, Open(t)
    PROVE  Order'
<1> DEFINE s == opened + 1
<1>1. PICK f \in Fds :
          /\ os[f] = 0 /\ os' = [os EXCEPT ![f] = s] /\ fdOf' = [fdOf EXCEPT ![s] = f]
          /\ s \in Socks \ Known /\ sock' = [sock EXCEPT ![t] = s]
          /\ Step(t, "idle", "register") /\ UNCHANGED <<entry, ent, calls>>
  BY OpenStep
<1>2. s # 0 /\ 0 \notin Known /\ Known \subseteq Socks
  BY <1>1, RegistryAssumption DEF Ledger, IInv, WeakType, Socks, Known
<1>3. /\ os'[f] = s /\ \A e \in Fds : e # f => os'[e] = os[e]
      /\ fdOf'[s] = f /\ \A k \in Known : fdOf'[k] = fdOf[k]
      /\ sock'[t] = s /\ pc[t] = "idle" /\ pc'[t] = "register"
      /\ \A u \in Threads \ {t} : sock'[u] = sock[u] /\ pc'[u] = pc[u]
  BY <1>1, <1>2 DEF Ledger, IInv, WeakType, Step
<1> HIDE DEF s
<1>4. \A g \in Made : entry[g].fd \in Fds /\ entry[g].sock \in Known
  BY DEF Ledger, EntryOfSocket, Numbers
<1>5. OpenIsOpen'
  <2>1. \A g \in Gens : entry[g].state = "open" => g \in Made
    BY DEF Made
  <2> QED
    BY <1>1, <1>2, <1>3, <1>4, <2>1 DEF Order, OpenIsOpen
<1>6. Youngest'
  BY <1>1, <1>2, <1>3, <1>4 DEF Order, Youngest, Made
<1>7. Uncalled'
  BY <1>1 DEF Order, Uncalled, Made
<1>8. Working'
  <2>1. Own(t)'
    BY <1>3 DEF Own, Fd
  <2>2. ASSUME NEW u \in Threads \ {t}, pc[u] # "idle" PROVE Own(u)' <=> Own(u)
    <3>1. Fd(u) \in Fds /\ sock[u] \in Known
      BY <2>2, FdOfThread DEF Ledger
    <3>2. Fd(u)' = Fd(u) /\ sock'[u] = sock[u]
      BY <1>3, <3>1 DEF Fd
    <3>3. CASE Fd(u) = f
      BY <3>1, <3>2, <3>3, <1>1, <1>2, <1>3 DEF Own
    <3>4. CASE Fd(u) # f
      BY <3>1, <3>2, <3>4, <1>3 DEF Own
    <3> QED
      BY <3>3, <3>4
  <2> QED
    BY <1>1, <1>3, <2>1, <2>2 DEF Order, Working, Works, OwnStates, ClosingStates
<1>9. Listed'
  BY <1>1, <1>3 DEF Order, Listed
<1> QED
  BY <1>5, <1>6, <1>7, <1>8, <1>9 DEF Order

LEMMA RegisterOrder ==
    ASSUME Ledger, Order, NEW t \in Threads, Register(t)
    PROVE  Order'
<1>1. PICK n \in Gens :
          /\ entry[n].state = "none" /\ \A g \in Made : g < n
          /\ entry'[n].state = "open" /\ entry'[n].sock = sock[t] /\ entry'[n].fd = Fd(t)
          /\ \A g \in Gens : g # n => entry'[g] = entry[g]
          /\ Made' = Made \cup {n} /\ n \notin Made
          /\ ent' = [ent EXCEPT ![t] = n] /\ ent'[t] = n
          /\ Step(t, "register", "registered")
          /\ UNCHANGED <<os, opened, fdOf, sock, published, calls>>
  BY RegisterStep DEF Ledger
<1>2. /\ pc[t] = "register" /\ pc'[t] = "registered"
      /\ \A u \in Threads \ {t} : pc'[u] = pc[u] /\ ent'[u] = ent[u]
  BY <1>1 DEF Ledger, IInv, WeakType, Step
<1>3. Own(t) /\ (\A g \in Made : entry[g].sock # sock[t])
  BY <1>2 DEF Ledger, Opening, Order, Working, Works, OwnStates
<1>4. OpenIsOpen'
  BY <1>1, <1>3 DEF Order, OpenIsOpen, Own
<1>5. Youngest'
  BY <1>1, <1>3 DEF Order, Youngest, Own, Made, Gens
<1>6. Uncalled'
  BY <1>1 DEF Order, Uncalled, Made
<1>7. Working'
  <2>1. \A u \in Threads : Own(u)' <=> Own(u)
    BY <1>1 DEF Own, Fd
  <2>2. \A u \in Threads : pc[u] \in ClosingStates \cup {"io"} => ent[u] \in Gens /\ ent[u] # n
    BY <1>1, CloserEntry, GuardEntry DEF Ledger
  <2> QED
    BY <1>1, <1>2, <2>1, <2>2 DEF Order, Working, Works, OwnStates, ClosingStates
<1>8. Listed'
  <2> SUFFICES ASSUME NEW f \in Fds, os[f] # 0
               PROVE  \/ \E u \in Threads : pc'[u] = "register" /\ sock[u] = os[f]
                      \/ \E g \in Gens : /\ entry'[g].sock = os[f]
                                         /\ entry'[g].state \in {"open", "closing"}
    BY <1>1 DEF Listed
  <2>1. CASE os[f] = sock[t]
    BY <2>1, <1>1
  <2>2. CASE os[f] # sock[t]
    BY <2>2, <1>1, <1>2 DEF Order, Listed
  <2> QED
    BY <2>1, <2>2
<1> QED
  BY <1>4, <1>5, <1>6, <1>7, <1>8 DEF Order

(* Closing the one socket a thread owns takes nothing from the others.     *)
LEMMA OwnOrOther ==
    ASSUME Numbers, NEW t \in Threads, NEW u \in Threads, pc[t] # "idle", pc[u] # "idle",
           UNCHANGED <<fdOf, sock>>, os' = [os EXCEPT ![Fd(t)] = 0],
           os \in [Fds -> 0..MaxSocks]
    PROVE  /\ Own(u)' => Own(u)
           /\ Own(t) /\ Own(u) /\ sock[u] # sock[t] => Own(u)'
           /\ ~Own(t)'
<1>1. /\ Fd(u) \in Fds /\ Fd(t) \in Fds /\ sock[u] # 0 /\ sock[t] # 0
      /\ Fd(u)' = Fd(u) /\ Fd(t)' = Fd(t)
  BY FdOfThread DEF Fd, Known
<1>2. \A f \in Fds : os'[f] = IF f = Fd(t) THEN 0 ELSE os[f]
  BY <1>1
<1> QED
  BY <1>1, <1>2 DEF Own

(* A closed number stands for no socket.                                   *)
LEMMA ClosedYoungest ==
    ASSUME Ledger, Order, NEW t \in Threads, pc[t] # "idle", Kept,
           \/ os' = os
           \/ os' = [os EXCEPT ![Fd(t)] = 0]
    PROVE  Youngest'
<1>1. \A g \in Made : entry[g].fd \in Fds /\ entry[g].sock # 0
  BY DEF Ledger, EntryOfSocket, Numbers, Known
<1>2. \A f \in Fds : os'[f] = os[f] \/ os'[f] = 0
  BY FdOfThread DEF Ledger, IInv, WeakType
<1>3. Made' = Made
  BY MadeKept
<1> QED
  BY <1>1, <1>2, <1>3 DEF Order, Youngest, Kept, Made

LEMMA LeavesOpeningOrder ==
    ASSUME Ledger, Order, NEW t \in Threads, RegisterFails(t) \/ Publish(t)
    PROVE  Order'
<1>1. /\ UNCHANGED <<fdOf, entry, sock, calls>>
      /\ os' = os \/ (pc[t] = "register" /\ os' = [os EXCEPT ![Fd(t)] = 0])
      /\ pc[t] \in {"register", "registered"} /\ pc'[t] = "idle"
      /\ \A u \in Threads \ {t} : pc'[u] = pc[u] /\ ent'[u] = ent[u]
  BY LeavesOpening DEF RegisterFails, Publish, Step, osVars
<1>2. /\ Own(t) /\ Fresh(t)
      /\ pc[t] = "register" => \A g \in Made : entry[g].sock # sock[t]
  BY <1>1 DEF Ledger, Opening, Order, Working, Works, OwnStates
<1>3. \A f \in Fds : \/ os'[f] = os[f]
                     \/ os'[f] = 0 /\ os[f] = sock[t] /\ pc[t] = "register"
  BY <1>1, <1>2, FdOfThread DEF Own, Ledger, IInv, WeakType
<1>4. OpenIsOpen'
  <2>1. \A g \in Gens : entry[g].state = "open" => g \in Made /\ entry[g].fd \in Fds
    BY DEF Made, Ledger, EntryOfSocket, Numbers
  <2> QED
    BY <1>1, <1>2, <1>3, <2>1 DEF Order, OpenIsOpen
<1>5. Youngest'
  BY <1>1, ClosedYoungest DEF Kept
<1>6. Uncalled'
  BY <1>1 DEF Order, Uncalled, Made
<1>7. Working'
  <2>1. ASSUME NEW u \in Threads \ {t}, pc[u] # "idle" PROVE Own(u)' <=> Own(u)
    <3>1. sock[u] # sock[t]
      BY <1>2, <2>1 DEF Fresh
    <3>2. CASE os' = os
      BY <1>1, <3>2 DEF Own, Fd
    <3>3. CASE os' # os
      BY <1>1, <1>2, <2>1, <3>1, <3>3, OwnOrOther DEF Ledger, IInv, WeakType
    <3> QED
      BY <3>2, <3>3
  <2> QED
    BY <1>1, <2>1 DEF Order, Working, Works, OwnStates, ClosingStates
<1>8. Listed'
  <2> SUFFICES ASSUME NEW f \in Fds, os'[f] # 0
               PROVE  \/ \E u \in Threads : pc'[u] = "register" /\ sock[u] = os'[f]
                      \/ \E g \in Gens : /\ entry[g].sock = os'[f]
                                         /\ entry[g].state \in {"open", "closing"}
    BY <1>1 DEF Listed
  <2>1. os'[f] = os[f]
    BY <1>3
  <2>2. pc[t] = "register" => os[f] # sock[t] \/ pc'[t] = "register" \/ os'[f] = 0
    <3> SUFFICES ASSUME pc[t] = "register", os[f] = sock[t] PROVE os'[f] = 0
      OBVIOUS
    <3>1. Fd(t) = f
      BY <2>1 DEF Ledger, Numbers, Fd
    <3>2. RegisterFails(t)
      BY DEF Publish, Step
    <3> QED
      BY <3>1, <3>2 DEF RegisterFails, Ledger, IInv, WeakType
  <2>3. CASE \E u \in Threads : pc[u] = "register" /\ sock[u] = os[f]
    BY <1>1, <2>1, <2>2, <2>3
  <2> QED
    BY <2>1, <2>3 DEF Order, Listed
<1> QED
  BY <1>4, <1>5, <1>6, <1>7, <1>8 DEF Order

(* A first call for a socket finds its entry open.                         *)
LEMMA BeginsClosingOrder ==
    ASSUME Ledger, Order, NEW t \in Threads, Abandon(t) \/ BeginClose(t),
           Disciplined, Disciplined'
    PROVE  Order'
<1>1. PICK s \in Known :
          /\ \/ pc[t] = "registered" /\ s = sock[t]
             \/ pc[t] = "idle" /\ s \in published
          /\ sock' = [sock EXCEPT ![t] = s] /\ calls' = [calls EXCEPT ![s] = @ + 1]
          /\ UNCHANGED <<os, opened, fdOf, entry, published>>
          /\ Step(t, pc[t], "find")
          /\ \A u \in Threads \ {t} : ent'[u] = ent[u]
  BY BeginsClosing
<1>2. /\ pc'[t] = "find" /\ sock'[t] = s
      /\ \A u \in Threads \ {t} : pc'[u] = pc[u] /\ sock'[u] = sock[u]
  BY <1>1 DEF Step, Ledger, IInv, WeakType
<1>3. /\ s \in Socks /\ calls[s] \in Nat /\ calls'[s] = calls[s] + 1
      /\ \A k \in Socks : calls[k] <= calls'[k] /\ calls[k] \in Nat /\ calls'[k] \in Nat
  BY <1>1, RegistryAssumption DEF Ledger, IInv, WeakType, Known, Socks
<1>4. calls[s] = 0
  <2>1. calls'[s] <= 1
    BY <1>3 DEF Disciplined
  <2> QED
    BY <1>3, <2>1
<1>5. PICK g \in Made : entry[g].sock = s
  BY <1>1, DisciplinedMeans DEF Ledger, Opening
<1>6. entry[g].state = "open" /\ entry[g].fd = fdOf[s] /\ g \in Gens
  BY <1>4, <1>5 DEF Order, Uncalled, Ledger, EntryOfSocket, Made
<1>7. os[fdOf[s]] = s
  BY <1>5, <1>6 DEF Order, OpenIsOpen
<1>8. Known \subseteq Socks
  BY RegistryAssumption DEF Known, Socks, Ledger, IInv, WeakType
<1>9. OpenIsOpen' /\ Youngest'
  BY <1>1 DEF Order, OpenIsOpen, Youngest, Made
<1>10. Uncalled'
  <2>1. \A h \in Made : entry[h].sock \in Socks
    BY <1>8 DEF Ledger, EntryOfSocket
  <2> QED
    BY <1>1, <1>3, <2>1 DEF Order, Uncalled, Made
<1>11. Working'
  <2>1. Own(t)'
    BY <1>1, <1>2, <1>7 DEF Own, Fd
  <2>2. \A u \in Threads \ {t} : Own(u)' <=> Own(u)
    BY <1>1, <1>2 DEF Own, Fd
  <2>3. \A u \in Threads \ {t} : pc[u] = "io" /\ calls'[sock[u]] = 0 => calls[sock[u]] = 0
    BY <1>3, <1>8 DEF Ledger, Numbers
  <2> QED
    BY <1>1, <1>2, <1>5, <1>6, <2>1, <2>2, <2>3 DEF Order, Working, Works, OwnStates, ClosingStates
<1>12. Listed'
  BY <1>1, <1>2 DEF Order, Listed
<1> QED
  BY <1>9, <1>10, <1>11, <1>12 DEF Order

LEMMA BeginIoOrder ==
    ASSUME Ledger, Order, NEW t \in Threads, BeginIo(t)
    PROVE  Order'
<1>1. PICK s \in published : sock' = [sock EXCEPT ![t] = s]
  BY DEF BeginIo
<1>2. /\ UNCHANGED <<os, opened, fdOf, entry, ent, published, calls>>
      /\ Step(t, "idle", "acquire")
  BY DEF BeginIo, osVars, registryVars, programVars
<1>3. /\ pc[t] = "idle" /\ pc'[t] = "acquire"
      /\ \A u \in Threads \ {t} : pc'[u] = pc[u] /\ sock'[u] = sock[u]
  BY <1>1, <1>2 DEF Step, Ledger, IInv, WeakType
<1>4. OpenIsOpen' /\ Youngest' /\ Uncalled'
  BY <1>2 DEF Order, OpenIsOpen, Youngest, Uncalled, Made
<1>5. Working'
  <2>1. \A u \in Threads \ {t} : Own(u)' <=> Own(u)
    BY <1>2, <1>3 DEF Own, Fd
  <2> QED
    BY <1>2, <1>3, <2>1 DEF Order, Working, Works, OwnStates, ClosingStates
<1>6. Listed'
  BY <1>2, <1>3 DEF Order, Listed
<1> QED
  BY <1>4, <1>5, <1>6 DEF Order

-----------------------------------------------------------------------------
(* Order, in a call.                                                       *)

(* The search by number finds the thread's own entry, which is open.       *)
LEMMA FindsOwnEntry ==
    ASSUME Ledger, Order, NEW t \in Threads, pc[t] = "find"
    PROVE  \E g \in Gens : /\ g \in Matching(Fd(t), {"open", "closing"})
                           /\ entry[g].state = "open" /\ entry[g].sock = sock[t]
                           /\ \A h \in Newest(Matching(Fd(t), {"open", "closing"})) : h = g
<1>1. PICK g \in Gens : entry[g].sock = sock[t] /\ entry[g].state = "open"
  BY DEF Order, Working, Works
<1>2. g \in Made /\ entry[g].fd = Fd(t)
  BY <1>1 DEF Made, Ledger, EntryOfSocket, Fd
<1>3. g \in Matching(Fd(t), {"open", "closing"})
  BY <1>1, <1>2 DEF Matching
<1>4. os[entry[g].fd] = entry[g].sock
  BY <1>1 DEF Order, OpenIsOpen
<1>5. ASSUME NEW h \in Newest(Matching(Fd(t), {"open", "closing"})) PROVE h = g
  <2>1. h \in Made /\ entry[h].fd = Fd(t) /\ g <= h
    BY <1>3, <1>5 DEF Newest, Matching, Made
  <2>2. h <= g
    BY <1>2, <1>4, <2>1 DEF Order, Youngest
  <2> QED
    BY <2>1, <2>2 DEF Made, Gens
<1> QED
  BY <1>1, <1>3, <1>5

(* A guard taken for a socket nobody has called close for is a guard on    *)
(* that socket's entry.                                                    *)
LEMMA GuardsOwnSocket ==
    ASSUME Ledger, Order, Disciplined, NEW t \in Threads, Acquire(t), calls[sock[t]] = 0
    PROVE  entry[ent'[t]].sock = sock[t]
<1>1. PICK g \in Gens : g = ent'[t] /\ entry[g].state = "open" /\ entry[g].fd = Fd(t)
  BY AcquireStates DEF Ledger
<1>2. sock[t] \in published
  BY DEF Acquire, Step, Ledger, Numbers
<1>3. PICK h \in Made : entry[h].sock = sock[t]
  BY <1>2, DisciplinedMeans
<1>4. entry[h].state = "open" /\ entry[h].fd = Fd(t) /\ h \in Gens
  BY <1>3 DEF Order, Uncalled, Ledger, EntryOfSocket, Fd, Made
<1>5. os[Fd(t)] = entry[g].sock /\ os[Fd(t)] = entry[h].sock
  BY <1>1, <1>4 DEF Order, OpenIsOpen
<1> QED
  BY <1>1, <1>3, <1>5

(* What a step does not touch of the other threads stays in order.         *)
LEMMA OthersWork ==
    ASSUME Ledger, Order, NEW t \in Threads, Calling(t), Kept, NEW u \in Threads \ {t},
           pc[u] \in OwnStates /\ Own(u) => Own(u)',
           pc[u] = "finish" /\ ~Own(u) => ~Own(u)',
           \A g \in Gens : entry[g].sock = sock[u] /\ entry[g].state = "open" /\ pc[u] = "find"
                               => entry'[g].state = "open"
    PROVE  Works(u)'
<1>1. /\ pc'[u] = pc[u] \/ (pc[u] = "waiting" /\ pc'[u] = "check")
      /\ UNCHANGED <<sock, calls>> /\ ent'[u] = ent[u]
  BY CallingStep DEF Ledger
<1>2. pc[u] \in ClosingStates \cup {"io"} => ent[u] \in Gens
  BY CloserEntry, GuardEntry DEF Ledger
<1>3. Works(u)
  BY DEF Order, Working
<1>4. pc'[u] = "find" => \E g \in Gens : entry'[g].sock = sock'[u] /\ entry'[g].state = "open"
  BY <1>1, <1>3 DEF Works, Kept
<1> QED
  BY <1>1, <1>2, <1>3, <1>4 DEF Works, OwnStates, ClosingStates, Kept

(* Steps that open, close, claim and free nothing.                         *)
LEMMA QuietOrder ==
    ASSUME Ledger, Order, Disciplined, NEW t \in Threads,
           \/ Acquire(t) \/ AcquireNothing(t) \/ Release(t)
           \/ FindNothing(t) \/ FindClaimed(t) \/ Check(t) \/ Spurious(t)
    PROVE  Order'
<1>1. Calling(t) /\ Kept
  BY CallingLedger DEF Calling, Closing
<1>2. UNCHANGED <<os, fdOf, sock, calls>> /\ Made' = Made
  BY <1>1, CallingStep, MadeKept
  DEF Ledger, Acquire, AcquireNothing, Release, FindNothing, FindClaimed, Check, Spurious, osVars
<1>3. \A g \in Gens : entry'[g].state = entry[g].state
  BY AcquireStates, ReleaseStates
  DEF Ledger, AcquireNothing, FindNothing, FindClaimed, Check, Spurious, registryVars
<1>4. OpenIsOpen' /\ Youngest' /\ Uncalled'
  BY <1>1, <1>2, <1>3 DEF Order, OpenIsOpen, Youngest, Uncalled, Kept, Made
<1>5. \A u \in Threads : Own(u)' = Own(u)
  BY <1>2 DEF Own, Fd
<1>6. Works(t)'
  <2>1. CASE Acquire(t)
    <3>1. pc'[t] = "io" /\ ent'[t] \in Gens
      BY <2>1, AcquireStates DEF Acquire, Step, Ledger, IInv, WeakType
    <3> QED
      BY <2>1, <3>1, <1>1, <1>2, GuardsOwnSocket DEF Works, OwnStates, ClosingStates, Kept
  <2>2. CASE FindNothing(t)
    BY <2>2, FindsOwnEntry DEF FindNothing, Step
  <2>3. CASE AcquireNothing(t) \/ Release(t) \/ FindClaimed(t)
    <3>1. pc'[t] = "idle"
      BY <2>3 DEF AcquireNothing, Release, FindClaimed, Step, Ledger, IInv, WeakType
    <3> QED
      BY <3>1 DEF Works, OwnStates, ClosingStates
  <2>4. CASE Check(t) \/ Spurious(t)
    <3>1. /\ pc[t] \in {"check", "waiting"} /\ pc'[t] \in {"check", "waiting", "osclose"}
          /\ ent'[t] = ent[t] /\ entry' = entry
      BY <2>4 DEF Check, Spurious, Step, Tested, Ledger, IInv, WeakType, registryVars
    <3>2. Own(t) /\ entry[ent[t]].sock = sock[t]
      BY <3>1 DEF Order, Working, Works, OwnStates, ClosingStates
    <3> QED
      BY <3>1, <3>2, <1>2, <1>5 DEF Works, OwnStates, ClosingStates
  <2> QED
    BY <2>1, <2>2, <2>3, <2>4
<1>7. Working'
  <2>1. \A u \in Threads \ {t} : Works(u)'
    BY <1>1, <1>3, <1>5, OthersWork
  <2> QED
    BY <1>6, <2>1 DEF Working, Works
<1>8. Listed'
  <2>1. pc[t] # "register" /\ \A u \in Threads \ {t} : pc[u] = "register" => pc'[u] = "register"
    BY <1>1, CallingStep DEF Ledger
  <2> QED
    BY <1>1, <1>2, <1>3, <2>1 DEF Order, Listed, Kept
<1> QED
  BY <1>4, <1>7, <1>8 DEF Order

(* The thread claims its own entry; nobody else is about to.               *)
LEMMA ClaimOrder ==
    ASSUME Ledger, Order, Disciplined, NEW t \in Threads, Claim(t)
    PROVE  Order'
<1>1. Calling(t) /\ Kept
  BY CallingLedger DEF Calling, Closing
<1>2. UNCHANGED <<os, fdOf, sock, calls>> /\ Made' = Made /\ pc[t] = "find"
  BY <1>1, CallingStep, MadeKept DEF Ledger, Claim, Step, osVars
<1>3. PICK g \in Gens :
          /\ g \in Newest(Matching(Fd(t), {"open", "closing"})) /\ entry[g].state = "open"
          /\ ent'[t] = g /\ entry'[g].state = "closing"
          /\ pc' = [pc EXCEPT ![t] = Tested(g)]
          /\ \A h \in Gens : h # g => entry'[h] = entry[h]
  BY ClaimStates DEF Ledger
<1>4. entry[g].sock = sock[t] /\ g \in Made
  BY <1>2, <1>3, FindsOwnEntry DEF Made
<1>5. calls[sock[t]] >= 1 /\ calls[sock[t]] <= 1 /\ calls[sock[t]] \in Nat
  <2>1. sock[t] \in Socks
    BY <1>2 DEF Ledger, IInv, Meant
  <2>2. calls[sock[t]] >= 1
    BY <1>2 DEF Ledger, Called, Closes
  <2> QED
    BY <2>1, <2>2 DEF Ledger, IInv, WeakType, Disciplined
<1>6. OpenIsOpen' /\ Youngest'
  BY <1>1, <1>2, <1>3 DEF Order, OpenIsOpen, Youngest, Kept, Made
<1>7. Uncalled'
  BY <1>1, <1>2, <1>3, <1>4, <1>5 DEF Order, Uncalled, Kept, Made
<1>8. \A u \in Threads : Own(u)' <=> Own(u)
  BY <1>2 DEF Own, Fd
<1>9. Works(t)'
  <2>1. pc'[t] \in {"waiting", "osclose"}
    BY <1>3 DEF Tested, Ledger, IInv, WeakType
  <2>2. Own(t)
    BY <1>2 DEF Order, Working, Works, OwnStates
  <2> QED
    BY <2>1, <2>2, <1>1, <1>2, <1>3, <1>4, <1>8 DEF Works, OwnStates, ClosingStates, Kept
<1>10. ASSUME NEW u \in Threads \ {t} PROVE Works(u)'
  <2>1. pc[u] = "find" => sock[u] # sock[t]
    BY <1>2, <1>5 DEF Ledger, Called, Closes
  <2>2. \A h \in Gens : entry[h].sock = sock[u] /\ entry[h].state = "open" /\ pc[u] = "find"
                            => entry'[h].state = "open"
    BY <2>1, <1>3, <1>4
  <2> QED
    BY <1>1, <1>8, <2>2, OthersWork
<1>11. Listed'
  <2>1. pc[t] # "register" /\ \A u \in Threads \ {t} : pc[u] = "register" => pc'[u] = "register"
    BY <1>1, CallingStep DEF Ledger
  <2> QED
    BY <1>1, <1>2, <1>3, <2>1 DEF Order, Listed, Kept
<1> QED
  BY <1>6, <1>7, <1>9, <1>10, <1>11 DEF Order, Working

(* The number closed is the thread's own, and nobody else works on the     *)
(* socket under it.                                                        *)
LEMMA OsCloseOrder ==
    ASSUME Ledger, Order, Disciplined, NEW t \in Threads, OsClose(t)
    PROVE  Order'
<1>1. Calling(t) /\ Kept
  BY CallingLedger DEF Calling, Closing
<1>2. /\ UNCHANGED <<fdOf, sock, calls, entry, ent>> /\ os' = [os EXCEPT ![Fd(t)] = 0]
      /\ pc[t] = "osclose" /\ pc'[t] = "finish"
      /\ \A u \in Threads \ {t} : pc'[u] = pc[u]
  BY DEF OsClose, Step, registryVars, programVars, Ledger, IInv, WeakType
<1>3. Own(t) /\ entry[ent[t]].sock = sock[t] /\ Fd(t) \in Fds /\ sock[t] # 0
  BY <1>2, FdOfThread DEF Ledger, Order, Working, Works, OwnStates, ClosingStates, Known
<1>4. \A f \in Fds : os'[f] = IF f = Fd(t) THEN 0 ELSE os[f]
  BY <1>2, <1>3 DEF Ledger, IInv, WeakType
<1>5. ent[t] \in Gens /\ entry[ent[t]].state = "closing"
  BY <1>2, CloserEntry DEF Ledger, ClosingStates
<1>6. OpenIsOpen'
  <2> SUFFICES ASSUME NEW g \in Gens, entry[g].state = "open"
               PROVE  os'[entry[g].fd] = entry[g].sock
    BY <1>2 DEF OpenIsOpen
  <2>1. g \in Made /\ ent[t] \in Made /\ os[entry[g].fd] = entry[g].sock
    BY <1>5 DEF Made, Order, OpenIsOpen
  <2>2. entry[g].sock # sock[t]
    BY <1>3, <1>5, <2>1 DEF Ledger, EntryOfSocket
  <2>3. entry[g].fd \in Fds /\ entry[g].fd # Fd(t)
    BY <1>3, <2>1, <2>2 DEF Ledger, EntryOfSocket, Numbers, Own
  <2> QED
    BY <1>4, <2>1, <2>3
<1>7. Youngest'
  BY <1>1, <1>2, ClosedYoungest
<1>8. Uncalled'
  BY <1>2 DEF Order, Uncalled, Made
<1>9. Works(t)'
  <2>1. ~Own(t)'
    BY <1>2, OwnOrOther DEF Ledger, IInv, WeakType
  <2> QED
    BY <1>2, <1>3, <2>1 DEF Works, OwnStates, ClosingStates
<1>10. ASSUME NEW u \in Threads \ {t} PROVE Works(u)'
  <2>1. ASSUME pc[u] \in OwnStates PROVE sock[u] # sock[t]
    <3>1. CASE pc[u] \in {"register", "registered"}
      BY <3>1, <1>2 DEF Ledger, Opening, Fresh
    <3>2. CASE pc[u] \in {"find", "check", "waiting", "osclose"}
      <4>1. sock[u] = sock[t] => calls[sock[t]] >= 2
        BY <3>2, <1>2 DEF Ledger, Called, Closes, ClosingStates
      <4>2. calls[sock[t]] <= 1 /\ calls[sock[t]] \in Nat
        BY <1>2 DEF Ledger, IInv, Meant, WeakType, Disciplined
      <4> QED
        BY <4>1, <4>2
    <3> QED
      BY <2>1, <3>1, <3>2 DEF OwnStates
  <2>2. pc[u] # "idle" => /\ Own(u)' => Own(u)
                          /\ Own(u) /\ sock[u] # sock[t] => Own(u)'
    BY <1>2, <1>3, OwnOrOther DEF Ledger, IInv, WeakType
  <2> QED
    BY <1>1, <1>2, <2>1, <2>2, OthersWork DEF OwnStates
<1>11. Listed'
  BY <1>2, <1>4 DEF Order, Listed
<1> QED
  BY <1>6, <1>7, <1>8, <1>9, <1>10, <1>11 DEF Order, Working

(* The entry goes after its socket has gone.                               *)
LEMMA FinishOrder ==
    ASSUME Ledger, Order, Disciplined, NEW t \in Threads, Finish(t)
    PROVE  Order'
<1>1. Calling(t) /\ Kept
  BY CallingLedger DEF Calling, Closing
<1>2. /\ UNCHANGED <<os, fdOf, sock, calls>> /\ Made' = Made
      /\ pc[t] = "finish" /\ pc'[t] = "idle"
  BY <1>1, MadeKept DEF Finish, Step, osVars, Ledger, IInv, WeakType
<1>3. PICK g : g = ent[t]
  OBVIOUS
<1>4. /\ g \in Gens /\ entry[g].state = "closing" /\ entry'[g].state = "freed"
      /\ \A h \in Gens : h # g => entry'[h] = entry[h]
  BY <1>2, <1>3, FinishFrees DEF Ledger, Drained
<1>5. ~Own(t) /\ entry[g].sock = sock[t]
  BY <1>2, <1>3 DEF Order, Working, Works, ClosingStates
<1>6. OpenIsOpen' /\ Youngest' /\ Uncalled'
  BY <1>1, <1>2, <1>4 DEF Order, OpenIsOpen, Youngest, Uncalled, Kept, Made
<1>7. \A u \in Threads : Own(u)' <=> Own(u)
  BY <1>2 DEF Own, Fd
<1>8. \A u \in Threads \ {t} : Works(u)'
  BY <1>1, <1>4, <1>7, OthersWork
<1>9. Works(t)'
  BY <1>2 DEF Works, OwnStates, ClosingStates
<1>10. Listed'
  <2> SUFFICES ASSUME NEW f \in Fds, os[f] # 0
               PROVE  \/ \E u \in Threads : pc'[u] = "register" /\ sock[u] = os[f]
                      \/ \E h \in Gens : /\ entry'[h].sock = os[f]
                                         /\ entry'[h].state \in {"open", "closing"}
    BY <1>2 DEF Listed
  <2>1. os[f] # sock[t]
    BY <1>5 DEF Ledger, Numbers, Own, Fd
  <2>2. \A u \in Threads : pc[u] = "register" => pc'[u] = "register"
    BY <1>1, <1>2, CallingStep DEF Ledger
  <2> QED
    BY <1>2, <1>4, <1>5, <2>1, <2>2 DEF Order, Listed
<1> QED
  BY <1>6, <1>8, <1>9, <1>10 DEF Order, Working

LEMMA ThreadOrder ==
    ASSUME Ledger, Order, NEW t \in Threads, Thread(t), Disciplined, Disciplined'
    PROVE  Order'
<1>1. ~RawClose(t)
  BY DEF RawClose, Step, Order, Working, Works
<1> QED
  BY <1>1, OpenOrder, RegisterOrder, LeavesOpeningOrder, BeginsClosingOrder, BeginIoOrder,
     QuietOrder, ClaimOrder, OsCloseOrder, FinishOrder DEF Thread, Closing

LEMMA InitOrder == Init => Order
<1> SUFFICES ASSUME Init PROVE Order
  OBVIOUS
<1>1. OpenIsOpen /\ Youngest /\ Uncalled /\ Listed
  BY DEF Init, OpenIsOpen, Youngest, Uncalled, Listed, Made
<1>2. Working
  BY DEF Init, Working, Works, OwnStates, ClosingStates
<1> QED
  BY <1>1, <1>2 DEF Order

-----------------------------------------------------------------------------
LEMMA NextSInv == SInv /\ [Next]_vars => SInv'
<1> SUFFICES ASSUME SInv, [Next]_vars PROVE SInv'
  OBVIOUS
<1>1. CASE UNCHANGED vars
  <2>1. IInv'
    BY NextIInv DEF SInv, Ledger
  <2>2. Made' = Made /\ Known' = Known
    BY <1>1 DEF vars, Made, Known
  <2>3. Numbers' /\ EntryOfSocket' /\ Opening' /\ Called' /\ Drained'
    BY <1>1, <2>2
    DEF vars, SInv, Ledger, Numbers, EntryOfSocket, Opening, Fresh, Called, Closes, Drained, Guards
  <2>4. Order => Order'
    BY <1>1, <2>2
    DEF vars, Order, OpenIsOpen, Youngest, Uncalled, Working, Works, Own, Fd, Listed
  <2>5. Disciplined' => Disciplined
    BY <1>1 DEF vars, Disciplined
  <2> QED
    BY <2>1, <2>3, <2>4, <2>5 DEF SInv, Ledger
<1>2. CASE Next
  <2>1. PICK t \in Threads : Thread(t)
    BY <1>2 DEF Next
  <2>2. Ledger'
    BY <2>1, ThreadLedger DEF SInv
  <2>3. Disciplined' => Order'
    BY <2>1, StaysDisciplined, ThreadOrder DEF SInv
  <2> QED
    BY <2>2, <2>3 DEF SInv
<1> QED
  BY <1>1, <1>2

(* Which entry stands for which socket, how many calls are made for it and *)
(* who may close it; and, while no socket is closed twice and none is      *)
(* published without an entry, whose numbers and entries the calls find.   *)
THEOREM RegistrySockets == Spec => []SInv
<1>1. Init => SInv
  BY InitLedger, InitOrder DEF SInv
<1> QED
  BY <1>1, NextSInv, PTL DEF Spec

LEMMA HeldSocketOpen ==
    ASSUME Ledger, Order, NEW t \in Threads, pc[t] = "io"
    PROVE  os[entry[ent[t]].fd] = entry[ent[t]].sock
<1>1. PICK g \in Gens : g = ent[t] /\ entry[g].state \in {"open", "closing"}
  BY GuardEntry DEF Ledger
<1>2. CASE entry[g].state = "open"
  BY <1>1, <1>2 DEF Order, OpenIsOpen
<1>3. CASE entry[g].state = "closing"
  <2>1. PICK u \in Threads : pc[u] \in ClosingStates /\ ent[u] = g
    BY <1>3 DEF Ledger, IInv, OneCloser, Closers, ClosingStates
  <2>2. pc[u] \in {"check", "waiting"}
    BY <1>1, <2>1 DEF Ledger, Drained, Guards, ClosingStates
  <2>3. Own(u) /\ entry[g].sock = sock[u]
    BY <2>1, <2>2 DEF Order, Working, Works, OwnStates
  <2>4. entry[g].fd = Fd(u)
    BY <1>3, <2>3 DEF Ledger, EntryOfSocket, Made, Fd
  <2> QED
    BY <1>1, <2>3, <2>4 DEF Own
<1> QED
  BY <1>1, <1>2, <1>3

(* No descriptor is closed under guarded I/O, and a guard is on the socket *)
(* the call was meant for unless that one was closed meanwhile.            *)
THEOREM RegistryGuardedSocketOpen == Spec => []GuardedSocketOpen
<1>1. SInv => GuardedSocketOpen
  BY HeldSocketOpen DEF SInv, GuardedSocketOpen, Order, Working, Works
<1> QED
  BY <1>1, RegistrySockets, PTL

(* With every thread outside net.c an open socket has exactly one entry.   *)
LEMMA OneEntryEach ==
    ASSUME Ledger, Order, NEW f \in Fds, os[f] # 0, \A t \in Threads : pc[t] = "idle"
    PROVE  Cardinality(Matching(f, {"open"})) = 1
<1>1. \A g \in Gens : entry[g].state # "closing"
  BY DEF Ledger, IInv, OneCloser, Closers
<1>2. PICK g \in Gens : entry[g].sock = os[f] /\ entry[g].state = "open"
  BY <1>1 DEF Order, Listed
<1>3. g \in Made /\ entry[g].fd = f
  BY <1>2 DEF Made, Ledger, EntryOfSocket, Numbers
<1>4. ASSUME NEW h \in Matching(f, {"open"}) PROVE h = g
  <2>1. h \in Made /\ entry[h].state = "open" /\ entry[h].fd = f
    BY <1>4 DEF Matching, Made
  <2>2. entry[h].sock = os[f]
    BY <2>1 DEF Order, OpenIsOpen, Made
  <2> QED
    BY <1>2, <1>3, <2>1, <2>2 DEF Ledger, EntryOfSocket
<1>5. Matching(f, {"open"}) = {g}
  BY <1>2, <1>3, <1>4 DEF Matching
<1> QED
  BY <1>5, FS_Singleton

(* The list holds exactly the open sockets, and an entry is not freed      *)
(* before the thread that registered it has read its generation.           *)
THEOREM RegistryEntriesAreSockets == Spec => []EntriesAreSockets
<1>1. SInv => EntriesAreSockets
  <2> SUFFICES ASSUME Ledger, Order PROVE EntriesAreSockets
    BY DEF SInv, EntriesAreSockets
  <2>1. ASSUME NEW t \in Threads, pc[t] = "registered"
        PROVE  entry[ent[t]].state # "freed"
    BY <2>1 DEF Ledger, Opening, Fresh, Order, Uncalled
  <2>2. ASSUME \A t \in Threads : pc[t] = "idle", NEW g \in Gens
        PROVE  entry[g].state \in {"none", "open", "freed"}
    <3>1. entry[g].state \notin {"closing", "closed"}
      BY <2>2 DEF Ledger, IInv, OneCloser, Closers, Drained
    <3> QED
      BY <3>1 DEF Ledger, IInv, WeakType, AnyRefs, EntryStates
  <2>3. \A g \in Gens : entry[g].state = "open" => os[entry[g].fd] = entry[g].sock
    BY DEF Order, OpenIsOpen
  <2> QED
    BY <2>1, <2>2, <2>3, OneEntryEach DEF EntriesAreSockets
<1> QED
  BY <1>1, RegistrySockets, PTL

(* Every close(2) made for a socket closes that socket and no other.       *)
THEOREM RegistryClosesOwnSocket == Spec => ClosesOwnSocket
<1>1. SInv => \A t \in Threads :
                 Disciplined /\ (OsClose(t) \/ RawClose(t)) => os[Fd(t)] = sock[t]
  BY DEF SInv, Order, Working, Works, OwnStates, Own, OsClose, RawClose, Step
<1> QED
  BY <1>1, RegistrySockets, PTL DEF Spec, ClosesOwnSocket
=============================================================================
