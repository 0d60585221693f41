---------------------------- MODULE DbPoolProofs ----------------------------
(***************************************************************************)
(* Proofs about DbPool, for any number of threads, databases, slots and    *)
(* handles, both client libraries and programs that close or do not.       *)
(***************************************************************************)
EXTENDS DbPool, FiniteSetTheorems, TLAPS

\* from the call of a statement to its unlock, and from the lock on
Calling == Stages \ {"idle", "connect", "publish"}
Holding == {"queryLocked", "execLocked", "closeLocked", "counts", "store", "unlock"}

\* the slots in use: each has a handle of its own, a connection to its database
SlotsOk ==
    /\ \A i \in DOMAIN slots :
          slots[i].conn # 0 => /\ slots[i].conn \in DOMAIN handles
                               /\ handles[slots[i].conn] = slots[i].key
    /\ \A i, j \in DOMAIN slots :
          slots[i].conn # 0 /\ slots[i].conn = slots[j].conn => i = j

\* a thread about to publish has a handle nobody else knows
HandOk ==
    /\ \A t \in Threads : hand[t] # 0 <=> pc[t] = "publish"
    /\ \A t \in Threads : hand[t] # 0 =>
          /\ hand[t] \in DOMAIN handles
          /\ handles[hand[t]] = want[t]
          /\ \A i \in DOMAIN slots : slots[i].conn # hand[t]
          /\ \A u \in Threads : hand[u] = hand[t] => u = t

\* an id means the database it was given out for, as long as the program runs
IdsOk ==
    /\ \A e \in told : e.slot \in DOMAIN slots /\ slots[e.slot].key = e.key
    /\ \A t \in Threads : pc[t] \in Calling =>
          id[t] \in DOMAIN slots /\ slots[id[t]].key = want[t]

\* the lock of a slot is held by the thread between its lock and its unlock,
\* whose statement is the last the connection ran until its results are read
LocksOk ==
    /\ \A t \in Threads : pc[t] \in Holding => lock[id[t]] = t
    /\ \A t \in Threads : pc[t] \in {"counts", "store"} => Conn(t) # 0 /\ said[Conn(t)] = t

\* a statement has no answer before its last step
AnswersOk ==
    \A t \in Threads : pc[t] \in Calling \ {"unlock"} => answer[t] = NoAnswer

\* without closes no slot loses its connection
Kept ==
    "close" \notin program =>
        /\ ~misuse
        /\ \A i \in DOMAIN slots : slots[i].conn # 0
        /\ \A t \in Threads : pc[t] \notin {"close", "closeLocked"}

Filled == refused => Len(slots) = MaxSlots

IInv ==
    TypeOK /\ SlotsOk /\ HandOk /\ IdsOk /\ LocksOk /\ AnswersOk /\ Kept /\ Filled
    /\ OneConnection /\ OwnAnswer

-----------------------------------------------------------------------------
\* the pool starts empty
LEMMA PoolInit == Init => IInv
<1> SUFFICES ASSUME Init PROVE IInv
    OBVIOUS
<1>1. /\ slots = <<>> /\ handles = <<>> /\ open = {} /\ told = {}
      /\ ~refused /\ ~misuse
      /\ \A t \in Threads : pc[t] = "idle" /\ hand[t] = 0 /\ id[t] = 0 /\ answer[t] = NoAnswer
    BY DEF Init
<1>2. TypeOK
  <2>1. slots \in Seq([key : Keys, conn : 0 .. MaxHandles]) /\ Len(slots) <= MaxSlots
    BY <1>1, PoolAssumption
  <2>2. handles \in Seq(Keys) /\ Len(handles) <= MaxHandles
    BY <1>1, PoolAssumption
  <2>3. /\ pc \in [Threads -> Stages]
        /\ id \in [Threads -> 0 .. Len(slots)]
        /\ hand \in [Threads -> 0 .. Len(handles)]
    BY <1>1, <2>1, <2>2 DEF Init, Stages
  <2>4. NoAnswer \in [by : Threads \cup {NoOne}, on : Keys \cup {"nothing", "error"}]
    BY DEF NoAnswer
  <2> QED BY <1>1, <2>1, <2>2, <2>3, <2>4 DEF Init, TypeOK
<1>3. DOMAIN slots = {} /\ DOMAIN handles = {}
    BY <1>1
<1>4. SlotsOk /\ HandOk /\ IdsOk /\ LocksOk /\ AnswersOk
    BY <1>1, <1>3 DEF SlotsOk, HandOk, IdsOk, LocksOk, AnswersOk, Calling, Holding
<1>5. Kept /\ Filled
    BY <1>1, <1>3 DEF Kept, Filled
<1>6. OneConnection
    BY <1>1, <1>3 DEF OneConnection
<1>7. OwnAnswer
    BY <1>1 DEF OwnAnswer
<1> QED BY <1>2, <1>4, <1>5, <1>6, <1>7 DEF IInv

\* what the table and the handles look like after an append
LEMMA Appended ==
    ASSUME NEW S, NEW s \in Seq(S), NEW x \in S
    PROVE  LET r == [i \in DOMAIN s \cup {Len(s) + 1} |-> IF i = Len(s) + 1 THEN x ELSE s[i]]
           IN r \in Seq(S) /\ Len(r) = Len(s) + 1
<1> DEFINE r == [i \in DOMAIN s \cup {Len(s) + 1} |-> IF i = Len(s) + 1 THEN x ELSE s[i]]
<1>1. Len(s) \in Nat /\ DOMAIN s = 1 .. Len(s)
    OBVIOUS
<1>2. DOMAIN s \cup {Len(s) + 1} = 1 .. (Len(s) + 1)
    BY <1>1
<1>3. \A i \in 1 .. (Len(s) + 1) : r[i] \in S
    BY <1>1, <1>2
<1>4. r \in [1 .. (Len(s) + 1) -> S]
    BY <1>2, <1>3
<1>5. DOMAIN r = 1 .. (Len(s) + 1)
    BY <1>2
<1> HIDE DEF r
<1>6. r \in Seq(S)
    BY <1>1, <1>4
<1>7. Len(r) = Len(s) + 1
    BY <1>1, <1>5, <1>6
<1> QED BY <1>6, <1>7 DEF r

-----------------------------------------------------------------------------
\* the search finds a slot when there is one
LEMMA FirstFound ==
    ASSUME TypeOK, OneConnection, NEW k \in Keys, InUse(k) # {}
    PROVE  First(InUse(k)) \in InUse(k)
<1>1. \A i, j \in InUse(k) : i = j
    BY DEF OneConnection, InUse
<1>2. \A i \in InUse(k) : i \in Nat
    BY DEF InUse, TypeOK
<1>3. \A i \in InUse(k) : \A j \in InUse(k) : i <= j
    BY <1>1, <1>2
<1> QED BY <1>3 DEF First

\* types
LEMMA TypeStep == ASSUME IInv, Next PROVE TypeOK'
<1> PICK t \in Threads : Step(t)
    BY DEF Next
<1>i. TypeOK /\ SlotsOk /\ IdsOk /\ LocksOk /\ OneConnection
    BY DEF IInv
<1> USE <1>i
<1>0. /\ Len(slots) \in Nat /\ DOMAIN slots = 1 .. Len(slots)
      /\ Len(handles) \in Nat /\ DOMAIN handles = 1 .. Len(handles)
    BY DEF TypeOK
<1>01. told \subseteq [slot : DOMAIN slots, key : Keys]
    BY Zenon DEF TypeOK
<1>00. \A i \in DOMAIN slots :
          /\ slots[i] \in [key : Keys, conn : 0 .. MaxHandles]
          /\ slots[i].key \in Keys
  <2>1. \A i \in DOMAIN slots : slots[i] \in [key : Keys, conn : 0 .. MaxHandles]
    <3> DEFINE S == [key : Keys, conn : 0 .. MaxHandles]
    <3>1. slots \in Seq(S)
      BY DEF TypeOK
    <3> HIDE DEF S
    <3>2. \A i \in DOMAIN slots : slots[i] \in S
      BY <3>1
    <3> QED BY <3>2 DEF S
  <2> QED BY <2>1
<1>1. ASSUME NEW k \in Keys, Open(t, k) PROVE TypeOK'
  <2>1. InUse(k) # {} => First(InUse(k)) \in DOMAIN slots
    BY FirstFound DEF InUse
  <2>4. slots' = slots
    BY <1>1 DEF Open, tables
  <2>5. \/ told' = told
        \/ /\ First(InUse(k)) \in DOMAIN slots
           /\ told' = told \cup {Id(First(InUse(k)), k)}
    <3>1. IF InUse(k) # {} THEN told' = told \cup {Id(First(InUse(k)), k)} ELSE told' = told
      BY <1>1 DEF Open
    <3>2. CASE InUse(k) # {}
      BY <2>1, <3>1, <3>2
    <3>3. CASE InUse(k) = {}
      BY <3>1, <3>3
    <3> QED BY <3>2, <3>3
  <2>2. told' \subseteq [slot : DOMAIN slots', key : Keys]
    BY <1>01, <2>4, <2>5 DEF Id
  <2>6. UNCHANGED <<library, program, tables, client, refused, id, hand, answer, misuse>>
    BY <1>1 DEF Open
  <2>3. pc' \in [Threads -> Stages] /\ want' \in [Threads -> Keys]
    BY <1>1 DEF Open, TypeOK, Goto, Stages
  <2> QED BY <2>2, <2>3, <2>6 DEF TypeOK, tables, client
<1>2. CASE Connect(t)
  <2>1. /\ handles' \in Seq(Keys) /\ Len(handles') = Len(handles) + 1
        /\ DOMAIN handles \subseteq DOMAIN handles' /\ Len(handles') \in DOMAIN handles'
    BY <1>2, <1>0 DEF Connect, TypeOK
  <2>2. Len(handles') <= MaxHandles
    BY <1>2, <1>0, <2>1, PoolAssumption DEF Connect
  <2>3. hand' \in [Threads -> 0 .. Len(handles')]
    BY <1>2, <1>0, <2>1 DEF Connect, TypeOK
  <2>4. open' \subseteq DOMAIN handles'
    BY <1>2, <2>1 DEF Connect, TypeOK
  <2> QED BY <1>2, <2>1, <2>2, <2>3, <2>4 DEF Connect, TypeOK, Goto, Stages, tables
<1>3. CASE ConnectFails(t)
    BY <1>3 DEF ConnectFails, TypeOK, Goto, Stages, tables, client, calls
<1>4. CASE Reuse(t)
  <2>1. First(Seen(t)) \in DOMAIN slots /\ want[t] \in Keys
    BY <1>4, FirstFound DEF Reuse, Seen, InUse, TypeOK
  <2> QED BY <1>4, <2>1, <1>0 DEF Reuse, DropHandle, TypeOK, Goto, Stages, Id
<1>5. CASE Full(t)
    BY <1>5, <1>0 DEF Full, DropHandle, TypeOK, Goto, Stages
<1>6. CASE Publish(t)
  <2> DEFINE S == [key : Keys, conn : 0 .. MaxHandles]
  <2> DEFINE x == [key |-> want[t], conn |-> hand[t]]
  <2>1. hand[t] \in 0 .. MaxHandles
    BY <1>0, PoolAssumption DEF TypeOK
  <2>2. x \in S
    BY <2>1 DEF TypeOK
  <2>3. slots \in Seq(S)
    BY DEF TypeOK
  <2>4. slots' = [i \in DOMAIN slots \cup {Len(slots) + 1} |-> IF i = Len(slots) + 1 THEN x ELSE slots[i]]
    BY <1>6 DEF Publish, Slot
  <2> HIDE DEF S, x
  <2>5. slots' \in Seq(S) /\ Len(slots') = Len(slots) + 1
    BY <2>2, <2>3, <2>4, Appended
  <2>6. DOMAIN slots \subseteq DOMAIN slots' /\ Slot(t) \in DOMAIN slots'
    BY <1>0, <2>4 DEF Slot
  <2>12. /\ Len(slots) < MaxSlots /\ id' = id
         /\ told' = told \cup {Id(Slot(t), want[t])}
    BY <1>6 DEF Publish
  <2>7. Len(slots') <= MaxSlots
    BY <1>0, <2>5, <2>12, PoolAssumption
  <2>8. id' \in [Threads -> 0 .. Len(slots')]
    BY <1>0, <2>5, <2>12 DEF TypeOK
  <2>13. want[t] \in Keys
    BY DEF TypeOK
  <2>9. told' \subseteq [slot : DOMAIN slots', key : Keys]
    BY <1>01, <2>12, <2>13, <2>6 DEF Id
  <2>10. hand' \in [Threads -> 0 .. Len(handles')]
    BY <1>6, <1>0 DEF Publish, TypeOK, client
  <2>11. slots' \in Seq([key : Keys, conn : 0 .. MaxHandles])
    BY <2>5 DEF S
  <2> QED BY <1>6, <2>7, <2>8, <2>9, <2>10, <2>11 DEF Publish, TypeOK, Goto, Stages, client
<1>7. ASSUME NEW e \in told, NEW op \in DOMAIN Locked, Call(t, e, op) PROVE TypeOK'
  <2>1. op \in {"query", "exec", "close"}
    BY DEF Locked
  <2>2. e.slot \in 0 .. Len(slots) /\ e.key \in Keys
    BY <1>0 DEF TypeOK
  <2>3. NoAnswer \in [by : Threads \cup {NoOne}, on : Keys \cup {"nothing", "error"}]
    BY DEF NoAnswer
  <2> QED BY <1>7, <2>1, <2>2, <2>3 DEF Call, TypeOK, Goto, Stages, tables, client
<1>8. CASE Lock(t)
  <2>1. Locked[pc[t]] \in Stages
    BY <1>8 DEF Lock, Locked, Stages
  <2> QED BY <1>8, <2>1 DEF Lock, TypeOK, Goto, client, calls
<1>9. Conn(t) # 0 /\ pc[t] \in Calling => Conn(t) \in DOMAIN handles /\ handles[Conn(t)] \in Keys
    BY <1>0 DEF SlotsOk, IdsOk, Conn, TypeOK
<1>10. Fails(t) => TypeOK'
  <2>1. Failed \in [by : Threads \cup {NoOne}, on : Keys \cup {"nothing", "error"}]
    BY DEF Failed
  <2> QED BY <2>1 DEF Fails, TypeOK, Goto, Stages, tables, client, calls
<1>11. CASE SqliteQuery(t)
  <2>1. CASE Fails(t)
    BY <2>1, <1>10
  <2>2. CASE ~Fails(t)
    <3>1. handles[Conn(t)] \in Keys
      BY <1>11, <2>2, <1>9 DEF SqliteQuery, Calling, Stages
    <3>2. [by |-> t, on |-> handles[Conn(t)]] \in [by : Threads \cup {NoOne}, on : Keys \cup {"nothing", "error"}]
      BY <3>1
    <3>3. /\ answer' = [answer EXCEPT ![t] = [by |-> t, on |-> handles[Conn(t)]]]
          /\ Goto(t, "unlock")
          /\ UNCHANGED <<library, program, tables, client, told, refused, calls, misuse>>
      BY <1>11, <2>2 DEF SqliteQuery
    <3> QED BY <3>2, <3>3 DEF TypeOK, Goto, Stages, tables, client, calls
  <2> QED BY <2>1, <2>2
<1>12. ASSUME NEW stage \in {"counts", "store"}, Runs(t, stage), pc[t] \in Calling PROVE TypeOK'
  <2>1. Conn(t) \in Handles
    BY <1>12, <1>9, <1>0, PoolAssumption DEF Runs, Handles, TypeOK
  <2> QED BY <1>12, <2>1 DEF Runs, TypeOK, Goto, Stages, tables, calls
<1>13. CASE SqliteExec(t)
    BY <1>13, <1>12, <1>10 DEF SqliteExec, Calling, Stages
<1>14. CASE MariaRuns(t)
    BY <1>14, <1>12, <1>10 DEF MariaRuns, Calling, Stages
<1>15. ASSUME pc[t] \in {"counts", "store"}, Answered(t), Goto(t, "unlock"),
              UNCHANGED <<library, program, tables, client, told, refused, calls, misuse>>
       PROVE  TypeOK'
  <2>1. Conn(t) \in Handles /\ handles[Conn(t)] \in Keys
    BY <1>15, <1>9, <1>0, PoolAssumption DEF LocksOk, Handles, TypeOK, Calling, Stages
  <2>2. [by |-> said[Conn(t)], on |-> handles[Conn(t)]]
            \in [by : Threads \cup {NoOne}, on : Keys \cup {"nothing", "error"}]
    BY <2>1 DEF TypeOK
  <2> QED BY <1>15, <2>2 DEF Answered, TypeOK, Goto, Stages, tables, client, calls
<1>16. CASE SqliteCounts(t) \/ MariaStore(t)
    BY <1>15, <1>16 DEF SqliteCounts, MariaStore
<1>17. CASE NullConn(t)
    BY <1>17 DEF NullConn, TypeOK, tables, client, calls
<1>18. CASE Close(t)
  <2>1. id[t] \in DOMAIN slots
    BY <1>18 DEF Close, IdsOk, Calling, Stages
  <2>2. /\ slots' = [slots EXCEPT ![id[t]] = [key |-> slots[id[t]].key, conn |-> 0]]
        /\ slots[id[t]].key \in Keys
    <3>1. slots[id[t]].key \in Keys
      BY <2>1, <1>00
    <3>2. [slots[id[t]] EXCEPT !.conn = 0] = [key |-> slots[id[t]].key, conn |-> 0]
      BY <2>1, <1>00
    <3>3. slots' = [slots EXCEPT ![id[t]] = [slots[id[t]] EXCEPT !.conn = 0]]
      BY <1>18 DEF Close
    <3> QED BY <3>1, <3>2, <3>3
  <2>3. /\ slots' \in Seq([key : Keys, conn : 0 .. MaxHandles])
        /\ Len(slots') = Len(slots) /\ DOMAIN slots' = DOMAIN slots
    BY <2>1, <2>2, <1>0, PoolAssumption DEF TypeOK
  <2>4. /\ open' \subseteq open /\ pc' = [pc EXCEPT ![t] = "unlock"]
        /\ UNCHANGED <<library, program, lock, handles, said, told, refused, calls, answer, misuse>>
    BY <1>18 DEF Close, Goto
  <2> QED BY <2>3, <2>4 DEF TypeOK, Stages, calls
<1>19. CASE Unlock(t)
    BY <1>19 DEF Unlock, TypeOK, Goto, Stages, client, calls
<1> QED BY <1>1, <1>2, <1>3, <1>4, <1>5, <1>6, <1>7, <1>8, <1>11, <1>13, <1>14, <1>16,
           <1>17, <1>18, <1>19 DEF Step
-----------------------------------------------------------------------------
Rest ==
    SlotsOk /\ HandOk /\ IdsOk /\ LocksOk /\ AnswersOk /\ Kept /\ Filled
    /\ OneConnection /\ OwnAnswer

\* the id of a call names a slot, and a connection in use is a handle
LEMMA CallsSlot ==
    ASSUME IInv, NEW t \in Threads, pc[t] \in Calling
    PROVE  /\ id[t] \in DOMAIN slots /\ id[t] \in Slots
           /\ Conn(t) # 0 => Conn(t) \in Handles
<1>1. /\ Len(slots) \in Nat /\ DOMAIN slots = 1 .. Len(slots) /\ Len(slots) <= MaxSlots
      /\ Len(handles) \in Nat /\ DOMAIN handles = 1 .. Len(handles) /\ Len(handles) <= MaxHandles
    BY DEF IInv, TypeOK
<1>2. id[t] \in DOMAIN slots
    BY DEF IInv, IdsOk
<1>3. Conn(t) # 0 => Conn(t) \in DOMAIN handles
    BY <1>2 DEF IInv, SlotsOk, Conn
<1> QED BY <1>1, <1>2, <1>3, PoolAssumption DEF Slots, Handles

\* two threads never hold the lock of one slot
LEMMA OneHolder ==
    ASSUME IInv, NEW t \in Threads, NEW u \in Threads, u # t, pc[u] \in Holding,
           id[t] \in Slots, lock[id[t]] \in {t, NoOne}
    PROVE  id[u] # id[t] /\ id[u] \in Slots
BY CallsSlot, PoolAssumption DEF IInv, LocksOk, Calling, Holding, Stages

\* what steps that leave the table and the handles alone preserve
LEMMA TableStill ==
    ASSUME IInv, UNCHANGED <<slots, handles, open, refused, hand>>
    PROVE  SlotsOk' /\ Filled' /\ OneConnection'
BY DEF IInv, SlotsOk, Filled, OneConnection

\* opening: a thread finds its database, or goes to connect
LEMMA OpenStep ==
    ASSUME IInv, NEW t \in Threads, NEW k \in Keys, Open(t, k) PROVE Rest'
<1>1. /\ UNCHANGED <<library, program, tables, client, refused, id, hand, answer, misuse>>
      /\ pc[t] = "idle" /\ pc'[t] \in {"idle", "connect"}
      /\ \A u \in Threads : u # t => pc'[u] = pc[u] /\ want'[u] = want[u]
    BY DEF Open, Goto, IInv, TypeOK
<1>2. SlotsOk' /\ Filled' /\ OneConnection'
    BY <1>1, TableStill DEF tables, client
<1>3. HandOk'
    BY <1>1 DEF IInv, HandOk, tables, client
<1>4. IdsOk'
  <2>1. \A e \in told' : e.slot \in DOMAIN slots /\ slots[e.slot].key = e.key
    <3>1. IF InUse(k) # {} THEN told' = told \cup {Id(First(InUse(k)), k)} ELSE told' = told
      BY DEF Open
    <3>2. InUse(k) # {} => First(InUse(k)) \in InUse(k)
      BY FirstFound DEF IInv
    <3> QED BY <3>1, <3>2 DEF IInv, IdsOk, InUse, Id
  <2> QED BY <1>1, <2>1 DEF IInv, IdsOk, Calling, tables
<1>5. LocksOk' /\ AnswersOk' /\ OwnAnswer'
    BY <1>1 DEF IInv, LocksOk, AnswersOk, OwnAnswer, Calling, Holding, Conn, tables, client
<1>6. Kept'
    BY <1>1 DEF IInv, Kept, tables
<1> QED BY <1>2, <1>3, <1>4, <1>5, <1>6 DEF Rest

\* a connection is made
LEMMA ConnectStep ==
    ASSUME IInv, TypeOK', NEW t \in Threads, Connect(t) PROVE Rest'
<1> DEFINE h == Len(handles) + 1
<1>1. /\ UNCHANGED <<library, program, tables, said, told, refused, want, id, answer, misuse>>
      /\ pc[t] = "connect" /\ pc'[t] = "publish" /\ hand'[t] = h
      /\ \A u \in Threads : u # t => pc'[u] = pc[u] /\ hand'[u] = hand[u]
    BY DEF Connect, Goto, IInv, TypeOK
<1>2. /\ h \in Nat \ {0} /\ h \notin DOMAIN handles /\ h \in DOMAIN handles'
      /\ handles'[h] = want[t] /\ open' = open \cup {h}
      /\ \A g \in DOMAIN handles : g \in DOMAIN handles' /\ handles'[g] = handles[g]
    BY DEF Connect, IInv, TypeOK
<1> HIDE DEF h
<1>3. hand[t] = 0
    BY <1>1 DEF IInv, HandOk
<1>4. SlotsOk'
    BY <1>1, <1>2 DEF IInv, SlotsOk, tables
<1>5. HandOk'
  <2>1. \A u \in Threads : hand[u] # h
    BY <1>2 DEF IInv, HandOk
  <2>2. \A i \in DOMAIN slots : slots[i].conn # h
    BY <1>2 DEF IInv, SlotsOk
  <2> QED BY <1>1, <1>2, <2>1, <2>2 DEF IInv, HandOk, tables
<1>6. OneConnection'
    BY <1>1, <1>2, <1>3 DEF IInv, OneConnection, tables
<1>7. IdsOk' /\ AnswersOk' /\ Kept' /\ Filled'
    BY <1>1 DEF IInv, IdsOk, AnswersOk, Kept, Filled, Calling, tables
<1>8. LocksOk' /\ OwnAnswer'
    BY <1>1 DEF IInv, LocksOk, OwnAnswer, Holding, Conn, tables
<1> QED BY <1>4, <1>5, <1>6, <1>7, <1>8 DEF Rest

LEMMA ConnectFailsStep ==
    ASSUME IInv, NEW t \in Threads, ConnectFails(t) PROVE Rest'
<1>1. /\ UNCHANGED <<library, program, tables, client, told, refused, calls, answer, misuse>>
      /\ pc[t] = "connect" /\ pc'[t] = "idle"
      /\ \A u \in Threads : u # t => pc'[u] = pc[u]
    BY DEF ConnectFails, Goto, IInv, TypeOK
<1>2. SlotsOk' /\ Filled' /\ OneConnection'
    BY <1>1, TableStill DEF tables, client, calls
<1>3. HandOk' /\ IdsOk' /\ Kept'
    BY <1>1 DEF IInv, HandOk, IdsOk, Kept, Calling, tables, client, calls
<1>4. LocksOk' /\ AnswersOk' /\ OwnAnswer'
    BY <1>1 DEF IInv, LocksOk, AnswersOk, OwnAnswer, Calling, Holding, Conn, tables, client, calls
<1> QED BY <1>2, <1>3, <1>4 DEF Rest

\* the handle is closed again: another thread was first, or the table is full
LEMMA DropStep ==
    ASSUME IInv, NEW t \in Threads, Reuse(t) \/ Full(t) PROVE Rest'
<1>1. /\ UNCHANGED <<library, program, slots, lock, handles, said, want, id, answer, misuse>>
      /\ open' = open \ {hand[t]}
      /\ pc[t] = "publish" /\ pc'[t] = "idle" /\ hand'[t] = 0
      /\ \A u \in Threads : u # t => pc'[u] = pc[u] /\ hand'[u] = hand[u]
    BY DEF Reuse, Full, DropHandle, Goto, IInv, TypeOK
<1>2. SlotsOk'
    BY <1>1 DEF IInv, SlotsOk
<1>3. HandOk'
    BY <1>1 DEF IInv, HandOk
<1>4. OneConnection'
  <2>1. hand[t] # 0 /\ \A i \in DOMAIN slots : slots[i].conn # hand[t]
    BY <1>1 DEF IInv, HandOk
  <2>2. \A u \in Threads : u # t => hand[u] # hand[t]
    BY <2>1 DEF IInv, HandOk
  <2> QED BY <1>1, <2>1, <2>2 DEF IInv, OneConnection
<1>5. IdsOk'
  <2>1. \A e \in told' : e.slot \in DOMAIN slots /\ slots[e.slot].key = e.key
    <3>1. CASE Reuse(t)
      <4>1. want[t] \in Keys /\ InUse(want[t]) # {}
        BY <3>1 DEF Reuse, Seen, IInv, TypeOK
      <4>2. First(InUse(want[t])) \in InUse(want[t])
        BY <4>1, FirstFound DEF IInv
      <4>3. told' = told \cup {Id(First(InUse(want[t])), want[t])}
        BY <3>1 DEF Reuse, Seen
      <4> QED BY <4>2, <4>3 DEF IInv, IdsOk, InUse, Id
    <3>2. CASE Full(t)
      BY <3>2 DEF Full, IInv, IdsOk
    <3> QED BY <3>1, <3>2
  <2> QED BY <1>1, <2>1 DEF IInv, IdsOk, Calling
<1>6. Filled'
  <2>1. CASE Reuse(t)
    BY <1>1, <2>1 DEF Reuse, IInv, Filled
  <2>2. CASE Full(t)
    <3>1. Len(slots) >= MaxSlots /\ Len(slots) <= MaxSlots /\ Len(slots) \in Nat
      BY <2>2 DEF Full, IInv, TypeOK
    <3>2. Len(slots) = MaxSlots
      BY <3>1, PoolAssumption
    <3> QED BY <1>1, <3>2 DEF Filled
  <2> QED BY <2>1, <2>2
<1>7. LocksOk' /\ AnswersOk' /\ OwnAnswer' /\ Kept'
    BY <1>1 DEF IInv, LocksOk, AnswersOk, OwnAnswer, Kept, Calling, Holding, Conn
<1> QED BY <1>2, <1>3, <1>4, <1>5, <1>6, <1>7 DEF Rest

\* a slot is filled
LEMMA PublishStep ==
    ASSUME IInv, TypeOK', NEW t \in Threads, Publish(t) PROVE Rest'
<1> DEFINE n == Len(slots) + 1
<1>1. /\ UNCHANGED <<library, program, lock, handles, open, said, refused, want, id, answer, misuse>>
      /\ pc[t] = "publish" /\ pc'[t] = "idle" /\ hand'[t] = 0
      /\ \A u \in Threads : u # t => pc'[u] = pc[u] /\ hand'[u] = hand[u]
      /\ Seen(t) = {} /\ Len(slots) < MaxSlots
      /\ told' = told \cup {Id(n, want[t])}
    BY DEF Publish, Goto, IInv, TypeOK, Slot, client
<1>2. /\ n \notin DOMAIN slots /\ DOMAIN slots' = DOMAIN slots \cup {n}
      /\ slots'[n] = [key |-> want[t], conn |-> hand[t]]
      /\ \A i \in DOMAIN slots : slots'[i] = slots[i]
    BY DEF Publish, IInv, TypeOK, Slot
<1> HIDE DEF n
<1>3. /\ hand[t] # 0 /\ hand[t] \in DOMAIN handles /\ handles[hand[t]] = want[t]
      /\ \A i \in DOMAIN slots : slots[i].conn # hand[t]
      /\ \A u \in Threads : u # t => hand[u] # hand[t]
    BY <1>1 DEF IInv, HandOk
<1>4. \A i \in DOMAIN slots : ~(slots[i].key = want[t] /\ slots[i].conn # 0)
    BY <1>1 DEF Seen, InUse
<1>5. SlotsOk'
    BY <1>1, <1>2, <1>3 DEF IInv, SlotsOk
<1>6. HandOk'
    BY <1>1, <1>2, <1>3 DEF IInv, HandOk
<1>7. OneConnection'
  <2>1. \A i, j \in DOMAIN slots' :
           slots'[i].conn # 0 /\ slots'[j].conn # 0 /\ slots'[i].key = slots'[j].key => i = j
    BY <1>2, <1>4 DEF IInv, OneConnection
  <2>2. {slots'[i].conn : i \in DOMAIN slots'} = {slots[i].conn : i \in DOMAIN slots} \cup {hand[t]}
    BY <1>2
  <2>3. {hand'[u] : u \in Threads} \cup {0, hand[t]} = {hand[u] : u \in Threads} \cup {0}
    BY <1>1
  <2>4. open' = ({slots'[i].conn : i \in DOMAIN slots'} \cup {hand'[u] : u \in Threads}) \ {0}
    BY <1>1, <1>3, <2>2, <2>3 DEF IInv, OneConnection
  <2> QED BY <2>1, <2>4 DEF OneConnection
<1>8. IdsOk'
    BY <1>1, <1>2 DEF IInv, IdsOk, Calling, Id
<1>9. LocksOk'
  <2>1. \A u \in Threads : pc'[u] \in Holding =>
           pc[u] \in Holding /\ id[u] \in DOMAIN slots /\ u # t
    BY <1>1 DEF IInv, IdsOk, Calling, Holding, Stages
  <2>2. \A u \in Threads : pc'[u] \in Holding => slots'[id[u]] = slots[id[u]] /\ pc'[u] = pc[u]
    BY <1>1, <1>2, <2>1
  <2> QED BY <1>1, <2>1, <2>2 DEF IInv, LocksOk, Holding, Conn
<1>10. AnswersOk' /\ OwnAnswer' /\ Kept'
    BY <1>1, <1>2, <1>3 DEF IInv, AnswersOk, OwnAnswer, Kept, Calling
<1>11. Filled'
  <2>1. ~refused
    BY <1>1, PoolAssumption DEF IInv, Filled, TypeOK
  <2> QED BY <1>1, <2>1 DEF Filled
<1> QED BY <1>5, <1>6, <1>7, <1>8, <1>9, <1>10, <1>11 DEF Rest

\* a statement or a close is called
LEMMA CallStep ==
    ASSUME IInv, NEW t \in Threads, NEW e \in told, NEW op \in DOMAIN Locked, Call(t, e, op)
    PROVE  Rest'
<1>0. op \in {"query", "exec", "close"}
    BY DEF Locked
<1>1. /\ UNCHANGED <<library, program, tables, client, told, refused, hand, misuse>>
      /\ pc[t] = "idle" /\ pc'[t] = op /\ answer'[t] = NoAnswer
      /\ id'[t] = e.slot /\ want'[t] = e.key
      /\ op = "close" => "close" \in program
      /\ \A u \in Threads : u # t =>
            pc'[u] = pc[u] /\ id'[u] = id[u] /\ want'[u] = want[u] /\ answer'[u] = answer[u]
    BY DEF Call, Goto, IInv, TypeOK
<1>2. SlotsOk' /\ Filled' /\ OneConnection'
    BY <1>1, TableStill DEF tables, client
<1>3. HandOk'
    BY <1>0, <1>1 DEF IInv, HandOk, tables, client
<1>4. IdsOk'
    BY <1>1 DEF IInv, IdsOk, tables
<1>5. LocksOk' /\ AnswersOk' /\ OwnAnswer' /\ Kept'
    BY <1>0, <1>1 DEF IInv, LocksOk, AnswersOk, OwnAnswer, Kept, Holding, Conn, tables, client
<1> QED BY <1>2, <1>3, <1>4, <1>5 DEF Rest

\* the lock of the slot is taken
LEMMA LockStep ==
    ASSUME IInv, NEW t \in Threads, Lock(t) PROVE Rest'
<1>1. /\ UNCHANGED <<library, program, slots, client, told, refused, calls, answer, misuse>>
      /\ pc[t] \in {"query", "exec", "close"}
      /\ pc'[t] = Locked[pc[t]] /\ pc'[t] \in {"queryLocked", "execLocked", "closeLocked"}
      /\ pc'[t] = "closeLocked" => pc[t] = "close"
      /\ lock[id[t]] = NoOne
      /\ \A u \in Threads : u # t => pc'[u] = pc[u]
    BY DEF Lock, Locked, Goto, IInv, TypeOK
<1>2. id[t] \in Slots
    BY <1>1, CallsSlot DEF Calling, Stages
<1>3. lock'[id[t]] = t /\ \A i \in Slots : i # id[t] => lock'[i] = lock[i]
    BY <1>2 DEF Lock, IInv, TypeOK
<1>4. SlotsOk' /\ Filled' /\ OneConnection'
    BY <1>1, TableStill DEF client, calls
<1>5. HandOk' /\ IdsOk' /\ AnswersOk' /\ OwnAnswer' /\ Kept'
    BY <1>1 DEF IInv, HandOk, IdsOk, AnswersOk, OwnAnswer, Kept, Calling, Stages, client, calls
<1>6. LocksOk'
  <2>1. \A u \in Threads : u # t /\ pc[u] \in Holding => id[u] # id[t] /\ id[u] \in Slots
    BY <1>1, <1>2, OneHolder
  <2>2. \A u \in Threads : pc'[u] \in Holding => lock'[id'[u]] = u
    BY <1>1, <1>3, <2>1 DEF IInv, LocksOk, calls
  <2>3. \A u \in Threads : pc'[u] \in {"counts", "store"} => pc[u] \in {"counts", "store"}
    BY <1>1
  <2> QED BY <1>1, <2>2, <2>3 DEF IInv, LocksOk, Conn, client, calls
<1> QED BY <1>4, <1>5, <1>6 DEF Rest

\* a statement gets its answer, an error or its own result
LEMMA AnswerStep ==
    ASSUME IInv, NEW t \in Threads, pc[t] \in Calling, pc[t] # "unlock", pc[t] \in Holding,
           NEW a, a \in {Failed, [by |-> t, on |-> want[t]]},
           answer' = [answer EXCEPT ![t] = a], Goto(t, "unlock"),
           UNCHANGED <<library, program, tables, client, told, refused, calls, misuse>>
    PROVE  Rest'
<1>1. /\ pc'[t] = "unlock" /\ answer'[t] = a
      /\ \A u \in Threads : u # t => pc'[u] = pc[u] /\ answer'[u] = answer[u]
    BY DEF Goto, IInv, TypeOK
<1>2. SlotsOk' /\ Filled' /\ OneConnection'
    BY TableStill DEF tables, client, calls
<1>3. HandOk' /\ IdsOk' /\ Kept'
    BY <1>1 DEF IInv, HandOk, IdsOk, Kept, Calling, tables, client, calls
<1>4. LocksOk'
    BY <1>1 DEF IInv, LocksOk, Conn, tables, client, calls
<1>5. AnswersOk' /\ OwnAnswer'
    BY <1>1 DEF IInv, AnswersOk, OwnAnswer, calls
<1> QED BY <1>2, <1>3, <1>4, <1>5 DEF Rest

\* the connection runs a statement under the lock of its slot
LEMMA RunsStep ==
    ASSUME IInv, NEW t \in Threads, NEW stage \in {"counts", "store"},
           pc[t] \in {"queryLocked", "execLocked"}, Runs(t, stage)
    PROVE  Rest'
<1>1. /\ UNCHANGED <<library, program, tables, handles, open, told, refused, calls, answer, misuse>>
      /\ Conn(t) # 0 /\ pc'[t] = stage
      /\ \A u \in Threads : u # t => pc'[u] = pc[u]
    BY DEF Runs, Goto, IInv, TypeOK
<1>2. Conn(t) \in Handles
    BY <1>1, CallsSlot DEF Calling, Stages
<1>3. said'[Conn(t)] = t /\ \A h \in Handles : h # Conn(t) => said'[h] = said[h]
    BY <1>2 DEF Runs, IInv, TypeOK
<1>4. SlotsOk' /\ Filled' /\ OneConnection'
    BY <1>1, TableStill DEF tables, calls
<1>5. HandOk' /\ IdsOk' /\ AnswersOk' /\ OwnAnswer' /\ Kept'
    BY <1>1 DEF IInv, HandOk, IdsOk, AnswersOk, OwnAnswer, Kept, Calling, Stages, tables, calls
<1>6. LocksOk'
  <2>1. \A u \in Threads : u # t /\ pc[u] \in {"counts", "store"} =>
           /\ Conn(u) \in Handles /\ Conn(u) # Conn(t)
    <3> SUFFICES ASSUME NEW u \in Threads, u # t, pc[u] \in {"counts", "store"}
                 PROVE  Conn(u) \in Handles /\ Conn(u) # Conn(t)
        OBVIOUS
    <3>1. id[u] # id[t] /\ id[u] \in DOMAIN slots /\ id[t] \in DOMAIN slots /\ Conn(u) # 0
      BY DEF IInv, LocksOk, IdsOk, Calling, Holding, Stages
    <3> QED BY <1>1, <3>1, PoolAssumption DEF IInv, SlotsOk, Conn, TypeOK, Handles
  <2>2. Conn(t)' = Conn(t) /\ \A u \in Threads : Conn(u)' = Conn(u)
    BY <1>1 DEF Conn, tables, calls
  <2>3. \A u \in Threads : pc'[u] \in {"counts", "store"} => Conn(u)' # 0 /\ said'[Conn(u)'] = u
    BY <1>1, <1>3, <2>1, <2>2 DEF IInv, LocksOk
  <2>4. \A u \in Threads : pc'[u] \in Holding => lock'[id'[u]] = u
    BY <1>1 DEF IInv, LocksOk, Holding, tables, calls
  <2> QED BY <2>3, <2>4 DEF LocksOk, Conn
<1> QED BY <1>4, <1>5, <1>6 DEF Rest

\* the connection of a slot is closed under its lock
LEMMA CloseStep ==
    ASSUME IInv, TypeOK', NEW t \in Threads, Close(t) PROVE Rest'
<1> DEFINE s == id[t]
<1>1. /\ UNCHANGED <<library, program, lock, handles, said, told, refused, calls, answer, misuse>>
      /\ open' = open \ {Conn(t)}
      /\ pc[t] = "closeLocked" /\ pc'[t] = "unlock"
      /\ \A u \in Threads : u # t => pc'[u] = pc[u]
    BY DEF Close, Goto, IInv, TypeOK
<1>2. s \in DOMAIN slots /\ slots[s].key = want[t]
    BY <1>1 DEF IInv, IdsOk, Calling, Stages
<1>3. /\ DOMAIN slots' = DOMAIN slots /\ Len(slots') = Len(slots)
      /\ slots'[s].conn = 0
      /\ \A i \in DOMAIN slots : slots'[i].key = slots[i].key
      /\ \A i \in DOMAIN slots : i # s => slots'[i] = slots[i]
  <2>1. slots' = [slots EXCEPT ![s] = [slots[s] EXCEPT !.conn = 0]]
    BY DEF Close
  <2>2. \A i \in DOMAIN slots : slots[i] \in [key : Keys, conn : 0 .. MaxHandles]
    <3> DEFINE S == [key : Keys, conn : 0 .. MaxHandles]
    <3>1. slots \in Seq(S)
      BY DEF IInv, TypeOK
    <3> HIDE DEF S
    <3>2. \A i \in DOMAIN slots : slots[i] \in S
      BY <3>1
    <3> QED BY <3>2 DEF S
  <2>3. /\ [slots[s] EXCEPT !.conn = 0].conn = 0
        /\ [slots[s] EXCEPT !.conn = 0].key = slots[s].key
    BY <1>2, <2>2
  <2>4. DOMAIN slots' = DOMAIN slots /\ Len(slots') = Len(slots)
    BY <2>1 DEF IInv, TypeOK
  <2> QED BY <1>2, <2>1, <2>3, <2>4
<1> HIDE DEF s
<1>4. SlotsOk'
    BY <1>1, <1>3 DEF IInv, SlotsOk
<1>5. HandOk'
    BY <1>1, <1>3 DEF IInv, HandOk, calls
<1>6. OneConnection'
  <2>1. \A i, j \in DOMAIN slots' :
           slots'[i].conn # 0 /\ slots'[j].conn # 0 /\ slots'[i].key = slots'[j].key => i = j
    BY <1>3 DEF IInv, OneConnection
  <2>2. Conn(t) = slots[s].conn
    BY DEF Conn, s
  <2>3. \A i \in DOMAIN slots : i # s => slots[i].conn # Conn(t) \/ slots[i].conn = 0
    BY <1>2, <2>2 DEF IInv, SlotsOk
  <2>4. \A u \in Threads : hand[u] # Conn(t) \/ hand[u] = 0
    BY <1>2, <2>2 DEF IInv, HandOk
  <2>5. open' = ({slots'[i].conn : i \in DOMAIN slots'} \cup {hand'[u] : u \in Threads}) \ {0}
    BY <1>1, <1>2, <1>3, <2>2, <2>3, <2>4 DEF IInv, OneConnection, calls
  <2> QED BY <2>1, <2>5 DEF OneConnection
<1>7. IdsOk'
    BY <1>1, <1>3 DEF IInv, IdsOk, Calling, Stages, calls
<1>8. LocksOk'
  <2>1. \A u \in Threads : u # t /\ pc[u] \in Holding => id[u] # s /\ id[u] \in DOMAIN slots
    BY <1>1 DEF IInv, LocksOk, IdsOk, Calling, Holding, Stages, s
  <2>2. \A u \in Threads : u # t /\ pc[u] \in Holding => Conn(u)' = Conn(u)
    BY <1>1, <1>3, <2>1 DEF Conn, calls
  <2>3. \A u \in Threads : pc'[u] \in {"counts", "store"} => Conn(u)' # 0 /\ said'[Conn(u)'] = u
    BY <1>1, <2>2 DEF IInv, LocksOk, Holding
  <2>4. \A u \in Threads : pc'[u] \in Holding => lock'[id'[u]] = u
    BY <1>1 DEF IInv, LocksOk, Holding, calls
  <2> QED BY <2>3, <2>4 DEF LocksOk, Conn
<1>9. AnswersOk' /\ OwnAnswer'
    BY <1>1 DEF IInv, AnswersOk, OwnAnswer, Calling, Stages, calls
<1>10. Kept' /\ Filled'
    BY <1>1, <1>3 DEF IInv, Kept, Filled
<1> QED BY <1>4, <1>5, <1>6, <1>7, <1>8, <1>9, <1>10 DEF Rest

\* the lock of the slot is given back
LEMMA UnlockStep ==
    ASSUME IInv, NEW t \in Threads, Unlock(t) PROVE Rest'
<1>1. /\ UNCHANGED <<library, program, slots, client, told, refused, calls, answer, misuse>>
      /\ pc[t] = "unlock" /\ pc'[t] = "idle"
      /\ \A u \in Threads : u # t => pc'[u] = pc[u]
    BY DEF Unlock, Goto, IInv, TypeOK
<1>2. SlotsOk' /\ Filled' /\ OneConnection'
    BY <1>1, TableStill DEF client, calls
<1>3. HandOk' /\ IdsOk' /\ AnswersOk' /\ OwnAnswer' /\ Kept'
    BY <1>1 DEF IInv, HandOk, IdsOk, AnswersOk, OwnAnswer, Kept, Calling, client, calls
<1>4. LocksOk'
  <2>1. \A u \in Threads : u # t /\ pc[u] \in Holding =>
           /\ id[u] # id[t] /\ id[u] \in Slots
    <3>1. id[t] \in Slots
      BY <1>1, CallsSlot DEF Calling, Stages
    <3>2. lock[id[t]] = t
      BY <1>1 DEF IInv, LocksOk, Holding
    <3> QED BY <3>1, <3>2, OneHolder
  <2>2. \A i \in Slots : i # id[t] => lock'[i] = lock[i]
    BY DEF Unlock, IInv, TypeOK
  <2> QED BY <1>1, <2>1, <2>2 DEF IInv, LocksOk, Holding, Conn, client, calls
<1> QED BY <1>2, <1>3, <1>4 DEF Rest

-----------------------------------------------------------------------------
\* the steps of statements, library by library
LEMMA StatementStep ==
    ASSUME IInv, NEW t \in Threads,
           \/ SqliteQuery(t) \/ SqliteExec(t) \/ SqliteCounts(t)
           \/ MariaRuns(t) \/ MariaStore(t) \/ NullConn(t)
    PROVE  Rest'
<1> USE DEF Calling, Holding, Stages
<1>1. pc[t] \in {"queryLocked", "execLocked", "counts", "store"}
    BY DEF SqliteQuery, SqliteExec, SqliteCounts, MariaRuns, MariaStore, NullConn
<1>2. Conn(t) # 0 => handles[Conn(t)] = want[t]
    BY <1>1 DEF IInv, SlotsOk, IdsOk, Conn
<1>3. CASE Fails(t)
    BY <1>1, <1>3, AnswerStep DEF Fails
<1>4. CASE SqliteQuery(t) /\ ~Fails(t)
    BY <1>1, <1>2, <1>4, AnswerStep DEF SqliteQuery
<1>5. CASE SqliteCounts(t) \/ MariaStore(t)
  <2>1. pc[t] \in {"counts", "store"}
    BY <1>5 DEF SqliteCounts, MariaStore
  <2>2. said[Conn(t)] = t /\ handles[Conn(t)] = want[t]
    BY <2>1, <1>2 DEF IInv, LocksOk
  <2> QED BY <1>1, <1>5, <2>2, AnswerStep DEF SqliteCounts, MariaStore, Answered
<1>6. CASE (SqliteExec(t) \/ MariaRuns(t)) /\ ~Fails(t)
    BY <1>6, RunsStep DEF SqliteExec, MariaRuns
<1>7. CASE NullConn(t)
  <2>1. /\ UNCHANGED <<library, program, tables, client, told, refused, pc, calls, answer>>
        /\ Conn(t) = 0
    BY <1>7 DEF NullConn
  <2>2. "close" \in program
    BY <1>1, <2>1 DEF IInv, Kept, IdsOk, Conn
  <2>3. SlotsOk' /\ Filled' /\ OneConnection'
    BY <2>1, TableStill DEF tables, client, calls
  <2>4. HandOk' /\ IdsOk' /\ LocksOk'
    BY <2>1 DEF IInv, HandOk, IdsOk, LocksOk, Conn, tables, client, calls
  <2>5. AnswersOk' /\ OwnAnswer' /\ Kept'
    BY <2>1, <2>2 DEF IInv, AnswersOk, OwnAnswer, Kept, calls
  <2> QED BY <2>3, <2>4, <2>5 DEF Rest
<1> QED BY <1>3, <1>4, <1>5, <1>6, <1>7 DEF SqliteQuery, SqliteExec, MariaRuns

\* The invariant of the pool holds however the threads interleave
\* (sqlite.c:54-374, mariadb.c:151-490).
THEOREM DbPoolInvariant == Spec => []IInv
<1>1. ASSUME IInv, [Next]_vars PROVE IInv'
  <2>1. CASE Next
    <3>1. TypeOK'
      BY <1>1, <2>1, TypeStep
    <3> SUFFICES Rest'
        BY <3>1 DEF IInv, Rest
    <3> PICK t \in Threads : Step(t)
      BY <2>1 DEF Next
    <3>2. ASSUME NEW k \in Keys, Open(t, k) PROVE Rest'
      BY <1>1, <3>2, OpenStep
    <3>3. ASSUME NEW e \in told, NEW op \in DOMAIN Locked, Call(t, e, op) PROVE Rest'
      BY <1>1, <3>3, CallStep
    <3>4. CASE Connect(t) \/ ConnectFails(t) \/ Reuse(t) \/ Full(t) \/ Publish(t)
      BY <1>1, <3>1, <3>4, ConnectStep, ConnectFailsStep, DropStep, PublishStep
    <3>5. CASE Lock(t) \/ Close(t) \/ Unlock(t)
      BY <1>1, <3>1, <3>5, LockStep, CloseStep, UnlockStep
    <3>6. CASE \/ SqliteQuery(t) \/ SqliteExec(t) \/ SqliteCounts(t)
               \/ MariaRuns(t) \/ MariaStore(t) \/ NullConn(t)
      BY <1>1, <3>6, StatementStep
    <3> QED BY <3>2, <3>3, <3>4, <3>5, <3>6 DEF Step
  <2>2. CASE UNCHANGED vars
    <3>1. TypeOK' /\ SlotsOk' /\ HandOk' /\ IdsOk' /\ LocksOk'
      BY <1>1, <2>2 DEF vars, tables, client, calls, IInv, TypeOK, SlotsOk, HandOk, IdsOk, LocksOk, Conn
    <3>2. AnswersOk' /\ Kept' /\ Filled' /\ OneConnection' /\ OwnAnswer'
      BY <1>1, <2>2 DEF vars, tables, client, calls, IInv, AnswersOk, Kept, Filled, OneConnection, OwnAnswer
    <3> QED BY <3>1, <3>2 DEF IInv
  <2> QED BY <1>1, <2>1, <2>2
<1> QED BY PoolInit, <1>1, PTL DEF Spec

\* types
THEOREM DbPoolTypeOK == Spec => []TypeOK
<1>1. IInv => TypeOK
    BY DEF IInv
<1> QED BY <1>1, DbPoolInvariant, PTL

\* However many threads open one database at once, it has one connection, and
\* no handle is lost (the second look of sqlite.c:80-91, mariadb.c:178-187).
THEOREM DbPoolOneConnection == Spec => []OneConnection
<1>1. IInv => OneConnection
    BY DEF IInv
<1> QED BY <1>1, DbPoolInvariant, PTL

\* A statement's answer is its own and its database's, however many threads
\* share the connection (sqlite.c:301-346, mariadb.c:255-490).
THEOREM DbPoolOwnAnswer == Spec => []OwnAnswer
<1>1. IInv => OwnAnswer
    BY DEF IInv
<1> QED BY <1>1, DbPoolInvariant, PTL

\* as many databases as slots, when every slot has a database of its own
LEMMA FullTable ==
    ASSUME IInv, "close" \notin program, Len(slots) = MaxSlots
    PROVE  Cardinality({slots[i].key : i \in DOMAIN slots}) = MaxSlots
<1> DEFINE K == {slots[i].key : i \in DOMAIN slots}
<1> DEFINE f == [i \in 1 .. MaxSlots |-> slots[i].key]
<1>1. DOMAIN slots = 1 .. MaxSlots
    BY DEF IInv, TypeOK
<1>2. \A i, j \in 1 .. MaxSlots : slots[i].key = slots[j].key => i = j
    BY <1>1 DEF IInv, Kept, OneConnection
<1>3. f \in Bijection(1 .. MaxSlots, K)
    BY <1>1, <1>2 DEF Bijection, Injection, Surjection, IsInjective
<1>4. IsFiniteSet(1 .. MaxSlots) /\ Cardinality(1 .. MaxSlots) = MaxSlots
    BY FS_Interval, PoolAssumption
<1>5. ExistsBijection(1 .. MaxSlots, K)
    BY <1>3 DEF ExistsBijection
<1> HIDE DEF K
<1>6. Cardinality(K) = MaxSlots
    BY <1>4, <1>5, FS_Bijection
<1> QED BY <1>6 DEF K

\* A program that closes nothing meets no NULL connection and is refused a
\* database only when the table holds as many others (sqlite.c:92-96).
THEOREM DbPoolUsable == Spec => []Usable
<1>1. IInv => Usable
    BY FullTable DEF IInv, Kept, Filled, Usable
<1> QED BY <1>1, DbPoolInvariant, PTL
=============================================================================
