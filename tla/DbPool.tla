------------------------------- MODULE DbPool -------------------------------
(***************************************************************************)
(* The connection pools of sqlite.c and mariadb.c: a table of slots that   *)
(* is searched and filled under one lock, with a lock per slot for the     *)
(* statements.  A program gets "db:N" or "conn:N" for a database, the same *)
(* one from every thread, and passes it with each statement.               *)
(***************************************************************************)
EXTENDS Naturals, Sequences, FiniteSets

CONSTANTS
    Threads,    \* threads that open databases and run statements
    Keys,       \* paths, or host, port, database and user
    MaxSlots,   \* MAX_SQLITE_CONN, MAX_CONNECTIONS
    MaxHandles, \* bound: handles the client library opens in one execution
    Libraries,  \* the pools of one execution: "sqlite" or "mariadb"
    Programs,   \* what programs may do: {} or {"close"}
    NoOne       \* holder of a lock nobody holds

ASSUME PoolAssumption ==
    /\ MaxSlots \in Nat \ {0} /\ MaxHandles \in Nat
    /\ Libraries \subseteq {"sqlite", "mariadb"}
    /\ Programs \subseteq SUBSET {"close"}
    /\ NoOne \notin Threads

VARIABLES
    library,    \* the client library
    program,    \* what this program does
    slots,      \* sq_pool[0 .. sq_count - 1]: key and handle, 0 for NULL and unused
    lock,       \* the holder of each slot's lock
    handles,    \* the key of each handle opened so far
    open,       \* the handles that are open
    said,       \* whose statement each handle ran last
    told,       \* the ids programs were given, each with the database asked for
    refused,    \* whether an open was refused for want of a slot
    pc,         \* where each thread is
    want,       \* the database its call is about
    id,         \* the id its call uses
    hand,       \* the handle it has opened and not yet put in the table
    answer,     \* what its last statement answered: whose statement, on what database
    misuse      \* whether a NULL connection was dereferenced

tables == <<slots, lock>>
client == <<handles, open, said>>
calls == <<want, id, hand>>
vars == <<library, program, tables, client, told, refused, pc, calls, answer, misuse>>

Stages == {"idle", "connect", "publish", "query", "exec", "close",
           "queryLocked", "execLocked", "closeLocked", "counts", "store", "unlock"}
Slots == 1 .. MaxSlots
Handles == 1 .. MaxHandles
NoAnswer == [by |-> NoOne, on |-> "nothing"]
Failed == [by |-> NoOne, on |-> "error"]

Init ==
    /\ library \in Libraries
    /\ program \in Programs
    /\ slots = <<>>
    /\ lock = [i \in Slots |-> NoOne]
    /\ handles = <<>>
    /\ open = {}
    /\ said = [h \in Handles |-> NoOne]
    /\ told = {}
    /\ refused = FALSE
    /\ pc = [t \in Threads |-> "idle"]
    /\ want \in [Threads -> Keys]
    /\ id = [t \in Threads |-> 0]
    /\ hand = [t \in Threads |-> 0]
    /\ answer = [t \in Threads |-> NoAnswer]
    /\ misuse = FALSE

Goto(t, stage) == pc' = [pc EXCEPT ![t] = stage]

\* sq_find_by_path, find_conn_by_key: the slots in use for a key
InUse(k) == {i \in DOMAIN slots : slots[i].key = k /\ slots[i].conn # 0}
First(S) == CHOOSE i \in S : \A j \in S : i <= j

\* "db:N", "conn:N", with the database it was given out for
Id(i, k) == [slot |-> i, key |-> k]

(***************************************************************************)
(* Opening: look, connect without the lock, look again.                    *)
(***************************************************************************)

Open(t, k) ==
    /\ pc[t] = "idle"
    /\ want' = [want EXCEPT ![t] = k]
    /\ IF InUse(k) # {}
       THEN told' = told \cup {Id(First(InUse(k)), k)} /\ UNCHANGED pc
       ELSE Goto(t, "connect") /\ UNCHANGED told
    /\ UNCHANGED <<library, program, tables, client, refused, id, hand, answer, misuse>>

\* sqlite3_open, mysql_real_connect
Connect(t) ==
    /\ pc[t] = "connect"
    /\ Len(handles) < MaxHandles
    /\ handles' = Append(handles, want[t])
    /\ open' = open \cup {Len(handles')}
    /\ hand' = [hand EXCEPT ![t] = Len(handles')]
    /\ Goto(t, "publish")
    /\ UNCHANGED <<library, program, tables, said, told, refused, want, id, answer, misuse>>

ConnectFails(t) ==
    /\ pc[t] = "connect"
    /\ Goto(t, "idle")
    /\ UNCHANGED <<library, program, tables, client, told, refused, calls, answer, misuse>>

\* mutant: whoever connects takes a slot
SeenTwice(t) == {}

\* the second look
Seen(t) == InUse(want[t])

DropHandle(t) ==
    /\ open' = open \ {hand[t]}
    /\ UNCHANGED <<handles, said, slots>>

Reuse(t) ==
    /\ pc[t] = "publish"
    /\ Seen(t) # {}
    /\ DropHandle(t)
    /\ told' = told \cup {Id(First(Seen(t)), want[t])}
    /\ hand' = [hand EXCEPT ![t] = 0]
    /\ Goto(t, "idle")
    /\ UNCHANGED <<library, program, lock, refused, want, id, answer, misuse>>

\* mutant: a table with one slot left counts as full
FullEarly(t) ==
    /\ pc[t] = "publish"
    /\ Seen(t) = {}
    /\ Len(slots) + 1 >= MaxSlots
    /\ DropHandle(t)
    /\ refused' = TRUE
    /\ hand' = [hand EXCEPT ![t] = 0]
    /\ Goto(t, "idle")
    /\ UNCHANGED <<library, program, lock, told, want, id, answer, misuse>>

\* the table is full
Full(t) ==
    /\ pc[t] = "publish"
    /\ Seen(t) = {}
    /\ Len(slots) >= MaxSlots
    /\ DropHandle(t)
    /\ refused' = TRUE
    /\ hand' = [hand EXCEPT ![t] = 0]
    /\ Goto(t, "idle")
    /\ UNCHANGED <<library, program, lock, told, want, id, answer, misuse>>

\* idx = sq_count++: slots are never given back
Slot(t) == Len(slots) + 1

Publish(t) ==
    /\ pc[t] = "publish"
    /\ Seen(t) = {}
    /\ Len(slots) < MaxSlots
    /\ slots' = [i \in DOMAIN slots \cup {Slot(t)} |->
                    IF i = Slot(t) THEN [key |-> want[t], conn |-> hand[t]] ELSE slots[i]]
    /\ told' = told \cup {Id(Slot(t), want[t])}
    /\ hand' = [hand EXCEPT ![t] = 0]
    /\ Goto(t, "idle")
    /\ UNCHANGED <<library, program, lock, client, refused, want, id, answer, misuse>>

(***************************************************************************)
(* Statements, each under the lock of its slot.                            *)
(***************************************************************************)

\* a program passes an id to a query, an exec or a close; sq_find finds it
Call(t, e, op) ==
    /\ pc[t] = "idle"
    /\ op = "close" => "close" \in program
    /\ id' = [id EXCEPT ![t] = e.slot]
    /\ want' = [want EXCEPT ![t] = e.key]
    /\ answer' = [answer EXCEPT ![t] = NoAnswer]
    /\ Goto(t, op)
    /\ UNCHANGED <<library, program, tables, client, told, refused, hand, misuse>>

Locked == [query |-> "queryLocked", exec |-> "execLocked", close |-> "closeLocked"]

\* mutant: the lock of the slot is not waited for
LockBarging(t) ==
    /\ pc[t] \in DOMAIN Locked
    /\ lock' = [lock EXCEPT ![id[t]] = t]
    /\ Goto(t, Locked[pc[t]])
    /\ UNCHANGED <<library, program, slots, client, told, refused, calls, answer, misuse>>

Lock(t) ==
    /\ pc[t] \in DOMAIN Locked
    /\ lock[id[t]] = NoOne
    /\ lock' = [lock EXCEPT ![id[t]] = t]
    /\ Goto(t, Locked[pc[t]])
    /\ UNCHANGED <<library, program, slots, client, told, refused, calls, answer, misuse>>

Conn(t) == slots[id[t]].conn

\* the connection runs the statement of t, and t goes on at stage
Runs(t, stage) ==
    /\ Conn(t) # 0
    /\ said' = [said EXCEPT ![Conn(t)] = t]
    /\ Goto(t, stage)
    /\ UNCHANGED <<library, program, tables, handles, open, told, refused, calls, answer,
                   misuse>>

\* an error message instead: a statement that is not well-formed, a value
\* that cannot be bound, a server that has gone
Fails(t) ==
    /\ answer' = [answer EXCEPT ![t] = Failed]
    /\ Goto(t, "unlock")
    /\ UNCHANGED <<library, program, tables, client, told, refused, calls, misuse>>

Answered(t) == answer' = [answer EXCEPT ![t] = [by |-> said[Conn(t)], on |-> handles[Conn(t)]]]

\* prepare, bind, step through the rows of the statement itself; SQLite
\* answers a NULL connection with an error
SqliteQuery(t) ==
    /\ library = "sqlite" /\ pc[t] = "queryLocked"
    /\ \/ /\ Conn(t) # 0
          /\ answer' = [answer EXCEPT ![t] = [by |-> t, on |-> handles[Conn(t)]]]
          /\ Goto(t, "unlock")
          /\ UNCHANGED <<library, program, tables, client, told, refused, calls, misuse>>
       \/ Fails(t)

SqliteExec(t) ==
    /\ library = "sqlite" /\ pc[t] = "execLocked"
    /\ Runs(t, "counts") \/ Fails(t)

\* sqlite3_changes, sqlite3_last_insert_rowid: of the connection's last statement
SqliteCounts(t) ==
    /\ pc[t] = "counts"
    /\ Answered(t)
    /\ Goto(t, "unlock")
    /\ UNCHANGED <<library, program, tables, client, told, refused, calls, misuse>>

\* the MariaDB library reads through the pointer it is given
NullConn(t) ==
    /\ library = "mariadb" /\ pc[t] \in {"queryLocked", "execLocked"}
    /\ Conn(t) = 0
    /\ misuse' = TRUE
    /\ UNCHANGED <<library, program, tables, client, told, refused, pc, calls, answer>>

MariaRuns(t) ==
    /\ library = "mariadb" /\ pc[t] \in {"queryLocked", "execLocked"}
    /\ Conn(t) # 0
    /\ Runs(t, "store") \/ Fails(t)

\* mysql_store_result, mysql_affected_rows; the rows are read after the unlock,
\* from a copy
MariaStore(t) ==
    /\ pc[t] = "store"
    /\ Answered(t)
    /\ Goto(t, "unlock")
    /\ UNCHANGED <<library, program, tables, client, told, refused, calls, misuse>>

Close(t) ==
    /\ pc[t] = "closeLocked"
    /\ open' = open \ {Conn(t)}
    /\ slots' = [slots EXCEPT ![id[t]].conn = 0]
    /\ Goto(t, "unlock")
    /\ UNCHANGED <<library, program, lock, handles, said, told, refused, calls, answer, misuse>>

Unlock(t) ==
    /\ pc[t] = "unlock"
    /\ lock' = [lock EXCEPT ![id[t]] = NoOne]
    /\ Goto(t, "idle")
    /\ UNCHANGED <<library, program, slots, client, told, refused, calls, answer, misuse>>

Step(t) ==
    \/ \E k \in Keys : Open(t, k)
    \/ Connect(t) \/ ConnectFails(t) \/ Reuse(t) \/ Full(t) \/ Publish(t)
    \/ \E e \in told, op \in DOMAIN Locked : Call(t, e, op)
    \/ Lock(t)
    \/ SqliteQuery(t) \/ SqliteExec(t) \/ SqliteCounts(t)
    \/ MariaRuns(t) \/ MariaStore(t) \/ NullConn(t)
    \/ Close(t) \/ Unlock(t)

Next == ~misuse /\ \E t \in Threads : Step(t)

Spec == Init /\ [][Next]_vars

(***************************************************************************)
(* Properties.                                                             *)
(***************************************************************************)

TypeOK ==
    /\ library \in Libraries /\ program \in Programs
    /\ slots \in Seq([key : Keys, conn : 0 .. MaxHandles]) /\ Len(slots) <= MaxSlots
    /\ lock \in [Slots -> Threads \cup {NoOne}]
    /\ handles \in Seq(Keys) /\ Len(handles) <= MaxHandles
    /\ open \subseteq DOMAIN handles
    /\ said \in [Handles -> Threads \cup {NoOne}]
    /\ told \subseteq [slot : DOMAIN slots, key : Keys]
    /\ refused \in BOOLEAN /\ misuse \in BOOLEAN
    /\ pc \in [Threads -> Stages]
    /\ want \in [Threads -> Keys]
    /\ id \in [Threads -> 0 .. Len(slots)]
    /\ hand \in [Threads -> 0 .. Len(handles)]
    /\ answer \in [Threads -> [by : Threads \cup {NoOne}, on : Keys \cup {"nothing", "error"}]]

\* However the opens of all threads race, the program has one connection per
\* database, and the client library has none open besides those of the table
\* and the ones a thread is about to put there or drop (sqlite.c:59-105,
\* mariadb.c:156-203).
OneConnection ==
    /\ \A i, j \in DOMAIN slots :
          slots[i].conn # 0 /\ slots[j].conn # 0 /\ slots[i].key = slots[j].key => i = j
    /\ open = ({slots[i].conn : i \in DOMAIN slots} \cup {hand[t] : t \in Threads}) \ {0}

\* The answer to a statement is that statement's own, from the database its id
\* was given out for: counts and rows of a connection all threads share are
\* never another thread's, and an id never comes to mean another database
\* (sqlite.c:313-346, mariadb.c:269-280).  Rows are the statement's even when a
\* step of it fails, which sqlite.c:119 takes for their end.
OwnAnswer ==
    \A t \in Threads :
        pc[t] = "unlock" /\ answer[t] \notin {NoAnswer, Failed} =>
            answer[t] = [by |-> t, on |-> want[t]]

\* In programs that close nothing, no statement meets a NULL connection, and
\* an open is refused only when the table holds MAX_SQLITE_CONN databases.
\* (With closes, a statement that waited for the lock of its slot does; and
\* since slots are not given back, MAX_SQLITE_CONN opens and closes fill the
\* table for good.)
Usable ==
    "close" \notin program =>
        /\ ~misuse
        /\ refused => Cardinality({slots[i].key : i \in DOMAIN slots}) = MaxSlots
=============================================================================
