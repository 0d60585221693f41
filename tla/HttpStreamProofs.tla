-------------------------- MODULE HttpStreamProofs --------------------------
(***************************************************************************)
(* Proofs about HttpStream, for requests, buffers, limits and clients of   *)
(* any kind.  The argument is about the line: what is in the receive       *)
(* buffer, followed by what the server has not read.  Network and server   *)
(* only move the border between the two, drop what is before it or cut     *)
(* what comes last, so the line stays a window of what the client sent.    *)
(***************************************************************************)
EXTENDS HttpStream, FiniteSetTheorems, SequenceTheorems, TLAPS

Unit == Nat \X Nat
Total(k) == asked[k].head + asked[k].body
Line == raw \o out

Handling == [to : Nat, units : Seq(Unit)]
Answering == [to : Nat, status : Statuses, keep : BOOLEAN]
States == {"loop", "tls", "recv", "detect", "stream", "parse", "handler",
           "closing", "closed", "exited"} \cup Responds

Types ==
    /\ habits \in Clients
    /\ asked \in Seq(Kinds) /\ Len(asked) <= MaxAsked
    /\ raw \in Seq(Unit) /\ out \in Seq(Unit)
    /\ shut \in BOOLEAN
    /\ pc \in States
    /\ headersDone \in BOOLEAN
    /\ rcvtimeo \in {"idle", "header"}
    /\ reqCount \in 0..MaxRequests
    /\ keep \in BOOLEAN
    /\ handled \in Seq(Handling)
    /\ answers \in Seq(Answering)

(* A request is counted once it is answered, and over TLS not at all.      *)
Counts == /\ pc = "tls" => Tls
          /\ Tls => reqCount = 0 /\ pc \notin {"loop", "recv"}
          /\ pc \in {"recv", "detect", "parse", "handler"} \cup Responds => reqCount < MaxRequests
          /\ pc \in {"handler"} \cup Responds /\ Tls => ~keep

(* Balanced, with the states between.                                      *)
Frames == /\ arena = IF pc \in {"parse", "handler", "exited"} \cup Responds THEN 1 ELSE 0
          /\ tryTop = IF pc \in {"stream", "handler"} THEN 1 ELSE 0

(* The line is made of units that were sent, and of two of them the later  *)
(* belongs to the same request, as far on as it is further, or to a later  *)
(* request when the first has no units left.  A client that has not ended  *)
(* the connection has sent its last request whole.                         *)
Sent == \A p \in 1..Len(Line) : Line[p][1] \in 1..Len(asked) /\ Line[p][2] \in 1..Total(Line[p][1])
Apart(a, b, d) == \/ b[1] = a[1] /\ b[2] = a[2] + d
                  \/ b[1] > a[1] /\ a[2] + d > Total(a[1])
Spaced == \A p, q \in 1..Len(Line) : p < q => Apart(Line[p], Line[q], q - p)
Ended == ~shut /\ Line # <<>> => Line[Len(Line)] = <<Len(asked), Total(Len(asked))>>
Window == Sent /\ Spaced /\ Ended

(* What a client that does not do such things does not do.                 *)
Habitual == /\ shut => "hangsUp" \in habits
            /\ "floods" \notin habits => \A k \in 1..Len(asked) : Total(k) <= BufRoom

(* The buffer within its room; a request to be looked at has a first unit. *)
Buffered == /\ Len(raw) <= BufRoom
            /\ pc = "tls" => raw = <<>>
            /\ pc \in {"detect", "parse", "handler"} \cup Responds => raw # <<>>
            /\ pc = "recv" /\ headersDone =>
                  \E p \in 1..Len(raw) : raw[p][2] = asked[raw[p][1]].head

(* Requests still to be looked at come after those that were handled.      *)
Unhandled(p) == p > Len(raw) \/ pc \in {"recv", "detect", "parse"}
NextUp == \A p \in 1..Len(Line) : Unhandled(p) /\ Line[p][2] = 1 =>
              \A i \in 1..Len(handled) : handled[i].to < Line[p][1]

(* What was handled was asked.                                             *)
Known == \A i \in 1..Len(handled) : handled[i].to \in 1..Len(asked)

(* A request that begins the buffer is there as a whole when it is parsed. *)
Whole == /\ pc \in {"detect", "parse"} /\ habits \cap {"hangsUp", "splits"} = {}
         /\ Parses /\ Total(Request) <= BufRoom
         => Len(raw) >= Total(Request)

(* A client that waits is answered request by request: what is left of the *)
(* line is the request after the last answer, from its first unit on, and  *)
(* without TLS all of it is in the buffer when it is looked at.            *)
Underway == {"recv", "detect", "parse", "handler"} \cup Responds
Unanswered(p) == p > Len(raw) \/ pc \in Underway
NextInLine ==
    /\ \A i \in 1..Len(answers) : answers[i].keep
    /\ \A p \in 1..Len(Line) : Unanswered(p) => Line[p][1] = Len(answers) + 1
    /\ pc \in {"recv", "tls"} /\ Line # <<>> => Line[1][2] = 1
    /\ pc = "loop" => out = <<>> \/ out[1][2] = 1
    /\ pc \in {"detect", "parse", "handler"} \cup Responds /\ ~Tls => out = <<>>
Waiting == Promised /\ Open /\ pc # "stream" => NextInLine

HInv == /\ Types /\ Counts /\ Frames /\ Window /\ Habitual /\ Buffered
        /\ Known /\ NextUp /\ Whole /\ HandledInOrder /\ WholeRequest /\ Waiting
-----------------------------------------------------------------------------
(* A buffer that starts with the first unit of a request holds its units   *)
(* in their places, so what the code searches for is where it should be.   *)
Fresh(buf) ==
    /\ buf \in Seq(Unit) /\ buf # <<>> /\ buf[1][2] = 1
    /\ \A p \in 1..Len(buf) : buf[p][1] \in 1..Len(asked) /\ buf[p][2] \in 1..Total(buf[p][1])
    /\ \A p, q \in 1..Len(buf) : p < q => Apart(buf[p], buf[q], q - p)

LEMMA KindOf ==
    ASSUME Types, NEW k \in 1..Len(asked)
    PROVE  /\ asked[k] \in Kinds
           /\ asked[k].head \in Nat \ {0} /\ asked[k].body \in Nat
           /\ asked[k].keep \in BOOLEAN
           /\ Total(k) \in Nat \ {0} /\ Total(k) >= asked[k].head
<1>1. asked[k] \in Kinds /\ Kinds \subseteq KindRecords
    BY StreamAssumption DEF Types
<1>2. asked[k] \in KindRecords
    BY <1>1
<1> QED
    BY <1>1, <1>2 DEF KindRecords, Total

LEMMA FrontUnits ==
    ASSUME Types, NEW buf, Fresh(buf), NEW p \in 1..Len(buf), p <= Total(buf[1][1])
    PROVE  buf[p] = <<buf[1][1], p>>
<1>1. buf[1] \in Unit /\ buf[p] \in Unit /\ 1 \in 1..Len(buf)
    BY DEF Fresh
<1>2. Total(buf[1][1]) \in Nat
    BY <1>1, KindOf DEF Fresh
<1>3. CASE p = 1
    BY <1>1, <1>3 DEF Fresh, Unit
<1>4. CASE p > 1
    <2>1. Apart(buf[1], buf[p], p - 1)
        BY <1>1, <1>4 DEF Fresh
    <2>2. buf[p][1] = buf[1][1] /\ buf[p][2] = p
        BY <2>1, <1>1, <1>2, <1>4 DEF Apart, Fresh, Unit
    <2> QED
        BY <2>2, <1>1 DEF Unit
<1> QED
    BY <1>3, <1>4

LEMMA HeadIs ==
    ASSUME Types, NEW buf, Fresh(buf)
    PROVE  HeadEnd(buf) = IF Len(buf) >= asked[buf[1][1]].head THEN asked[buf[1][1]].head ELSE 0
<1> DEFINE k == buf[1][1]
           S == {p \in DOMAIN buf : buf[p][2] = asked[buf[p][1]].head}
<1>1. /\ DOMAIN buf = 1..Len(buf) /\ Len(buf) \in Nat /\ 1 \in 1..Len(buf)
      /\ k \in 1..Len(asked) /\ asked[k].head \in Nat \ {0} /\ Total(k) \in Nat
      /\ asked[k].head <= Total(k)
    BY KindOf DEF Fresh
<1>2. ASSUME NEW p \in 1..Len(buf), p <= asked[k].head
      PROVE  p \in S <=> p = asked[k].head
    <2>1. buf[p] = <<k, p>>
        BY <1>1, <1>2, FrontUnits
    <2> QED
        BY <2>1, <1>1
<1>3. S \subseteq 1..Len(buf)
    BY <1>1
<1>4. HeadEnd(buf) = FirstOf(S)
    BY DEF HeadEnd
<1> HIDE DEF k, S
<1>5. CASE Len(buf) >= asked[k].head
    <2>1. asked[k].head \in S
        BY <1>1, <1>2, <1>5
    <2>2. \A q \in S : asked[k].head <= q
        BY <1>1, <1>2, <1>3
    <2>3. Least(S) \in S /\ \A q \in S : Least(S) <= q
        BY <2>1, <2>2 DEF Least
    <2>4. ASSUME NEW m \in S, \A q \in S : m <= q
          PROVE  m = asked[k].head
        BY <2>1, <2>2, <2>4, <1>1, <1>3
    <2>5. Least(S) = asked[k].head
        BY <2>3, <2>4
    <2> QED
        BY <1>4, <1>5, <2>1, <2>5 DEF FirstOf, k
<1>6. CASE Len(buf) < asked[k].head
    <2>1. S = {}
        BY <1>1, <1>2, <1>3, <1>6
    <2> QED
        BY <1>1, <1>4, <1>6, <2>1 DEF FirstOf, k
<1> QED
    BY <1>1, <1>5, <1>6

(* What the line is made of, and what a move of its border makes of it.    *)
LEMMA LineIs ==
    ASSUME Types
    PROVE  /\ Line \in Seq(Unit)
           /\ Len(Line) = Len(raw) + Len(out) /\ Len(raw) \in Nat /\ Len(out) \in Nat
           /\ \A p \in 1..Len(raw) : Line[p] = raw[p]
           /\ \A p \in 1..Len(out) : Line[Len(raw) + p] = out[p]
           /\ \A p \in 1..Len(Line) : p > Len(raw) => Line[p] = out[p - Len(raw)]
           /\ \A p \in 1..Len(Line) : Line[p] \in Unit
BY DEF Types, Line

LEMMA BufferFresh ==
    ASSUME Types, Window, NEW buf \in Seq(Unit), buf # <<>>, buf[1][2] = 1,
           Len(buf) <= Len(Line), \A p \in 1..Len(buf) : buf[p] = Line[p]
    PROVE  Fresh(buf)
<1>1. \A p \in 1..Len(buf) : p \in 1..Len(Line)
    BY LineIs
<1>2. \A p \in 1..Len(buf) : buf[p][1] \in 1..Len(asked) /\ buf[p][2] \in 1..Total(buf[p][1])
    BY <1>1 DEF Window, Sent
<1>3. \A p, q \in 1..Len(buf) : p < q => Apart(buf[p], buf[q], q - p)
    BY <1>1 DEF Window, Spaced
<1> QED
    BY <1>2, <1>3 DEF Fresh

LEMMA RawFresh ==
    ASSUME Types, Window, raw # <<>>, Parses
    PROVE  Fresh(raw)
<1>1. raw \in Seq(Unit) /\ raw[1][2] = 1
    BY DEF Parses, Types
<1>2. Len(raw) <= Len(Line) /\ \A p \in 1..Len(raw) : raw[p] = Line[p]
    BY LineIs
<1> QED
    BY <1>1, <1>2, BufferFresh

LEMMA RequestAsked ==
    ASSUME Types, Window, raw # <<>>
    PROVE  Request \in 1..Len(asked) /\ Request \in Nat /\ raw[1] \in Unit /\ raw[1] = Line[1]
<1>1. 1 \in 1..Len(raw) /\ 1 \in 1..Len(Line)
    BY LineIs DEF Types
<1> QED
    BY <1>1, LineIs DEF Request, Window, Sent, Types

LEMMA TakenIs ==
    ASSUME Types, Window, raw # <<>>, Parses
    PROVE  /\ Taken # {} /\ \A units \in Taken : units \in Seq(Unit)
           /\ Len(raw) >= Total(Request) => Taken = {Units(Request)}
<1>1. Fresh(raw) /\ Request \in 1..Len(asked) /\ raw \in Seq(Unit) /\ raw[1][1] = Request
    BY RawFresh, RequestAsked DEF Types, Request
<1>2. /\ asked[Request].head \in Nat \ {0} /\ asked[Request].body \in Nat
      /\ Total(Request) = asked[Request].head + asked[Request].body
    BY <1>1, KindOf DEF Total
<1>3. HeadEnd(raw) = IF Len(raw) >= asked[Request].head THEN asked[Request].head ELSE 0
    BY <1>1, HeadIs
<1>4. CASE Len(raw) < asked[Request].head
    <2>1. Stale \in Unit
        BY DEF Stale, Unit
    <2>2. Append(raw, Stale) \in Seq(Unit)
        BY <1>1, <2>1
    <2>3. Taken = {raw, Append(raw, Stale)} \/ Taken = {raw}
        BY <1>2, <1>3, <1>4 DEF Taken
    <2>4. Len(raw) < Total(Request)
        BY <1>1, <1>2, <1>4
    <2>5. ~(Len(raw) >= Total(Request))
        <3>1. Len(raw) \in Nat /\ Total(Request) \in Nat
            BY <1>1, <1>2
        <3> QED
            BY ONLY <3>1, <2>4
    <2>6. raw \in Seq(Unit)
        BY <1>1
    <2>7. Taken # {} /\ \A units \in Taken : units \in Seq(Unit)
        BY ONLY <2>2, <2>3, <2>6
    <2> QED
        BY ONLY <2>5, <2>7
<1>5. CASE Len(raw) >= asked[Request].head
    <2>1. PICK n : n = IF Total(Request) < Len(raw) THEN Total(Request) ELSE Len(raw)
        OBVIOUS
    <2>2. Taken = {SubSeq(raw, 1, n)}
        BY <1>2, <1>3, <1>5, <2>1 DEF Taken
    <2>3. n \in 0..Len(raw)
        BY <1>1, <1>2, <2>1
    <2>4. SubSeq(raw, 1, n) \in Seq(Unit)
        BY <1>1, <2>3
    <2>5. CASE Len(raw) >= Total(Request)
        <3>1. n = Total(Request)
            BY <1>1, <1>2, <2>1, <2>5
        <3>2. \A p \in 1..n : raw[p] = <<Request, p>>
            BY <1>1, <2>3, <3>1, FrontUnits
        <3>3. SubSeq(raw, 1, n) = [u \in 1..n |-> raw[u]]
            BY <1>1, <2>3
        <3>4. Units(Request) = [u \in 1..n |-> <<Request, u>>]
            BY <1>2, <3>1 DEF Units
        <3> QED
            BY <2>2, <2>4, <3>2, <3>3, <3>4
    <2> QED
        BY <2>2, <2>4, <2>5, <1>1, <1>2
<1> QED
    BY <1>1, <1>2, <1>4, <1>5

(* SSL_read takes some units from the front of the stream, and all of the  *)
(* first request's when it is one record and fits.                         *)
LEMMA TlsReads ==
    ASSUME Types, Buffered, TlsRead
    PROVE  \E n \in 1..Len(out) :
              /\ raw' = SubSeq(out, 1, n)
              /\ out' = SubSeq(out, n + 1, Len(out))
              /\ n <= BufRoom
              /\ raw' \in Seq(Unit) /\ out' \in Seq(Unit) /\ Len(raw') = n
              /\ "splits" \in habits \/ n = BufRoom
                 \/ n = Cardinality({i \in DOMAIN out : out[i][1] = out[1][1]})
<1> DEFINE S == {i \in DOMAIN out : out[i][1] = out[1][1]}
<1>1. out \in Seq(Unit) /\ out # <<>> /\ Len(out) \in Nat \ {0} /\ BufRoom \in Nat \ {0}
    BY StreamAssumption DEF Types, TlsRead
<1>2. IsFiniteSet(1..Len(out)) /\ Cardinality(1..Len(out)) = Len(out)
    BY <1>1, FS_Interval
<1>3. S \subseteq 1..Len(out) /\ 1 \in S
    BY <1>1
<1>4. IsFiniteSet(S) /\ Cardinality(S) \in Nat /\ Cardinality(S) <= Len(out)
    BY <1>2, <1>3, FS_Subset, FS_CardinalityType
<1>5. Cardinality(S) # 0
    BY <1>3, <1>4, FS_EmptySet
<1>6. PICK n \in RecordLength(Cardinality(S)) :
          /\ raw' = SubSeq(out, 1, IF n < BufRoom THEN n ELSE BufRoom)
          /\ out' = SubSeq(out, (IF n < BufRoom THEN n ELSE BufRoom) + 1, Len(out))
    BY DEF TlsRead
<1> HIDE DEF S
<1>7. n \in 1..Cardinality(S) /\ ("splits" \notin habits => n = Cardinality(S))
    BY <1>4, <1>5, <1>6 DEF RecordLength
<1>8. PICK got : got = IF n < BufRoom THEN n ELSE BufRoom
    OBVIOUS
<1>9. /\ got \in 1..Len(out) /\ got <= BufRoom
      /\ "splits" \in habits \/ got = BufRoom \/ got = Cardinality(S)
    BY <1>1, <1>4, <1>7, <1>8
<1>10. raw' = SubSeq(out, 1, got) /\ out' = SubSeq(out, got + 1, Len(out))
    BY <1>6, <1>8
<1>11. raw' \in Seq(Unit) /\ out' \in Seq(Unit) /\ Len(raw') = got
    BY <1>1, <1>9, <1>10
<1> QED
    BY <1>9, <1>10, <1>11 DEF S


(* recv moves the first n units of the stream to the end of the buffer.    *)
LEMMA Receives ==
    ASSUME Types, NEW n \in 1..Len(out), Receive(n)
    PROVE  /\ raw' \in Seq(Unit) /\ out' \in Seq(Unit) /\ raw' # <<>>
           /\ raw'[1] \in Unit /\ Len(raw') = Len(raw) + n
           /\ Line' = Line
<1>1. raw \in Seq(Unit) /\ out \in Seq(Unit) /\ Len(out) \in Nat /\ Len(raw) \in Nat
    BY DEF Types
<1>2. raw' = raw \o SubSeq(out, 1, n) /\ out' = SubSeq(out, n + 1, Len(out))
    BY DEF Receive
<1>3. /\ SubSeq(out, 1, n) \in Seq(Unit) /\ Len(SubSeq(out, 1, n)) = n
      /\ SubSeq(out, n + 1, Len(out)) \in Seq(Unit)
    BY <1>1
<1>4. raw' \in Seq(Unit) /\ out' \in Seq(Unit) /\ Len(raw') = Len(raw) + n
    BY <1>1, <1>2, <1>3
<1>5. SubSeq(out, 1, n) \o SubSeq(out, n + 1, Len(out)) = SubSeq(out, 1, Len(out))
    BY <1>1, ConcatAdjacentSubSeq
<1>6. SubSeq(out, 1, Len(out)) = out
    BY <1>1
<1>7. (raw \o SubSeq(out, 1, n)) \o out' = raw \o (SubSeq(out, 1, n) \o out')
    <2>1. PICK t, u : t = SubSeq(out, 1, n) /\ u = out'
        OBVIOUS
    <2>2. t \in Seq(Unit) /\ u \in Seq(Unit)
        BY <1>3, <1>4, <2>1
    <2>3. raw \in Seq(Unit)
        BY <1>1
    <2>4. (raw \o t) \o u = raw \o (t \o u)
        BY ONLY SMTT(30), <2>2, <2>3, ConcatAssociative
    <2> QED
        BY <2>1, <2>4
<1>8. Line' = Line
    BY <1>2, <1>5, <1>6, <1>7 DEF Line
<1> QED
    BY <1>1, <1>4, <1>8
-----------------------------------------------------------------------------
(* Types, and where a request is counted.                                  *)
LEMMA InitTypes == Init => Types /\ Counts /\ Frames
<1> SUFFICES ASSUME Init PROVE Types /\ Counts /\ Frames
    OBVIOUS
<1>1. habits \in Clients /\ shut \in BOOLEAN /\ pc \in States /\ headersDone \in BOOLEAN
      /\ rcvtimeo \in {"idle", "header"} /\ keep \in BOOLEAN
    BY DEF Init, States, Responds
<1>2. /\ asked = <<>> /\ raw = <<>> /\ out = <<>> /\ handled = <<>> /\ answers = <<>>
      /\ reqCount = 0 /\ MaxRequests \in Nat \ {0} /\ MaxAsked \in Nat \ {0}
    BY StreamAssumption DEF Init
<1>3. /\ asked \in Seq(Kinds) /\ Len(asked) <= MaxAsked /\ raw \in Seq(Unit)
      /\ out \in Seq(Unit) /\ handled \in Seq(Handling) /\ answers \in Seq(Answering)
      /\ reqCount \in 0..MaxRequests /\ reqCount < MaxRequests
    BY <1>2
<1> QED
    BY <1>1, <1>2, <1>3 DEF Init, Types, Counts, Frames, Responds

LEMMA SendTypes ==
    ASSUME Types, NEW k \in Nat, NEW s \in Statuses, NEW b \in BOOLEAN, Send(k, s, b)
    PROVE  answers' \in Seq(Answering)
BY DEF Types, Send, Answering

LEMMA HandledTypes ==
    ASSUME Types, Window, raw # <<>>, Parses, NEW units \in Taken,
           handled' = Append(handled, [to |-> Request, units |-> units])
    PROVE  handled' \in Seq(Handling)
<1>1. [to |-> Request, units |-> units] \in Handling
    BY TakenIs, RequestAsked DEF Handling
<1> QED
    BY <1>1 DEF Types

LEMMA StreamTypes ==
    ASSUME Types, Window, raw # <<>>, Parses, NEW s \in Statuses, Stream(s)
    PROVE  Types'
<1>1. CASE shut /\ pc' = "closing" /\ UNCHANGED <<tryTop, handled, answers>>
    BY <1>1 DEF Types, Stream, clientVars, receiveVars, States
<1>2. CASE Send(Request, s, FALSE)
           /\ (\E units \in Taken : handled' = Append(handled, [to |-> Request, units |-> units]))
           /\ pc' = "stream"
    <2>1. answers' \in Seq(Answering)
        BY <1>2, SendTypes, RequestAsked
    <2>2. handled' \in Seq(Handling)
        BY <1>2, HandledTypes
    <2> QED
        BY <1>2, <2>1, <2>2 DEF Types, Stream, clientVars, receiveVars, States
<1> QED
    BY <1>1, <1>2 DEF Stream

LEMMA StepTypes ==
    ASSUME Types, Counts, Window, Buffered, [Next]_vars
    PROVE  Types'
<1>1. ASSUME NEW kind \in Kinds, Ask(kind) PROVE Types'
    <2>1. kind.head \in Nat /\ kind.body \in Nat
        BY StreamAssumption DEF KindRecords
    <2>2. asked' \in Seq(Kinds) /\ Len(asked') <= MaxAsked
        BY <1>1, StreamAssumption DEF Ask, Types
    <2>3. [u \in 1..(kind.head + kind.body) |-> <<Len(asked) + 1, u>>] \in Seq(Unit)
        <3>1. PICK n, k : n = kind.head + kind.body /\ k = Len(asked) + 1
            OBVIOUS
        <3>2. n \in Nat /\ k \in Nat
            BY <2>1, <3>1 DEF Types
        <3>3. [u \in 1..n |-> <<k, u>>] \in Seq(Unit)
            BY <3>2 DEF Unit
        <3> QED
            BY <3>1, <3>3
    <2>4. out' \in Seq(Unit)
        BY <1>1, <2>3 DEF Ask, Types
    <2> QED
        BY <1>1, <2>2, <2>4 DEF Ask, Types, receiveVars, loopVars
<1>2. CASE HangUp
    <2>1. out' \in Seq(Unit)
        BY <1>2 DEF HangUp, Types
    <2> QED
        BY <1>2, <2>1 DEF HangUp, Types, receiveVars, loopVars
<1>3. CASE \/ Loop \/ LoopEnds \/ RecvEof \/ WsUnrouted \/ StreamEnds \/ TlsEnds
           \/ TlsFails \/ HandlerReturns \/ HandlerThrows \/ Close
    <2>1. CASE Loop \/ Close
        <3>1. raw' \in Seq(Unit)
            <4>1. raw' = <<>> /\ <<>> \in Seq(Unit)
                BY <2>1 DEF Loop, Close
            <4> QED
                BY <4>1
        <3> QED
            BY <2>1, <3>1 DEF Loop, Close, Types, States, clientVars, loopVars
    <2>2. CASE LoopEnds \/ WsUnrouted \/ TlsEnds \/ TlsFails
        BY <2>2 DEF LoopEnds, WsUnrouted, TlsEnds, TlsFails, Types, States,
           clientVars, receiveVars, loopVars
    <2>3. CASE RecvEof
        BY <2>3 DEF RecvEof, Types, States, clientVars, receiveVars, loopVars
    <2>4. CASE StreamEnds \/ HandlerReturns \/ HandlerThrows
        BY <2>4 DEF StreamEnds, HandlerReturns, HandlerThrows, Types, States, Responds,
           clientVars, receiveVars
    <2> QED
        BY <1>3, <2>1, <2>2, <2>3, <2>4
<1>4. ASSUME NEW n \in 1..Len(out), n <= BufRoom - Len(raw), Receive(n) PROVE Types'
    <2>1. raw' \in Seq(Unit) /\ out' \in Seq(Unit) /\ raw' # <<>> /\ raw'[1][1] \in Nat
        BY <1>4, Receives DEF Unit
    <2>2. headersDone' \in BOOLEAN /\ rcvtimeo' \in {"idle", "header"}
        BY <1>4 DEF Receive, HeaderComplete, Types
    <2>3. Refusal(raw') # "none" => Refusal(raw') \in Statuses
        BY DEF Refusal, Statuses
    <2>4. answers' \in Seq(Answering) /\ pc' \in States
        <3>1. CASE Refusal(raw') # "none" /\ Send(raw'[1][1], Refusal(raw'), FALSE) /\ pc' = "closing"
            BY <2>1, <2>3, <3>1, SendTypes DEF States
        <3>2. CASE UNCHANGED answers /\ (pc' = "detect" \/ UNCHANGED pc)
            BY <3>2 DEF Types, States
        <3> QED
            BY <1>4, <3>1, <3>2 DEF Receive
    <2> QED
        BY <1>4, <2>1, <2>2, <2>4 DEF Receive, Types, loopVars
<1>5. CASE RecvTimeout
    <2>1. (IF Line = <<>> THEN 0 ELSE Line[1][1]) \in Nat
        <3>1. Line # <<>> => 1 \in 1..Len(Line)
            BY LineIs
        <3> QED
            BY <3>1, LineIs DEF Unit
    <2>2. answers' \in Seq(Answering)
        BY <1>5, <2>1, SendTypes DEF RecvTimeout, Statuses, Line
    <2> QED
        BY <1>5, <2>2 DEF RecvTimeout, Types, States, clientVars, receiveVars, loopVars
<1>6. CASE TlsRead
    <2>1. raw' \in Seq(Unit) /\ out' \in Seq(Unit)
        BY <1>6, TlsReads
    <2> QED
        BY <1>6, <2>1 DEF TlsRead, Types, States, loopVars
<1>7. CASE ServeSse \/ ServeWs
    <2>1. pc = "detect" /\ Parses /\ (Stream("200") \/ Stream("101"))
        BY <1>7 DEF ServeSse, ServeWs, SseTaken, Routed
    <2> QED
        BY <2>1, StreamTypes DEF Buffered, Statuses
<1>8. CASE ParseFails
    <2>1. answers' \in Seq(Answering)
        BY <1>8, SendTypes, RequestAsked DEF ParseFails, Buffered, Statuses
    <2> QED
        BY <1>8, <2>1 DEF ParseFails, Types, States, clientVars, receiveVars
<1>9. CASE NotFound \/ Dispatch
    <2>1. raw # <<>> /\ Parses /\ keep' = KeepAlive
        BY <1>9 DEF NotFound, Dispatch, Buffered
    <2>2. keep' \in BOOLEAN
        BY <2>1, RequestAsked, KindOf DEF KeepAlive
    <2>3. CASE NotFound
        BY <2>2, <2>3 DEF NotFound, Types, States, Responds, clientVars, receiveVars
    <2>4. CASE Dispatch
        <3>1. PICK units \in Taken :
                  handled' = Append(handled, [to |-> Request, units |-> units])
            BY <2>4 DEF Dispatch
        <3>2. handled' \in Seq(Handling)
            BY <2>1, <3>1, HandledTypes
        <3> QED
            BY <2>2, <2>4, <3>2 DEF Dispatch, Types, States, clientVars, receiveVars
    <2> QED
        BY <1>9, <2>3, <2>4
<1>10. CASE Respond
    <2>1. StatusOf[pc] \in Statuses /\ raw # <<>>
        BY <1>10 DEF Respond, StatusOf, Responds, Statuses, Buffered
    <2>2. answers' \in Seq(Answering)
        BY <1>10, <2>1, SendTypes, RequestAsked DEF Respond, Types
    <2>3. reqCount' \in 0..MaxRequests
        BY <1>10, StreamAssumption DEF Respond, Counts, Types
    <2> QED
        BY <1>10, <2>2, <2>3 DEF Respond, Types, States, clientVars, receiveVars
<1>11. CASE UNCHANGED vars
    BY <1>11 DEF vars, Types
<1>12. CASE BeginArena \/ JsonThrows
    BY <1>12 DEF BeginArena, JsonThrows, Types, States, clientVars, receiveVars, loopVars
<1> QED
    BY <1>1, <1>2, <1>3, <1>4, <1>5, <1>6, <1>7, <1>8, <1>9, <1>10, <1>11, <1>12
       DEF Next, Server, Recv

LEMMA StepCounts ==
    ASSUME Types, Counts, [Next]_vars
    PROVE  Counts'
<1>1. CASE (\E kind \in Kinds : Ask(kind)) \/ HangUp \/ UNCHANGED vars
    BY <1>1 DEF Ask, HangUp, vars, receiveVars, loopVars, Counts, Tls, Responds
<1>2. CASE Loop \/ LoopEnds
    BY <1>2 DEF Loop, LoopEnds, Counts, Tls, Responds, Types, clientVars, receiveVars, loopVars
<1>3. CASE Recv
    BY <1>3 DEF Recv, Receive, Counts, Tls, Responds, loopVars
<1>4. CASE RecvEof \/ RecvTimeout
    BY <1>4 DEF RecvEof, RecvTimeout, Counts, Tls, Responds, clientVars, receiveVars, loopVars
<1>5. CASE TlsRead
    <2>1. pc = "tls" /\ pc' = "detect" /\ UNCHANGED <<habits, reqCount, keep>>
        BY <1>5 DEF TlsRead, loopVars
    <2>2. reqCount < MaxRequests
        BY <2>1, StreamAssumption DEF Counts
    <2> QED
        BY <2>1, <2>2 DEF Counts, Tls, Responds
<1>6. CASE TlsEnds \/ TlsFails \/ WsUnrouted \/ BeginArena \/ ParseFails \/ JsonThrows \/ Close
    BY <1>6 DEF TlsEnds, TlsFails, WsUnrouted, BeginArena, ParseFails, JsonThrows, Close,
       Counts, Tls, Responds, clientVars, receiveVars, loopVars
<1>7. CASE ServeSse \/ ServeWs \/ StreamEnds
    BY <1>7 DEF ServeSse, ServeWs, Stream, StreamEnds, Counts, Tls, Responds,
       clientVars, receiveVars
<1>8. CASE NotFound \/ Dispatch
    <2>1. /\ pc = "parse" /\ pc' \in {"handler"} \cup Responds /\ pc' \notin {"tls", "loop", "recv"}
          /\ keep' = KeepAlive /\ UNCHANGED <<habits, reqCount>>
        BY <1>8 DEF NotFound, Dispatch, Responds, clientVars
    <2>2. ASSUME Tls PROVE ~keep'
        <3>1. ~KeepAlive
            BY <2>2 DEF KeepAlive
        <3> QED
            BY <2>1, <3>1
    <2> QED
        BY <2>1, <2>2 DEF Counts, Tls
<1>10. CASE HandlerReturns \/ HandlerThrows
    BY <1>10 DEF HandlerReturns, HandlerThrows, Counts, Tls, Responds, clientVars, receiveVars
<1>9. CASE Respond
    <2>1. reqCount \in Nat /\ MaxRequests \in Nat \ {0}
        BY StreamAssumption DEF Types
    <2>2. UNCHANGED <<habits, keep>> /\ pc' \in {"loop", "closing"}
        BY <1>9 DEF Respond, clientVars
    <2>3. Tls => reqCount' = 0 /\ pc' = "closing"
        BY <1>9 DEF Respond, Counts
    <2> QED
        BY <2>1, <2>2, <2>3 DEF Counts, Tls, Responds
<1> QED
    BY <1>1, <1>2, <1>3, <1>4, <1>5, <1>6, <1>7, <1>8, <1>9, <1>10 DEF Next, Server

(* Whatever way a request ends, its arena and its frame go with it.        *)
LEMMA StepFrames ==
    ASSUME Frames, [Next]_vars
    PROVE  Frames'
<1>1. CASE (\E kind \in Kinds : Ask(kind)) \/ HangUp \/ UNCHANGED vars
    BY <1>1 DEF Ask, HangUp, vars, receiveVars, loopVars, Frames, Responds
<1>2. CASE Loop \/ LoopEnds \/ RecvEof \/ RecvTimeout
    BY <1>2 DEF Loop, LoopEnds, RecvEof, RecvTimeout, Frames, Responds, loopVars
<1>3. CASE Recv \/ TlsRead \/ TlsEnds \/ TlsFails
    BY <1>3 DEF Recv, Receive, TlsRead, TlsEnds, TlsFails, Frames, Responds, loopVars
<1>4. CASE WsUnrouted \/ JsonThrows \/ Close
    BY <1>4 DEF WsUnrouted, JsonThrows, Close, Frames, Responds, loopVars
<1>5. CASE ServeSse \/ ServeWs \/ StreamEnds
    <2>1. CASE StreamEnds
        BY <2>1 DEF StreamEnds, Frames, Responds
    <2>2. CASE ServeSse \/ ServeWs
        <3>1. /\ pc = "detect" /\ UNCHANGED arena
              /\ \/ pc' = "stream" /\ tryTop' = tryTop + 1
                 \/ pc' = "closing" /\ UNCHANGED tryTop
            BY <2>2 DEF ServeSse, ServeWs, Stream
        <3> QED
            BY <3>1 DEF Frames, Responds
    <2> QED
        BY <1>5, <2>1, <2>2
<1>6. CASE NotFound \/ Dispatch
    BY <1>6 DEF NotFound, Dispatch, Frames, Responds
<1>7. CASE HandlerReturns \/ HandlerThrows \/ Respond
    BY <1>7 DEF HandlerReturns, HandlerThrows, Respond, Frames, Responds
<1>8. CASE BeginArena
    BY <1>8 DEF BeginArena, Frames, Responds
<1>9. CASE ParseFails
    BY <1>9 DEF ParseFails, Frames, Responds
<1> QED
    BY <1>1, <1>2, <1>3, <1>4, <1>5, <1>6, <1>7, <1>8, <1>9 DEF Next, Server

LEMMA InitLine == Init => Line = <<>> /\ Len(Line) = 0
<1>1. Init => raw = <<>> /\ out = <<>> /\ <<>> \o <<>> = <<>> /\ Len(<<>>) = 0
    BY DEF Init
<1> QED
    BY <1>1 DEF Line
-----------------------------------------------------------------------------
(* Every step but a request of the client leaves a piece of the line: what *)
(* begins d units further, up to its end unless the client has ended it.   *)
Moves(d) ==
    /\ UNCHANGED asked
    /\ Len(Line') + d <= Len(Line)
    /\ \A p \in 1..Len(Line') : Line'[p] = Line[p + d]
    /\ ~shut' => ~shut /\ (Len(Line') + d = Len(Line))

Quiet == UNCHANGED <<habits, asked, out, shut, raw>>
Empties == UNCHANGED <<habits, asked, out, shut>> /\ raw' = <<>>
Borders == UNCHANGED <<habits, asked, shut>> /\ Line' = Line

LEMMA StepShape ==
    ASSUME Types, Buffered, [Next]_vars
    PROVE  \/ \E kind \in Kinds : Ask(kind)
           \/ HangUp
           \/ Borders /\ (Recv \/ TlsRead)
           \/ Empties /\ (Loop \/ Close)
           \/ Quiet /\ ~HangUp
<1>1. ASSUME Recv PROVE Borders
    BY <1>1, Receives DEF Recv, Receive, Borders
<1>2. ASSUME TlsRead PROVE Borders
    <2>1. PICK n \in 1..Len(out) : raw' = SubSeq(out, 1, n) /\ out' = SubSeq(out, n + 1, Len(out))
        BY <1>2, TlsReads
    <2>2. out \in Seq(Unit) /\ Len(out) \in Nat
        BY DEF Types
    <2>3. SubSeq(out, 1, n) \o SubSeq(out, n + 1, Len(out)) = SubSeq(out, 1, Len(out))
        BY <2>2, ConcatAdjacentSubSeq
    <2>4. SubSeq(out, 1, Len(out)) = out /\ <<>> \o out = out /\ raw = <<>>
        BY <1>2, <2>2 DEF TlsRead, Buffered
    <2> QED
        BY <1>2, <2>1, <2>3, <2>4 DEF TlsRead, Borders, Line
<1>3. ASSUME Loop \/ Close PROVE Empties
    BY <1>3 DEF Loop, Close, Empties, clientVars
<1>4. CASE HangUp
    BY <1>4
<1>5. ASSUME LoopEnds \/ RecvEof \/ RecvTimeout \/ TlsEnds \/ TlsFails \/ WsUnrouted \/ StreamEnds
      PROVE  Quiet
    BY <1>5 DEF LoopEnds, RecvEof, RecvTimeout, TlsEnds, TlsFails, WsUnrouted, StreamEnds,
       Quiet, clientVars, receiveVars
<1>6. ASSUME ServeSse \/ ServeWs \/ BeginArena \/ ParseFails \/ NotFound \/ JsonThrows \/ Dispatch
             \/ HandlerReturns \/ HandlerThrows \/ Respond
      PROVE  Quiet
    BY <1>6 DEF ServeSse, ServeWs, Stream, BeginArena, ParseFails, NotFound, JsonThrows, Dispatch,
       HandlerReturns, HandlerThrows, Respond, Quiet, clientVars, receiveVars
<1>7. UNCHANGED vars => Quiet
    BY DEF vars, Quiet
<1> QED
    BY <1>1, <1>2, <1>3, <1>4, <1>5, <1>6, <1>7 DEF Next, Server

LEMMA NextLine ==
    ASSUME Types'
    PROVE  Line' \in Seq(Unit) /\ Len(Line') \in Nat
BY DEF Types, Line

LEMMA StepMoves ==
    ASSUME Types, Types', Buffered, [Next]_vars
    PROVE  \/ \E kind \in Kinds : Ask(kind)
           \/ Moves(0) /\ ~(Loop \/ Close)
           \/ Moves(Len(raw)) /\ Empties /\ (Loop \/ Close)
<1> USE LineIs
<1>1. ASSUME HangUp PROVE Moves(0) /\ ~(Loop \/ Close)
    <2>1. PICK n \in 0..Len(out) : out' = SubSeq(out, 1, n)
        BY <1>1 DEF HangUp
    <2>2. Len(out') = n /\ \A p \in 1..n : out'[p] = out[p]
        <3>1. out \in Seq(Unit)
            BY DEF Types
        <3>2. n \in Nat /\ n <= Len(out) /\ Len(out) \in Nat
            BY ONLY <3>1
        <3> QED
            BY ONLY <2>1, <3>1, <3>2
    <2>3. raw' = raw /\ asked' = asked /\ shut' /\ ~shut /\ pc' = pc
        BY <1>1 DEF HangUp, receiveVars
    <2>4. Line' = raw \o out'
        BY <2>3 DEF Line
    <2>5. /\ raw \in Seq(Unit) /\ out \in Seq(Unit) /\ out' \in Seq(Unit) /\ n <= Len(out)
          /\ n \in Nat /\ Len(raw) \in Nat /\ Len(out) \in Nat /\ Len(Line) = Len(raw) + Len(out)
        BY DEF Types
    <2>7. Len(Line') = Len(raw) + n /\ Len(raw) + n <= Len(Line)
        <3>1. Len(raw \o out') = Len(raw) + Len(out')
            BY ONLY <2>5
        <3> QED
            BY ONLY <2>2, <2>4, <2>5, <3>1
    <2>8. ASSUME NEW p \in 1..(Len(raw) + n) PROVE Line'[p] = Line[p]
        <3>1. CASE p <= Len(raw)
            BY <2>2, <2>4, <2>5, <2>8, <3>1 DEF Line
        <3>2. CASE p > Len(raw)
            <4>1. p - Len(raw) \in 1..n
                BY <2>5, <2>8, <3>2
            <4>2. Line'[p] = out'[p - Len(raw)] /\ Line[p] = out[p - Len(raw)]
                BY <2>2, <2>4, <2>5, <2>8, <3>2, <4>1 DEF Line
            <4> QED
                BY <2>2, <4>1, <4>2
        <3> QED
            BY <2>5, <2>8, <3>1, <3>2
    <2>6. ~(Loop \/ Close)
        BY <2>3 DEF Loop, Close
    <2> QED
        BY <2>3, <2>6, <2>7, <2>8 DEF Moves
<1>2. ASSUME Borders PROVE Moves(0)
    BY <1>2 DEF Borders, Moves
<1>3. ASSUME Quiet PROVE Moves(0)
    <2>1. Line' = Line
        BY <1>3 DEF Quiet, Line
    <2> QED
        BY <1>3, <2>1 DEF Quiet, Moves
<1>4. ASSUME Empties PROVE Moves(Len(raw))
    <2>1. Line' = out
        BY <1>4 DEF Empties, Line, Types
    <2> QED
        BY <1>4, <2>1 DEF Empties, Moves
<1>5. Recv \/ TlsRead => ~(Loop \/ Close)
    BY DEF Recv, Receive, TlsRead, Loop, Close
<1>6. (Loop \/ Close) /\ [Next]_vars => Empties
    BY DEF Loop, Close, Empties, clientVars
<1> QED
    BY <1>1, <1>2, <1>3, <1>4, <1>5, <1>6, StepShape

(* A request is added to the end of the line, whole.                       *)
LEMMA Asks ==
    ASSUME Types, NEW kind \in Kinds, Ask(kind), NEW k, NEW n,
           k = Len(asked) + 1, n = kind.head + kind.body
    PROVE  /\ k \in Nat \ {0} /\ n \in Nat \ {0}
           /\ Len(asked') = k /\ Total(k)' = n
           /\ \A i \in 1..Len(asked) : asked'[i] = asked[i] /\ Total(i)' = Total(i)
           /\ Len(Line') = Len(Line) + n
           /\ \A p \in 1..Len(Line) : Line'[p] = Line[p]
           /\ \A u \in 1..n : Line'[Len(Line) + u] = <<k, u>>
           /\ raw' = raw
<1>1. k = Len(asked) + 1 /\ n = kind.head + kind.body
    OBVIOUS
<1>2. k \in Nat \ {0} /\ n \in Nat \ {0} /\ asked \in Seq(Kinds)
    <2>1. kind.head \in Nat \ {0} /\ kind.body \in Nat
        BY StreamAssumption DEF KindRecords
    <2>2. asked \in Seq(Kinds) /\ Len(asked) \in Nat
        BY DEF Types
    <2> QED
        BY <1>1, <2>1, <2>2
<1>3. /\ asked' = Append(asked, kind) /\ out' = out \o [u \in 1..n |-> <<k, u>>] /\ raw' = raw
    BY <1>1 DEF Ask, receiveVars
<1>4. /\ Len(asked') = k /\ asked'[k] = kind
      /\ \A i \in 1..Len(asked) : asked'[i] = asked[i]
    BY <1>1, <1>2, <1>3
<1>5. Total(k)' = n /\ \A i \in 1..Len(asked) : Total(i)' = Total(i)
    BY <1>1, <1>4 DEF Total
<1>6. [u \in 1..n |-> <<k, u>>] \in Seq(Unit) /\ Len([u \in 1..n |-> <<k, u>>]) = n
    BY <1>2 DEF Unit
<1>7. Line' = Line \o [u \in 1..n |-> <<k, u>>]
    <2>1. PICK t : t = [u \in 1..n |-> <<k, u>>]
        OBVIOUS
    <2>2. raw \in Seq(Unit) /\ out \in Seq(Unit) /\ t \in Seq(Unit)
        BY <1>6, <2>1 DEF Types
    <2>3. (raw \o out) \o t = raw \o (out \o t)
        BY ONLY SMTT(30), <2>2, ConcatAssociative
    <2> QED
        BY <1>3, <2>1, <2>3 DEF Line
<1>8. /\ Len(Line') = Len(Line) + n
      /\ \A p \in 1..Len(Line) : Line'[p] = Line[p]
      /\ \A u \in 1..n : Line'[Len(Line) + u] = <<k, u>>
    BY <1>2, <1>6, <1>7, LineIs
<1> QED
    BY <1>1, <1>2, <1>3, <1>4, <1>5, <1>8, KindOf DEF Types

LEMMA StepWindow ==
    ASSUME Types, Types', Buffered, Window, [Next]_vars
    PROVE  Window'
<1>00. Len(Line) \in Nat /\ Len(Line') \in Nat
    BY LineIs, NextLine
<1> USE <1>00
<1>0. Len(asked) \in Nat /\ \A k \in 1..Len(asked) : Total(k) \in Nat \ {0}
    <2>1. Len(asked) \in Nat
        BY DEF Types
    <2> QED
        BY <2>1, KindOf
<1>1. ASSUME NEW kind \in Kinds, Ask(kind) PROVE Window'
    <2>1. PICK k, n : k = Len(asked) + 1 /\ n = kind.head + kind.body
        OBVIOUS
    <2>2. /\ k \in Nat \ {0} /\ n \in Nat \ {0} /\ Len(asked') = k /\ Total(k)' = n
          /\ \A i \in 1..Len(asked) : Total(i)' = Total(i)
          /\ Len(Line') = Len(Line) + n
          /\ \A p \in 1..Len(Line) : Line'[p] = Line[p]
          /\ \A u \in 1..n : Line'[Len(Line) + u] = <<k, u>>
        BY <1>0, <1>1, <2>1, Asks
    <2>3. \A p \in (Len(Line) + 1)..(Len(Line) + n) : Line'[p] = <<k, p - Len(Line)>>
        BY <2>2
    <2>4. ASSUME NEW p \in 1..Len(Line')
          PROVE  Line'[p][1] \in 1..Len(asked') /\ Line'[p][2] \in 1..Total(Line[p][1])'
        <3>1. CASE p <= Len(Line)
            <4>1. p \in 1..Len(Line) /\ Line'[p] = Line[p]
                BY <2>2, <2>4, <3>1
            <4>2. PICK i \in 1..Len(asked) : i = Line[p][1] /\ Line[p][2] \in 1..Total(i)
                BY <4>1 DEF Window, Sent
            <4>3. i = Line'[p][1] /\ Line'[p][2] \in 1..Total(i)' /\ i \in 1..k
                BY <1>0, <2>1, <2>2, <4>1, <4>2
            <4> QED
                BY <2>2, <4>3
        <3>2. CASE p > Len(Line)
            <4>1. Line'[p] = <<k, p - Len(Line)>> /\ p - Len(Line) \in 1..n
                BY <2>2, <2>3, <2>4, <3>2
            <4> QED
                BY <2>2, <4>1
        <3> QED
            BY <2>4, <3>1, <3>2
    <2>5. ~shut /\ shut' = shut
        BY <1>1 DEF Ask
    <2>6. Ended'
        BY <2>2, <2>3 DEF Ended
    <2>7. ASSUME NEW p \in 1..Len(Line'), NEW q \in 1..Len(Line'), p < q
          PROVE  Apart(Line[p], Line[q], q - p)'
        <3>1. CASE q <= Len(Line)
            <4>0. p \in 1..Len(Line) /\ q \in 1..Len(Line)
                BY <2>7, <3>1
            <4>1. Apart(Line[p], Line[q], q - p) /\ Line'[p] = Line[p] /\ Line'[q] = Line[q]
                BY <2>2, <2>7, <4>0 DEF Window, Spaced
            <4>2. PICK i \in 1..Len(asked) : i = Line[p][1]
                BY <4>0 DEF Window, Sent
            <4> QED
                BY <2>2, <4>1, <4>2 DEF Apart
        <3>2. CASE p > Len(Line)
            <4>1. Line'[p] = <<k, p - Len(Line)>> /\ Line'[q] = <<k, q - Len(Line)>>
                BY <2>2, <2>3, <2>7, <3>2
            <4>2. q - Len(Line) = (p - Len(Line)) + (q - p)
                BY <2>7
            <4> QED
                BY <4>1, <4>2 DEF Apart
        <3>3. CASE p <= Len(Line) /\ q > Len(Line)
            <4>1. Line'[p] = Line[p] /\ Line'[q] = <<k, q - Len(Line)>>
                BY <2>2, <2>3, <2>7, <3>3
            <4>2. Line[p][1] \in 1..Len(asked) /\ Line[p][2] \in 1..Total(Line[p][1])
                BY <2>2, <2>7, <3>3 DEF Window, Sent
            <4>3. Line[p][2] + (Len(Line) - p) >= Total(Line[p][1])
                <5>1. Line[Len(Line)] = <<Len(asked), Total(Len(asked))>>
                    BY <2>5, <2>7, <3>3 DEF Window, Ended
                <5>2. CASE p = Len(Line)
                    BY <1>0, <5>1, <5>2, <4>2
                <5>3. CASE p < Len(Line)
                    <6>1. Apart(Line[p], Line[Len(Line)], Len(Line) - p)
                        BY <5>3, <2>7 DEF Window, Spaced
                    <6> QED
                        BY <1>0, <6>1, <5>1, <4>2, <5>3, <2>7 DEF Apart
                <5> QED
                    BY <5>2, <5>3, <3>3, <2>7
            <4>4. PICK i \in 1..Len(asked) : i = Line[p][1]
                BY <4>2
            <4>5. Total(i)' = Total(i) /\ Total(i) \in Nat /\ Line'[p][1] = i
                BY <1>0, <2>2, <4>1, <4>4
            <4>6. Line'[q][1] > i /\ Line'[p][2] + (q - p) > Total(i)
                <5>1. /\ Line'[q][1] = k /\ k > i /\ Line'[p][2] = Line[p][2] /\ Line[p][2] \in Nat
                      /\ Line[p][2] + (Len(Line) - p) >= Total(i)
                    BY SMTT(30), <1>0, <2>1, <4>1, <4>2, <4>3, <4>4
                <5> QED
                    BY SMTT(30), <1>0, <2>7, <3>3, <4>4, <5>1
            <4> QED
                BY <4>5, <4>6 DEF Apart
        <3> QED
            BY <2>2, <2>7, <3>1, <3>2, <3>3
    <2> QED
        BY <2>4, <2>6, <2>7 DEF Window, Sent, Spaced
<1>2. ASSUME NEW d \in Nat, Moves(d) PROVE Window'
    <2>1. \A p \in 1..Len(Line') : p + d \in 1..Len(Line) /\ Line'[p] = Line[p + d]
        BY <1>2 DEF Moves
    <2>2. asked' = asked /\ \A k : Total(k)' = Total(k)
        BY <1>2 DEF Moves, Total
    <2>3. Sent'
        BY <2>1, <2>2 DEF Sent, Window
    <2>4. ASSUME NEW p \in 1..Len(Line'), NEW q \in 1..Len(Line'), p < q
          PROVE  Apart(Line[p], Line[q], q - p)'
        <3>1. Apart(Line[p + d], Line[q + d], (q + d) - (p + d))
            BY <2>1, <2>4 DEF Window, Spaced
        <3>2. (q + d) - (p + d) = q - p
            BY <2>4
        <3> QED
            BY <2>1, <2>2, <2>4, <3>1, <3>2 DEF Apart
    <2>5. Ended'
        <3>1. SUFFICES ASSUME ~shut', Line' # <<>>
              PROVE  Line'[Len(Line')] = <<Len(asked), Total(Len(asked))>>
            BY <2>2 DEF Ended
        <3>2. ~shut /\ Len(Line') + d = Len(Line) /\ Len(Line') \in 1..Len(Line')
            BY <1>2, <3>1 DEF Moves
        <3>3. Line # <<>>
            BY <3>2
        <3>4. Line[Len(Line)] = <<Len(asked), Total(Len(asked))>>
            BY <3>2, <3>3 DEF Window, Ended
        <3> QED
            BY <2>1, <3>2, <3>4
    <2> QED
        BY <2>3, <2>4, <2>5 DEF Window, Spaced
<1> QED
    BY <1>1, <1>2, StepMoves

LEMMA StepHabitual ==
    ASSUME Types, Buffered, Habitual, [Next]_vars
    PROVE  Habitual'
<1>1. ASSUME NEW kind \in Kinds, Ask(kind) PROVE Habitual'
    <2>1. PICK k, n : k = Len(asked) + 1 /\ n = kind.head + kind.body
        OBVIOUS
    <2>2. Len(asked) \in Nat /\ UNCHANGED <<habits, shut>>
        BY <1>1 DEF Ask, Types
    <2>3. "floods" \in habits \/ n <= BufRoom
        BY <1>1, <2>1 DEF Ask
    <2>4. Len(asked') = k /\ Total(k)' = n /\ \A i \in 1..Len(asked) : Total(i)' = Total(i)
        BY <1>1, <2>1, Asks
    <2> QED
        BY <2>1, <2>2, <2>3, <2>4 DEF Habitual
<1>2. ASSUME UNCHANGED <<habits, asked>>, shut' = shut \/ HangUp PROVE Habitual'
    BY <1>2 DEF Habitual, HangUp, Total
<1>3. HangUp => UNCHANGED <<habits, asked>>
    BY DEF HangUp
<1> QED
    BY <1>1, <1>2, <1>3, StepShape DEF Borders, Empties, Quiet

LEMMA StepBuffered ==
    ASSUME Types, Types', Window, Buffered, [Next]_vars
    PROVE  Buffered'
<1>1. ASSUME NEW kind \in Kinds, Ask(kind) PROVE Buffered'
    <2>1. UNCHANGED <<raw, pc, headersDone>> /\ \A i \in 1..Len(asked) : asked'[i] = asked[i]
        BY <1>1, Asks DEF Ask, receiveVars
    <2>2. \A p \in 1..Len(raw) : raw[p][1] \in 1..Len(asked)
        BY LineIs DEF Window, Sent
    <2> QED
        BY <2>1, <2>2 DEF Buffered
<1>2. ASSUME NEW n \in 1..Len(out), n <= BufRoom - Len(raw), Receive(n) PROVE Buffered'
    <2>1. /\ raw' \in Seq(Unit) /\ raw' # <<>> /\ Len(raw') = Len(raw) + n
          /\ Line' = Line /\ asked' = asked /\ pc' \in {"closing", "detect", "recv"}
        BY <1>2, Receives DEF Receive
    <2>2. Len(raw') <= BufRoom
        <3>1. Len(raw) \in Nat /\ n \in Nat /\ BufRoom \in Nat /\ n <= BufRoom - Len(raw)
            BY SMTT(30), <1>2, StreamAssumption DEF Types
        <3> QED
            BY <2>1, <3>1
    <2>3. ASSUME headersDone'
          PROVE  \E p \in 1..Len(raw') : raw'[p][2] = asked[raw'[p][1]].head
        <3>1. CASE pc = "recv" /\ headersDone
            <4>1. PICK p \in 1..Len(raw) : raw[p][2] = asked[raw[p][1]].head
                BY <3>1 DEF Buffered
            <4>2. p \in 1..Len(raw') /\ raw'[p] = raw[p]
                BY <1>2, <2>1 DEF Receive, Types
            <4> QED
                BY <4>1, <4>2
        <3>2. CASE HeadEnd(raw') > 0
            <4>1. {p \in DOMAIN raw' : raw'[p][2] = asked[raw'[p][1]].head} # {}
                BY <3>2 DEF HeadEnd, FirstOf
            <4> QED
                BY <2>1, <4>1
        <3> QED
            BY <1>2, <2>3, <3>1, <3>2 DEF Receive, HeaderComplete
    <2> QED
        BY <2>1, <2>2, <2>3 DEF Buffered, Responds
<1>3. ASSUME TlsRead PROVE Buffered'
    <2>1. /\ raw' \in Seq(Unit) /\ Len(raw') <= BufRoom /\ Len(raw') \in Nat \ {0}
          /\ pc' = "detect"
        <3>1. PICK n \in 1..Len(out) : n <= BufRoom /\ raw' \in Seq(Unit) /\ Len(raw') = n
            BY <1>3, TlsReads
        <3> QED
            BY <1>3, <3>1 DEF TlsRead
    <2>2. raw' # <<>>
        BY <2>1
    <2> QED
        BY <2>1, <2>2 DEF Buffered, Responds
<1>4. ASSUME Loop \/ Close PROVE Buffered'
    <2>1. raw' = <<>> /\ (pc' = "closed" \/ (pc' = "recv" /\ ~headersDone'))
        BY <1>4 DEF Loop, Close
    <2>2. Len(<<>>) <= BufRoom
        BY StreamAssumption
    <2> QED
        BY <2>1, <2>2 DEF Buffered, Responds
<1>5. ASSUME UNCHANGED <<asked, raw>>, pc' \in {"stream", "closing", "closed", "loop", "exited"}
      PROVE  Buffered'
    BY <1>5 DEF Buffered, Responds
<1>6. ASSUME UNCHANGED <<asked, raw>>, pc' \in {"detect", "parse", "handler"} \cup Responds, raw # <<>>
      PROVE  Buffered'
    BY <1>6 DEF Buffered, Responds
<1>7. ASSUME UNCHANGED <<asked, raw, pc, headersDone>> PROVE Buffered'
    BY <1>7 DEF Buffered
<1>8. HangUp \/ UNCHANGED vars => UNCHANGED <<asked, raw, pc, headersDone>>
    BY DEF HangUp, vars, receiveVars
<1>9. RecvEof => /\ UNCHANGED <<asked, raw>>
                 /\ pc' = "closing" \/ (pc' = "detect" /\ raw # <<>>)
    BY DEF RecvEof, clientVars, receiveVars
<1>10. LoopEnds \/ RecvTimeout \/ TlsEnds \/ TlsFails \/ WsUnrouted \/ StreamEnds \/ ParseFails
       \/ JsonThrows \/ ServeSse \/ ServeWs \/ Respond
       => UNCHANGED <<asked, raw>> /\ pc' \in {"stream", "closing", "loop", "exited"}
    BY DEF LoopEnds, RecvTimeout, TlsEnds, TlsFails, WsUnrouted, StreamEnds, ParseFails,
       JsonThrows, ServeSse, ServeWs, Stream, Respond, clientVars, receiveVars
<1>11. BeginArena \/ NotFound \/ Dispatch \/ HandlerReturns \/ HandlerThrows
       => UNCHANGED <<asked, raw>> /\ pc' \in {"parse", "handler"} \cup Responds /\ raw # <<>>
    BY DEF BeginArena, NotFound, Dispatch, HandlerReturns, HandlerThrows, Buffered, Responds,
       clientVars, receiveVars
<1> QED
    BY <1>1, <1>2, <1>3, <1>4, <1>5, <1>6, <1>7, <1>8, <1>9, <1>10, <1>11
       DEF Next, Server, Recv
-----------------------------------------------------------------------------
(* What a step gives to a handler: nothing, or the request of the buffer.  *)
Hands == /\ pc \in {"detect", "parse"} /\ Parses /\ pc' \in {"handler", "stream"}
         /\ \E units \in Taken : handled' = Append(handled, [to |-> Request, units |-> units])
         /\ UNCHANGED <<habits, asked, out, shut, raw>>

LEMMA StepHands ==
    ASSUME [Next]_vars
    PROVE  Hands \/ UNCHANGED handled
<1>1. ASSUME ServeSse \/ ServeWs PROVE Hands \/ UNCHANGED handled
    <2>1. pc = "detect" /\ Routed /\ (Stream("200") \/ Stream("101"))
        BY <1>1 DEF ServeSse, ServeWs, SseTaken
    <2> QED
        BY <2>1 DEF Stream, Routed, Hands, clientVars, receiveVars
<1>2. Dispatch => Hands
    BY DEF Dispatch, Hands, clientVars, receiveVars
<1>3. ASSUME (\E kind \in Kinds : Ask(kind)) \/ HangUp \/ UNCHANGED vars \/ Recv \/ TlsRead
             \/ Loop \/ Close
      PROVE  UNCHANGED handled
    BY <1>3 DEF Ask, HangUp, vars, Recv, Receive, TlsRead, Loop, Close
<1>4. ASSUME LoopEnds \/ RecvEof \/ RecvTimeout \/ TlsEnds \/ TlsFails \/ WsUnrouted \/ StreamEnds
             \/ BeginArena \/ ParseFails \/ NotFound \/ JsonThrows \/ HandlerReturns
             \/ HandlerThrows \/ Respond
      PROVE  UNCHANGED handled
    BY <1>4 DEF LoopEnds, RecvEof, RecvTimeout, TlsEnds, TlsFails, WsUnrouted, StreamEnds,
       BeginArena, ParseFails, NotFound, JsonThrows, HandlerReturns, HandlerThrows, Respond
<1> QED
    BY <1>1, <1>2, <1>3, <1>4 DEF Next, Server

(* The buffer is looked at only from a state in which it was being read.   *)
LEMMA StepReading ==
    ASSUME Buffered, [Next]_vars, pc' \in {"recv", "detect", "parse"}
    PROVE  pc \in {"recv", "detect", "parse"} \/ raw = <<>> \/ Loop
<1>1. (\E kind \in Kinds : Ask(kind)) \/ HangUp \/ UNCHANGED vars => UNCHANGED pc
    BY DEF Ask, HangUp, vars
<1>2. Recv \/ RecvEof \/ BeginArena => pc \in {"recv", "detect"}
    BY DEF Recv, Receive, RecvEof, BeginArena
<1>3. TlsRead => raw = <<>>
    BY DEF TlsRead, Buffered
<1>4. ~(LoopEnds \/ RecvTimeout \/ TlsEnds \/ TlsFails \/ WsUnrouted \/ StreamEnds \/ ParseFails
        \/ ServeSse \/ ServeWs \/ Close)
    BY DEF LoopEnds, RecvTimeout, TlsEnds, TlsFails, WsUnrouted, StreamEnds, ParseFails,
       ServeSse, ServeWs, Stream, Close
<1>5. ~(NotFound \/ JsonThrows \/ Dispatch \/ HandlerReturns \/ HandlerThrows \/ Respond)
    BY DEF NotFound, JsonThrows, Dispatch, HandlerReturns, HandlerThrows, Respond, Responds
<1> QED
    BY <1>1, <1>2, <1>3, <1>4, <1>5 DEF Next, Server

LEMMA StepGrows ==
    ASSUME Types, Types', Buffered, [Next]_vars
    PROVE  Len(raw') >= Len(raw) \/ Loop \/ Close
<1>1. Len(raw) \in Nat /\ Len(raw') \in Nat
    BY DEF Types
<1>2. ASSUME raw' = raw PROVE Len(raw') >= Len(raw)
    BY <1>1, <1>2
<1>3. ASSUME Recv PROVE Len(raw') >= Len(raw)
    <2>1. PICK n \in 1..Len(out) : Receive(n)
        BY <1>3 DEF Recv
    <2>2. Len(raw') = Len(raw) + n /\ n \in Nat
        BY <2>1, Receives
    <2> QED
        BY <1>1, <2>2
<1>4. ASSUME TlsRead PROVE Len(raw') >= Len(raw)
    <2>1. Len(raw) = 0
        BY <1>4 DEF TlsRead, Buffered
    <2> QED
        BY <1>1, <2>1
<1>5. HangUp \/ Quiet \/ (\E kind \in Kinds : Ask(kind)) => raw' = raw
    BY DEF HangUp, Quiet, Ask, receiveVars
<1> QED
    BY <1>2, <1>3, <1>4, <1>5, StepShape

LEMMA StepKnown ==
    ASSUME Types, Types', Window, Buffered, Known, [Next]_vars
    PROVE  Known'
<1>1. handled \in Seq(Handling) /\ Len(asked) \in Nat
    BY DEF Types
<1>2. CASE Hands
    <2>1. Request \in 1..Len(asked) /\ UNCHANGED asked
        BY <1>2, RequestAsked DEF Hands, Buffered
    <2>2. PICK units : handled' = Append(handled, [to |-> Request, units |-> units])
        BY <1>2 DEF Hands
    <2> QED
        BY <1>1, <2>1, <2>2 DEF Known
<1>3. CASE UNCHANGED handled
    <2>1. ASSUME NEW kind \in Kinds, Ask(kind) PROVE Len(asked') = Len(asked) + 1
        BY <2>1 DEF Ask, Types
    <2>2. Len(asked') = Len(asked) \/ Len(asked') = Len(asked) + 1
        BY <2>1, StepMoves DEF Moves
    <2> QED
        BY <1>1, <1>3, <2>2 DEF Known
<1> QED
    BY <1>2, <1>3, StepHands

(* What is handed to a handler comes before what is still to be looked at. *)
LEMMA StepNextUp ==
    ASSUME Types, Types', Window, Buffered, Known, NextUp, [Next]_vars
    PROVE  NextUp'
<1>1. /\ handled \in Seq(Handling) /\ Len(handled) \in Nat /\ Len(asked) \in Nat
      /\ Len(raw) \in Nat /\ Len(raw') \in Nat /\ Len(Line) \in Nat /\ Len(Line') \in Nat
    BY LineIs, NextLine DEF Types
<1>2. ASSUME NEW p \in 1..Len(Line), Unhandled(p), Line[p][2] = 1, NEW i \in 1..Len(handled)
      PROVE  handled[i].to < Line[p][1]
    BY <1>2 DEF NextUp
<1>3. ASSUME NEW kind \in Kinds, Ask(kind) PROVE NextUp'
    <2>1. PICK k, n : k = Len(asked) + 1 /\ n = kind.head + kind.body
        OBVIOUS
    <2>2. UNCHANGED <<raw, pc, handled>>
        BY <1>3 DEF Ask, receiveVars
    <2>3. /\ k \in Nat \ {0} /\ n \in Nat \ {0}
          /\ Len(Line') = Len(Line) + n
          /\ \A p \in 1..Len(Line) : Line'[p] = Line[p]
          /\ \A u \in 1..n : Line'[Len(Line) + u] = <<k, u>>
        BY <1>3, <2>1, Asks
    <2>4. ASSUME NEW p \in 1..Len(Line'), Unhandled(p)', Line'[p][2] = 1,
                 NEW i \in 1..Len(handled')
          PROVE  handled'[i].to < Line'[p][1]
        <3>1. CASE p <= Len(Line)
            BY <1>2, <2>2, <2>3, <2>4, <3>1 DEF Unhandled
        <3>2. CASE p > Len(Line)
            <4>0. p - Len(Line) \in 1..n
                BY <1>1, <2>3, <2>4, <3>2
            <4>1. PICK u \in 1..n : p = Len(Line) + u
                <5>1. PICK u : u = p - Len(Line)
                    OBVIOUS
                <5>2. u \in 1..n /\ p = Len(Line) + u
                    BY <1>1, <2>4, <4>0, <5>1
                <5> QED
                    BY <5>2
            <4>2. Line'[p][1] = k
                <5>1. Line'[p] = <<k, u>>
                    BY <2>3, <4>1
                <5> QED
                    BY <5>1
            <4>3. handled'[i].to \in 1..Len(asked)
                BY <2>2, <2>4 DEF Known
            <4> QED
                BY <1>1, <2>1, <4>2, <4>3
        <3> QED
            BY <1>1, <2>4, <3>1, <3>2
    <2> QED
        BY <2>4 DEF NextUp
<1>4. ASSUME Moves(0), ~(Loop \/ Close), NEW p \in 1..Len(Line'), Unhandled(p)', Line'[p][2] = 1,
             NEW i \in 1..Len(handled')
      PROVE  handled'[i].to < Line'[p][1]
    <2>1. p \in 1..Len(Line) /\ Line'[p] = Line[p]
        BY <1>1, <1>4 DEF Moves
    <2>2. Unhandled(p)
        <3>1. CASE p > Len(raw')
            BY <1>1, <1>4, <3>1, StepGrows DEF Unhandled
        <3>2. CASE pc' \in {"recv", "detect", "parse"}
            <4>1. CASE raw = <<>>
                BY <1>1, <4>1 DEF Unhandled
            <4> QED
                BY <1>4, <3>2, <4>1, StepReading DEF Unhandled
        <3> QED
            BY <1>4, <3>1, <3>2 DEF Unhandled
    <2>3. CASE UNCHANGED handled
        BY <1>2, <1>4, <2>1, <2>2, <2>3
    <2>4. CASE Hands
        <3>1. p > Len(raw) /\ raw # <<>>
            BY <1>4, <2>4 DEF Hands, Unhandled, Buffered
        <3>2. raw[1] = Line[1] /\ Line[1][2] = 1 /\ Request = Line[1][1] /\ 1 \in 1..Len(Line) /\ p > 1
            BY SMTT(30), <1>1, <2>1, <2>4, <3>1, RequestAsked DEF Hands, Parses, Request, Types
        <3>3. Apart(Line[1], Line[p], p - 1)
            BY <2>1, <3>2 DEF Window, Spaced
        <3>4. Line[p][1] > Request
            BY <1>4, <2>1, <3>2, <3>3 DEF Apart
        <3>5. /\ i = Len(handled) + 1 => handled'[i].to = Request
              /\ i # Len(handled) + 1 => i \in 1..Len(handled) /\ handled'[i] = handled[i]
            <4>1. PICK units : handled' = Append(handled, [to |-> Request, units |-> units])
                BY <2>4 DEF Hands
            <4> QED
                BY <1>1, <1>4, <4>1
        <3> QED
            BY <1>2, <2>1, <2>2, <1>4, <3>4, <3>5
    <2> QED
        BY <2>3, <2>4, StepHands
<1>5. ASSUME Moves(Len(raw)), Empties, Loop \/ Close, NEW p \in 1..Len(Line'), Line'[p][2] = 1,
             NEW i \in 1..Len(handled')
      PROVE  handled'[i].to < Line'[p][1]
    <2>1. p + Len(raw) \in 1..Len(Line) /\ Line'[p] = Line[p + Len(raw)]
        BY <1>1, <1>5 DEF Moves
    <2>2. UNCHANGED handled /\ Unhandled(p + Len(raw))
        BY <1>1, <1>5 DEF Loop, Close, Unhandled
    <2> QED
        BY <1>2, <1>5, <2>1, <2>2
<1>6. CASE Moves(0) /\ ~(Loop \/ Close)
    BY <1>4, <1>6 DEF NextUp
<1>7. CASE Moves(Len(raw)) /\ Empties /\ (Loop \/ Close)
    BY <1>5, <1>7 DEF NextUp
<1> QED
    BY <1>3, <1>6, <1>7, StepMoves

LEMMA StepInOrder ==
    ASSUME Types, Window, Buffered, NextUp, HandledInOrder, [Next]_vars
    PROVE  HandledInOrder'
<1>1. handled \in Seq(Handling) /\ Len(handled) \in Nat
    BY DEF Types
<1>2. CASE Hands
    <2>1. Request = Line[1][1] /\ Line[1][2] = 1 /\ 1 \in 1..Len(Line) /\ Unhandled(1)
        <3>1. raw # <<>>
            BY <1>2 DEF Hands, Buffered
        <3> QED
            BY <1>2, <3>1, RequestAsked, LineIs DEF Hands, Parses, Request, Unhandled, Types
    <2>2. \A i \in 1..Len(handled) : handled[i].to < Request
        BY <2>1 DEF NextUp
    <2>3. /\ DOMAIN handled' = 1..(Len(handled) + 1) /\ DOMAIN handled = 1..Len(handled)
          /\ handled'[Len(handled) + 1].to = Request
          /\ \A i \in 1..Len(handled) : handled'[i] = handled[i]
        <3>1. PICK units : handled' = Append(handled, [to |-> Request, units |-> units])
            BY <1>2 DEF Hands
        <3> QED
            BY <1>1, <3>1
    <2> QED
        BY <1>1, <2>2, <2>3 DEF HandledInOrder
<1>3. CASE UNCHANGED handled
    BY <1>3 DEF HandledInOrder
<1> QED
    BY <1>2, <1>3, StepHands

-----------------------------------------------------------------------------
(* When the code has the whole request it has been reading.                *)
LEMMA CompleteIs ==
    ASSUME Types, NEW buf, Fresh(buf), Complete(buf),
           headersDone => \E p \in 1..Len(buf) : buf[p][2] = asked[buf[p][1]].head
    PROVE  Len(buf) >= Total(buf[1][1])
<1> DEFINE k == buf[1][1]
           L == {p \in DOMAIN buf : buf[p][2] = 1 /\ asked[buf[p][1]].body > 0}
<1>1. /\ DOMAIN buf = 1..Len(buf) /\ Len(buf) \in Nat /\ 1 \in 1..Len(buf)
      /\ k \in 1..Len(asked) /\ asked[k].head \in Nat \ {0} /\ asked[k].body \in Nat
      /\ Total(k) = asked[k].head + asked[k].body
    BY KindOf DEF Fresh, Total
<1>2. Len(buf) >= asked[k].head
    <2>1. SUFFICES ASSUME Len(buf) < asked[k].head PROVE FALSE
        BY <1>1
    <2>2. HeadEnd(buf) = 0
        BY <1>1, <2>1, HeadIs
    <2>3. PICK p \in 1..Len(buf) : buf[p][2] = asked[buf[p][1]].head
        BY <2>2 DEF Complete, HeaderComplete
    <2>4. buf[p] = <<k, p>>
        BY <1>1, <2>1, FrontUnits
    <2> QED
        BY <1>1, <2>1, <2>3, <2>4
<1>3. HeadEnd(buf) = asked[k].head
    BY <1>1, <1>2, HeadIs
<1>4. CASE asked[k].body = 0
    BY <1>1, <1>2, <1>4
<1>5. CASE asked[k].body > 0
    <2>1. 1 \in L /\ buf[1] \in Unit
        BY <1>1, <1>5 DEF Fresh
    <2>2. L \subseteq 1..Len(buf)
        BY <1>1
    <2>3. LengthLine(buf) = FirstOf(L)
        BY DEF LengthLine
    <2> HIDE DEF L
    <2>4. \A q \in L : 1 <= q
        BY <2>2
    <2>5. Least(L) \in L /\ \A q \in L : Least(L) <= q
        BY <2>1, <2>4 DEF Least
    <2>6. ASSUME NEW m \in L, m <= 1 PROVE m = 1
        BY <1>1, <2>2, <2>6
    <2>7. LengthLine(buf) = 1
        BY <2>1, <2>3, <2>5, <2>6 DEF FirstOf
    <2>8. ContentLength(buf) = asked[k].body
        BY <2>7 DEF ContentLength
    <2> QED
        BY <1>1, <1>3, <2>8 DEF Complete
<1> QED
    BY <1>1, <1>4, <1>5

(* The line begins with the first unit of a request and its client has not *)
(* hung up: all of that request is in the line.                            *)
LEMMA LineWhole ==
    ASSUME Types, Window, ~shut, Line # <<>>, Line[1][2] = 1
    PROVE  Len(Line) >= Total(Line[1][1])
<1>1. Len(Line) \in Nat \ {0} /\ 1 \in 1..Len(Line) /\ Len(Line) \in 1..Len(Line)
    BY LineIs
<1>2. /\ Line[Len(Line)] = <<Len(asked), Total(Len(asked))>>
      /\ Line[1][1] \in 1..Len(asked) /\ Len(asked) \in 1..Len(asked)
    BY <1>1 DEF Window, Sent, Ended
<1>3. Total(Line[1][1]) \in Nat /\ Total(Len(asked)) \in Nat
    BY <1>2, KindOf
<1>4. CASE Len(Line) = 1
    BY <1>2, <1>3, <1>4
<1>5. CASE Len(Line) > 1
    <2>1. Apart(Line[1], Line[Len(Line)], Len(Line) - 1)
        BY <1>1, <1>5 DEF Window, Spaced
    <2> QED
        BY <1>1, <1>2, <1>3, <1>5, <2>1 DEF Apart
<1> QED
    BY <1>1, <1>4, <1>5

(* A request that is parsed from its first unit is there to its last, if   *)
(* it fits and its client neither hangs up nor cuts it in TLS records.     *)
LEMMA StepWhole ==
    ASSUME Types, Types', Window, Habitual, Buffered, Whole, [Next]_vars
    PROVE  Whole'
<1>0. BufRoom \in Nat /\ Len(raw) \in Nat /\ Len(raw') \in Nat
    BY SMTT(30), StreamAssumption DEF Types
<1>1. SUFFICES ASSUME pc' \in {"detect", "parse"}, habits' \cap {"hangsUp", "splits"} = {}, Parses',
                      Total(Request)' <= BufRoom
               PROVE  Len(raw') >= Total(Request)'
    BY DEF Whole
<1>2. ASSUME UNCHANGED <<habits, asked, raw>>, pc \in {"detect", "parse"}
      PROVE  Len(raw') >= Total(Request)'
    <2>1. /\ pc \in {"detect", "parse"} /\ habits \cap {"hangsUp", "splits"} = {} /\ Parses
          /\ Total(Request)' = Total(Request)
        BY <1>1, <1>2 DEF Parses, Request, Total
    <2> QED
        BY <1>1, <1>2, <2>1 DEF Whole
<1>3. ASSUME NEW kind \in Kinds, Ask(kind) PROVE Len(raw') >= Total(Request)'
    <2>1. UNCHANGED <<habits, raw, pc>> /\ raw # <<>>
        BY <1>1, <1>3 DEF Ask, receiveVars, Buffered
    <2>2. PICK r : r = Request
        OBVIOUS
    <2>3. r \in 1..Len(asked) /\ r = raw[1][1]
        BY <2>1, <2>2, RequestAsked DEF Request
    <2>4. Total(r)' = Total(r)
        BY <1>3, <2>3, Asks
    <2>5. Total(Request)' = Total(r)' /\ Parses
        BY <1>1, <2>1, <2>3 DEF Request, Parses, Total
    <2> QED
        BY <1>1, <2>1, <2>2, <2>4, <2>5 DEF Whole
<1>4. ASSUME NEW n \in 1..Len(out), n <= BufRoom - Len(raw), Receive(n)
      PROVE  Len(raw') >= Total(Request)'
    <2>1. /\ raw' \in Seq(Unit) /\ raw' # <<>> /\ Len(raw') = Len(raw) + n /\ Line' = Line
          /\ asked' = asked
        BY <1>4, Receives DEF Receive
    <2>2. raw'[1][2] = 1 /\ Total(Request)' = Total(raw'[1][1])
        BY <1>1, <2>1 DEF Parses, Request, Total
    <2>3. Complete(raw') \/ Len(raw') = BufRoom
        BY <1>1, <1>4 DEF Receive
    <2>4. CASE Len(raw') = BufRoom
        BY <1>1, <2>4
    <2>5. CASE Complete(raw')
        <3>1. Len(raw') <= Len(Line) /\ \A p \in 1..Len(raw') : raw'[p] = Line[p]
            <4>1. Line = raw' \o out' /\ out' \in Seq(Unit) /\ raw' \in Seq(Unit)
                BY <1>4, <2>1, Receives DEF Line
            <4> QED
                BY ONLY <4>1
        <3>2. Fresh(raw')
            BY <2>1, <2>2, <3>1, BufferFresh
        <3>3. headersDone => \E p \in 1..Len(raw') : raw'[p][2] = asked[raw'[p][1]].head
            <4>1. ASSUME headersDone
                  PROVE  \E p \in 1..Len(raw') : raw'[p][2] = asked[raw'[p][1]].head
                <5>1. PICK p \in 1..Len(raw) : raw[p][2] = asked[raw[p][1]].head
                    BY <1>4, <4>1 DEF Receive, Buffered
                <5>2. p \in 1..Len(raw') /\ raw'[p] = raw[p]
                    BY <1>0, <1>4, <2>1, <5>1 DEF Receive, Types
                <5> QED
                    BY <5>1, <5>2
            <4> QED
                BY <4>1
        <3> QED
            BY <2>2, <2>5, <3>2, <3>3, CompleteIs
    <2> QED
        BY <2>3, <2>4, <2>5
<1>5. ASSUME RecvEof PROVE FALSE
    BY <1>1, <1>5 DEF RecvEof, Habitual, clientVars
<1>6. ASSUME TlsRead PROVE Len(raw') >= Total(Request)'
    <2>1. /\ raw = <<>> /\ Line = out /\ UNCHANGED <<habits, asked>>
          /\ out \in Seq(Unit) /\ out # <<>> /\ Len(out) \in Nat \ {0}
        BY <1>6 DEF TlsRead, Buffered, Line, Types
    <2>2. PICK n \in 1..Len(out) :
              /\ raw' = SubSeq(out, 1, n) /\ Len(raw') = n
              /\ n = BufRoom \/ n = Cardinality({i \in DOMAIN out : out[i][1] = out[1][1]})
        BY <1>1, <1>6, <2>1, TlsReads
    <2>3. raw'[1] = out[1] /\ out[1][2] = 1 /\ Total(Request)' = Total(out[1][1])
        BY <1>1, <2>1, <2>2 DEF Parses, Request, Total
    <2>4. CASE n = BufRoom
        BY <1>1, <2>2, <2>4
    <2>5. CASE n = Cardinality({i \in DOMAIN out : out[i][1] = out[1][1]})
        <3>1. PICK k, t : k = out[1][1] /\ t = Total(out[1][1])
            OBVIOUS
        <3>2. ~shut
            BY <1>1, <2>1 DEF Habitual
        <3>3. Len(out) >= t /\ Fresh(out)
            BY <2>1, <2>3, <3>1, <3>2, LineWhole, BufferFresh
        <3>4. t \in Nat
            BY <3>1, <3>3, <2>1, KindOf DEF Fresh
        <3>5. \A p \in 1..t : out[p] = <<k, p>>
            BY <2>1, <3>1, <3>3, <3>4, FrontUnits
        <3>6. 1..t \subseteq {i \in DOMAIN out : out[i][1] = out[1][1]}
            BY <2>1, <3>1, <3>3, <3>4, <3>5
        <3>7. {i \in DOMAIN out : out[i][1] = out[1][1]} \subseteq 1..Len(out)
            BY <2>1
        <3>8. IsFiniteSet({i \in DOMAIN out : out[i][1] = out[1][1]})
            <4>1. IsFiniteSet(1..Len(out))
                BY <2>1, FS_Interval
            <4> QED
                BY ONLY <3>7, <4>1, FS_Subset
        <3>9. Cardinality(1..t) <= Cardinality({i \in DOMAIN out : out[i][1] = out[1][1]})
            BY <3>6, <3>8, FS_Subset
        <3>10. Cardinality(1..t) = t
            BY <3>4, FS_Interval
        <3> QED
            BY <2>2, <2>3, <2>5, <3>1, <3>9, <3>10
    <2> QED
        BY <2>2, <2>4, <2>5
<1>7. BeginArena \/ UNCHANGED vars
      => UNCHANGED <<habits, asked, raw>> /\ pc \in {"detect", "parse"}
    BY <1>1 DEF BeginArena, vars, clientVars, receiveVars
<1>8. ASSUME HangUp PROVE Len(raw') >= Total(Request)'
    BY <1>1, <1>8 DEF HangUp, receiveVars
<1>9. ~(Loop \/ LoopEnds \/ RecvTimeout \/ TlsEnds \/ TlsFails \/ WsUnrouted \/ StreamEnds
        \/ ParseFails \/ ServeSse \/ ServeWs \/ Close)
    BY <1>1 DEF Loop, LoopEnds, RecvTimeout, TlsEnds, TlsFails, WsUnrouted, StreamEnds,
       ParseFails, ServeSse, ServeWs, Stream, Close
<1>10. ~(NotFound \/ JsonThrows \/ Dispatch \/ HandlerReturns \/ HandlerThrows \/ Respond)
    BY <1>1 DEF NotFound, JsonThrows, Dispatch, HandlerReturns, HandlerThrows, Respond, Responds
<1> QED
    BY <1>2, <1>3, <1>4, <1>5, <1>6, <1>7, <1>8, <1>9, <1>10 DEF Next, Server, Recv

LEMMA UnitsLength ==
    ASSUME Types, NEW k \in 1..Len(asked)
    PROVE  Len(Units(k)) = Total(k)
<1>1. PICK n : n = asked[k].head + asked[k].body
    OBVIOUS
<1>2. n \in Nat
    BY <1>1, KindOf
<1>3. Len([u \in 1..n |-> <<k, u>>]) = n
    BY <1>2
<1> QED
    BY <1>1, <1>3 DEF Units, Total

LEMMA StepWholeRequest ==
    ASSUME Types, Types', Window, Buffered, Known, Whole, WholeRequest, [Next]_vars
    PROVE  WholeRequest'
<1>1. /\ handled \in Seq(Handling) /\ Len(handled) \in Nat
      /\ DOMAIN handled = 1..Len(handled) /\ DOMAIN handled' = 1..Len(handled')
    BY DEF Types
<1> SUFFICES ASSUME habits' \cap {"hangsUp", "splits"} = {}, NEW i \in 1..Len(handled'),
                    NEW k, k = handled'[i].to, Len(Units(k)') <= BufRoom
             PROVE  handled'[i].units = Units(k)'
    <2>1. SUFFICES ASSUME habits' \cap {"hangsUp", "splits"} = {},
                          NEW i \in 1..Len(handled'), Len(Units(handled[i].to)') <= BufRoom
                   PROVE  handled'[i].units = Units(handled[i].to)'
        BY <1>1 DEF WholeRequest
    <2>2. PICK k : k = handled'[i].to
        OBVIOUS
    <2>3. Units(handled[i].to)' = Units(k)'
        BY <2>2 DEF Units
    <2> QED
        BY <2>1, <2>2, <2>3
<1>2. CASE Hands
    <2>0. PICK units \in Taken : handled' = Append(handled, [to |-> Request, units |-> units])
        BY <1>2 DEF Hands
    <2>1. Request \in 1..Len(asked) /\ raw # <<>> /\ Parses /\ pc \in {"detect", "parse"}
        BY <1>2, RequestAsked DEF Hands, Buffered
    <2>2. /\ Len(handled') = Len(handled) + 1
          /\ handled'[Len(handled) + 1] = [to |-> Request, units |-> units]
          /\ \A j \in 1..Len(handled) : handled'[j] = handled[j]
          /\ UNCHANGED <<habits, asked>>
        BY <1>1, <1>2, <2>0 DEF Hands
    <2>3. ASSUME habits \cap {"hangsUp", "splits"} = {}, Len(Units(Request)) <= BufRoom
          PROVE  units = Units(Request)
        BY <2>0, <2>1, <2>3, UnitsLength, TakenIs DEF Whole
    <2>4. \A r : Units(r)' = Units(r)
        BY <2>2 DEF Units
    <2>5. CASE i = Len(handled) + 1
        BY <2>2, <2>3, <2>4, <2>5
    <2>6. CASE i \in 1..Len(handled)
        BY <1>1, <2>2, <2>4, <2>6 DEF WholeRequest
    <2> QED
        BY <1>1, <2>2, <2>5, <2>6
<1>3. CASE UNCHANGED handled
    <2>1. \A r \in 1..Len(asked) : asked'[r] = asked[r]
        <3>1. ASSUME NEW kind \in Kinds, Ask(kind)
              PROVE  \A r \in 1..Len(asked) : asked'[r] = asked[r]
            BY <3>1, Asks
        <3> QED
            BY <3>1, StepMoves DEF Moves
    <2>2. \A j \in 1..Len(handled) : handled[j].to \in 1..Len(asked)
        BY DEF Known
    <2>3. \A r \in 1..Len(asked) : Units(r)' = Units(r)
        BY <2>1 DEF Units
    <2>4. UNCHANGED habits
        BY StepShape DEF Ask, HangUp, Borders, Empties, Quiet
    <2>5. Units(k)' = Units(k) /\ i \in 1..Len(handled) /\ k = handled[i].to
        BY <1>3, <2>2, <2>3
    <2> QED
        BY <1>1, <1>3, <2>4, <2>5 DEF WholeRequest
<1> QED
    BY <1>2, <1>3, StepHands

-----------------------------------------------------------------------------
(* A client that waits has at most one request in the line.                *)
LEMMA OneRequest ==
    ASSUME Types, Window, NextInLine, pc \in {"recv", "tls"}, Buffered, Line # <<>>
    PROVE  /\ Line[1][1] = Len(answers) + 1 /\ Line[1][2] = 1
           /\ Len(Line) <= Total(Line[1][1])
<1>1. Len(Line) \in Nat \ {0} /\ 1 \in 1..Len(Line) /\ Len(raw) \in Nat
    BY LineIs
<1>2. \A p \in 1..Len(Line) : Unanswered(p)
    BY <1>1 DEF Unanswered, Underway, Buffered
<1>3. \A p \in 1..Len(Line) : Line[p][1] = Len(answers) + 1
    BY <1>2 DEF NextInLine
<1>4. Line[1][2] = 1
    BY DEF NextInLine
<1>5. PICK p : p = Len(Line)
    OBVIOUS
<1>6. p \in 1..Len(Line) /\ Line[p][1] = Line[1][1] /\ Line[p] \in Unit /\ Line[1] \in Unit
    BY <1>1, <1>3, <1>5, LineIs
<1>7. PICK t : t = Total(Line[1][1])
    OBVIOUS
<1>8. Line[p][2] \in 1..t /\ t \in Nat
    BY <1>6, <1>7, KindOf DEF Window, Sent
<1>9. ASSUME p = 1 PROVE Len(Line) <= t
    BY <1>1, <1>5, <1>8, <1>9
<1>10. ASSUME p > 1 PROVE Len(Line) <= t
    <2>1. Apart(Line[1], Line[p], p - 1)
        BY <1>1, <1>6, <1>10 DEF Window, Spaced
    <2>2. Line[p][2] = p
        BY <1>1, <1>4, <1>5, <1>6, <2>1 DEF Apart, Unit
    <2> QED
        BY <1>5, <1>8, <2>2
<1> QED
    BY <1>1, <1>3, <1>4, <1>5, <1>6, <1>7, <1>9, <1>10

(* When such a client's request goes to be looked at, none of it is left   *)
(* behind.                                                                 *)
LEMMA AllReceived ==
    ASSUME Types, Window, Habitual, Buffered, NextInLine, "floods" \notin habits,
           NEW n \in 1..Len(out), n <= BufRoom - Len(raw), Receive(n), pc' = "detect"
    PROVE  out' = <<>>
<1>1. /\ raw' \in Seq(Unit) /\ raw' # <<>> /\ out' \in Seq(Unit) /\ Len(raw') = Len(raw) + n
      /\ Line' = Line /\ pc = "recv" /\ Line = raw' \o out'
    BY Receives DEF Receive, Line
<1>2. /\ Len(Line) = Len(raw') + Len(out') /\ Len(raw') \in Nat \ {0} /\ Len(out') \in Nat
      /\ \A p \in 1..Len(raw') : raw'[p] = Line[p]
    <2>1. /\ raw' \in Seq(Unit) /\ out' \in Seq(Unit) /\ Line = raw' \o out'
          /\ Len(raw') # 0
        BY <1>1
    <2> QED
        BY ONLY <2>1
<1>3. Line # <<>>
    BY <1>2
<1>4. Line[1][2] = 1 /\ Len(Line) <= Total(Line[1][1]) /\ raw'[1] = Line[1]
    BY <1>1, <1>2, <1>3, OneRequest
<1>5. Line[1][1] \in 1..Len(asked) /\ Total(Line[1][1]) \in Nat
    BY <1>2, KindOf DEF Window, Sent
<1>6. Len(raw') >= Total(Line[1][1])
    <2>1. CASE Len(raw') = BufRoom
        BY <1>5, <2>1 DEF Habitual
    <2>2. CASE Complete(raw')
        <3>1. Fresh(raw')
            <4>1. Len(raw') <= Len(Line) /\ raw'[1][2] = 1
                BY <1>2, <1>4
            <4> QED
                BY <1>1, <1>2, <4>1, BufferFresh
        <3>2. ASSUME headersDone
              PROVE  \E p \in 1..Len(raw') : raw'[p][2] = asked[raw'[p][1]].head
            <4>1. PICK p \in 1..Len(raw) : raw[p][2] = asked[raw[p][1]].head
                BY <1>1, <3>2 DEF Buffered
            <4>2. raw'[p] = raw[p] /\ p \in 1..Len(raw')
                BY <1>1, <4>1 DEF Receive, Types
            <4> QED
                BY <4>1, <4>2
        <3> QED
            BY <1>4, <2>2, <3>1, <3>2, CompleteIs
    <2> QED
        BY <1>1, <2>1, <2>2 DEF Receive
<1> QED
    BY <1>1, <1>2, <1>4, <1>5, <1>6

LEMMA StepWaiting ==
    ASSUME Types, Types', Counts, Window, Habitual, Buffered, Waiting, [Next]_vars
    PROVE  Waiting'
<1>1. /\ answers \in Seq(Answering) /\ Len(answers) \in Nat /\ Len(asked) \in Nat
      /\ Len(raw) \in Nat /\ Len(out) \in Nat /\ Len(Line) \in Nat /\ Len(Line') \in Nat
      /\ raw \in Seq(Unit) /\ out \in Seq(Unit)
    BY LineIs, NextLine DEF Types
<1>2. UNCHANGED habits
    BY StepShape DEF Ask, HangUp, Borders, Empties, Quiet
<1> SUFFICES ASSUME Promised', Open', pc' # "stream" PROVE NextInLine'
    BY DEF Waiting
<1>3. ASSUME Open, pc # "stream" PROVE NextInLine
    BY <1>2, <1>3 DEF Waiting, Promised
<1>4. "asksAhead" \notin habits /\ "idles" \notin habits /\ "floods" \notin habits
    BY <1>2 DEF Promised
<1>5. ASSUME UNCHANGED pc PROVE NextInLine
    BY <1>3, <1>5 DEF Open
<1>6. ASSUME NEW kind \in Kinds, Ask(kind) PROVE NextInLine'
    <2>1. NextInLine /\ Len(answers) = Len(asked) /\ UNCHANGED <<raw, pc, answers>>
        BY <1>4, <1>5, <1>6 DEF Ask, receiveVars
    <2>2. \A p \in 1..Len(Line) : ~Unanswered(p)
        <3>1. SUFFICES ASSUME NEW p \in 1..Len(Line), Unanswered(p) PROVE FALSE
            OBVIOUS
        <3>2. Line[p][1] = Len(answers) + 1 /\ Line[p][1] \in 1..Len(asked)
            BY <2>1, <3>1 DEF NextInLine, Window, Sent
        <3> QED
            BY <1>1, <2>1, <3>2
    <2>3. Len(Line) = Len(raw) /\ out = <<>>
        <3>1. SUFFICES ASSUME Len(out) > 0 PROVE FALSE
            BY <1>1, LineIs
        <3>2. Len(Line) \in 1..Len(Line) /\ Len(Line) > Len(raw)
            BY <1>1, <3>1, LineIs
        <3> QED
            BY <2>2, <3>2 DEF Unanswered
    <2>4. pc \in Underway \cup {"tls"} => Len(raw) = 0
        <3>1. SUFFICES ASSUME pc \in Underway, Len(raw) > 0 PROVE FALSE
            BY <1>1 DEF Buffered
        <3>2. 1 \in 1..Len(Line)
            BY <1>1, <2>3, <3>1
        <3> QED
            BY <2>2, <3>1, <3>2 DEF Unanswered
    <2>5. pc \notin {"detect", "parse", "handler"} \cup Responds
        BY <2>4 DEF Buffered, Underway
    <2>6. PICK k, n : k = Len(asked) + 1 /\ n = kind.head + kind.body
        OBVIOUS
    <2>7. /\ k \in Nat \ {0} /\ n \in Nat \ {0}
          /\ Len(Line') = Len(Line) + n
          /\ \A p \in 1..Len(Line) : Line'[p] = Line[p]
          /\ \A u \in 1..n : Line'[Len(Line) + u] = <<k, u>>
        BY <1>6, <2>6, Asks
    <2>8. ASSUME NEW p \in 1..Len(Line'), Unanswered(p)' PROVE Line'[p][1] = Len(answers) + 1
        <3>1. CASE p <= Len(Line)
            BY <2>1, <2>2, <2>8, <3>1 DEF Unanswered
        <3>2. CASE p > Len(Line)
            <4>1. p - Len(Line) \in 1..n
                BY <1>1, <2>7, <2>8, <3>2
            <4>2. PICK u : u = p - Len(Line)
                OBVIOUS
            <4>3. u \in 1..n /\ p = Len(Line) + u
                BY <1>1, <2>8, <4>1, <4>2
            <4>4. Line'[p] = <<k, u>>
                BY <2>7, <4>3
            <4> QED
                BY <2>1, <2>6, <4>4
        <3> QED
            BY <1>1, <2>8, <3>1, <3>2
    <2>9. pc \in {"recv", "tls"} => Line'[1][2] = 1
        <3>1. ASSUME pc \in {"recv", "tls"} PROVE Len(Line) = 0
            BY <2>3, <2>4, <3>1 DEF Underway
        <3>2. 1 \in 1..n
            BY <2>7
        <3>3. ASSUME Len(Line) = 0 PROVE Line'[1] = <<k, 1>>
            BY <2>7, <3>2, <3>3
        <3> QED
            BY <3>1, <3>3
    <2>10. out'[1][2] = 1
        <3>1. out' = <<>> \o [u \in 1..n |-> <<k, u>>]
            BY <1>6, <2>3, <2>6 DEF Ask
        <3>2. out'[1] = <<k, 1>>
            BY <2>7, <3>1
        <3> QED
            BY <3>2
    <2> QED
        BY <2>1, <2>5, <2>8, <2>9, <2>10 DEF NextInLine
<1>7. ASSUME HangUp PROVE NextInLine'
    <2>1. NextInLine /\ UNCHANGED <<raw, pc, answers, habits>>
        BY <1>5, <1>7 DEF HangUp, receiveVars
    <2>2. Moves(0)
        BY <1>7, StepMoves DEF HangUp, Ask, Loop, Close
    <2>3. \A p \in 1..Len(Line') : p \in 1..Len(Line) /\ Line'[p] = Line[p]
        BY <1>1, <2>2 DEF Moves
    <2>4. Line' # <<>> => Line # <<>> /\ Line'[1] = Line[1]
        <3>1. Line' # <<>> => 1 \in 1..Len(Line')
            BY NextLine
        <3>2. 1 \in 1..Len(Line) => Line # <<>>
            OBVIOUS
        <3> QED
            BY <2>3, <3>1, <3>2
    <2>5. /\ out' # <<>> => out # <<>> /\ out'[1] = out[1]
        <3>1. PICK m \in 0..Len(out) : out' = SubSeq(out, 1, m)
            BY <1>7 DEF HangUp
        <3> QED
            BY <1>1, <3>1
    <2> QED
        BY <2>1, <2>3, <2>4, <2>5 DEF NextInLine, Unanswered, Tls
<1>8. ASSUME Loop PROVE NextInLine'
    <2>1. NextInLine /\ pc = "loop" /\ pc' = "recv" /\ UNCHANGED <<answers, out>> /\ Line' = out
        BY <1>1, <1>3, <1>8 DEF Loop, clientVars, Open, Line
    <2>2. ASSUME NEW p \in 1..Len(out) PROVE out[p][1] = Len(answers) + 1
        <3>1. PICK q : q = Len(raw) + p
            OBVIOUS
        <3>2. q \in 1..Len(Line) /\ Unanswered(q) /\ Line[q] = out[p]
            BY <1>1, <2>2, <3>1, LineIs DEF Unanswered
        <3> QED
            BY <2>1, <3>2 DEF NextInLine
    <2> QED
        BY <2>1, <2>2 DEF NextInLine, Responds
<1>9. ASSUME NEW n \in 1..Len(out), n <= BufRoom - Len(raw), Receive(n) PROVE NextInLine'
    <2>1. pc = "recv" /\ pc' \in {"recv", "detect"} /\ UNCHANGED answers /\ Line' = Line
        BY <1>9, Receives DEF Receive, Open
    <2>2. NextInLine
        BY <1>3, <2>1 DEF Open
    <2>3. pc' = "detect" => out' = <<>>
        BY <1>4, <1>9, <2>2, AllReceived
    <2>4. \A p : Unanswered(p)' => Unanswered(p)
        BY <2>1 DEF Unanswered, Underway
    <2> QED
        BY <2>1, <2>2, <2>3, <2>4 DEF NextInLine, Responds
<1>10. ASSUME TlsRead PROVE NextInLine'
    <2>1. pc = "tls" /\ pc' = "detect" /\ UNCHANGED answers /\ Line' = Line
        BY <1>10, StepShape DEF TlsRead, Ask, HangUp, Empties, Loop, Close, Borders, Quiet, Line
    <2>2. NextInLine /\ Tls' /\ raw = <<>>
        BY <1>2, <1>3, <2>1 DEF Open, Counts, Tls, Buffered
    <2>3. \A p \in 1..Len(Line) : Unanswered(p)
        BY <1>1, <2>2 DEF Unanswered
    <2> QED
        BY <2>1, <2>2, <2>3 DEF NextInLine, Responds
<1>11. ASSUME RecvEof PROVE NextInLine'
    <2>1. pc = "recv" /\ pc' = "detect" /\ UNCHANGED <<answers, raw, out>> /\ out = <<>> /\ Line' = Line
        BY <1>11 DEF RecvEof, Open, clientVars, receiveVars, Line
    <2>2. NextInLine
        BY <1>3, <2>1 DEF Open
    <2>3. \A p : Unanswered(p)' => Unanswered(p)
        BY <2>1 DEF Unanswered, Underway
    <2> QED
        BY <2>1, <2>2, <2>3 DEF NextInLine, Responds
<1>12. ASSUME BeginArena \/ NotFound \/ Dispatch \/ HandlerReturns \/ HandlerThrows
       PROVE  NextInLine'
    <2>1. /\ pc \in {"detect", "parse", "handler"} /\ pc' \in {"parse", "handler"} \cup Responds
          /\ UNCHANGED <<answers, raw, out, habits>>
        BY <1>12 DEF BeginArena, NotFound, Dispatch, HandlerReturns, HandlerThrows, Responds,
           clientVars, receiveVars
    <2>2. NextInLine /\ Line' = Line /\ (Tls' <=> Tls)
        BY <1>3, <2>1 DEF Open, Line, Tls
    <2>3. \A p : Unanswered(p)' => Unanswered(p)
        BY <2>1 DEF Unanswered, Underway
    <2> QED
        BY <2>1, <2>2, <2>3 DEF NextInLine, Responds
<1>13. ASSUME Respond PROVE NextInLine'
    <2>1. /\ pc \in Responds /\ pc' = "loop" /\ keep
          /\ UNCHANGED <<raw, out, habits>>
          /\ answers' = Append(answers, [to |-> Request, status |-> StatusOf[pc], keep |-> keep])
        BY <1>13 DEF Respond, Send, Open, clientVars, receiveVars
    <2>2. NextInLine /\ Line' = Line /\ ~Tls
        BY <1>3, <2>1 DEF Open, Line, Responds, Counts
    <2>3. out = <<>> /\ Len(Line) = Len(raw)
        BY <1>1, <2>1, <2>2, LineIs DEF NextInLine
    <2>4. \A p \in 1..Len(Line) : ~Unanswered(p)'
        BY <1>1, <2>1, <2>3 DEF Unanswered, Underway, Responds
    <2>5. \A i \in 1..Len(answers') : answers'[i].keep
        <3>1. \A i \in 1..Len(answers) : answers[i].keep
            BY <2>2 DEF NextInLine
        <3>2. /\ Len(answers') = Len(answers) + 1 /\ answers'[Len(answers) + 1].keep
              /\ \A i \in 1..Len(answers) : answers'[i] = answers[i]
            BY <1>1, <2>1
        <3> QED
            BY <1>1, <3>1, <3>2
    <2> QED
        BY <2>1, <2>2, <2>3, <2>4, <2>5 DEF NextInLine, Responds
<1>14. ~(LoopEnds \/ RecvTimeout \/ TlsEnds \/ TlsFails \/ WsUnrouted \/ StreamEnds \/ ParseFails
         \/ JsonThrows \/ ServeSse \/ ServeWs \/ Close)
    BY DEF LoopEnds, RecvTimeout, TlsEnds, TlsFails, WsUnrouted, StreamEnds, ParseFails,
       JsonThrows, ServeSse, ServeWs, Stream, Close, Open
<1>15. ASSUME UNCHANGED vars PROVE NextInLine'
    <2>1. NextInLine
        BY <1>5, <1>15 DEF vars
    <2> QED
        BY <1>15, <2>1 DEF NextInLine, vars, Line, Unanswered, Tls
<1> QED
    BY <1>6, <1>7, <1>8, <1>9, <1>10, <1>11, <1>12, <1>13, <1>14, <1>15 DEF Next, Server, Recv

-----------------------------------------------------------------------------
LEMMA InitHInv == Init => HInv
<1> SUFFICES ASSUME Init PROVE HInv
    OBVIOUS
<1>1. Types /\ Counts /\ Frames /\ Line = <<>> /\ Len(Line) = 0
    BY InitTypes, InitLine
<1>2. /\ raw = <<>> /\ out = <<>> /\ ~shut /\ asked = <<>> /\ handled = <<>> /\ answers = <<>>
      /\ pc \in {"loop", "tls"} /\ BufRoom \in Nat
      /\ Len(raw) = 0 /\ Len(asked) = 0 /\ Len(handled) = 0 /\ Len(answers) = 0
    BY StreamAssumption DEF Init
<1>3. Window
    BY <1>1, <1>2 DEF Window, Sent, Spaced, Ended
<1>4. Habitual /\ Buffered
    BY <1>1, <1>2 DEF Habitual, Buffered, Responds
<1>5. Known /\ NextUp /\ Whole /\ HandledInOrder /\ WholeRequest
    BY <1>1, <1>2 DEF Known, NextUp, Whole, HandledInOrder, WholeRequest
<1>6. Waiting
    BY <1>1, <1>2 DEF Waiting, NextInLine, Responds
<1> QED
    BY <1>1, <1>3, <1>4, <1>5, <1>6 DEF HInv

LEMMA StepHInv == HInv /\ [Next]_vars => HInv'
<1> SUFFICES ASSUME HInv, [Next]_vars PROVE HInv'
    OBVIOUS
<1> USE DEF HInv
<1>1. Types'
    BY StepTypes
<1>2. Counts' /\ Frames'
    BY StepCounts, StepFrames
<1>3. Window' /\ Habitual' /\ Buffered'
    BY <1>1, StepWindow, StepHabitual, StepBuffered
<1>4. Known' /\ NextUp' /\ HandledInOrder'
    BY <1>1, StepKnown, StepNextUp, StepInOrder
<1>5. Whole' /\ WholeRequest'
    BY <1>1, StepWhole, StepWholeRequest
<1>6. Waiting'
    BY <1>1, StepWaiting
<1> QED
    BY <1>1, <1>2, <1>3, <1>4, <1>5, <1>6

(* The line is a window of what the client sent, and the loop of           *)
(* handle_connection keeps its place in it.                                *)
THEOREM StreamInvariant == Spec => []HInv
<1>1. Init => HInv
    BY InitHInv
<1>2. HInv /\ [Next]_vars => HInv'
    BY StepHInv
<1> QED
    BY <1>1, <1>2, PTL DEF Spec

(* Whatever way a request ends, its arena and its try frame are gone       *)
(* before the next one is read (http.c:765-849).                           *)
THEOREM StreamBalanced == Spec => []Balanced
<1>1. HInv => Balanced
    BY DEF HInv, Frames, Balanced, Responds
<1> QED
    BY <1>1, StreamInvariant, PTL

(* A handler gets the whole request, however the network cuts the stream   *)
(* (http.c:603-658, http.c:321-381).                                       *)
THEOREM StreamWholeRequest == Spec => []WholeRequest
<1>1. HInv => WholeRequest
    BY DEF HInv
<1> QED
    BY <1>1, StreamInvariant, PTL

(* Handlers see the requests of a connection in their order, none twice.   *)
THEOREM StreamHandledInOrder == Spec => []HandledInOrder
<1>1. HInv => HandledInOrder
    BY DEF HInv
<1> QED
    BY <1>1, StreamInvariant, PTL
-----------------------------------------------------------------------------
(* An answer is to the request that begins the line; or it tells a client  *)
(* that has asked nothing that its time is over.                           *)
Answers == /\ pc \in {"recv", "detect", "parse"} \cup Responds
           /\ Line # <<>>
           /\ \E status, alive : Send(Line[1][1], status, alive)

Scolds == "idles" \in habits /\ pc = "recv" /\ Send(0, "408", FALSE)

LEMMA StepAnswers ==
    ASSUME HInv, [Next]_vars
    PROVE  Answers \/ UNCHANGED answers \/ Scolds
<1> USE DEF HInv
<1>1. ASSUME raw # <<>> PROVE Line # <<>> /\ Request = Line[1][1]
    BY <1>1, RequestAsked, LineIs DEF Request, Types
<1>2. ASSUME NEW n \in 1..Len(out), Receive(n) PROVE Answers \/ UNCHANGED answers
    <2>1. raw' \in Seq(Unit) /\ raw' # <<>> /\ Line = raw' \o out' /\ out' \in Seq(Unit)
        BY <1>2, Receives DEF Line
    <2>2. raw'[1] = Line[1] /\ Line # <<>>
        BY ONLY <2>1
    <2> QED
        BY <1>2, <2>2 DEF Receive, Answers
<1>3. RecvTimeout => Answers \/ Scolds
    BY DEF RecvTimeout, Answers, Scolds, Line
<1>4. ASSUME ServeSse \/ ServeWs PROVE Answers \/ UNCHANGED answers
    <2>1. pc = "detect" /\ raw # <<>> /\ (Stream("200") \/ Stream("101"))
        BY <1>4 DEF ServeSse, ServeWs, Buffered
    <2> QED
        BY <1>1, <2>1 DEF Stream, Answers
<1>5. ParseFails => Answers
    BY <1>1 DEF ParseFails, Answers, Buffered
<1>6. Respond => Answers
    BY <1>1 DEF Respond, Answers, Buffered
<1>7. ASSUME (\E kind \in Kinds : Ask(kind)) \/ HangUp \/ UNCHANGED vars \/ TlsRead
             \/ Loop \/ Close
      PROVE  UNCHANGED answers
    BY <1>7 DEF Ask, HangUp, vars, TlsRead, Loop, Close
<1>8. ASSUME LoopEnds \/ RecvEof \/ TlsEnds \/ TlsFails \/ WsUnrouted \/ StreamEnds
             \/ BeginArena \/ NotFound \/ JsonThrows \/ Dispatch \/ HandlerReturns \/ HandlerThrows
      PROVE  UNCHANGED answers
    BY <1>8 DEF LoopEnds, RecvEof, TlsEnds, TlsFails, WsUnrouted, StreamEnds,
       BeginArena, NotFound, JsonThrows, Dispatch, HandlerReturns, HandlerThrows
<1> QED
    BY <1>2, <1>3, <1>4, <1>5, <1>6, <1>7, <1>8 DEF Next, Server, Recv

(* Answers are to requests that were made, or to none.                     *)
ToAsked == \A i \in 1..Len(answers) : answers[i].to \in 0..Len(asked)

LEMMA StepToAsked ==
    ASSUME HInv, HInv', ToAsked, [Next]_vars
    PROVE  ToAsked'
<1> USE DEF HInv
<1>1. answers \in Seq(Answering) /\ Len(answers) \in Nat /\ Len(asked) \in Nat
    BY DEF Types
<1>2. ASSUME UNCHANGED answers PROVE ToAsked'
    <2>1. ASSUME NEW kind \in Kinds, Ask(kind) PROVE Len(asked') = Len(asked) + 1
        BY <2>1 DEF Ask, Types
    <2>2. Len(asked') = Len(asked) \/ Len(asked') = Len(asked) + 1
        BY <2>1, StepMoves DEF Moves
    <2> QED
        BY <1>1, <1>2, <2>2 DEF ToAsked
<1>3. ASSUME NEW k \in 0..Len(asked), NEW status, NEW alive, Send(k, status, alive),
             pc \in {"recv", "detect", "parse"} \cup Responds
      PROVE  ToAsked'
    <2>1. UNCHANGED asked
        <3>1. ASSUME NEW kind \in Kinds, Ask(kind) PROVE UNCHANGED answers
            BY <3>1 DEF Ask
        <3>2. answers' # answers
            BY <1>1, <1>3 DEF Send
        <3> QED
            BY <3>1, <3>2, StepMoves DEF Moves
    <2>2. /\ Len(answers') = Len(answers) + 1 /\ answers'[Len(answers) + 1].to = k
          /\ \A i \in 1..Len(answers) : answers'[i] = answers[i]
        BY <1>1, <1>3 DEF Send
    <2> QED
        BY <1>1, <1>3, <2>1, <2>2 DEF ToAsked
<1>4. ASSUME Answers PROVE Line[1][1] \in 0..Len(asked)
    <2>1. 1 \in 1..Len(Line)
        BY <1>4, LineIs DEF Answers
    <2> QED
        BY <1>1, <2>1 DEF Window, Sent
<1>5. CASE Answers
    BY <1>3, <1>4, <1>5 DEF Answers
<1>6. CASE Scolds
    <2>1. 0 \in 0..Len(asked)
        BY <1>1
    <2>2. pc \in {"recv", "detect", "parse"} \cup Responds
        BY <1>6 DEF Scolds
    <2>3. Send(0, "408", FALSE)
        BY <1>6 DEF Scolds
    <2> QED
        BY <1>3, <2>1, <2>2, <2>3
<1> QED
    BY <1>2, <1>5, <1>6, StepAnswers

(* Every variable stays in its type, and every answer and every call of a  *)
(* handler is for a request that was made.                                 *)
THEOREM StreamTypeOK == Spec => []TypeOK
<1>1. Init => ToAsked
    BY DEF Init, ToAsked
<1>2. HInv /\ HInv' /\ ToAsked /\ [Next]_vars => ToAsked'
    BY StepToAsked
<1>3. HInv /\ ToAsked => TypeOK
    <2>1. SUFFICES ASSUME HInv, ToAsked PROVE TypeOK
        OBVIOUS
    <2>2. \A i \in 1..Len(out) : out[i][1] \in DOMAIN asked
        <3>1. SUFFICES ASSUME NEW i \in 1..Len(out) PROVE out[i][1] \in DOMAIN asked
            OBVIOUS
        <3>2. PICK q : q = Len(raw) + i
            OBVIOUS
        <3>3. q \in 1..Len(Line) /\ Line[q] = out[i]
            BY <2>1, <3>2, LineIs DEF HInv
        <3> QED
            BY <2>1, <3>3 DEF HInv, Types, Window, Sent
    <2>3. \A i \in DOMAIN answers : answers[i].to \in 0..Len(asked) /\ answers[i].status \in Statuses
        <3>1. answers \in Seq(Answering)
            BY <2>1 DEF HInv, Types
        <3>2. \A i \in DOMAIN answers : i \in 1..Len(answers) /\ answers[i] \in Answering
            BY <3>1
        <3> QED
            BY <2>1, <3>2 DEF ToAsked, Answering
    <2>4. \A i \in DOMAIN handled : handled[i].to \in DOMAIN asked
        BY <2>1 DEF HInv, Known, Types
    <2>5. arena \in {0, 1} /\ tryTop \in {0, 1}
        BY <2>1 DEF HInv, Frames
    <2> QED
        <3>1. Types /\ Len(raw) <= BufRoom
            BY <2>1 DEF HInv, Buffered
        <3>2. pc \in {"loop", "tls", "recv", "detect", "stream", "parse", "handler",
                     "closing", "closed", "exited"} \cup Responds
            BY <3>1 DEF Types, States
        <3>3. DOMAIN out = 1..Len(out)
            BY <3>1 DEF Types
        <3> QED
            BY <2>2, <2>3, <2>4, <2>5, <3>1, <3>2, <3>3 DEF Types, TypeOK
<1> QED
    BY <1>1, <1>2, <1>3, StreamInvariant, PTL DEF Spec

(* A connection that is being closed stays so.                             *)
LEMMA StepCloses ==
    ASSUME ~Open, [Next]_vars
    PROVE  ~Open'
<1>1. (\E kind \in Kinds : Ask(kind)) \/ HangUp \/ UNCHANGED vars => UNCHANGED pc
    BY DEF Ask, HangUp, vars
<1>2. Close \/ LoopEnds \/ RecvTimeout \/ TlsEnds \/ TlsFails \/ WsUnrouted \/ StreamEnds
      \/ ParseFails \/ JsonThrows => ~Open'
    BY DEF Close, LoopEnds, RecvTimeout, TlsEnds, TlsFails, WsUnrouted, StreamEnds,
       ParseFails, JsonThrows, Open
<1>3. ~(Loop \/ Recv \/ RecvEof \/ TlsRead \/ ServeSse \/ ServeWs \/ BeginArena \/ NotFound
        \/ Dispatch \/ HandlerReturns \/ HandlerThrows \/ Respond)
    BY DEF Loop, Recv, Receive, RecvEof, TlsRead, ServeSse, ServeWs, BeginArena, NotFound,
       Dispatch, HandlerReturns, HandlerThrows, Respond, Responds, Open
<1> QED
    BY <1>1, <1>2, <1>3 DEF Next, Server, Open

Replied == IF Promised THEN [i \in DOMAIN answers |-> answers[i].to] ELSE <<>>
Over == Promised /\ (~Open \/ \E i \in DOMAIN answers : ~answers[i].keep)

LEMMA StepExchange ==
    ASSUME HInv, HInv', [Next]_vars
    PROVE  Exchange!Next \/ UNCHANGED <<Len(asked), Replied, Over>>
<1> USE DEF HInv
<1>1. /\ answers \in Seq(Answering) /\ Len(answers) \in Nat /\ Len(asked) \in Nat
      /\ DOMAIN answers = 1..Len(answers) /\ UNCHANGED habits
    <2>1. UNCHANGED habits
        BY StepShape DEF Ask, HangUp, Borders, Empties, Quiet
    <2>2. answers \in Seq(Answering) /\ Len(asked) \in Nat
        BY DEF Types
    <2> QED
        BY <2>1, <2>2
<1>2. Promised' <=> Promised
    BY <1>1 DEF Promised
<1>3. ASSUME NEW kind \in Kinds, Ask(kind) PROVE Exchange!Ask
    <2>1. Len(asked) < MaxAsked /\ Len(asked') = Len(asked) + 1 /\ UNCHANGED <<pc, answers>>
        BY <1>3 DEF Ask, Types
    <2>2. UNCHANGED <<Replied, Over>>
        BY <1>2, <2>1 DEF Replied, Over, Open
    <2> QED
        BY <2>1, <2>2 DEF Exchange!Ask, Replied, Over
<1>4. ASSUME ~(\E kind \in Kinds : Ask(kind)) PROVE UNCHANGED asked
    BY <1>4, StepMoves DEF Moves
<1>5. CASE ~Promised
    <2>1. UNCHANGED <<Replied, Over>>
        BY <1>2, <1>5 DEF Replied, Over
    <2> QED
        BY <1>3, <1>4, <2>1 DEF Exchange!Next
<1>6. ASSUME Promised, UNCHANGED <<answers, asked>>
      PROVE  Exchange!End \/ UNCHANGED <<Len(asked), Replied, Over>>
    <2>1. UNCHANGED Replied
        BY <1>2, <1>6 DEF Replied
    <2>2. Over => Over'
        BY <1>2, <1>6, StepCloses DEF Over
    <2>3. CASE Over'
        BY <1>6, <2>1, <2>3 DEF Exchange!End, Replied, Over
    <2>4. CASE ~Over'
        <3>1. Over' = Over
            BY <2>2, <2>4 DEF Over
        <3> QED
            BY <1>6, <2>1, <3>1
    <2> QED
        BY <2>3, <2>4
<1>7. ASSUME Promised, Answers, UNCHANGED asked PROVE Exchange!Answer
    <2>1. /\ pc \in {"recv", "detect", "parse"} \cup Responds /\ Line # <<>> /\ NextInLine
          /\ Open
        BY <1>7 DEF Answers, Waiting, Open, Responds
    <2>2. 1 \in 1..Len(Line) /\ Unanswered(1)
        BY <2>1, LineIs DEF Unanswered, Underway
    <2>3. Line[1][1] = Len(answers) + 1 /\ Line[1][1] \in 1..Len(asked)
        BY <2>1, <2>2 DEF NextInLine, Window, Sent
    <2>4. ~Over
        BY <1>1, <2>1 DEF Over, NextInLine
    <2>5. PICK s, b : answers' = Append(answers, [to |-> Len(answers) + 1, status |-> s, keep |-> b])
        BY <1>7, <2>3 DEF Answers, Send
    <2>6. /\ Len(answers') = Len(answers) + 1 /\ DOMAIN answers' = 1..(Len(answers) + 1)
          /\ answers'[Len(answers) + 1].to = Len(answers) + 1
          /\ \A i \in 1..Len(answers) : answers'[i] = answers[i]
        BY <1>1, <2>5
    <2>7. Replied = [i \in 1..Len(answers) |-> answers[i].to]
        BY <1>1, <1>7 DEF Replied
    <2>8. Replied' = [i \in 1..(Len(answers) + 1) |-> answers'[i].to]
        BY <1>2, <1>7, <2>6 DEF Replied
    <2>9. Replied \in Seq(Nat) /\ Len(Replied) = Len(answers)
        <3>1. \A i \in 1..Len(answers) : answers[i].to \in Nat
            <4>1. \A i \in 1..Len(answers) : answers[i] \in Answering
                BY <1>1
            <4> QED
                BY <4>1 DEF Answering
        <3> QED
            BY <1>1, <2>7, <3>1
    <2>10. Replied' = Append(Replied, Len(Replied) + 1)
        BY <1>1, <2>6, <2>7, <2>8, <2>9
    <2>11. Over' \in BOOLEAN
        BY DEF Over
    <2> QED
        BY <1>1, <1>7, <2>3, <2>4, <2>9, <2>10, <2>11 DEF Exchange!Answer, Replied, Over
<1> QED
    BY <1>3, <1>4, <1>5, <1>6, <1>7, StepAnswers DEF Exchange!Next, Promised, Scolds

(* A client that waits for its answers gets the exchange it was promised:  *)
(* one answer for each request, in their order, and none after the end.    *)
THEOREM StreamImplementsExchange == Spec => ImplementsExchange
<1>1. Init => Exchange!Init
    <2>1. SUFFICES ASSUME Init PROVE Exchange!Init
        OBVIOUS
    <2>2. /\ Len(asked) = 0 /\ answers = <<>> /\ DOMAIN answers = {} /\ pc \in {"loop", "tls"}
        BY <2>1 DEF Init
    <2>3. [i \in DOMAIN answers |-> answers[i].to] = <<>>
        BY <2>2
    <2> QED
        BY <2>2, <2>3 DEF Exchange!Init, Open
<1>2. HInv /\ HInv' /\ [Next]_vars => [Exchange!Next]_(Exchange!vars)
    BY StepExchange DEF Exchange!vars, Replied, Over
<1> QED
    BY <1>1, <1>2, StreamInvariant, PTL DEF Spec, ImplementsExchange, Exchange!Spec
=============================================================================
