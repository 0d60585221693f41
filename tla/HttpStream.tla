----------------------------- MODULE HttpStream -----------------------------
(***************************************************************************)
(* One keep-alive connection of runtime/http.c: the client's byte stream,  *)
(* recv_one_request that cuts it into requests, and the loop of            *)
(* handle_connection that answers them, with the SSE and WebSocket exits;  *)
(* or, over TLS, the one request that handle_tls_connection reads.  A body  *)
(* of type application/json is parsed before the handler's try frame is    *)
(* pushed: one that is not JSON ends the process, and every connection.    *)
(*                                                                         *)
(* Bytes are counted in units: unit u of request k is <<k, u>>, the first  *)
(* head units are its header block and the others its body.  The network   *)
(* may cut the stream anywhere: recv returns any part of what is left.     *)
(***************************************************************************)
EXTENDS Naturals, Sequences, FiniteSets

CONSTANTS Kinds,       (* the requests the client may make                   *)
          BufRoom,     (* RECV_BUF - 1, in units                             *)
          HeaderMax,   (* MAX_HEADER_TOTAL                                   *)
          MaxBody,     (* MAX_BODY_SIZE                                      *)
          MaxRequests, (* KEEPALIVE_MAX_REQUESTS                             *)
          MaxAsked,    (* bound: the requests of one connection              *)
          Clients      (* the habits a client of one execution may have      *)

(* asksAhead: it sends a request before the last is answered; hangsUp: it  *)
(* may end the connection anywhere; lags, idles: a receive timeout may     *)
(* expire within a request, or between two; floods: its requests may be    *)
(* longer than the receive buffer; tls: it came to the port of             *)
(* server_start_tls; splits: it sends a request in several TLS records.    *)
Habits == {"asksAhead", "hangsUp", "lags", "idles", "floods", "tls", "splits"}

KindRecords == [head : Nat \ {0}, body : Nat, longUri : BOOLEAN, keep : BOOLEAN,
                form : {"plain", "sse", "ws"}, routed : BOOLEAN,
                json : {"none", "good", "bad"}]

ASSUME StreamAssumption ==
    /\ Kinds \subseteq KindRecords
    /\ {BufRoom, HeaderMax, MaxBody, MaxRequests, MaxAsked} \subseteq Nat \ {0}
    /\ Clients \subseteq SUBSET Habits

VARIABLES habits,      (* what this client does, for the whole execution     *)
          asked,       (* the requests the client has made                   *)
          out,         (* the units the client sent and the server has not read *)
          shut,        (* whether the client has ended the connection        *)
          pc,          (* where handle_connection is                         *)
          raw,         (* the units in the receive buffer                    *)
          headersDone, (* headers_done                                       *)
          rcvtimeo,    (* SO_RCVTIMEO: 60 s when idle, 10 s for a header     *)
          reqCount,    (* req_count                                          *)
          keep,        (* keep_alive                                         *)
          arena,       (* fl_arena_begin without its fl_arena_end            *)
          tryTop,      (* fl_try_top of this thread                          *)
          handled,     (* the requests given to a handler, with their units  *)
          answers      (* what was sent to the client                        *)

clientVars == <<habits, asked, out, shut>>
receiveVars == <<raw, headersDone, rcvtimeo>>
loopVars == <<reqCount, keep, arena, tryTop>>
vars == <<habits, asked, out, shut, pc, raw, headersDone, rcvtimeo, reqCount, keep,
          arena, tryTop, handled, answers>>

Statuses == {"200", "101", "400", "404", "408", "413", "414", "431", "500"}
Units(k) == [u \in 1..(asked[k].head + asked[k].body) |-> <<k, u>>]
Tls == "tls" \in habits
Open == pc \notin {"closing", "closed", "exited"}
-----------------------------------------------------------------------------
(* What the code finds in the buffer by searching it from the start.       *)
Least(S) == CHOOSE p \in S : \A q \in S : p <= q
FirstOf(S) == IF S = {} THEN 0 ELSE Least(S)

(* strstr(raw, "\r\n\r\n"), the request line and the Content-Length header *)
HeadEnd(buf) == FirstOf({p \in DOMAIN buf : buf[p][2] = asked[buf[p][1]].head})
FirstLine(buf) == FirstOf({p \in DOMAIN buf : buf[p][2] = 1})
LengthLine(buf) == FirstOf({p \in DOMAIN buf : buf[p][2] = 1 /\ asked[buf[p][1]].body > 0})

ContentLength(buf) == IF LengthLine(buf) = 0 THEN 0 ELSE asked[buf[LengthLine(buf)][1]].body
LongUri(buf) == FirstLine(buf) # 0 /\ asked[buf[FirstLine(buf)][1]].longUri
Mentions(form) == \E p \in DOMAIN raw : raw[p][2] = 1 /\ asked[raw[p][1]].form = form

(* A buffer that starts inside a body has no request line to parse.        *)
Parses == raw[1][2] = 1
Request == raw[1][1]
Routed == Parses /\ asked[Request].routed

(* What the handler finds of its request, as a set of possibilities.  A    *)
(* body cut short ends at the NUL after what was received; but behind half *)
(* a header block Content-Length bytes are taken from wherever that ends:  *)
(* the rest of a line, or what an earlier request left in the buffer.      *)
Stale == <<0, 0>>
Taken == LET end == HeadEnd(raw) + asked[Request].body
         IN  IF HeadEnd(raw) > 0 THEN {SubSeq(raw, 1, IF end < Len(raw) THEN end ELSE Len(raw))}
             ELSE IF asked[Request].body > 0 THEN {raw, Append(raw, Stale)} ELSE {raw}

(* What json_parse makes of a body: a text that something follows throws;  *)
(* of a body that is not the one that was sent either may be.              *)
JsonParse(units) ==
    IF asked[Request].json = "none" \/ asked[Request].body = 0 THEN {"value"}
    ELSE IF units # Units(Request) THEN {"value", "throws"}
    ELSE IF asked[Request].json = "bad" THEN {"throws"} ELSE {"value"}

Send(k, status, alive) ==
    answers' = Append(answers, [to |-> k, status |-> status, keep |-> alive])
-----------------------------------------------------------------------------
Init == /\ habits \in Clients
        /\ asked = <<>>
        /\ out = <<>>
        /\ shut = FALSE
        /\ pc = IF Tls THEN "tls" ELSE "loop"
        /\ raw = <<>>
        /\ headersDone = FALSE
        /\ rcvtimeo = "idle"
        /\ reqCount = 0
        /\ keep = FALSE
        /\ arena = 0
        /\ tryTop = 0
        /\ handled = <<>>
        /\ answers = <<>>

(* The client makes one more request, unless it was told of the end.       *)
Ask(kind) ==
    /\ ~shut
    /\ Len(asked) < MaxAsked
    /\ "asksAhead" \in habits \/ Len(answers) = Len(asked)
    /\ "floods" \in habits \/ kind.head + kind.body <= BufRoom
    /\ \A i \in DOMAIN answers : answers[i].keep
    /\ asked' = Append(asked, kind)
    /\ out' = out \o [u \in 1..(kind.head + kind.body) |-> <<Len(asked) + 1, u>>]
    /\ UNCHANGED <<habits, shut, pc, receiveVars, loopVars, handled, answers>>

(* The client ends the connection; what it had not sent yet is lost.       *)
HangUp ==
    /\ "hangsUp" \in habits
    /\ ~shut
    /\ shut' = TRUE
    /\ \E n \in 0..Len(out) : out' = SubSeq(out, 1, n)
    /\ UNCHANGED <<habits, asked, pc, receiveVars, loopVars, handled, answers>>
-----------------------------------------------------------------------------
(* while (req_count < KEEPALIVE_MAX_REQUESTS): recv_one_request sets the   *)
(* header timeout and starts with an empty buffer.                         *)
\* mutant: the buffer still holds the previous request
LoopKeeping ==
    /\ pc = "loop"
    /\ reqCount < MaxRequests
    /\ pc' = "recv"
    /\ raw' = IF Len(raw) < BufRoom THEN raw ELSE <<>>
    /\ headersDone' = FALSE
    /\ rcvtimeo' = "header"
    /\ UNCHANGED <<clientVars, loopVars, handled, answers>>

Loop ==
    /\ pc = "loop"
    /\ reqCount < MaxRequests
    /\ pc' = "recv"
    /\ raw' = <<>>
    /\ headersDone' = FALSE
    /\ rcvtimeo' = "header"
    /\ UNCHANGED <<clientVars, loopVars, handled, answers>>

LoopEnds ==
    /\ pc = "loop"
    /\ reqCount = MaxRequests
    /\ pc' = "closing"
    /\ UNCHANGED <<clientVars, receiveVars, loopVars, handled, answers>>

(* The tests recv_one_request makes on what it has, in their order; the    *)
(* limits are tested once, when the header block has just become complete. *)
HeaderTooLong(buf) == ~headersDone /\ Len(buf) > HeaderMax
HeaderComplete(buf) == headersDone \/ HeadEnd(buf) > 0

Refusal(buf) ==
    IF HeaderTooLong(buf) THEN "431"
    ELSE IF headersDone \/ HeadEnd(buf) = 0 THEN "none"
    ELSE IF LongUri(buf) THEN "414"
    ELSE IF ContentLength(buf) > MaxBody THEN "413" ELSE "none"

(* body_recv >= cl                                                         *)
\* mutant: one unit of the body is left in the socket
CompleteEarly(buf) ==
    HeaderComplete(buf) /\ Len(buf) + 1 >= HeadEnd(buf) + ContentLength(buf)
\* mutant: more than the body is waited for
CompleteLate(buf) ==
    HeaderComplete(buf) /\ (Len(buf) > HeadEnd(buf) + ContentLength(buf) \/ ContentLength(buf) = 0)
Complete(buf) ==
    HeaderComplete(buf) /\ Len(buf) >= HeadEnd(buf) + ContentLength(buf)

(* recv returns n units: refused, complete (or out of room), or read on.   *)
Receive(n) ==
    LET buf == raw \o SubSeq(out, 1, n)
    IN  /\ pc = "recv"
        /\ out' = SubSeq(out, n + 1, Len(out))
        /\ raw' = buf
        /\ headersDone' = HeaderComplete(buf)
        /\ rcvtimeo' = IF ~headersDone /\ HeadEnd(buf) > 0 /\ ContentLength(buf) > 0
                       THEN "idle" ELSE rcvtimeo
        /\ \/ /\ Refusal(buf) # "none"
              /\ Send(buf[1][1], Refusal(buf), FALSE)
              /\ pc' = "closing"
           \/ /\ Refusal(buf) = "none"
              /\ Complete(buf) \/ Len(buf) = BufRoom
              /\ pc' = "detect"
              /\ UNCHANGED answers
           \/ /\ Refusal(buf) = "none"
              /\ ~Complete(buf)
              /\ Len(buf) < BufRoom
              /\ UNCHANGED <<pc, answers>>
        /\ UNCHANGED <<habits, asked, shut, loopVars, handled>>

Recv == \E n \in 1..Len(out) : n <= BufRoom - Len(raw) /\ Receive(n)

(* recv returns 0: what was received counts as a request, unless nothing was *)
RecvEof ==
    /\ pc = "recv"
    /\ shut
    /\ out = <<>>
    /\ pc' = IF raw = <<>> THEN "closing" ELSE "detect"
    /\ UNCHANGED <<clientVars, receiveVars, loopVars, handled, answers>>

(* SO_RCVTIMEO expires: a 408, whether or not a request has begun.         *)
RecvTimeout ==
    /\ pc = "recv"
    /\ ~shut
    /\ (IF raw \o out = <<>> THEN "idles" ELSE "lags") \in habits
    /\ Send(IF raw \o out = <<>> THEN 0 ELSE (raw \o out)[1][1], "408", FALSE)
    /\ pc' = "closing"
    /\ UNCHANGED <<clientVars, receiveVars, loopVars, handled>>
-----------------------------------------------------------------------------
(* SSL_read gives at most one record, and what it gives is the request:    *)
(* nothing is read after it, no limit is tested, no timeout is set.        *)
RecordLength(n) == IF "splits" \in habits THEN 1..n ELSE {n}

TlsRead ==
    /\ pc = "tls"
    /\ out # <<>>
    /\ LET sent == Cardinality({i \in DOMAIN out : out[i][1] = out[1][1]}) IN
       \E n \in RecordLength(sent) :
          LET got == IF n < BufRoom THEN n ELSE BufRoom IN
          /\ raw' = SubSeq(out, 1, got)
          /\ out' = SubSeq(out, got + 1, Len(out))
    /\ pc' = "detect"
    /\ UNCHANGED <<habits, asked, shut, headersDone, rcvtimeo, loopVars, handled, answers>>

(* SSL_read gives nothing: the client ended the connection.                *)
TlsEnds ==
    /\ pc = "tls"
    /\ shut
    /\ out = <<>>
    /\ pc' = "closing"
    /\ UNCHANGED <<clientVars, receiveVars, loopVars, handled, answers>>

(* SSL_accept: the handshake fails.                                        *)
TlsFails ==
    /\ pc = "tls"
    /\ asked = <<>>
    /\ pc' = "closing"
    /\ UNCHANGED <<clientVars, receiveVars, loopVars, handled, answers>>
-----------------------------------------------------------------------------
(* The request mentions text/event-stream and its path is an SSE route:    *)
(* the header is sent (or fails), the handler runs under a try frame.      *)
SseTaken == ~Tls /\ Mentions("sse") /\ Routed
WsAsked == ~Tls /\ ~Mentions("sse") /\ Mentions("ws")

Stream(status) ==
    /\ \/ /\ Send(Request, status, FALSE)
          /\ tryTop' = tryTop + 1
          /\ \E units \in Taken : handled' = Append(handled, [to |-> Request, units |-> units])
          /\ pc' = "stream"
       \/ /\ shut
          /\ pc' = "closing"
          /\ UNCHANGED <<tryTop, handled, answers>>
    /\ UNCHANGED <<clientVars, receiveVars, reqCount, keep, arena>>

ServeSse == pc = "detect" /\ SseTaken /\ Stream("200")
ServeWs == pc = "detect" /\ WsAsked /\ Routed /\ Stream("101")

(* ws_handle_upgrade returns 0 and handle_connection leaves its loop.      *)
WsUnrouted ==
    /\ pc = "detect"
    /\ WsAsked
    /\ ~Routed
    /\ pc' = "closing"
    /\ UNCHANGED <<clientVars, receiveVars, loopVars, handled, answers>>

(* The SSE or WebSocket handler returns or throws; its frame is popped.    *)
StreamEnds ==
    /\ pc = "stream"
    /\ tryTop' = tryTop - 1
    /\ pc' = "closing"
    /\ UNCHANGED <<clientVars, receiveVars, reqCount, keep, arena, handled, answers>>

Plain == ~SseTaken /\ ~WsAsked

(* The HTTP routes are another table: a request that asked for a stream    *)
(* nobody routes may match one of them or not.                             *)
Matches == asked[Request].form = "plain" => asked[Request].routed
Misses == asked[Request].form = "plain" => ~asked[Request].routed

(* check_keep_alive; over TLS the answer says "Connection: close".         *)
KeepAlive == ~Tls /\ asked[Request].keep

(* Without a first line, or perhaps with half a header block, no request.  *)
Unparsable == ~Parses \/ HeadEnd(raw) = 0

(* fl_arena_begin, before the request is parsed                            *)
BeginArena ==
    /\ pc = "detect"
    /\ Plain
    /\ arena' = arena + 1
    /\ pc' = "parse"
    /\ UNCHANGED <<clientVars, receiveVars, reqCount, keep, tryTop, handled, answers>>

(* A 400, fl_arena_end, and the loop is left.                              *)
\* mutant: the arena of the bad request stays open
ParseFailsOpen ==
    /\ pc = "parse"
    /\ Unparsable
    /\ Send(Request, "400", FALSE)
    /\ pc' = "closing"
    /\ UNCHANGED <<clientVars, receiveVars, loopVars, handled>>

ParseFails ==
    /\ pc = "parse"
    /\ Unparsable
    /\ Send(Request, "400", FALSE)
    /\ arena' = arena - 1
    /\ pc' = "closing"
    /\ UNCHANGED <<clientVars, receiveVars, reqCount, keep, tryTop, handled>>

(* The request is parsed and no route matches it.                          *)
NotFound ==
    /\ pc = "parse"
    /\ Parses
    /\ Misses
    /\ keep' = KeepAlive
    /\ pc' = "respond404"
    /\ UNCHANGED <<clientVars, receiveVars, reqCount, arena, tryTop, handled, answers>>

(* make_req_map parses a JSON body before there is a try frame: fl_throw   *)
(* prints the error and exits.                                             *)
JsonThrows ==
    /\ pc = "parse"
    /\ Parses
    /\ Matches
    /\ \E units \in Taken : "throws" \in JsonParse(units)
    /\ pc' = "exited"
    /\ UNCHANGED <<clientVars, receiveVars, loopVars, handled, answers>>

(* make_req_map, then the frame is pushed and the handler is called.       *)
Dispatch ==
    /\ pc = "parse"
    /\ Parses
    /\ Matches
    /\ \E units \in Taken :
          /\ "value" \in JsonParse(units)
          /\ handled' = Append(handled, [to |-> Request, units |-> units])
    /\ keep' = KeepAlive
    /\ tryTop' = tryTop + 1
    /\ pc' = "handler"
    /\ UNCHANGED <<clientVars, receiveVars, reqCount, arena, answers>>

HandlerReturns ==
    /\ pc = "handler"
    /\ tryTop' = tryTop - 1
    /\ pc' = "respond200"
    /\ UNCHANGED <<clientVars, receiveVars, reqCount, keep, arena, handled, answers>>

(* fl_throw returns to the frame of handle_connection.                     *)
\* mutant: the handler is called before the frame is pushed
HandlerThrowsFrameless ==
    /\ pc = "handler"
    /\ pc' = "exited"
    /\ UNCHANGED <<clientVars, receiveVars, loopVars, handled, answers>>

\* mutant: the frame of the handler stays on the stack
HandlerThrowsUnpopped ==
    /\ pc = "handler"
    /\ keep' = FALSE
    /\ pc' = "respond500"
    /\ UNCHANGED <<clientVars, receiveVars, reqCount, arena, tryTop, handled, answers>>

HandlerThrows ==
    /\ pc = "handler"
    /\ tryTop' = tryTop - 1
    /\ keep' = FALSE
    /\ pc' = "respond500"
    /\ UNCHANGED <<clientVars, receiveVars, reqCount, arena, handled, answers>>

Responds == {"respond200", "respond404", "respond500"}
StatusOf == [p \in Responds |-> CASE p = "respond200" -> "200"
                                  [] p = "respond404" -> "404"
                                  [] p = "respond500" -> "500"]

(* send_response, fl_arena_end, req_count++ (over TLS nothing counts)      *)
Respond ==
    /\ pc \in Responds
    /\ Send(Request, StatusOf[pc], keep)
    /\ arena' = arena - 1
    /\ reqCount' = IF Tls THEN 0 ELSE reqCount + 1
    /\ pc' = IF keep THEN "loop" ELSE "closing"
    /\ UNCHANGED <<clientVars, receiveVars, keep, tryTop, handled>>

(* free(raw); close(client_fd)                                             *)
Close ==
    /\ pc = "closing"
    /\ pc' = "closed"
    /\ raw' = <<>>
    /\ UNCHANGED <<clientVars, headersDone, rcvtimeo, loopVars, handled, answers>>

Server == \/ Loop \/ LoopEnds \/ Recv \/ RecvEof \/ RecvTimeout
          \/ TlsRead \/ TlsEnds
          \/ ServeSse \/ ServeWs \/ WsUnrouted \/ StreamEnds
          \/ BeginArena \/ ParseFails \/ NotFound \/ JsonThrows \/ Dispatch
          \/ HandlerReturns \/ HandlerThrows
          \/ Respond \/ Close

Next == \/ \E kind \in Kinds : Ask(kind)
        \/ HangUp
        \/ TlsFails
        \/ Server

Spec == Init /\ [][Next]_vars

(* The worker thread runs, and what was sent arrives.                      *)
FairSpec == Spec /\ WF_vars(Server)
-----------------------------------------------------------------------------
TypeOK ==
    /\ habits \in Clients
    /\ asked \in Seq(Kinds) /\ Len(asked) <= MaxAsked
    /\ \A i \in DOMAIN out : out[i][1] \in DOMAIN asked
    /\ shut \in BOOLEAN
    /\ pc \in {"loop", "tls", "recv", "detect", "stream", "parse", "handler",
              "closing", "closed", "exited"} \cup Responds
    /\ Len(raw) <= BufRoom
    /\ headersDone \in BOOLEAN
    /\ rcvtimeo \in {"idle", "header"}
    /\ reqCount \in 0..MaxRequests
    /\ keep \in BOOLEAN
    /\ arena \in {0, 1} /\ tryTop \in {0, 1}
    /\ \A i \in DOMAIN handled : handled[i].to \in DOMAIN asked
    /\ \A i \in DOMAIN answers : /\ answers[i].to \in 0..Len(asked)
                                 /\ answers[i].status \in Statuses

(* The arena and the try frame of a request are gone before the next one   *)
(* is read and when the worker takes its next connection, whatever way the *)
(* request ended, the 400 included (http.c:765-849); until then the parsed *)
(* request lives in its arena.                                             *)
Balanced ==
    /\ pc \in {"loop", "tls", "recv", "detect", "closing", "closed"} => arena = 0 /\ tryTop = 0
    /\ pc = "parse" => arena = 1 /\ tryTop = 0
    /\ pc = "handler" => arena = 1 /\ tryTop = 1

(* A handler gets the whole request, header and body, exactly as it was    *)
(* sent, however the network cuts the stream (http.c:603-658,              *)
(* http.c:321-381).  Left out: clients that hang up within a request, TLS   *)
(* requests of several records, and requests longer than the receive       *)
(* buffer, which are handed over cut.                                      *)
WholeRequest ==
    habits \cap {"hangsUp", "splits"} = {} =>
        \A i \in DOMAIN handled :
            Len(Units(handled[i].to)) <= BufRoom => handled[i].units = Units(handled[i].to)

(* Handlers see the requests of a connection in their order, none twice.    *)
(* A request may be left out: bytes that came ahead of their turn are lost. *)
HandledInOrder ==
    \A i, j \in DOMAIN handled : i < j => handled[i].to < handled[j].to

(* What a client that waits for its answers, has its requests ready and    *)
(* within the buffer is promised (HttpExchange): an answer is the next     *)
(* request's, and none follows one that announced the end.  The others are *)
(* promised nothing here.                                                  *)
Promised == habits \cap {"asksAhead", "idles", "floods"} = {}
Exchange == INSTANCE HttpExchange WITH
    asked <- Len(asked),
    replies <- IF Promised THEN [i \in DOMAIN answers |-> answers[i].to] ELSE <<>>,
    over <- Promised /\ (~Open \/ \E i \in DOMAIN answers : ~answers[i].keep)
ImplementsExchange == Exchange!Spec

(* Bodies of type application/json that json_parse may refuse: they are    *)
(* not JSON, or may not arrive as they were sent.                          *)
Spoilt == \E k \in DOMAIN asked :
              \/ asked[k].json = "bad"
              \/ /\ asked[k].json = "good"
                 /\ habits \cap {"hangsUp", "splits"} # {} \/ Len(Units(k)) > BufRoom

(* Every request of a client that waits is answered or the connection is   *)
(* closed: the loop never waits for more than it was sent (http.c:603-658), *)
(* and no throw but that of a spoilt JSON body, which has no try frame     *)
(* (http.c:805-808), ends the process instead (error.c:64-68); and a       *)
(* connection whose client has gone is closed.  Left out: a client that    *)
(* asks ahead, whose request may have been overwritten (http.c:601).       *)
Answered ==
    /\ \A i \in 1..MaxAsked :
          ("asksAhead" \notin habits /\ Len(asked) >= i)
              ~> (Len(answers) >= i \/ pc = "closed" \/ Spoilt)
    /\ shut ~> (pc = "closed" \/ Spoilt)
=============================================================================
