----------------------------- MODULE Connection -----------------------------
(***************************************************************************)
(* The descriptors of client connections while worker threads run          *)
(* handle_connection (runtime/http.c), sse_handle_request (runtime/sse.c)  *)
(* and ws_handle_upgrade (runtime/websocket.c).  A descriptor that is      *)
(* closed is given to the next connection accepted, while the worker that  *)
(* closed it still holds the number.                                       *)
(*                                                                         *)
(* Connections are numbered in the order they are accepted.  What a        *)
(* request says is HttpStream's; here a request is one use of the          *)
(* descriptor, and a stream handler may use its connection object in any   *)
(* order the functions of its library allow.                               *)
(***************************************************************************)
EXTENDS Naturals, FiniteSets

CONSTANTS Workers,     (* the threads of the pool                            *)
          Fds,         (* the descriptors the operating system gives out     *)
          MaxConns,    (* bound: the connections of one execution            *)
          Servers,     (* the features a server program may use              *)
          NoFd         (* no descriptor                                      *)

(* The features after which a descriptor is closed twice: SSE routes, and  *)
(* ws_close in a WebSocket handler.                                        *)
Features == {"sse", "wsClose"}

ASSUME ConnectionAssumption ==
    /\ IsFiniteSet(Workers)
    /\ MaxConns \in Nat
    /\ Servers \subseteq SUBSET Features
    /\ NoFd \notin Fds

VARIABLES server,      (* the features this server program uses              *)
          os,          (* the connection under each descriptor, 0 for none   *)
          accepted,    (* how many connections were accepted                 *)
          wpc,         (* where each worker is                               *)
          mine,        (* the connection each worker was given, 0 for none   *)
          fd,          (* client_fd of each worker                           *)
          connObj,     (* the SSEConn or WSConn of each worker               *)
          closedFlag,  (* its closed field                                   *)
          used         (* the last use of a descriptor: whose, and by whom   *)

connVars == <<server, os, accepted, wpc, mine, fd, connObj, closedFlag, used>>

WorkerStates == {"idle", "serving", "sse", "ws", "cleanup", "close"}
NoUse == [by |-> 0, at |-> 0]

(* send, recv or close by w reaches whatever is open under its number.     *)
Touch(w) == used' = [by |-> mine[w], at |-> os[fd[w]]]
CloseFd(w) == os' = [os EXCEPT ![fd[w]] = 0]

ConnInit ==
    /\ server \in Servers
    /\ os = [f \in Fds |-> 0]
    /\ accepted = 0
    /\ wpc = [w \in Workers |-> "idle"]
    /\ mine = [w \in Workers |-> 0]
    /\ fd = [w \in Workers |-> NoFd]
    /\ connObj = [w \in Workers |-> "none"]
    /\ closedFlag = [w \in Workers |-> FALSE]
    /\ used = NoUse

(* accept gives a free descriptor, and the worker takes it from the queue. *)
Accept(w) ==
    /\ wpc[w] = "idle"
    /\ accepted < MaxConns
    /\ \E f \in Fds :
          /\ os[f] = 0
          /\ os' = [os EXCEPT ![f] = accepted + 1]
          /\ fd' = [fd EXCEPT ![w] = f]
    /\ accepted' = accepted + 1
    /\ mine' = [mine EXCEPT ![w] = accepted + 1]
    /\ wpc' = [wpc EXCEPT ![w] = "serving"]
    /\ connObj' = [connObj EXCEPT ![w] = "none"]
    /\ closedFlag' = [closedFlag EXCEPT ![w] = FALSE]
    /\ UNCHANGED <<server, used>>

(* One request: recv, the handler, send_response.                          *)
Serve(w) ==
    /\ wpc[w] = "serving"
    /\ Touch(w)
    /\ UNCHANGED <<server, os, accepted, wpc, mine, fd, connObj, closedFlag>>

(* The last request, a refused one or the end of the connection.           *)
ServeLast(w) ==
    /\ wpc[w] = "serving"
    /\ Touch(w)
    /\ wpc' = [wpc EXCEPT ![w] = "close"]
    /\ UNCHANGED <<server, os, accepted, mine, fd, connObj, closedFlag>>

(* A stream is opened: the header is sent and the object is made.          *)
Begin(w, stream) ==
    /\ wpc[w] = "serving"
    /\ Touch(w)
    /\ wpc' = [wpc EXCEPT ![w] = stream]
    /\ connObj' = [connObj EXCEPT ![w] = "live"]
    /\ UNCHANGED <<server, os, accepted, mine, fd, closedFlag>>

BeginSse(w) == "sse" \in server /\ Begin(w, "sse")
BeginWs(w) == Begin(w, "ws")
-----------------------------------------------------------------------------
(* sse_send, ws_send and ws_recv use the descriptor of an object that is   *)
(* not closed.  A freed object still holds the flag, or something else.    *)
SeesClosed(w) == IF connObj[w] = "freed" THEN BOOLEAN ELSE {closedFlag[w]}

StreamIo(w) ==
    /\ wpc[w] \in {"sse", "ws"}
    /\ FALSE \in SeesClosed(w)
    /\ Touch(w)
    /\ UNCHANGED <<server, os, accepted, wpc, mine, fd, connObj, closedFlag>>

\* mutant: the object of a closed connection is freed while it is in use
HearFrees(w) ==
    /\ wpc[w] \in {"sse", "ws"}
    /\ connObj[w] = "live"
    /\ ~closedFlag[w]
    /\ closedFlag' = [closedFlag EXCEPT ![w] = TRUE]
    /\ connObj' = [connObj EXCEPT ![w] = "freed"]
    /\ UNCHANGED <<server, os, accepted, wpc, mine, fd, used>>

(* A failed sse_send, sse_close, or a ws_recv that gets the end of the     *)
(* connection: the flag is set, nothing is closed or freed.                *)
Hear(w) ==
    /\ wpc[w] \in {"sse", "ws"}
    /\ connObj[w] = "live"
    /\ ~closedFlag[w]
    /\ closedFlag' = [closedFlag EXCEPT ![w] = TRUE]
    /\ UNCHANGED <<server, os, accepted, wpc, mine, fd, connObj, used>>

(* ws_close: a close frame, close(2), free.                                *)
WsClose(w) ==
    /\ "wsClose" \in server
    /\ wpc[w] = "ws"
    /\ connObj[w] = "live"
    /\ ~closedFlag[w]
    /\ closedFlag' = [closedFlag EXCEPT ![w] = TRUE]
    /\ Touch(w)
    /\ CloseFd(w)
    /\ connObj' = [connObj EXCEPT ![w] = "freed"]
    /\ UNCHANGED <<server, accepted, wpc, mine, fd>>

(* The SSE handler returns or throws; both ways lead to the cleanup.       *)
StreamReturns(w) ==
    /\ wpc[w] = "sse"
    /\ wpc' = [wpc EXCEPT ![w] = "cleanup"]
    /\ UNCHANGED <<server, os, accepted, mine, fd, connObj, closedFlag, used>>

(* sse.c:220-224: close(fd) and free, and http.c:855 follows.              *)
SseCleanup(w) ==
    /\ wpc[w] = "cleanup"
    /\ Touch(w)
    /\ CloseFd(w)
    /\ connObj' = [connObj EXCEPT ![w] = "freed"]
    /\ wpc' = [wpc EXCEPT ![w] = "close"]
    /\ UNCHANGED <<server, accepted, mine, fd, closedFlag>>

(* websocket.c:463-468: a connection that is not closed gets a close frame *)
(* and its object is freed; a closed one is left as it is.                 *)
\* mutant: the cleanup closes the descriptor too
WsCleanupCloses(w) ==
    /\ wpc[w] = "ws"
    /\ FALSE \in SeesClosed(w)
    /\ Touch(w)
    /\ CloseFd(w)
    /\ connObj' = [connObj EXCEPT ![w] = "freed"]
    /\ wpc' = [wpc EXCEPT ![w] = "close"]
    /\ UNCHANGED <<server, accepted, mine, fd, closedFlag>>

WsCleanup(w) ==
    /\ wpc[w] = "ws"
    /\ FALSE \in SeesClosed(w)
    /\ Touch(w)
    /\ connObj' = [connObj EXCEPT ![w] = "freed"]
    /\ wpc' = [wpc EXCEPT ![w] = "close"]
    /\ UNCHANGED <<server, os, accepted, mine, fd, closedFlag>>

\* mutant: a handler whose connection ended returns to the keep-alive loop
WsLeaveLooping(w) ==
    /\ wpc[w] = "ws"
    /\ TRUE \in SeesClosed(w)
    /\ UNCHANGED connVars

WsLeave(w) ==
    /\ wpc[w] = "ws"
    /\ TRUE \in SeesClosed(w)
    /\ wpc' = [wpc EXCEPT ![w] = "close"]
    /\ UNCHANGED <<server, os, accepted, mine, fd, connObj, closedFlag, used>>

(* http.c:854-855: free(raw); close(client_fd)                             *)
Close(w) ==
    /\ wpc[w] = "close"
    /\ Touch(w)
    /\ CloseFd(w)
    /\ wpc' = [wpc EXCEPT ![w] = "idle"]
    /\ UNCHANGED <<server, accepted, mine, fd, connObj, closedFlag>>

Leave(w) == \/ ServeLast(w) \/ StreamReturns(w) \/ SseCleanup(w)
            \/ WsCleanup(w) \/ WsLeave(w) \/ Close(w)

Work(w) == \/ Serve(w) \/ BeginSse(w) \/ BeginWs(w)
           \/ StreamIo(w) \/ Hear(w) \/ WsClose(w)
           \/ Leave(w)

ConnNext == \E w \in Workers : Accept(w) \/ Work(w)

ConnSpec == ConnInit /\ [][ConnNext]_connVars

(* Loops end: after 100 requests at most, and handlers return.             *)
ConnFairness == \A w \in Workers : WF_connVars(Leave(w))
-----------------------------------------------------------------------------
ConnTypeOK ==
    /\ server \in Servers
    /\ os \in [Fds -> 0..MaxConns]
    /\ accepted \in 0..MaxConns
    /\ wpc \in [Workers -> WorkerStates]
    /\ mine \in [Workers -> 0..MaxConns]
    /\ fd \in [Workers -> Fds \cup {NoFd}]
    /\ connObj \in [Workers -> {"none", "live", "freed"}]
    /\ closedFlag \in [Workers -> BOOLEAN]
    /\ used \in [by : 0..MaxConns, at : 0..MaxConns]

(* What a worker sends, receives or closes is never the connection of      *)
(* another: the loop is left after a stream because "the handler manages   *)
(* the fd" (http.c:759).                                                   *)
HandlerManagesFd == used.at \in {0, used.by}

(* As long as no handler closes a descriptor itself, a worker between      *)
(* accept and close has its connection open under its number, no other     *)
(* worker has that number and it touches no other connection               *)
(* (http.c:704-855).                                                       *)
Exclusive ==
    server = {} =>
        /\ HandlerManagesFd
        /\ \A w \in Workers : wpc[w] # "idle" =>
              /\ os[fd[w]] = mine[w]
              /\ \A v \in Workers \ {w} : wpc[v] # "idle" => fd[v] # fd[w]

(* Unless its handler calls ws_close, the cleanup of a WebSocket handler   *)
(* finds its object alive (websocket.c:463-467), and every object is freed *)
(* before the worker closes the descriptor.  (The object of a client that  *)
(* ended the connection is left: the flag that ws_recv sets at             *)
(* websocket.c:327 makes the cleanup pass it by.)                          *)
ObjectAlive ==
    "wsClose" \notin server =>
        \A w \in Workers :
            /\ wpc[w] = "ws" => connObj[w] = "live"
            /\ wpc[w] = "close" /\ connObj[w] = "live" => closedFlag[w]

(* Every accepted connection is closed in the end (http.c:855).            *)
Released == \A n \in 1..MaxConns :
    (\E f \in Fds : os[f] = n) ~> (\A f \in Fds : os[f] # n)
=============================================================================
