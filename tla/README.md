# Verification of the FreeLang v11 fx2 runtime

FreeLang v11 fx2 compiles programs written in FreeLang to C and links them
against a C runtime.  This directory holds a TLA+ verification development of
that repository: modules translated from its source, configurations with which
TLC checks them on small instances, and theorems about them that TLAPS proves
for every value of the constants.

Paths and line numbers below are those of the repository; `http.c` stands for
`runtime/http.c` and so on for the other files of `runtime/`.

## 1. Running it

    tlc -workers 2 -config PoolSafety.cfg MCWorkerPool      # any run of section 5
    tlapm WorkerPoolProofs.tla                              # any module *Proofs

The longest run (memory) takes about three minutes, the longest proof modules
(HttpStreamProofs, NetRegistryProofs, MemoryProofs: over 2000 obligations each)
about as long.

## 2. The system

A compiled program is one process.  Its main thread runs the program; a server
adds 16 worker threads, futures add a thread each.  Data of a request live in an
arena of its thread, data that outlive a request (atoms, closures, routes) on a
counted heap.  Connections to databases are shared by all threads.  Programs are
built by shell and C tools that keep caches on disk, with a compiler that is itself
written in FreeLang (self/cgc-main.fl).

### 2.1 Components that are modelled

| component | code | state it keeps | operations | what is hard |
|---|---|---|---|---|
| worker pool, accept loop, shutdown | http.c 859-1117 | linked queue, `queue_len`, `active`, `shutdown`, `g_server_fd` | enqueue, take, release, refuse, signal handler, `pool_shutdown` | one signal per connection, a signal handler without the lock, two limits counted in two places |
| socket registry | net.c 22-196 and its callers | list of entries (fd, generation, state, refs) under one mutex and one condition variable | register, acquire, release, close | racing closers, `close` outside the mutex, descriptors the system gives out again |
| HTTP connection loop | http.c 437-490, 570-857 | receive buffer, header flag, time limits, request count, arena and try frame | receive, frame, route, call, answer, leave | any cut of the byte stream, nine ways out of the loop, a body that throws where nothing catches |
| connection descriptors | http.c 703-857, sse.c 50-228, websocket.c 300-472 | `client_fd`, `SSEConn`, `WSConn`, `closed` | serve, stream, hear, `ws_close`, clean up | two layers both close, the number is given out again in between |
| futures | aliases.c 1066-1174 | `done`, `result`, mutex, condition variable, the object itself | future, deref, deref-timeout, done? | who frees the object, deadline against result |
| build script and caches | fl-build.sh 207-517 | `libfx.a`, `app.o`, a hash file each, `user-fns.c` | resolve, compile, archive, emit, link | files and their hashes are written apart, no lock, kills |
| playground | fx2-playground/app.fl | an atom that counts active checks | check-source | `swap!` is a read and a write; all checks build under one name |
| arena | gc.c 36-127 | chunk list per thread, current chunk, fill | begin, alloc, end, destroy | chunks are kept from request to request |
| database pools | sqlite.c, mariadb.c | a table of slots under one lock, a lock and a connection per slot | open, query, execute, close | two threads open one database, a close while others hold the id, a statement's counts read from a shared connection |
| loads | fl-build-helper.c 332-446, cgc-main.fl 1719-1760, fl-build-plan.c 262-331 | visited list and stack; the text so far | inline, expand, list | three readers of one form, each with its own idea of what a load is |
| parser | cgc-main.fl 399-625 | index into the tokens | parse | no error is ever reported |
| profiles and packages | fl-resolve-deps-profiles.c 642-881, fl-generate-user-fns.c 559-656, fl-build-plan.c 467-499 | the list of packages, the metadata, `user-fns.c` | plan, resolve, describe, generate | two resolvers, reports on the output that holds the packages, duplicates |
| TLS connections | http.c 1360-1458 | buffer, arena and try frame of one request | shake hands, read, answer, end | one read is the request |
| compiler | cgc-main.fl 1085-1507 | four global atoms: next closure id, names a closure may capture, names called indirectly, closure functions | compile, gcc, run | atoms that nothing ever takes back; what a closure captures; C scoping |
| atoms, counted heap | math.c 187-222, gc.c 181-295, parts of core.c and collection.c | atom, objects, closure counts | deref, reset!, copy, release | values that share members, three owners (arena, heap, closure count) |

How they meet: the accept loop hands descriptors to the pool; a worker runs the
connection loop on one; the loop opens an arena and a try frame, calls a route's
closure, and answers; a route may use atoms and futures, or be an SSE or
WebSocket route that keeps the descriptor; the playground is a program on that
server which runs the build script.  A build inlines the loads, then the compiler
parses, expands what loads are left and writes C, which gcc compiles.  `net.c` is a separate API for programs that
speak raw TCP.  A thread of the TLS server takes one request through the same parse, routes
and handlers as a worker does.  The packages of a program's `:use` become C functions
of `runtime/user-fns.c`, which BuildCache treats as one file among the caches.

### 2.2 Components that are not modelled

`PROJECT.json` lists every one with its files.  In short:

| component | code | why not, or when |
|---|---|---|
| routing, request fields, query strings, multipart | http.c 108-141, 290-412, 492-567 | functions of the request's text; planned (that a JSON body may throw, 519-520, is in HttpStream) |
| accept loop of the TLS server, HTTPS client | http.c 1119-1343, 1460-1527 | a detached thread for every connection, no limit, no shutdown; planned |
| SSE and WebSocket frames, byte-level I/O of net.c | sse.c, websocket.c, net.c | framing is planned, the bytes of raw I/O are not |
| try frames and call stack | error.c | planned |
| JIT | jit.c | its pool and counters are planned, machine code is out of reach |
| strings, vectors, maps; JSON; regular expressions | core.c, collection.c, aliases.c, json.c, regex.c | planned as operators with reference definitions |
| rest of the build front end | fl-module-parse.c, fl-toml-parse.c, fl-str-split.c | planned: TOML tables, module forms |
| package registry, `fl`, `fl-run.sh` | fx2-registry/, fl, fl-run.sh | planned |
| lexer, the other forms of the compiler | self/cgc-main.fl, target-gen1.c | strings, cond, try, and/or, define, nested defn and several bindings are left out; the C text is not modelled |
| HTTP client, mail, PDF, processes, files, hashes, debug log | http_client.c, smtp.c, pdf_*.c, process.c, io.c, debug.c | one-shot I/O without state of their own |
| old runtime, generated C, tests, examples, packages, documents | bridge/, user-fns.c, tests/, demo*/, packages/ ... | vendored, generated or data |

### 2.3 What makes each part correct

- **Pool**: never more connections than the limits; each accepted descriptor
  reaches one worker; no connection waits while every worker sleeps; service in
  arrival order; a shutdown ends and leaves at most one connection unserved.
- **Registry**: counts equal guards; nobody holds a freed entry; one thread
  closes; the descriptor of a guarded socket stays that socket's; `net_close`
  returns.
- **Connection loop**: handlers get whole requests in order, answers match
  requests, every exit leaves arena and try stack as it found them, the loop
  never waits for bytes that are not coming.
- **Descriptors**: between accept and close a worker is the only user of its
  number; none is leaked.
- **Future**: deref returns what the function returned; the object is freed once
  and after its last use.
- **Builds**: a successful build contains its own program and runtime; a good
  program builds; a check's answer is about its own program.
- **Databases**: one connection per database; an answer belongs to the statement
  that asked; nothing meets a closed connection unless a program closes one.
- **Loads**: each file the program loads is in it once, after what it loads; the
  plan lists what the build includes.
- **Parser**: what is written with matching brackets is read as exactly that; a wrong
  bracket has a predictable effect.
- **Packages**: `user-fns.c` has the functions of every package the program asks for,
  each once, and the plan lists the same packages.
- **Compiler**: gcc accepts the C of a program, and the binary does what the program
  means.
- **Memory**: live objects lie apart and inside their chunk; an atom owns all of
  its value; nothing is leaked, freed twice or used after.

The hazards behind these, each with its line and the properties that would
notice, are in `PROJECT.json` under "hazards".

## 3. The modules

| module | models | notes |
|---|---|---|
| `ConnService` | what the pool promises clients: refused when full, otherwise served once, first in first out | abstract; no threads |
| `WorkerPool` | `worker_loop`, `pool_init`, `pool_shutdown`, `server_start`, `handle_shutdown_signal` | implements ConnService |
| `NetRegistry` | `fl_net_register_fd`, `_acquire`, `_release`, `_close` and the paths of all their callers | |
| `HttpExchange` | what one connection promises its client: one answer for each request, in order | abstract; no bytes |
| `HttpStream` | `recv_one_request`, `check_keep_alive`, `handle_connection`, `handle_tls_connection` | implements HttpExchange |
| `Connection` | descriptors and connection objects under `handle_connection`, `sse_handle_request`, `ws_handle_upgrade` | |
| `Future` | `fl_future` with its thread, `fl_deref`, `fl_deref_timeout`, `fl_future_done` | |
| `BuildCache` | the steps of `fl-build.sh` on shared files | |
| `Playground` | `check-source` with its builds | EXTENDS BuildCache |
| `Arena` | `fl_arena_begin`, `_alloc`, `_end`, `_destroy` | |
| `Atoms` | `fl_atom_deref`, `fl_atom_reset`, `fl_heap_copy`, `fl_heap_release` and the values requests build | |
| `DbPool` | `fxb_sqlite_open`, `_query`, `_exec`, `_close`, `mariadb_connect`, `_query`, `_close` and their variants | |
| `FreeLang` | the meaning of the core forms of the language | reference, no code |
| `CodeGen` | `cgc`, `cgc-let`, `cgc-fn`, `cgc-loop` ... to C trees, what gcc refuses of these, how they run | EXTENDS FreeLang |
| `Loads` | `inline_loads`, `expand-loads`, `collect_loads_recursive` | |
| `Reader` | `parse-all`, `parse-expr` and the functions these call | |
| `Packages` | `collect_profile`, `collect_metadata`, `resolve_profiles` of the plan, `emit_user_fns` | |
| `MC...` | instances for TLC; `MCMemory` runs Arena, DbPool or Atoms, `MCThreads` Future or Connection, `MCFrontEnd` Loads, Reader, CodeGen or Packages: the parts of each share no state | |
| `...Proofs` | theorems of WorkerPool, HttpStream, NetRegistry, Connection and Future (`ThreadProofs`), BuildCache with Playground (`PlaygroundProofs`), Arena and Atoms (`MemoryProofs`), DbPool, Loads, Reader and Packages (`FrontEndProofs`) | |

**WorkerPool.**  `queue`, `queueLen`, `active`, `shutdown` are the fields of
`g_pool`; `wpc`, `mpc`, `spc` say where each worker, the main thread and each
signal handler is; `listener` is the socket the system knows, `gfd` whether
`g_server_fd` still names one.  A critical section is one action, guarded by
`LockFree`, except that a worker that has found the queue empty holds the lock
until it waits (`sleep`): the signal handler takes no lock and can run in that
window.  `pthread_cond_signal` wakes one waiter if there is one, waits may end
spuriously, `pthread_create`, `socket`, `bind` and `accept` may fail.

**NetRegistry.**  `os` is the socket under each descriptor, `entry` the list, by
generation.  `close(2)` is its own step, outside the mutex, and descriptors are
given out again.  The wait for the guards is `Check`, which claims or waits, with
spurious wake-ups.  `PasvAccept` turns on the one caller that ignores a failed
registration.

**HttpStream.**  A request is a number of units, its header first; `recv` takes
any number of those that have been sent, so every cut is explored.  What the code
finds with `strstr` is searched in the units of the buffer, with the code's
order of tests (header limit before header end, refusals before the body).
The client's habits (`Clients`) are chosen once per behaviour, so that a property
may speak of the clients it is about and the others are still explored.  A client of
the habit "tls" is served by `handle_tls_connection`: one read of at most one record
(`splits`: a request in several), no limits and time limits, one answer, no loop; it
shares every step from the parse to the handler's return with the plain connection.
A JSON body is parsed before the try frame of the handler is pushed (http.c 805, 519-520):
one that does not parse throws with no frame, and `fl_throw` ends the process (error.c
65-67).  `JsonThrows` is that step; it goes to "exited", where nothing of the connection is
answered or closed any more.  What ends a process ends every other connection with it: the
modules of the pool and of the other connections describe a process that lives.
`Taken` is what the handler gets as the request: the C string up to the end the header
announces, or up to the NUL that the code writes behind what it received
(http.c 371-376).  Where no header's end was received, a body may be followed by bytes of an
earlier request (`Stale`).

**Connection.**  What a request says is left to HttpStream; here each use of
`client_fd` records whose connection was reached.  `server` is what its handlers do
(stream, call `ws_close`), `wpc` where each worker is, `connObj` the connection object.

**Future.**  `program` says what the threads do with the handle (a deref once,
polling, several threads); `wild` collects the threads that touch the object
after it was freed.

**BuildCache, Playground.**  Every file the script shares with other builds is a
variable, every step that reads or writes one is an action; preprocessing and
checks of private files are one step.  `habits` says whether builds overlap, are
killed, the runtime is edited, or gcc fails.  The resolver, the reading of metadata and the generator end the build
when they fail (`ResolveFails`: the script runs under `set -e`).  Playground adds the atom of active
checks, read and written in two steps as `swap!` does.

**Arena.**  `chunks` with capacity and fill, `head` the current one (0: no
arena), `objects` the live allocations.  Sizes are those after rounding to 8.

**Atoms.**  A value is a string or collection of a thread's arena, a closure or
an object of the counted heap; a collection has members that are no collections
themselves.  `fl_atom_reset` is three steps for the other threads: read the old
value, copy the new one and store it, release the old one.  Undefined behaviour
(use or release of freed memory) is recorded in `ub` and ends the behaviour.

**DbPool.**  `slots` is the table (key and connection of each, 0 for NULL), `lock` the
holder of each slot's lock; the pool's lock covers one action each time.  Opening is
look, connect without the lock, look again.  A program gets a slot's number for an id
and may pass it from any thread, at any later time.  `said` is whose statement a
connection ran last, which is what counts, insert ids and MariaDB's results are of;
`answer` is what the caller got.  A query of SQLite reads its own prepared statement
and SQLite answers a NULL connection with an error; MariaDB's library reads through
it, which `misuse` records.  Both client libraries are external: a connection fails
or not, a statement fails or not.

**FreeLang, CodeGen.**  Syntax trees and C trees are records.  `Cgc` walks the tree as
the compiler does and hands its four atoms (`s`) from node to node; nothing is taken
back where the code takes nothing back.  gcc is `Accepted` (names declared, functions
defined once) and `Exec`, with the order of arguments as a choice; an uninitialised
variable has the value `Garbage`.  `Meaning` is the reference: lexical scope, left to
right, what is printed on the way.

**Loads.**  A file system is a function from files to loads, each of which has its
line for itself, shares it, or stands in a comment: what the three readers of loads
tell apart.  A file's own text comes after its loads.  The plan, the inliner and cgc each
recurse into a file they load: `open` is the stack of files they are in, each with its
lines and the line it is at.  Of each there is a step for a line with a load, one for any
other line and one for the end of a file; `visited` is the list of the one that runs.

**Reader.**  `calls` is the stack of calls that wait for a node: `parse-all`, a
`parse-args` for each list, `parse-block-fields`, `parse-expr` for the operand of `@`;
`idx` is the index they hand on.  There is a step for each expression that begins (an
atom is read at once) and one for each call that returns.  A node has no copy of its
parts: `made` keeps it under the index of its first token, and lists hold indices.  The
parser crashes where `parse-consume-rparen` and its like look into the token after the
last one (their `and` is a C function and evaluates both sides).
The property speaks of the text alone: `Ends` says for every text, matched or not, at
which token each list ends, `Members` what stands in a list then, and `ReadAs` that the
parser made exactly that.  For a text whose brackets match (`Pairs`) it is what anybody
would write down.

**Packages.**  `repo` is what profiles/ and packages/ hold: the packages a profile lists
and the profiles it depends on, the name a package's metadata gives its function and
whether it does without a shim.  A file may be missing (passed over) or unreadable (the
build ends).  The resolver's reports stand among its packages as `Mark`, since
fl-build.sh reads both from one file.  The loops are steps: `prof` is the place in the list
of :use and `item` the one in the list of that profile, or of the packages where these are
gone through; `seen` is the length collect_profile remembers when it opens a profile.

## 4. Fairness

- **WorkerPool**: threads that can run do (WF), and a thread that asks for the
  lock again and again gets it (SF on the steps that take it: critical sections
  are short and the C library's mutex does not starve a thread for ever).
  `accept` owes nothing until its socket is closed.  `HandlersEnd`, that handlers
  return, is an assumption about programs; nothing in http.c enforces it, and the
  joins of http.c 1020-1023 wait for ever without it.  So is that no handler and no
  body ends the process (HttpStream has the body that does).
- **NetRegistry**: WF of each thread inside net.c; `IoEnds`, that a guarded read
  or write ends, is an assumption about peers (net.c 251 has no time limit).
- **HttpStream**: WF of the server's step alone: a client need not go on.
  `RecvTimeout` makes sure that it is not waited for.
- **Connection**: WF of the steps that leave a request, a stream or the loop
  (100 requests at most, handlers return).
- **Future**: WF of each thread and of the function, SF of taking the lock.
- The other modules state safety only.

## 5. The runs

| run | configuration | states | what it shows |
|---|---|---|---|
| `pool` | MCWorkerPool, PoolSafety | 12,983 | `CountersMatch`, `OneOwner`, `NoLostWakeup`, `AtMostOneStranded`; every step is one of ConnService or none |
| `pool_liveness` | MCWorkerPool, PoolLiveness | 14,259 | what was queued before the flag is served, and a shutdown ends |
| `net` | MCNetRegistry, Net | 146,259 | `RefsMatch`, `HeldAlive` always; `GuardedSocketOpen`, `EntriesAreSockets`, `ClosesOwnSocket` for disciplined programs; `net_close` returns |
| `http_stream` | MCHttpStream, HttpStream | 472,840 | plain and over TLS: `Balanced`, `WholeRequest`, `HandledInOrder`; HttpExchange is implemented; every request is answered or the connection closed, and only a JSON body that does not parse ends the process |
| `threads` | MCThreads, Threads | 98,630 | futures: `Delivered`, `FreedOnce` always, `OneUserIsSafe`, derefs return; connections: `Released` always, `Exclusive` without the features that close twice, `ObjectAlive` (every connection object is freed once, and only what a worker still serves is kept) for handlers that do not call `ws_close` |
| `conn_sse_close` | MCThreads, ConnSseClose | counterexample | an SSE stream's descriptor is closed twice, the second time another client's |
| `playground` | MCPlayground, Playground | 1.4 million | `FreshBinary`, `GoodBuilds`, `OwnVerdict` |
| `playground_limit` | MCPlayground, PlaygroundLimit | counterexample | two overlapping checks both believe to be the first |
| `memory` | MCMemory, Memory | 1.8 million | arena: `InBounds`; atoms: `AtomOwnsItsValue`, `NoMisuse`; databases: `OneConnection`, `OwnAnswer`, `Usable` |
| `front_end` | MCFrontEnd, FrontEnd | 1.8 million | loads: `IncludedOnce`, `PlanAgrees`; parser: `Regroups`; compiler: `Builds`, `KeepsMeaning`; packages: `PackagesOnce` |
| `web_profile` | MCFrontEnd, WebProfile | counterexample | the packages of a profile another one depends on are not in the build |
| `closures` | MCCodeGen, Closures | counterexample | a closed program whose closures gcc refuses |

### Bounds, and why they are enough

- Pool: two workers are the fewest that can both sleep, both serve or differ;
  four connections fill the queue (2) and the limit (3), and each limit refuses one.
  Liveness has two connections and queue length one.  One signal handler: a
  second one repeats what the first did.
- Registry: three threads are one guard and two racing closers on one entry; two
  descriptors and two sockets let a number be given out again; at most two calls
  of `net_close` per socket and generations bounded by sockets.
- HTTP: the buffer has 6 units, the header limit is 4 and the body limit 6, as the
  code's header limit is below and its body limit above the buffer; so header-too-long, header with body, body
  longer than the buffer and body over the limit all occur; three requests and a
  keep-alive limit of two reach the end of the loop.  Thirteen shapes of request
  cover routed and unrouted, plain, SSE and WebSocket, close and keep-alive, each
  refusal, and JSON that parses or does not.  Eight sets of habits: none, slow, leaving,
  asking ahead, all of these and idle, flooding and idle, and two over TLS, one of which
  floods and one of which leaves and splits its records.
- Connection: two workers and three connections with three descriptors (and two
  in the counterexample): the number of a closed connection is reused while the
  first worker still holds it.
- Future: three threads, three calls each: enough for a waiter, a deadline and a
  freeing thread at once.
- Builds: three programs (packages k1, packages k2, one that does not compile),
  two versions of the runtime, three builds in a row, one for each request when
  checks overlap.
- Memory: chunks of 4 units with a header of 1, objects of 1, 2, 3, 4 (a full
  chunk) and 6 (more than one); six addresses, which is more than two atoms'
  values can occupy at the same time; counts stick at 3 instead of 0xFE.  Databases: two threads, three databases, two slots (so that the table is full while
  one more is wanted) and three connections (two threads that open the same database
  and one more).
- Front end: programs of up to five or six nodes in seven slices of the language
  (closures, lets below which closures capture, loops, C names that collide, names of
  functions, map literals, printing), some 20,000 in all; file systems of a root
  with up to two loads and three other files with up to one, so that diamonds,
  repetitions, cycles, missing files and files of the same name in two directories
  occur (35,672 of them); token sequences of up to 5 of the 8 kinds of tokens, of 6 brackets and
  symbols and of 7 brackets (69,458), enough to close, cross or forget two nested lists; two profiles of up to two
  packages and one that depends on them, where profiles share packages, list one
  twice or are missing or unreadable, and so are packages (18,720 with six lists of
  :use, of up to two profiles).  `Fuel` ends
  evaluations; programs that spend it are not compared.

`CHECK_DEADLOCK FALSE` where a run ends by design: after the bounded number of
connections, closes, calls, requests or builds (net, http, threads,
playground), and after undefined behaviour (memory).  The pool runs check
deadlock, with `Terminated` as the only state in which nothing is left to do.

### Where the code departs from its texts

Four are runs with a counterexample, and `PROJECT.json` quotes the lines under
"findings".  Others show as the condition of a property; each was seen as a
counterexample when the condition was left out:

- `Disciplined` (NetRegistry, in `ClosesOwnSocket` and others): a second `net_close` after the entry is gone closes
  the bare number (net.c 98), against
  tests/load-balancer-1e-a/socket_registry_design.md:47; and
  `net_pasv_accept` hands out a descriptor whose registration failed (net.c 354).
- `WholeRequest`: the header limit of 8 KB is applied to all bytes of the first `recv`
  (http.c 609 against 47), so that a small header that comes together with a large
  body is refused with 431; bodies between the 64 KB buffer and the 10 MB of http.c 48 are
  handed over cut (http.c 658); so is a request whose client hangs up within it
  (http.c 671), where http.c 592 announces -1.  Over TLS a request of several records
  is handed over cut (http.c 1380).
- `Promised` (HttpStream): an idle keep-alive connection gets a 408 after 10 s,
  since the header's limit replaces the idle one (http.c 596 against 579); bytes
  of a request sent ahead are overwritten (http.c 601).
- `Spoilt` (HttpStream): a request with `Content-Type: application/json` whose body does not
  parse ends the server (http.c 805, json.c 127, error.c 65), and so may one whose body
  arrives cut.  No text of the repository says what
  should happen; `Answered` leaves these connections out and says that no other throw ends
  the process.
- `Answered` accepts a closed connection in place of an answer: an upgrade without
  a route is closed unanswered (http.c 756-760), where websocket.c 401 says that it
  goes on as HTTP.
- `program = {}` (Connection): after `ws_close` the cleanup reads a freed object
  and closes twice (websocket.c 464, 356).
- `AtMostOneStranded`: one accepted connection may stay in the queue for ever
  (http.c 1098), although http.c 1010 waits for the queue to drain.
- A signal between the installation of the handlers and the reset of the flag (http.c
  1041-1043 and 982) is lost; the model of the pool starts after `pool_init`.
- A `deref-timeout` of a negative time may hand `pthread_cond_timedwait` a deadline it
  refuses at once, so that the loop spins until the future is done (aliases.c 1145-1149);
  times of the model are not negative.
- `OneUserIsSafe`: two threads that deref one future touch freed memory
  (aliases.c 1118-1126), and so does a retry after a nil result.
- `FreshBinary`, `GoodBuilds`: overlapping or killed builds and a failed gcc leave
  caches that later builds trust (fl-build.sh 454-458, 472-483).
- `OwnVerdict`: when checks overlap, one may get the other's answer.
- `AtomOwnsItsValue`, `NoMisuse`: a value taken from an atom is freed by another
  worker's reset while it is in use (math.c 190, 212); captured values stay in the arena
  (collection.c 219), values are used after a reset (math.c 220), and a
  closure's count sticks at 0xFE going up but not down (gc.c 248).
- `Usable`: in programs that close connections, MariaDB's client library is handed a
  NULL connection by a thread that waited for the slot or still holds the id
  (mariadb.c 333); and slots are never given back (sqlite.c 92), so that 32 opens and
  closes fill the table.  Besides the model: a path of 512 characters or more is not
  terminated in the table (sqlite.c 99), the key of a MariaDB connection leaves the
  password out, and the text "host:port/db/user" does not tell all keys apart.  A step of a query that fails
  is taken for the end of its rows (sqlite.c 119).
- `Disciplined` (CodeGen) is what a program has to avoid for the compiler to be
  trusted: function literals inside each other (their C functions get one number),
  literals that use the parameter of another literal or a loop's variable, or a name
  only as what is called or inside a map literal (none of these is captured);
  a second binding of a name bound by let; names that are also functions'; two names
  that are one in C.  docs/SPEC.md:99 promises captures without such conditions: that
  is the run `closures`.
- Besides the model: `and` and `or` are C functions and evaluate both sides; `try`,
  which docs/SPEC.md:102-104 describes, is not compiled; a `recur` outside a loop is
  `fl_nil()` (cgc-main.fl 889).
- `Good` (Packages): a profile that lists a package twice gets its functions twice,
  since collect_profile compares with earlier profiles only
  (fl-resolve-deps-profiles.c 689-691), and gcc refuses them; the plan lists it once.
- `KeepsMeaning` compares the order of output only where gcc evaluates arguments
  from the left; docs/SPEC.md:28 promises that order, and `fl_add(f(), g())` in C does
  not (on x86-64 gcc starts from the right).
- `Tidy` (Loads): a load that shares its line is left to the compiler, which looks for
  it in /tmp, where the preprocessed text is, and then in the directory of the
  process, so that a library's load may be dropped or find another file; it also comes
  as often as it is written.  A load in a comment is listed by the plan (PlanAgrees).
- `Plain` (Reader): an array that begins with a capitalised symbol is read as a named
  block and what follows its fields goes to the lists around it; an `@` without an operand
  takes the closing token for it; `[1 2)` is accepted;
  a text that ends inside a list crashes the parser.  fl-build.sh 295-330 would check
  brackets first, with fl-check-parens.c, which the repository does not contain.
- `InBounds` bounds objects up to the size of a chunk: a larger one is written
  past the end of the next chunk of the list when an earlier request left one
  there (gc.c 96).

## 6. The proofs

| module | theorems | obligations |
|---|---|---|
| `WorkerPoolProofs` | `PoolInvariant`; from it `PoolTypeOK`, `PoolCounters`, `PoolLimits`, `PoolNoLostWakeup`, `PoolStranded`; `PoolOwners`, from it `PoolOneOwner`; `PoolImplementsService` | 644 |
| `HttpStreamProofs` | `StreamInvariant`; from it `StreamTypeOK`, `StreamBalanced`, `StreamWholeRequest`, `StreamHandledInOrder`, `StreamImplementsExchange` | 2211 |
| `NetRegistryProofs` | `RegistryInvariant`; from it `RegistryTypeOK`, `RegistryRefs`, `RegistryHeldAlive`, `RegistryOneCloser`; `RegistrySockets`; from it `RegistryGuardedSocketOpen`, `RegistryEntriesAreSockets`, `RegistryClosesOwnSocket` | 2034 |
| `ThreadProofs` | `ConnectionInvariant`; from it `ConnectionExclusive`, `ConnectionObjectAlive`; `FutureInvariant`; from it `FutureTypeOK`, `FutureDelivered`, `FutureFreedOnce`; `FutureOneUser` | 529 |
| `PlaygroundProofs` | `PlaygroundInvariant`; from it `PlaygroundTypeOK`, `BuildFreshBinary`, `BuildGoodBuilds`, `PlaygroundOwnVerdict` | 1276 |
| `MemoryProofs` | `ArenaInvariant`; from it `ArenaInBounds`; `AtomsInvariant`; from it `AtomsTypes`, `AtomsOwnTheirValue`, `AtomsNoMisuse` | 2419 |
| `DbPoolProofs` | `DbPoolInvariant`; from it `DbPoolTypeOK`, `DbPoolOneConnection`, `DbPoolOwnAnswer`, `DbPoolUsable` | 825 |
| `FrontEndProofs` | `PackagesInvariant`; from it `FunctionsOnce`; `LoadsInvariant`; from it `TextsOnce`, `PlanIsTheBuild`; `ReaderInvariant`; from it `TextsRegrouped` | 4900 |

Each theorem has the form `Spec => []Inv` and holds for every value of the
constants that satisfies the module's named ASSUME: finite sets of threads, limits
that are natural numbers (positive ones for the pool), the marks `None`, `NoFd`
and the like outside the sets they are added to.  The bounds of the TLC instances
(how many connections, sockets, chunks, calls) are constants, so the theorems hold
for all of them.  The shape is always the same: an inductive invariant, one lemma
per action or group of actions, and PTL in the last step only.

**Pool.**  `NoLostWakeup` is not inductive: it needs `SleepersSawEmpty`, that a
worker between its test and its wait still sees the empty queue it tested, which
holds because that worker owns the lock and every step that enqueues needs it.
`AtMostOneStranded` needs `Draining`: once a worker has left, the flag is set, so
the accept loop comes to its test of the flag before it accepts again, and what it
has in hand at that time is all that can still be enqueued.  `Counted` says that
the counters are cardinalities, from which the limits follow at the one place
where a connection is admitted.
`Owned` says who has a connection in each of its states: the accept loop, one place
of the queue, or one worker; `OneOwner` is a part of it.  With it the workers in
service and the connections they serve correspond one to one, so `AtLimit` of the
accept loop is `Full` of `ConnService`, and `PoolImplementsService` follows step by
step: taking a connection is `Start`, releasing it `Finish`, the accept loop's
decision `Admit` or `Refuse`, and everything else leaves the service as it is.

**HTTP connection loop.**  The argument is about the *line*: what is in the receive
buffer, followed by what the server has not read.  Every step but a request of the
client leaves a piece of the line as it is (`Moves`, `StepMoves`): `recv` and
`SSL_read` move the border between its parts, the loop drops what is before it, a
client that hangs up cuts its end.  So the line stays a `Window` of what was sent: of
two units of it the later belongs to the same request, as far on as it is further, or
to a later request when the first has no units left (`Apart`).  A buffer that starts
with the first unit of a request then has the header's end where the header says
(`HeadIs`) and is complete when the code says so (`CompleteIs`), which gives
`WholeRequest`.  The first units that are still to be looked at belong to later
requests than those handled (`NextUp`), which gives `HandledInOrder`.  For a client
that waits, `Waiting` says that what is left of the line is the request after the last
answer, and that all of it is in the buffer when it is looked at (`AllReceived`): then
an answer (`StepAnswers`) is the next of `HttpExchange`, and everything else ends the
exchange or leaves it as it is.  What the code finds in a buffer that starts inside a
body (the search for a header's end may succeed there) is not needed anywhere.

**Connections.**  While no handler closes a descriptor, a descriptor is closed once and
only by the worker it was given to, so its number cannot be another connection's by
then: `Exclusive` is inductive with the types, `Given` and `Featured` (a server without
streams has no worker in one), and `ObjectAlive` with `NoObjectYet`, that a worker has no connection object before its stream.

**Registry.**  `RefsMatch` counts guards with a cardinality; taking and giving back
a guard change it by one.  `OneCloser` says that an entry is CLOSING exactly while
its claimant is at work, so the registry's own reference is still there until
`Finish`, and `Reap` cannot free an entry somebody points to: that is `HeldAlive`.
`RoomToRegister` and `Numbered` make sure that a generation never names two
entries.  The bound of `refs` in TypeOK follows from `RefsMatch` and is proved last.

**Descriptors and sockets.**  `SInv` has two halves.  `Ledger` holds for any program:
which socket has which number (`Numbers`), one entry per socket with its number
(`EntryOfSocket`), nobody else knows a socket while it is opened (`Opening`), every
closer is counted (`Called`), and a closer past its wait has no guard left on its entry
(`Drained`).  `Order` holds while the program is `Disciplined`; `StaysDisciplined` says
that discipline, once lost, never comes back, so `Disciplined => Order` is inductive.
An open entry stands for an open socket and is the youngest under its number
(`OpenIsOpen`, `Youngest`), a socket nobody has called close for is open (`Uncalled`),
a thread that opens or closes a socket still has it under its number (`Working`), and
every open socket is in the list or about to be (`Listed`).  Then the search by number
finds the entry of the socket it was meant for (`FindsOwnEntry`), the raw close is never
reached, and the descriptor given to close(2) is still the thread's own.

**Future.**  `Owner` ties the mutex to the positions of the threads, `Fields` ties
`done`, `result` and `freed` to the runner, `Disposer` says that the thread which
set `freed` is alone until it frees.  `FutureOneUser` needs a second invariant,
`Sole`: in a program with one user the object outlives the call that takes its
value and no call follows it.

**Builds and playground.**  The invariant says what the two hash files vouch for:
`Vouched`, that the archive and the object are those the hashes name, except while the
build that runs is between writing a file and writing its hash; and `Own`, that this build
has the archive from its own test or its own writing on, and then the object.  Both hold
where builds neither overlap nor are killed (`Orderly`), whatever compilers fail and
whatever of the runtime is edited between builds: no build then ends between writing a
file and writing its hash, and one whose program does not compile removes both.  `FreshBinary` is `Own` at the end of a build.  `GoodBuilds` needs
`Complete`, which fails with the first failed gcc: every archive is whole and
`user-fns.c` has the packages of the program.  Its counterpart for checks is `OneCheck`: a
check counts from zero to one and back, so it answers 429 only where no check is
allowed at all, and its build is of its own source.

**Arena.**  `Placed` and `Roomy`: an object lies in the used part of the current or
an earlier chunk, and no chunk is smaller than `ARENA_CHUNK_SIZE`, so the next
chunk of the list holds any object that is not larger than that.

**Atoms.**  `AtomOwnsItsValue` speaks of the states between resets and says nothing of
one that is under way, so it is not inductive.  `Trees` is: the atom's value is a tree
of two levels, each part at an address of its own (`Tree`); a reset that has stored the
copy still has the old tree, which shares no address with the new one, since copies go to
addresses that were free (`CopyMakes`); the two make up the counted heap; and a closure
counts its maker and the trees it is in (`Holders`), at most three references, so that no
count sticks.  A release takes exactly the old tree (`ReleaseTakes`), and what is left is
the property.  It needs `ValuesSound`, that a closure is in a collection once and has
captured nothing, and that of two workers only one resets: these are the habits
`crowd`, `capture` and `share` the property leaves out.  `NoMisuse` needs `Turns` as
well: what a worker can name of the heap is there (`NamedUsed`), because no other worker
can name any of it and a worker's own reset forgets what it named before.  That is where
the habit `keep` would break it.  The theorems hold for any number of workers, addresses
and closures and for every `MaxRc` from 3 on; that values have two levels is a bound
of the model.

**Databases.**  `OneConnection` counts on `SlotsOk` and `HandOk`: every slot in use has
a connection of its own to its own key, and a thread about to publish has one nobody
else knows; the second look under the pool's lock is what makes a key's slot the only
one.  `OwnAnswer` needs `IdsOk` (slots keep their key, so an id means one database for
ever) and `LocksOk`: from the statement to the reading of its results its thread holds
the slot's lock, so that `said` is still that thread.  `Usable` needs `Kept` (without
closes no slot loses its connection) and `Filled` (only a full table refuses); with
`OneConnection` a full table has as many keys as slots.

**Packages.**  The profiles of :use and the packages they list are *places*, in the order
in which the plan and the resolver both come to them.  Each list either of them builds
holds exactly what the places before the current one say (`Gathered`), and its names stand
in the order of the first place that has them (`Ordered`).  Two lists like that with the
same places are the same list (`PrefixNext`), whatever the two programs compare a name
with on the way, so the plan names the packages of the build.  From there on bodies and
shims go by the index in the list; that no two of them have one name in C is `Good`.

**Loads.**  The stack of open files is a path: each file on it is needed by the one below
(`Walked`), and no file is on it twice.  What the lines passed lead to is visited, so when
the walk is over the visited files are closed under loading, and they are the files the
root leads to (`Loaded` is the least such set).  For the order of the texts: when a file's
own text is written, everything it needs has been visited, and what of that has no text yet
is on the stack and so leads to the file (`InlineOwn`): only files that load each other can
stand in another order (`InOrder`).  In a program whose loads have their lines to
themselves the preprocessed text has no loads left; cgc copies it form by form, with one
file on its stack, and `Depth` is never reached (`Expanding`).  The plan walks as the
inliner does and lists what it goes to (`Planned`).

**Parser.**  Suppose somebody says of a text where each list ends (`Ends(e)`).  The calls
under way are then the lists that have begun and not ended, one inside the other
(`Shape`, `Standing`), except that a list may have returned at a closing token that is
still to end lists around it.  Each call has what stands in its list before the next
token, in order, without the list it waits for (`Nested`), and every node made is what is
written there (`Written`): when its closing token comes, a list has exactly its members.
The first member stands right behind the bracket (`FirstMember`), so the operator is the
token there.  That every text has such an `e` is shown by the parser itself: `Partly(h)`
says that the lists have ended, so far, where `Ends` lets them, and each step sets one
more entry of `h`; when nothing is left to read, `h` is an `e`.  Brackets that match are
one (`PairsEnd`).

Model-checked only: the liveness properties `QueuedIsServed`, `ShutdownCompletes`,
`CloseReturns`, `Answered`, `DerefReturns` and `Released`, which rest on fairness; and
`Builds` and `KeepsMeaning`.
FreeLang and CodeGen are recursive operators on trees: what they compute for every input
is induction over data, which the prover cannot do, and TLC checks them on all programs up
to a size.

## 7. The plan

Done so far: pool, registry, HTTP connection loop, descriptors, futures, builds and
playground, arena, atoms, database pools, loads, parser, closures of the compiler, packages, TLS
connections.
What is left, in order of importance; each entry names the code and what to say of it.

1. *Build front end*: module forms (fl-module-parse.c) and TOML (fl-toml-parse.c) as
   functions from text to tables, the semantic check and the map of C errors
   (fl-build-helper.c).
2. *Language run time*: try frames and the call stack that a throw leaves behind
   (error.c), the JIT's pool and counters (jit.c), the accept loop of the TLS server
   (http.c 1460-1527).
3. *Data algorithms*, as operators checked against reference definitions over
   bounded inputs: route matching and its order (http.c 108-138, 386-412), query
   strings and the tokenizer's hidden state (http.c 290-321), JSON (json.c), match
   loops (regex.c, aliases.c 960 on), slices, maps, sort (collection.c, aliases.c).
4. *Compiler*: try, and/or (which are C functions and evaluate both sides), several
   bindings and parameters, nested defn.
5. *Tools*: package registry (fx2-registry/modules.fl: lost updates of
   installed.json), `fl-run.sh` and `fl` on top of BuildCache.
6. *Proofs*: every safety property of a module without recursive operators is proved.

Modules that share no state are checked side by side where they are small, as
`MCMemory` and `MCFrontEnd` do.
