------------------------------- MODULE Server -------------------------------
(***************************************************************************)
(* cmd/server/main.go: one process from its start to its end, with the     *)
(* requests it serves over gRPC (internal/grpcserver/server.go) and HTTP   *)
(* (internal/handler/handler.go).  Three kinds of goroutines interleave:   *)
(* main, the one that waits for a signal and shuts down, and the           *)
(* handlers.                                                               *)
(*                                                                         *)
(* A request works through its keys one after the other.  What the lookup  *)
(* or write of a key does to the tiers is Manager's subject; here it       *)
(* succeeds, fails or panics.                                              *)
(***************************************************************************)
EXTENDS Config

CONSTANTS Reqs,
          Envs,       \* the values REDIS_ADDRS may have
          Latencies,  \* the values ORIGIN_LATENCY may have, in nanoseconds
          MaxBatch    \* bound: the keys of a batch

ASSUME ServerAssumption ==
  /\ Envs \subseteq Seq(STRING)
  /\ Latencies \subseteq Int
  /\ MaxBatch \in Nat

VARIABLES
  main,   \* where the main goroutine is, or how the process ended
  env,    \* REDIS_ADDRS as it was set,
  addrs,  \* and as it was read; both forgotten when nobody reads them again
  jitter, \* the origin's jitter
  l2,     \* the Redis client: none yet, a nil pointer, open or closed
  grpc,   \* the gRPC server
  http,   \* the HTTP server
  stop,   \* where the goroutine that shuts down is
  sig,    \* a signal has been delivered to it
  req     \* req[r]: the state of request r

vars == <<main, env, addrs, jitter, l2, grpc, http, stop, sig, req>>

Booting == {"load", "newl2", "again", "local", "grpc", "client", "listen"}
Running == Booting \cup {"serve", "return", "close"}
Ended == {"exit0", "exit1", "panic", "killed"}
Alive == main \in Running

APIs == {"http", "grpc"}
Ops == {"get", "set", "stats", "other"}  \* a deletion takes the same path as a set
Request == [api : APIs, op : Ops, todo : Nat, ok : Nat, fail : Nat,
            live : BOOLEAN, st : {"free", "run", "answered", "error"}]

\* a request none of whose keys has been handled
Fresh(api, op, size, st) ==
  [api |-> api, op |-> op, todo |-> size, ok |-> 0, fail |-> 0, live |-> TRUE, st |-> st]

Busy(r) == req[r].st = "run"
BusyRpc(r) == Busy(r) /\ req[r].api = "grpc"

\* A mutant: the end of the batch is not noticed.
WorkingOn(r, op) == Alive /\ Busy(r) /\ req[r].op = op

\* a key of r is still to be handled
Working(r, op) == Alive /\ Busy(r) /\ req[r].todo > 0 /\ req[r].op = op

LocalRedis == << <<"localhost:6379">> >>

Init ==
  /\ main = "load"
  /\ env \in Envs
  /\ addrs = <<>>
  /\ jitter \in {latency \div 4 : latency \in Latencies}
  /\ l2 = "none"
  /\ grpc = "off" /\ http = "off"
  /\ stop = "absent" /\ sig = FALSE
  /\ req = [r \in Reqs |-> Fresh("http", "other", 0, "free")]

-----------------------------------------------------------------------------
(* main *)

Load ==
  /\ main = "load"
  /\ main' = "newl2"
  /\ addrs' = envSlice(env, LocalRedis)
  /\ UNCHANGED <<env, jitter, l2, grpc, http, stop, sig, req>>

\* the Redis client is settled, and its configuration is no longer needed
Settle(client) ==
  /\ main' = "grpc"
  /\ l2' = client
  /\ env' = <<>> /\ addrs' = <<>>
  /\ UNCHANGED <<jitter, grpc, http, stop, sig, req>>

\* The ping is answered: at the first attempt, at mustCreateFallbackL2's second
\* one, or by a Redis on this machine.
Connected ==
  /\ main \in {"newl2", "again", "local"}
  /\ Settle("open")

PingFails ==
  /\ main \in {"newl2", "again"}
  /\ main' = IF main = "newl2" THEN "again" ELSE "local"
  /\ UNCHANGED <<env, addrs, jitter, l2, grpc, http, stop, sig, req>>

\* The error of the last attempt is ignored, and the pointer is nil.
NoRedis ==
  /\ main = "local"
  /\ Settle("nil")

StartGRPC ==
  /\ main = "grpc"
  /\ main' = "client"
  /\ grpc' = "serving"
  /\ UNCHANGED <<env, addrs, jitter, l2, http, stop, sig, req>>

\* os.Exit(1): the port is taken
ListenFails ==
  /\ main \in {"grpc", "listen"}
  /\ main' = "exit1"
  /\ UNCHANGED <<env, addrs, jitter, l2, grpc, http, stop, sig, req>>

\* The HTTP server is put together and the shutdown goroutine started.  On the
\* way l2.Client() dereferences the pointer, nil or not.
BuildHTTP ==
  /\ main = "client"
  /\ main' = IF l2 = "nil" THEN "panic" ELSE "listen"
  /\ stop' = IF l2 = "nil" THEN stop ELSE "start"
  /\ UNCHANGED <<env, addrs, jitter, l2, grpc, http, sig, req>>

\* ListenAndServe; a server that was closed before returns at once
ListenAndServe ==
  /\ main = "listen"
  /\ main' = IF http = "closed" THEN "return" ELSE "serve"
  /\ http' = IF http = "closed" THEN http ELSE "serving"
  /\ UNCHANGED <<env, addrs, jitter, l2, grpc, stop, sig, req>>

ServerClosed ==
  /\ main = "serve" /\ http = "closed"
  /\ main' = "return"
  /\ UNCHANGED <<env, addrs, jitter, l2, grpc, http, stop, sig, req>>

\* main returns: the deferred l2.Close(), then the end of the process
CloseRedis ==
  /\ main = "return"
  /\ main' = "close"
  /\ l2' = "closed"
  /\ UNCHANGED <<env, addrs, jitter, grpc, http, stop, sig, req>>

Exit ==
  /\ main = "close"
  /\ main' = "exit0"
  /\ UNCHANGED <<env, addrs, jitter, l2, grpc, http, stop, sig, req>>

MainStep ==
  \/ Load \/ Connected \/ PingFails \/ NoRedis \/ StartGRPC \/ ListenFails
  \/ BuildHTTP \/ ListenAndServe \/ ServerClosed \/ CloseRedis \/ Exit

-----------------------------------------------------------------------------
(* The shutdown goroutine *)

Notify ==
  /\ Alive /\ stop = "start"
  /\ stop' = "wait"
  /\ UNCHANGED <<main, env, addrs, jitter, l2, grpc, http, sig, req>>

\* A mutant: the HTTP server is closed before the gRPC server is drained.
HTTPFirst ==
  /\ Alive /\ stop = "wait" /\ sig
  /\ stop' = "drain"
  /\ grpc' = "draining"
  /\ http' = "closed"
  /\ UNCHANGED <<main, env, addrs, jitter, l2, sig, req>>

\* GracefulStop refuses new RPCs, ...
GracefulStop ==
  /\ Alive /\ stop = "wait" /\ sig
  /\ stop' = "drain"
  /\ grpc' = "draining"
  /\ UNCHANGED <<main, env, addrs, jitter, l2, http, sig, req>>

\* A mutant: the server is stopped without waiting.
DrainedAtOnce ==
  /\ Alive /\ stop = "drain"
  /\ stop' = "close"
  /\ grpc' = "stopped"
  /\ UNCHANGED <<main, env, addrs, jitter, l2, http, sig, req>>

\* ... and returns when the handlers of the old ones have.
Drained ==
  /\ Alive /\ stop = "drain"
  /\ \A r \in Reqs : ~BusyRpc(r)
  /\ stop' = "close"
  /\ grpc' = "stopped"
  /\ UNCHANGED <<main, env, addrs, jitter, l2, http, sig, req>>

\* A mutant: the HTTP server is not closed.
CloseForgotten ==
  /\ Alive /\ stop = "close"
  /\ stop' = "done"
  /\ UNCHANGED <<main, env, addrs, jitter, l2, grpc, http, sig, req>>

\* server.Close() cuts the connections, which cancels the requests' contexts.
CloseHTTP ==
  /\ Alive /\ stop = "close"
  /\ stop' = "done"
  /\ http' = "closed"
  /\ req' = [r \in Reqs |-> IF Working(r, "get") /\ req[r].api = "http"
                            THEN [req[r] EXCEPT !.live = FALSE] ELSE req[r]]
  /\ UNCHANGED <<main, env, addrs, jitter, l2, grpc, sig>>

StopStep == Notify \/ GracefulStop \/ Drained \/ CloseHTTP

-----------------------------------------------------------------------------
(* Requests *)

\* the keys of a request: BatchSet is offered over gRPC only, statistics touch
\* the Redis client once, and other requests (health, a malformed body) nothing
Sizes(api, op) == CASE op = "get" -> 1 .. MaxBatch
                    [] op = "set" -> IF api = "grpc" THEN 1 .. MaxBatch ELSE {1}
                    [] op = "stats" -> {1}
                    [] op = "other" -> {0}

Arrive(r, api, op, size) ==
  /\ Alive /\ ~Busy(r)
  /\ api = "grpc" => grpc = "serving"
  /\ api = "http" => http = "serving"
  /\ req' = [req EXCEPT ![r] = Fresh(api, op, size, "run")]
  /\ UNCHANGED <<main, env, addrs, jitter, l2, grpc, http, stop, sig>>

\* The client goes away.  (That matters to a fetch of the origin; a call to Redis
\* may fail in any case.)
Cancel(r) ==
  /\ Working(r, "get") /\ req[r].live
  /\ req' = [req EXCEPT ![r].live = FALSE]
  /\ UNCHANGED <<main, env, addrs, jitter, l2, grpc, http, stop, sig>>

Counted(r, good) == [req EXCEPT ![r].todo = @ - 1,
                                ![r].ok = IF good THEN @ + 1 ELSE @,
                                ![r].fail = IF good THEN @ ELSE @ + 1]

\* A Get finds its key in L1, or asks Redis and then the origin.  With a nil client
\* nothing has got into L1 either: what would have put it there panicked.
GetOk(r) ==
  /\ Working(r, "get") /\ l2 # "nil"
  /\ req' = Counted(r, TRUE)
  /\ UNCHANGED <<main, env, addrs, jitter, l2, grpc, http, stop, sig>>

\* The origin fails if the context of the request that called it, r or the one
\* whose call r joined, is cancelled.
GetFail(r) ==
  /\ Working(r, "get") /\ l2 # "nil" /\ jitter > 0
  /\ \E q \in Reqs : Working(q, "get") /\ ~req[q].live
  /\ req' = Counted(r, FALSE)
  /\ UNCHANGED <<main, env, addrs, jitter, l2, grpc, http, stop, sig>>

SetOk(r) ==
  /\ Working(r, "set") /\ l2 = "open"
  /\ req' = Counted(r, TRUE)
  /\ UNCHANGED <<main, env, addrs, jitter, l2, grpc, http, stop, sig>>

\* an error of Redis, a cancelled context, a closed client: the batch goes on
SetFail(r) ==
  /\ Working(r, "set") /\ l2 # "nil"
  /\ req' = Counted(r, FALSE)
  /\ UNCHANGED <<main, env, addrs, jitter, l2, grpc, http, stop, sig>>

\* PoolStats
StatsOk(r) ==
  /\ Working(r, "stats") /\ l2 # "nil"
  /\ req' = Counted(r, TRUE)
  /\ UNCHANGED <<main, env, addrs, jitter, l2, grpc, http, stop, sig>>

\* A nil client is used, or the origin's rand.Int63n is given a jitter that is not
\* positive.  RecoveryMiddleware answers 500; nothing recovers a gRPC handler, and
\* the process ends.
Panic(r) ==
  /\ \/ l2 = "nil" /\ \E op \in Ops : Working(r, op)
     \/ jitter <= 0 /\ Working(r, "get")
  /\ main' = IF req[r].api = "grpc" THEN "panic" ELSE main
  /\ req' = IF req[r].api = "grpc" THEN req ELSE [req EXCEPT ![r].st = "error"]
  /\ UNCHANGED <<env, addrs, jitter, l2, grpc, http, stop, sig>>

\* The handler returns.  Over a connection that was cut nobody hears of it.
Answer(r) ==
  /\ Alive /\ Busy(r) /\ req[r].todo = 0
  /\ req' = [req EXCEPT ![r].st = "answered"]
  /\ UNCHANGED <<main, env, addrs, jitter, l2, grpc, http, stop, sig>>

Handle(r) ==
  \/ GetOk(r) \/ GetFail(r) \/ SetOk(r) \/ SetFail(r) \/ StatsOk(r)
  \/ Panic(r) \/ Answer(r)

-----------------------------------------------------------------------------
(* The surroundings *)

\* SIGINT or SIGTERM: before signal.Notify it ends the process.  The channel
\* keeps one signal, later ones are dropped.  (A SIGKILL, which could come at any
\* moment, would leave nothing to say about the process.)
Signal ==
  /\ Alive
  /\ IF stop \in {"absent", "start"}
     THEN main' = "killed" /\ UNCHANGED sig
     ELSE sig' = TRUE /\ UNCHANGED main
  /\ UNCHANGED <<env, addrs, jitter, l2, grpc, http, stop, req>>

\* ListenAndServe returns another error than ErrServerClosed: os.Exit(1).
AcceptFails ==
  /\ main = "serve" /\ http = "serving"
  /\ main' = "exit1"
  /\ UNCHANGED <<env, addrs, jitter, l2, grpc, http, stop, sig, req>>

Environment ==
  \/ Signal \/ AcceptFails
  \/ \E r \in Reqs : \/ Cancel(r)
                     \/ \E api \in APIs, op \in Ops : \E size \in Sizes(api, op) :
                          Arrive(r, api, op, size)

Next == Environment \/ MainStep \/ StopStep \/ \E r \in Reqs : Handle(r)

Spec == Init /\ [][Next]_vars

\* Goroutines are scheduled, and every call they make ends: Redis calls by their
\* timeouts, the origin by its sleep.  Nobody has to send a signal or a request.
FairSpec ==
  /\ Spec
  /\ WF_vars(MainStep)
  /\ WF_vars(StopStep)
  /\ \A r \in Reqs : WF_vars(Handle(r))

-----------------------------------------------------------------------------
TypeOK ==
  /\ main \in Running \cup Ended
  /\ env \in Envs \cup {<<>>}
  /\ jitter \in Int
  /\ l2 \in {"none", "nil", "open", "closed"}
  /\ grpc \in {"off", "serving", "draining", "stopped"}
  /\ http \in {"off", "serving", "closed"}
  /\ stop \in {"absent", "start", "wait", "drain", "close", "done"}
  /\ sig \in BOOLEAN
  /\ req \in [Reqs -> Request]

\* NewL2 is given what REDIS_ADDRS lists, in its order, or the default if it
\* lists nothing: never an empty list, whose first element NewL2 would take, nor
\* an empty address, which would turn the single node into a cluster.
AddrsRead ==
  main \in {"newl2", "again", "local"} =>
    IF Starts(env) = {} THEN addrs = LocalRedis ELSE IsItems(addrs, env)

\* The order of the shutdown: while an RPC runs nobody closes Redis, nor cuts the
\* HTTP requests whose calls of the origin it may have joined, for GracefulStop
\* has returned by then; and the process does not end in order before that.
DrainedBeforeClose ==
  (http = "closed" \/ l2 = "closed" \/ main = "exit0") =>
    grpc = "stopped" /\ \A r \in Reqs : ~BusyRpc(r)

\* A signal ends the process whenever it comes: while main is still to listen,
\* while RPCs run, while HTTP requests keep coming in.
ShutdownEnds == sig ~> ~Alive

\* Every request that was accepted is answered, one whose handler panicked over
\* HTTP too (RecoveryMiddleware, 500), unless the process breaks down.  An orderly
\* shutdown loses no RPC; HTTP requests it may cut off.
RequestsAnswered ==
  \A r \in Reqs :
    Busy(r) ~> \/ req[r].st \in {"answered", "error"}
               \/ main \in Ended \ {"exit0"}
               \/ main = "exit0" /\ req[r].api = "http"

-----------------------------------------------------------------------------
\* main.go:62 "running in L1-only mode (degraded)": a process that could not
\* reach Redis goes on without it.
DegradedModeRuns == l2 = "nil" => main # "panic"
=============================================================================
