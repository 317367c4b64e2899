-------------------------------- MODULE Node --------------------------------
(***************************************************************************)
(* The process of a node: how runSequencer (cmd/accumen/main.go) and       *)
(* runFollower (cmd/accumen-follower/main.go) open and close the parts     *)
(* that the JSON-RPC server uses, and the way of a call through the server *)
(* (internal/rpc/server.go, auth.go): API key, rate limit, CORS, handler.  *)
(*                                                                         *)
(* What a handler does with the parts is in the modules of the parts; here *)
(* it matters which of them it uses, and how long.                         *)
(***************************************************************************)
EXTENDS Integers, Sequences, FiniteSets, Functions

CONSTANTS
  Connections,  \* connections that clients keep
  Clients,      \* what getClientIP tells apart
  Kinds,        \* the kinds of calls that clients make
  Burst, Rps,   \* Config.Server.Rate, where there is a limit
  MaxCalls,     \* bound: calls
  MaxSeconds,   \* bound: seconds that pass
  MaxCleanups   \* bound: ticks of the rate limiter's cleanup

\* The handlers by the parts they use, a call of /health, a preflight, and a GET.
Uses(kind) ==
  CASE kind \in {"preflight", "get"}    -> {}
    [] kind \in {"health", "status"}    -> {"indexer", "sequencer"}
    [] kind = "read"                    -> {"store", "indexer"}
    [] kind = "submit"                  -> {"sequencer", "mempool"}
    [] kind = "query"                   -> {"sequencer"}
    [] kind \in {"upgrade", "migrate"}  -> {"store", "sequencer"}

NodeAssumption ==
  /\ Kinds \subseteq {"health", "preflight", "get", "status", "read", "submit", "query",
                      "upgrade", "migrate"}
  /\ IsFiniteSet(Connections)
  /\ {Burst, Rps, MaxCalls, MaxSeconds, MaxCleanups} \subseteq Nat

VARIABLES
  role,         \* "sequencer" or "follower"
  hasKeys,      \* API keys are configured
  rate,         \* tokens a second, Config.Server.Rate.RPS; 0 for no rate limit
  at,           \* where the function that runs the node is
  open,         \* the parts that are open
  server,       \* the HTTP server: "off", "up" or "down"
  signalled,    \* the context is cancelled
  gaveUp,       \* Shutdown's deadline has passed
  engine,       \* the engine's lock: "free", or "kept" by a migration
  calling,      \* the call on each connection
  limiters,     \* RateLimiter.limiters: the bucket of each client, 0 if it has none
  buckets,      \* the tokens of every bucket made
  since,        \* per client, since its bucket was last removed: calls let through,
                \* seconds, and calls that held the bucket
  bounds        \* calls, seconds and cleanups left

processVars == <<at, open, server, signalled, gaveUp>>
limitVars == <<limiters, buckets, since>>
configVars == <<role, hasKeys, rate>>
vars == <<configVars, processVars, engine, calling, limitVars, bounds>>

NoCall == [step |-> "none"]

\* The parts in the order they are opened, and in the order they are closed.
Parts == IF role = "sequencer" THEN <<"store", "sequencer", "mempool">> ELSE <<"store", "indexer">>
Closing == IF role = "sequencer" THEN <<"sequencer", "mempool", "store">> ELSE <<"indexer", "store">>

Init ==
  /\ role \in {"sequencer", "follower"} /\ hasKeys \in BOOLEAN /\ rate \in {0, Rps}
  /\ at = "opening" /\ open = {} /\ server = "off" /\ signalled = FALSE /\ gaveUp = FALSE
  /\ engine = "free"
  /\ calling = [r \in Connections |-> NoCall]
  /\ limiters = [c \in Clients |-> 0] /\ buckets = <<>>
  /\ since = [c \in Clients |-> [through |-> 0, seconds |-> 0, held |-> 0]]
  /\ bounds = [calls |-> MaxCalls, seconds |-> MaxSeconds, cleanups |-> MaxCleanups]

----------------------------------------------------------------------------
\* The process.

\* The next part that is not open yet.
OpenNext ==
  /\ at = "opening"
  /\ \E i \in DOMAIN Parts :
       /\ Range(SubSeq(Parts, 1, i - 1)) = open
       /\ open' = open \cup {Parts[i]}
       /\ at' = IF i = Len(Parts) THEN "opened" ELSE at
  /\ UNCHANGED <<configVars, server, signalled, gaveUp, engine, calling, limitVars, bounds>>

\* A part that cannot be opened ends the process.  The deferred calls close what is
\* open but for the sequencer, whose Stop is not deferred.
OpenFails ==
  /\ at = "opening"
  /\ at' = "failed"
  /\ UNCHANGED <<configVars, open, server, signalled, gaveUp, engine, calling, limitVars, bounds>>

\* With no address, without its certificate or without its port the server is off,
\* and the node goes on.
StartServer ==
  /\ at = "opened"
  /\ at' = "serving"
  /\ server' \in {"off", "up"}
  /\ UNCHANGED <<configVars, open, signalled, gaveUp, engine, calling, limitVars, bounds>>

Signal ==
  /\ ~signalled
  /\ signalled' = TRUE
  /\ UNCHANGED <<configVars, at, open, server, gaveUp, engine, calling, limitVars, bounds>>

\* Server.Stop: no call is accepted any more, and Shutdown waits for those that are
\* under way.
StopServer ==
  /\ at = "serving" /\ signalled
  /\ at' = "draining"
  /\ server' = IF server = "up" THEN "down" ELSE server
  /\ UNCHANGED <<configVars, open, signalled, gaveUp, engine, calling, limitVars, bounds>>

\* Mutant: the server is closed without a wait.
DrainedAtOnce ==
  /\ at = "draining"
  /\ at' = "closing"
  /\ UNCHANGED <<configVars, open, server, signalled, gaveUp, engine, calling, limitVars, bounds>>

Drained ==
  /\ at = "draining"
  /\ \A r \in Connections : calling[r] = NoCall
  /\ at' = "closing"
  /\ UNCHANGED <<configVars, open, server, signalled, gaveUp, engine, calling, limitVars, bounds>>

\* Shutdown has 30 s, on a follower 10 s; that it gave up is only logged.
ShutdownTimesOut ==
  /\ at = "draining"
  /\ \E r \in Connections : calling[r] # NoCall
  /\ at' = "closing" /\ gaveUp' = TRUE
  /\ UNCHANGED <<configVars, open, server, signalled, engine, calling, limitVars, bounds>>

ToClose == IF at = "failed" THEN open \ {"sequencer"} ELSE open

\* Sequencer.Stop, an error of which changes nothing here, and the deferred calls.
\* The engine is closed under its lock.
CloseNext ==
  /\ at \in {"closing", "failed"}
  /\ \E i \in DOMAIN Closing :
       /\ Closing[i] \in ToClose
       /\ Range(SubSeq(Closing, 1, i - 1)) \cap ToClose = {}
       /\ Closing[i] = "sequencer" => engine = "free"
       /\ open' = open \ {Closing[i]}
  /\ UNCHANGED <<configVars, at, server, signalled, gaveUp, engine, calling, limitVars, bounds>>

Exit ==
  /\ at \in {"closing", "failed"} /\ ToClose = {}
  /\ at' = "ended"
  /\ calling' = [r \in Connections |-> NoCall]
  /\ UNCHANGED <<configVars, open, server, signalled, gaveUp, engine, limitVars, bounds>>

----------------------------------------------------------------------------
\* A call.

\* The header with the key is looked at only where keys are configured.
Arrive(r) ==
  /\ server = "up" /\ calling[r] = NoCall
  /\ bounds.calls > 0
  /\ bounds' = [bounds EXCEPT !.calls = @ - 1]
  /\ \E c \in Clients, kind \in Kinds, keyed \in {FALSE, hasKeys} :
       calling' = [calling EXCEPT ![r] = [step |-> "key", client |-> c, kind |-> kind,
                                          keyed |-> keyed, bucket |-> 0]]
  /\ UNCHANGED <<configVars, processVars, engine, limitVars>>

Continue(r, step) == calling' = [calling EXCEPT ![r].step = step]
Answer(r) == calling' = [calling EXCEPT ![r] = NoCall]

\* APIKeyMiddleware; the outermost, so that a preflight without the key ends here.
CheckKey(r) ==
  /\ calling[r].step = "key"
  /\ IF calling[r].kind = "health" \/ ~hasKeys \/ calling[r].keyed
     THEN Continue(r, IF calling[r].kind = "health" \/ rate = 0 THEN "cors" ELSE "limiter")
     ELSE Answer(r)
  /\ UNCHANGED <<configVars, processVars, engine, limitVars, bounds>>

\* Mutant: the new bucket is not put in the map.
GetLimiterUnkept(r) ==
  /\ calling[r].step = "limiter"
  /\ buckets' = Append(buckets, Burst)
  /\ calling' = [calling EXCEPT ![r].bucket = Len(buckets) + 1, ![r].step = "allow"]
  /\ UNCHANGED <<configVars, processVars, engine, limiters, since, bounds>>

\* getLimiter, under the limiter's lock.
GetLimiter(r) ==
  /\ calling[r].step = "limiter"
  /\ LET c == calling[r].client
         known == limiters[c] # 0
         bucket == IF known THEN limiters[c] ELSE Len(buckets) + 1
     IN
     /\ buckets' = IF known THEN buckets ELSE Append(buckets, Burst)
     /\ limiters' = [limiters EXCEPT ![c] = bucket]
     /\ calling' = [calling EXCEPT ![r].bucket = bucket, ![r].step = "allow"]
  /\ UNCHANGED <<configVars, processVars, engine, since, bounds>>

\* Allow, after the lock: the bucket may be removed from the map by now.
Allow(r) ==
  /\ calling[r].step = "allow"
  /\ LET b == calling[r].bucket IN
     IF buckets[b] > 0
     THEN /\ buckets' = [buckets EXCEPT ![b] = @ - 1]
          /\ since' = [since EXCEPT ![calling[r].client].through = @ + 1]
          /\ Continue(r, "cors")
     ELSE Answer(r) /\ UNCHANGED <<buckets, since>>
  /\ UNCHANGED <<configVars, processVars, engine, limiters, bounds>>

\* CORSMiddleware answers a preflight; /health has a handler of its own;
\* handleRequest takes POST only, and a read-only server reads only.
Dispatch(r) ==
  /\ calling[r].step = "cors"
  /\ LET refused == {"preflight", "get"} \cup IF role = "sequencer" THEN {}
                                              ELSE {"submit", "query", "upgrade", "migrate"}
     IN  IF calling[r].kind \in refused THEN Answer(r) ELSE Continue(r, "handle")
  /\ UNCHANGED <<configVars, processVars, engine, limitVars, bounds>>

\* A contract function is run under the engine's read lock; a migration that finds
\* a contract store and the version waits for itself.
Handle(r) ==
  /\ calling[r].step = "handle"
  /\ calling[r].kind \in {"query", "migrate"} => engine = "free"
  /\ \/ Answer(r) /\ UNCHANGED engine
     \/ calling[r].kind = "migrate" /\ engine' = "kept" /\ Continue(r, "stuck")
  /\ UNCHANGED <<configVars, processVars, limitVars, bounds>>

----------------------------------------------------------------------------
\* The rate limiter.

\* golang.org/x/time/rate refills a bucket up to its size.
Second ==
  /\ bounds.seconds > 0
  /\ bounds' = [bounds EXCEPT !.seconds = @ - 1]
  /\ buckets' = [b \in DOMAIN buckets |-> IF buckets[b] + rate < Burst THEN buckets[b] + rate
                                                                      ELSE Burst]
  /\ since' = [c \in Clients |-> [since[c] EXCEPT !.seconds = @ + 1]]
  /\ UNCHANGED <<configVars, processVars, engine, calling, limiters>>

\* cleanupLoop, until Stop: it takes a token where there is one, and removes the
\* bucket where there is none.
CleanUp ==
  /\ server = "up" /\ bounds.cleanups > 0
  /\ bounds' = [bounds EXCEPT !.cleanups = @ - 1]
  /\ LET Held(c) == {r \in Connections : calling[r].step = "allow" /\ calling[r].client = c}
         Removed(c) == limiters[c] # 0 /\ buckets[limiters[c]] = 0
     IN
     /\ buckets' = [b \in DOMAIN buckets |->
                      IF b \in Range(limiters) /\ buckets[b] > 0 THEN buckets[b] - 1 ELSE buckets[b]]
     /\ limiters' = [c \in Clients |-> IF Removed(c) THEN 0 ELSE limiters[c]]
     /\ since' = [c \in Clients |->
                    IF Removed(c) THEN [through |-> 0, seconds |-> 0, held |-> Cardinality(Held(c))]
                    ELSE since[c]]
  /\ UNCHANGED <<configVars, processVars, engine, calling>>

Next ==
  \/ OpenNext \/ OpenFails \/ StartServer \/ Signal \/ StopServer
  \/ Drained \/ ShutdownTimesOut \/ CloseNext \/ Exit
  \/ /\ at # "ended"
     /\ \/ \E r \in Connections : \/ Arrive(r) \/ CheckKey(r) \/ GetLimiter(r) \/ Allow(r)
                                  \/ Dispatch(r) \/ Handle(r)
        \/ Second \/ CleanUp

Spec == Init /\ [][Next]_vars

----------------------------------------------------------------------------
\* The types of the variables.
TypeOK ==
  /\ role \in {"sequencer", "follower"} /\ {hasKeys, signalled, gaveUp} \subseteq BOOLEAN
  /\ rate \in {0, Rps}
  /\ at \in {"opening", "opened", "serving", "draining", "closing", "failed", "ended"}
  /\ open \subseteq Range(Parts)
  /\ server \in {"off", "up", "down"} /\ engine \in {"free", "kept"}
  /\ \A r \in Connections : calling[r] # NoCall =>
       /\ calling[r].step \in {"key", "limiter", "allow", "cors", "handle", "stuck"}
       /\ calling[r].client \in Clients /\ calling[r].kind \in Kinds
       /\ calling[r].bucket \in 0 .. Len(buckets)
  /\ limiters \in [Clients -> 0 .. Len(buckets)]
  /\ buckets \in Seq(0 .. Burst)
  /\ since \in [Clients -> [through : Nat, seconds : Nat, held : Nat]]

\* A handler that is at work finds every part that it uses open, from the first call
\* that the server accepts to the last that Shutdown waits for, unless Shutdown gave
\* up waiting.
StoresOutliveRequests ==
  \A r \in Connections :
    (calling[r].step \in {"handle", "stuck"} /\ ~gaveUp)
      => Uses(calling[r].kind) \cap Range(Parts) \subseteq open

\* Between two removals of its bucket a client gets no more calls through than the
\* bucket holds and is refilled with, but for calls that held the removed bucket:
\* calls at the same time, and the cleanup between the look-up of the bucket and its
\* use, give it no second one.
RateHolds ==
  \A c \in Clients :
    rate > 0 => since[c].through <= Burst + rate * since[c].seconds + since[c].held
=============================================================================
