----------------------------- MODULE Execution -----------------------------
(***************************************************************************)
(* The execution of contracts: the engine (sequencer/exec.go) with its     *)
(* worker pool, the wasm runtime with its module cache (engine/runtime),   *)
(* the host functions and the gas they are charged (engine/gas).           *)
(*                                                                         *)
(* Three kinds of goroutines run contracts: the producer of a block, when  *)
(* there is no pool; the workers, which do not hold the engine's lock and  *)
(* do not see the block's context, so they go on after the block has timed *)
(* out; and the requests for queries and simulations, which hold the lock  *)
(* for reading.  All of them but simulations share one wasm runtime.  A    *)
(* job is a transaction of a block: <<height, index>>.  wazero is external:*)
(* it compiles, instantiates a host module of a name once, and runs code.  *)
(***************************************************************************)
EXTENDS Integers, Sequences, FiniteSets

CONSTANTS
  Workers,                  \* the goroutines a worker pool may have
  Requests,                 \* "query", "simulation"
  Codes,
  Unfit,                    \* the codes that fail the audit or the compilation
  CacheSize,                \* RuntimeConfig
  GasLimit, QueryGasLimit,
  GasModulus,               \* 2^64 in the code
  ScopeInterval,            \* scopeRefreshInterval, 10 in the code
  MaxBatch, MaxBlocks,      \* bounds: transactions of a block, blocks
  MaxCalls                  \* bound: host calls of a run

ExecutionAssumption ==
  /\ Unfit \subseteq Codes
  /\ Requests \subseteq {"query", "simulation"}
  /\ Workers \cap {"producer", "query", "simulation"} = {} /\ IsFiniteSet(Workers)
  /\ {CacheSize, GasLimit, QueryGasLimit, ScopeInterval, MaxBatch, MaxBlocks} \subseteq Nat \ {0}
  /\ MaxCalls \in Nat
  /\ GasModulus \in Nat /\ GasLimit < GasModulus /\ QueryGasLimit < GasModulus

Actors == {"producer"} \cup Workers \cup Requests
Mode(a) == IF a = "query" THEN "query" ELSE "execute"
Limit(a) == IF a = "query" THEN QueryGasLimit ELSE GasLimit

VARIABLES
  block,      \* [at, size, next]: where ExecuteTransactions stands
  height,     \* currentHeight
  queue,      \* workQueue
  answers,    \* what the result channels of this block hold: <<job, status>>
  outcomes,   \* the results of the last block, 0 while there is none
  run,        \* of each actor: [at, job, code, gas, calls, staged]
  cache,      \* ModuleCache.cache
  host,       \* the mode whose functions the module "accuwasm_host" has, or "none"
  cancelled,  \* the context of the main loop is done
  open,       \* the engine is not closed
  pool,       \* its workers: none if EnableParallel is not set
  wrote,      \* the jobs whose contract has changed the store
  ended,      \* the jobs whose contract has returned
  crashed

blockVars == <<block, height, queue, answers, outcomes>>
sharedVars == <<cache, host, cancelled, open, pool, wrote, ended>>
vars == <<blockVars, run, sharedVars, crashed>>

NoRun == [at |-> "idle", job |-> <<>>, code |-> "none", gas |-> 0, calls |-> 0, staged |-> FALSE]

Init ==
  /\ block = [at |-> "idle", size |-> 0, next |-> 1]
  /\ height = 0
  /\ queue = <<>> /\ answers = {} /\ outcomes = <<>>
  /\ run = [a \in Actors |-> NoRun]
  /\ cache = {} /\ host = "none"
  /\ cancelled = FALSE /\ open = TRUE
  /\ pool \in SUBSET Workers
  /\ wrote = {} /\ ended = {}
  /\ crashed = FALSE

\* The lock of the engine.
Readers == {a \in Requests : run[a].at \notin {"idle", "over"}}
Unlocked == block.at = "idle" /\ Readers = {}

Job(i) == <<height + 1, i>>
RequestJob(q) == IF q = "query" THEN <<0, 1>> ELSE <<0, 2>>
Fresh(job) == [NoRun EXCEPT !.at = "load", !.job = job]

----------------------------------------------------------------------------
\* ExecuteTransactions.

BeginBlock(n) ==
  /\ Unlocked
  /\ height < MaxBlocks
  /\ block' = [at |-> IF pool = {} THEN "sequential" ELSE "sending", size |-> n, next |-> 1]
  /\ outcomes' = [i \in 1 .. n |-> "none"]
  /\ UNCHANGED <<height, queue, answers, run, sharedVars, crashed>>

\* One turn of the loop that hands out work.  The result "execution cancelled" of
\* an item that was not sent is overwritten when the results are collected.
Advance == IF block.next < block.size THEN [block EXCEPT !.next = @ + 1]
           ELSE [block EXCEPT !.at = "collecting", !.next = 1]

Send ==
  /\ block.at = "sending"
  /\ \/ /\ open /\ Len(queue) < 2 * Cardinality(pool)
        /\ queue' = Append(queue, Job(block.next))
        /\ block' = Advance
        /\ UNCHANGED crashed
     \/ /\ cancelled
        /\ block' = Advance
        /\ UNCHANGED <<queue, crashed>>
     \/ /\ ~open                              \* send on a closed channel
        /\ crashed' = TRUE
        /\ UNCHANGED <<queue, block>>
  /\ UNCHANGED <<height, answers, outcomes, run, sharedVars>>

\* A result that is there may lose against a context that is done.
Collect ==
  /\ block.at = "collecting" /\ block.next =< block.size
  /\ \E status \in {"success", "failed", "timeout"} :
       /\ <<Job(block.next), status>> \in answers \/ (status = "timeout" /\ cancelled)
       /\ outcomes' = [outcomes EXCEPT ![block.next] = status]
  /\ block' = [block EXCEPT !.next = @ + 1]
  /\ UNCHANGED <<height, queue, answers, run, sharedVars, crashed>>

StartNext ==
  /\ block.at = "sequential" /\ block.next =< block.size
  /\ run["producer"].at = "idle"
  /\ run' = [run EXCEPT !["producer"] = Fresh(Job(block.next))]
  /\ UNCHANGED <<blockVars, sharedVars, crashed>>

EndBlock ==
  /\ block.at \in {"sequential", "collecting"} /\ block.next > block.size
  /\ height' = height + 1
  /\ block' = [block EXCEPT !.at = "idle"]
  /\ answers' = {}
  /\ UNCHANGED <<queue, outcomes, run, sharedVars, crashed>>

BlockStep == Send \/ Collect \/ StartNext \/ EndBlock

----------------------------------------------------------------------------
\* The workers and the requests.

Take(w) ==
  /\ run[w].at = "idle" /\ queue # <<>>
  /\ run' = [run EXCEPT ![w] = Fresh(Head(queue))]
  /\ queue' = Tail(queue)
  /\ UNCHANGED <<block, height, answers, outcomes, sharedVars, crashed>>

\* handleQuery and handleSimulate reach the engine.
Request(q) ==
  /\ block.at = "idle"
  /\ run[q].at = "idle"
  /\ run' = [run EXCEPT ![q] = Fresh(RequestJob(q))]
  /\ UNCHANGED <<blockVars, sharedVars, crashed>>

\* The result of a run.  The channel of a block that has timed out is read by
\* nobody.
Finish(a, status) ==
  /\ run' = [run EXCEPT ![a] = IF a \in Requests THEN [NoRun EXCEPT !.at = "over"] ELSE NoRun]
  /\ IF a = "producer"
     THEN /\ outcomes' = [outcomes EXCEPT ![block.next] = status]
          /\ block' = [block EXCEPT !.next = @ + 1]
          /\ UNCHANGED answers
     ELSE /\ answers' = IF a \in Workers /\ run[a].job[1] = height + 1
                        THEN answers \cup {<<run[a].job, status>>} ELSE answers
          /\ UNCHANGED <<outcomes, block>>
  /\ UNCHANGED <<height, queue>>

----------------------------------------------------------------------------
\* executeSingleTransaction, ExecuteQuery and Simulate, over
\* executeContractWithMode.

\* Mutant: a worker whose transaction is refused sends no result.
RefuseSilently(a) ==
  /\ a \notin Requests
  /\ run[a].at = "load"
  /\ height % ScopeInterval = 0
  /\ IF a \in Workers THEN run' = [run EXCEPT ![a] = NoRun] /\ UNCHANGED blockVars
     ELSE Finish(a, "failed")
  /\ UNCHANGED <<sharedVars, crashed>>

\* The contract is paused, or its scope cannot be fetched (ScopeGate).  Looked at
\* for a transaction with a sender, with the height of the moment.
Refuse(a) ==
  /\ a \notin Requests
  /\ run[a].at = "load"
  /\ height % ScopeInterval = 0
  /\ Finish(a, "failed")
  /\ UNCHANGED <<sharedVars, crashed>>

\* GetModule, which may fail, and ModuleCache.Get.  A simulation has a runtime of
\* its own, with an empty cache.
Load(a) ==
  /\ run[a].at = "load"
  /\ \/ Finish(a, "failed")
     \/ \E c \in Codes :
          /\ run' = [run EXCEPT ![a].code = c,
                                ![a].at = IF a # "simulation" /\ c \in cache THEN "host" ELSE "prepare"]
          /\ UNCHANGED blockVars
  /\ UNCHANGED <<sharedVars, crashed>>

\* Prepare and Put.  evictLRU follows the prev pointer of the head of the list,
\* which is nil: the panic ends the process unless it is a request's.
Prepare(a) ==
  LET c == run[a].code
      Go == run' = [run EXCEPT ![a].at = "host"] /\ UNCHANGED blockVars
  IN  /\ run[a].at = "prepare"
      /\ \/ /\ c \in Unfit \/ (~open /\ a # "simulation")
            /\ Finish(a, "failed") /\ UNCHANGED <<cache, crashed>>
         \/ /\ c \notin Unfit /\ a = "simulation"
            /\ Go /\ UNCHANGED <<cache, crashed>>
         \/ /\ c \notin Unfit /\ a # "simulation" /\ open
            /\ c \in cache \/ Cardinality(cache) < CacheSize
            /\ cache' = cache \cup {c}
            /\ Go /\ UNCHANGED crashed
         \/ /\ c \notin Unfit /\ a # "simulation" /\ open
            /\ c \notin cache /\ Cardinality(cache) >= CacheSize
            /\ IF a \in Requests THEN Finish(a, "failed") /\ UNCHANGED crashed
               ELSE crashed' = TRUE /\ UNCHANGED <<blockVars, run>>
            /\ UNCHANGED cache
      /\ UNCHANGED <<host, cancelled, open, pool, wrote, ended>>

\* Mutant: an error of Instantiate is not looked at, and the code is linked with
\* the host functions that are there.
InstantiateAnyway(a) ==
  /\ run[a].at = "host"
  /\ run' = [run EXCEPT ![a].at = "calling"]
  /\ host' = IF a # "simulation" /\ host = "none" THEN Mode(a) ELSE host
  /\ UNCHANGED <<blockVars, cache, cancelled, open, pool, wrote, ended, crashed>>

\* The host module is never closed: on a runtime it can be instantiated once.
\* That the contract's own module is not instantiated, or does not export the
\* function, is a Trap without a call.
Instantiate(a) ==
  /\ run[a].at = "host"
  /\ IF a = "simulation" \/ (host = "none" /\ open)
     THEN /\ run' = [run EXCEPT ![a].at = "calling"]
          /\ host' = IF a = "simulation" THEN host ELSE Mode(a)
          /\ UNCHANGED blockVars
     ELSE Finish(a, "failed") /\ UNCHANGED host
  /\ UNCHANGED <<cache, cancelled, open, pool, wrote, ended, crashed>>

----------------------------------------------------------------------------
\* Host calls.

\* What a host function is charged by the binding, and again by the host API: 0 if not.
Charges ==
  [get |-> <<100, 100>>, set |-> <<200, 200>>, delete |-> <<150, 0>>, log |-> <<50, 0>>,
   emit_event |-> <<300, 0>>, credits_quote |-> <<50, 0>>, l0_write_data |-> <<1000, 0>>,
   l0_send_tokens |-> <<1500, 0>>, l0_update_auth |-> <<800, 0>>]

Functions == DOMAIN Charges
Writes == {"set", "delete"}
Stages == {"l0_write_data", "l0_send_tokens", "l0_update_auth"}

\* Mutant: what is consumed is compared with the limit before it is added.
ConsumeLate(gas, amount, limit) ==
  LET sum == (gas + amount) % GasModulus
  IN  IF gas > limit THEN [gas |-> gas, paid |-> FALSE] ELSE [gas |-> sum, paid |-> TRUE]

\* ConsumeGas: the sum wraps.
ConsumeGas(gas, amount, limit) ==
  LET sum == (gas + amount) % GasModulus
  IN  IF sum > limit THEN [gas |-> gas, paid |-> FALSE] ELSE [gas |-> sum, paid |-> TRUE]

\* The first charge that is refused ends the call.
Charge(gas, f, limit) ==
  LET binding == ConsumeGas(gas, Charges[f][1], limit)
  IN  IF binding.paid THEN ConsumeGas(binding.gas, Charges[f][2], limit) ELSE binding

Calling(a) == run[a].at = "calling" /\ run[a].calls < MaxCalls

\* The mode whose functions are linked into the run.
Linked(a) == IF a = "simulation" THEN "execute" ELSE host

\* A call the mode allows.  One that cannot be paid is skipped and the contract
\* is not told.  A write goes to the store at once; a closed store refuses it.
HostCall(a, f) ==
  LET m == Charge(run[a].gas, f, Limit(a))
  IN  /\ Calling(a)
      /\ Linked(a) = "execute" \/ f \notin Writes \cup Stages
      /\ run' = [run EXCEPT ![a].gas = m.gas, ![a].calls = @ + 1,
                            ![a].staged = @ \/ (m.paid /\ f \in Stages)]
      /\ wrote' = IF f \in Writes /\ m.paid /\ open /\ a # "simulation"
                  THEN wrote \cup {run[a].job} ELSE wrote
      /\ UNCHANGED <<blockVars, cache, host, cancelled, open, pool, ended, crashed>>

\* accuwasm_gas_consume takes any amount.
GasConsume(a) ==
  /\ Calling(a)
  /\ \E amount \in {GasLimit, GasModulus - 1} :
       run' = [run EXCEPT ![a].gas = ConsumeGas(@, amount, Limit(a)).gas, ![a].calls = @ + 1]
  /\ UNCHANGED <<blockVars, sharedVars, crashed>>

\* The contract traps, by itself or in a host function that panics: the restricted
\* ones of the query mode, accuwasm_abort and the L0 functions given no URL.
Trap(a) ==
  /\ run[a].at = "calling"
  /\ Finish(a, "failed")
  /\ UNCHANGED <<sharedVars, crashed>>

\* The contract returns.  The operations staged by a transaction go to the gate;
\* those of a simulation are only counted.
Return(a) ==
  /\ run[a].at = "calling"
  /\ ended' = ended \cup {run[a].job}
  /\ IF run[a].staged /\ a \notin Requests
     THEN run' = [run EXCEPT ![a].at = "gate"] /\ UNCHANGED blockVars
     ELSE Finish(a, "success")
  /\ UNCHANGED <<cache, host, cancelled, open, pool, wrote, crashed>>

\* No operation passes: VerifyAllWithBinding calls VerifyAll first, and Verify has no
\* case for the names that the host functions give to the operations, which
\* verifyOperationBinding, called after it, would know.
Gate(a) ==
  /\ run[a].at = "gate"
  /\ Finish(a, "failed")
  /\ UNCHANGED <<sharedVars, crashed>>

\* What an actor does once it has a run; the contract's calls are its own.
RunStep(a) ==
  \/ Refuse(a) \/ Load(a) \/ Prepare(a) \/ Instantiate(a)
  \/ Trap(a) \/ Return(a) \/ Gate(a)

----------------------------------------------------------------------------
CancelContext ==
  /\ ~cancelled
  /\ cancelled' = TRUE
  /\ UNCHANGED <<blockVars, run, cache, host, open, pool, wrote, ended, crashed>>

\* Workers take what is left in the closed queue.
Close ==
  /\ cancelled /\ open /\ Unlocked
  /\ open' = FALSE
  /\ UNCHANGED <<blockVars, run, cache, host, cancelled, pool, wrote, ended, crashed>>

Next ==
  /\ ~crashed
  /\ \/ \E n \in 1 .. MaxBatch : BeginBlock(n)
     \/ BlockStep
     \/ \E w \in pool : Take(w)
     \/ \E q \in Requests : Request(q)
     \/ \E a \in Actors : RunStep(a) \/ GasConsume(a) \/ \E f \in Functions : HostCall(a, f)
     \/ CancelContext \/ Close

\* Goroutines are scheduled; wazero, the DN and the contracts come to an end.
Fairness ==
  /\ WF_vars(~crashed /\ BlockStep)
  /\ \A w \in Workers : WF_vars(~crashed /\ w \in pool /\ Take(w))
  /\ \A a \in Actors : WF_vars(~crashed /\ RunStep(a))

Spec == Init /\ [][Next]_vars /\ Fairness

----------------------------------------------------------------------------
Jobs == (1 .. MaxBlocks) \X (1 .. MaxBatch)
RequestJobs == {RequestJob(q) : q \in Requests}
ResultStatuses == {"none", "success", "failed", "timeout"}

\* The types of the variables.  A run never has consumed more than its limit.
TypeOK ==
  /\ block.at \in {"idle", "sequential", "sending", "collecting"}
  /\ block.size \in 0 .. MaxBatch /\ block.next \in 1 .. MaxBatch + 1
  /\ height \in 0 .. MaxBlocks
  /\ queue \in Seq(Jobs) /\ Len(queue) =< 2 * Cardinality(pool)
  /\ answers \subseteq Jobs \X ResultStatuses
  /\ outcomes \in Seq(ResultStatuses)
  /\ \A a \in Actors :
       /\ run[a].at \in {"idle", "load", "prepare", "host", "calling", "gate", "over"}
       /\ run[a].job \in Jobs \cup RequestJobs \cup {<<>>}
       /\ run[a].code \in Codes \cup {"none"}
       /\ run[a].gas \in 0 .. Limit(a) /\ run[a].calls \in 0 .. MaxCalls
       /\ run[a].staged \in BOOLEAN
  /\ cache \subseteq Codes /\ Cardinality(cache) =< CacheSize
  /\ host \in {"none", "execute", "query"}
  /\ {cancelled, open, crashed} \subseteq BOOLEAN /\ pool \subseteq Workers
  /\ wrote \cup ended \subseteq Jobs \cup RequestJobs

Pending(job) == (\E i \in DOMAIN queue : queue[i] = job) \/ (\E a \in Actors : run[a].job = job)

\* The results of a block are the last word on its transactions: one that succeeded
\* has run to the end and one that failed will not run again, and only a block whose
\* context was cancelled leaves transactions behind that may still run and write.
\* Only transactions write, no query or simulation.  What one that failed has
\* written by then is another question (AtomicUpdates).
ResultsAreFinal ==
  /\ wrote \subseteq Jobs
  /\ \A i \in DOMAIN outcomes :
       LET job == IF block.at = "idle" THEN <<height, i>> ELSE Job(i)
       IN  /\ outcomes[i] = "success" => job \in ended /\ ~Pending(job)
           /\ outcomes[i] = "failed" => ~Pending(job)
           /\ outcomes[i] = "timeout" => cancelled
           /\ block.at = "idle" => outcomes[i] # "none"

\* A block that has begun comes to its end, with or without the pool, with
\* requests between the blocks, whenever the context is cancelled.
BlocksReturn == []<>(block.at = "idle" \/ crashed)

----------------------------------------------------------------------------
\* What the documentation says and the code does not keep.

\* "Atomic Updates: All-or-nothing state changes" (docs/ARCHITECTURE.md:503): a
\* transaction whose result is not a success has changed nothing.
AtomicUpdates ==
  block.at = "idle" =>
    \A i \in DOMAIN outcomes : outcomes[i] # "success" => <<height, i>> \notin wrote
=============================================================================
