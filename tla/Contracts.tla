------------------------------ MODULE Contracts ------------------------------
(***************************************************************************)
(* The execution of contracts and what surrounds it: the engine, the pause *)
(* of a contract, and the events of the transactions it has submitted.     *)
(* `part` says which component a behaviour is about, and the variables of  *)
(* the others keep their initial values.  The pause switch is extended,    *)
(* the others are instances.                                               *)
(***************************************************************************)
EXTENDS ScopeGate, Sequences, FiniteSets

CONSTANTS
  \* Execution
  Workers, Requests, Codes, Unfit, CacheSize, GasLimit, QueryGasLimit, GasModulus, ScopeInterval,
  MaxBatch, MaxBlocks, MaxCalls,
  \* TxEvents
  Txs, Statuses, MaxSubscriptions, BufferSize, MaxReconnects, MaxOpens, MaxDials, MaxEvents

VARIABLES
  part,
  \* Execution
  block, height, queue, answers, outcomes, run, cache, host, cancelled, open, pool, wrote, ended,
  crashed,
  \* TxEvents
  subscriptions, buffer, closed, opens, monitor, loopAt, conn, dials, reconnects, target,
  writers, resubscribe, removers, wire, inbox, eventsLeft, holds, stopAt, shutdown,
  contextDone, panicked

execution ==
  <<block, height, queue, answers, outcomes, run, cache, host, cancelled, open, pool, wrote,
    ended, crashed>>
txEvents ==
  <<subscriptions, buffer, closed, opens, monitor, loopAt, conn, dials, reconnects, target,
    writers, resubscribe, removers, wire, inbox, eventsLeft, holds, stopAt, shutdown,
    contextDone, panicked>>
executionVars == <<part, execution, vars, txEvents>>

EX == INSTANCE Execution
TE == INSTANCE TxEvents

ContractsAssumption ==
  ScopeGateAssumption /\ EX!ExecutionAssumption /\ TE!TxEventsAssumption

\* An engine is looked at without a pool, with one worker and with more; the
\* events over one connection, and over several.
ExecutionInit ==
  /\ part \in {"sequential", "single", "paired", "scopes", "connected", "redialled"}
  /\ Init /\ EX!Init /\ TE!Init
  /\ part # "scopes" => scope = "active"
  /\ CASE part = "single" -> pool = {CHOOSE w \in Workers : TRUE}
       [] part = "paired" -> Cardinality(pool) > 1
       [] OTHER           -> pool = {}

OneCode == CHOOSE c \in Codes \ Unfit : TRUE

\* Bounds: one block of few transactions, but for the single worker, whose
\* queue two blocks are to fill.
ScopedBlocks ==
  IF part = "single"
  THEN \A a \in DOMAIN run' :
         /\ run'[a].at = "idle" \/ a \notin Requests
         /\ run'[a].code \in {"none", OneCode}
  ELSE /\ block'.size < MaxBatch /\ (block'.at = "idle" \/ height' = 0)
       /\ \A a \in DOMAIN run' : run'[a].calls < MaxCalls
       /\ part = "paired" => \A a \in DOMAIN run' : run'[a].at = "idle" \/ a # "simulation"

\* Bounds: one connection with more events than a channel takes, or several with few.
ScopedEvents ==
  IF part = "connected" THEN opens' =< 1 /\ dials' =< 1
  ELSE eventsLeft' > 0 /\ \A i \in DOMAIN inbox' : inbox'[i].status # "failed"

ExecutionNext ==
  /\ UNCHANGED part
  /\ \/ /\ part \in {"sequential", "single", "paired"} /\ EX!Next /\ ScopedBlocks
        /\ UNCHANGED <<vars, txEvents>>
     \/ /\ part = "scopes" /\ Next
        /\ UNCHANGED <<execution, txEvents>>
     \/ /\ part \in {"connected", "redialled"} /\ TE!Next /\ ScopedEvents
        /\ UNCHANGED <<execution, vars>>

Running == part \in {"sequential", "single", "paired"} /\ ~crashed

\* The fairness of Execution, for the behaviours that are about it.
Fairness ==
  /\ WF_execution(Running /\ EX!BlockStep)
  /\ \A w \in Workers : WF_execution(Running /\ w \in pool /\ EX!Take(w))
  /\ \A a \in EX!Actors : WF_execution(Running /\ EX!RunStep(a))

ExecutionSpec == ExecutionInit /\ [][ExecutionNext]_executionVars /\ Fairness

----------------------------------------------------------------------------
\* The types of the variables of every component.
ExecutionTypeOK ==
  /\ part = "scopes" => TypeOK
  /\ part \in {"sequential", "single", "paired"} => EX!TypeOK
  /\ part \in {"connected", "redialled"} => TE!TypeOK

\* The results of a block are the last word on its transactions (Execution).
ResultsAreFinal == part \in {"sequential", "single", "paired"} => EX!ResultsAreFinal

\* A block that has begun comes to its end (Execution).
BlocksReturn == []<>(block.at = "idle" \/ crashed)

\* What is in the map of subscriptions is open, and gets on a new connection (TxEvents).
SubscriptionsHold == part \in {"connected", "redialled"} => TE!SubscriptionsHold
=============================================================================
