------------------------------- MODULE Bridge -------------------------------
(***************************************************************************)
(* The components that bring things to L0, side by side: the outbox, the   *)
(* stage of outputs with its submitters, the writes to the directory       *)
(* network, the health of the endpoints and the top-ups of the key page.   *)
(* `part` says which component a behaviour is about, and the variables of  *)
(* the others keep their initial values.  The outbox and the stage are     *)
(* extended, the others are instances.                                     *)
(***************************************************************************)
EXTENDS Outbox, OutputSubmission

CONSTANTS
  \* DNWriter
  Writes, MaxRetries, ClientRetries, MaxReconnects, ChannelSize, MaxDials, MaxLoops,
  \* Endpoints
  NumEndpoints, Callers, MaxFailures, Backoff, MaxCount, MaxReports, MaxChanges,
  \* Pricing
  Readers, Ttl, Target, MinBuffer, MaxTopUps, MaxErrors

VARIABLES
  part,
  \* DNWriter
  config, at, attempt, clientTries, submissions, result, written, errors, retries, accepted,
  outcome, subscribed, channel, channelClosed, esConn, dialled, live, onWire, events, loopState,
  reading, dialFailures, resubscribing, writerClosed, ctxDone, crashed,
  \* Endpoints
  endpoints, healthy, failures, retryIn, current, caller, seen, looked, picked, checker,
  unchecked, probed, answer, up, reportsLeft, changesLeft,
  \* Pricing
  age, user, refreshing, autoStops, balance, read, topUps, topUpsLeft, queryErrorsLeft

dnWriter ==
  <<config, at, attempt, clientTries, submissions, result, written, errors, retries, accepted,
    outcome, subscribed, channel, channelClosed, esConn, dialled, live, onWire, events, loopState,
    reading, dialFailures, resubscribing, writerClosed, ctxDone, crashed>>
endpointHealth ==
  <<endpoints, healthy, failures, retryIn, current, caller, seen, looked, picked, checker,
    unchecked, probed, answer, up, reportsLeft, changesLeft>>
pricing ==
  <<age, user, refreshing, autoStops, balance, read, topUps, topUpsLeft, queryErrorsLeft>>
deliveryVars == <<part, vars, submissionVars, dnWriter, endpointHealth, pricing>>

DW == INSTANCE DNWriter
EP == INSTANCE Endpoints
PR == INSTANCE Pricing

BridgeAssumption ==
  /\ OutboxAssumption /\ DW!DNWriterAssumption /\ EP!EndpointsAssumption /\ PR!PricingAssumption

Written == part \in {"shared", "redialled", "retried"}
Balanced == part \in {"changing", "racing"}
Submitted == part \in {"depending", "stopping"}

\* The writes wait for their execution and try once, or only submit and try as
\* often as they may.
DeliveryInit ==
  /\ part \in {"outbox", "depending", "stopping", "shared", "redialled", "retried", "changing",
              "racing", "pricing"}
  /\ Init /\ SubmissionInit /\ DW!Init /\ EP!Init /\ PR!Init
  /\ config = IF part = "retried"
              THEN [waitForExecution |-> FALSE, maxRetries |-> MaxRetries,
                    clientRetries |-> ClientRetries]
              ELSE [waitForExecution |-> TRUE, maxRetries |-> 0, clientRetries |-> 0]
  /\ part # "pricing" => age = 0 /\ balance = 0

\* Bounds: outputs that depend on each other, or submitters of one output that are
\* stopped and cancelled; several writes on one connection, or one over several; several
\* calls that race while the servers stay as they are, or one.
ScopedOutputs ==
  IF part = "depending" THEN ~stopClosed' /\ ~startCtxDone'
  ELSE sequence' =< 1

ScopedWrites ==
  IF part = "shared" THEN dialled' =< 1
  ELSE \A w \in Writes : submissions'[w] > 0 => w = (CHOOSE one \in Writes : TRUE)

ScopedCalls ==
  IF part = "racing" THEN changesLeft' = MaxChanges
  ELSE \A c \in Callers : caller'[c] # "out" => c = (CHOOSE one \in Callers : TRUE)

DeliveryNext ==
  /\ UNCHANGED part
  /\ \/ /\ part = "outbox" /\ Next
        /\ UNCHANGED <<submissionVars, dnWriter, endpointHealth, pricing>>
     \/ /\ Submitted /\ SubmissionNext /\ ScopedOutputs
        /\ UNCHANGED <<vars, dnWriter, endpointHealth, pricing>>
     \/ /\ Written /\ DW!Next /\ ScopedWrites
        /\ UNCHANGED <<vars, submissionVars, endpointHealth, pricing>>
     \/ /\ Balanced /\ EP!Next /\ ScopedCalls
        /\ UNCHANGED <<vars, submissionVars, dnWriter, pricing>>
     \/ /\ part = "pricing" /\ PR!Next
        /\ UNCHANGED <<vars, submissionVars, dnWriter, endpointHealth>>

Begun(w) == submissions[w] > 0

\* The fairness of each component, for the behaviours that are about it.
DeliveryFairness ==
  /\ WF_vars(part = "outbox" /\ OutboxWorker)
  /\ WF_vars(part = "outbox" /\ Tick)
  /\ SubmissionFairness
  /\ \A w \in Writes : WF_dnWriter(Written /\ ~crashed /\ Begun(w) /\ DW!WriteStep(w))
  /\ WF_endpointHealth(Balanced /\ EP!HealthCheckLoop)
  /\ \A c \in Callers : WF_endpointHealth(Balanced /\ EP!InNext(c))
  /\ WF_endpointHealth(Balanced /\ EP!TickBackoff)
  /\ SF_pricing(part = "pricing" /\ PR!CreditsLoop)
  /\ \A u \in PR!Users : SF_pricing(part = "pricing" /\ PR!UserStep(u))
  /\ WF_pricing(part = "pricing" /\ PR!ExecuteTopUp)

DeliverySpec == DeliveryInit /\ [][DeliveryNext]_deliveryVars /\ DeliveryFairness

----------------------------------------------------------------------------
\* The types of the variables of every component.
DeliveryTypeOK == TypeOK /\ SubmissionTypeOK /\ DW!TypeOK /\ EP!TypeOK /\ PR!TypeOK

\* A write that returns no error has succeeded (DNWriter).
SuccessIsFinal == DW!SuccessIsFinal

\* A write that has begun returns (DNWriter).
WritesReturn == []<>(\A w \in Writes : Begun(w) => at[w] = "done" \/ crashed)

\* Next returns an endpoint in backoff only if none is healthy (Endpoints).
NextPrefersHealthy == EP!NextPrefersHealthy

\* An endpoint that stays up gets healthy again (Endpoints).
RecoveredIsHealthy == EP!RecoveredIsHealthy

\* A page short of its target is topped up (Pricing).
ToppedUp == []<>(part = "pricing" => PR!Funded)
=============================================================================
