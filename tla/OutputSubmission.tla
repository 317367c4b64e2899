-------------------------- MODULE OutputSubmission --------------------------
(***************************************************************************)
(* The stage of outputs (bridge/outputs/stage.go) and the workers that     *)
(* submit them to L0 (bridge/outputs/submit.go).                           *)
(*                                                                         *)
(* Every method of OutputStager holds its lock throughout, so it is one    *)
(* step.  A worker calls several of them with the slow calls of the L0     *)
(* client in between, and the workers share nothing but the stage.  The    *)
(* client is external: it may try one submission several times, and an     *)
(* attempt that L0 accepted may look failed because its answer was lost.   *)
(***************************************************************************)
EXTENDS Integers, FiniteSets

CONSTANTS
  Workers,          \* the goroutines that Start launches
  MaxStaged,        \* StagerConfig
  MaxOutputRetries, \* OutputMetadata.MaxRetries, the default of StagerConfig
  MaxBatchSize,     \* SubmitterConfig
  MaxOutputs,       \* bound: outputs staged in one behaviour
  Edges             \* the pairs <<o, d>> for which callers make o depend on d

ASSUME SubmissionAssumption ==
  /\ IsFiniteSet(Workers)
  /\ {MaxStaged, MaxOutputRetries, MaxBatchSize, MaxOutputs} \subseteq Nat \ {0}
  /\ Edges \subseteq (1 .. MaxOutputs) \X (1 .. MaxOutputs)

\* An output is known by the sequence number in its ID, which is never reused.
Outputs == 1 .. MaxOutputs

VARIABLES
  sequence,       \* OutputStager.sequence
  status,         \* StagedOutput.Status, "none" outside the stage
  retryCount,     \* RetryCount
  deps,           \* Dependencies
  running,        \* OutputSubmitter.running
  stopping,       \* Stop waits, holding the submitter's lock
  stopClosed,
  startCtxDone,   \* the context of Start is cancelled
  wpc,            \* where each worker stands; idle: between two outputs or ticks
  collected,      \* the ready outputs it has not come to yet
  inHand,         \* the output it submits; 0 if none
  delivered,      \* the outputs that L0 has accepted
  early           \* history: dependencies set before a worker took the output

stageVars == <<sequence, status, retryCount, deps, early>>
controlVars == <<running, stopping, stopClosed, startCtxDone>>
workerVars == <<wpc, collected, inHand>>
submissionVars == <<stageVars, controlVars, workerVars, delivered>>

Statuses == {"none", "pending", "submitting", "submitted", "failed"}
Staged == {o \in Outputs : status[o] # "none"}

\* Worker w has read o from the stage and has not finished with it.
Holds(w, o) == o \in collected[w] \/ inHand[w] = o

SubmissionInit ==
  /\ sequence = 0
  /\ status = [o \in Outputs |-> "none"]
  /\ retryCount = [o \in Outputs |-> 0]
  /\ deps = [o \in Outputs |-> {}]
  /\ running = FALSE /\ stopping = FALSE /\ stopClosed = FALSE /\ startCtxDone = FALSE
  /\ wpc = [w \in Workers |-> "off"]
  /\ collected = [w \in Workers |-> {}]
  /\ inHand = [w \in Workers |-> 0]
  /\ delivered = {}
  /\ early = [o \in Outputs |-> {}]

----------------------------------------------------------------------------
\* The stage.

StageOutput ==
  /\ Cardinality(Staged) < MaxStaged
  /\ sequence < MaxOutputs
  /\ sequence' = sequence + 1
  /\ status' = [status EXCEPT ![sequence + 1] = "pending"]
  /\ UNCHANGED <<retryCount, deps, early, controlVars, workerVars, delivered>>

\* Nothing asks whether o has been taken already, or whether the dependencies
\* form a cycle.
SetDependency(o, d) ==
  /\ {o, d} \subseteq Staged
  /\ deps' = [deps EXCEPT ![o] = @ \cup {d}]
  /\ early' = IF o \notin delivered /\ \A w \in Workers : ~Holds(w, o)
              THEN [early EXCEPT ![o] = @ \cup {d}] ELSE early
  /\ UNCHANGED <<sequence, status, retryCount, controlVars, workerVars, delivered>>

\* The outputs of S leave the stage.  Others keep them as dependencies.
Discard(S) ==
  /\ status' = [o \in Outputs |-> IF o \in S THEN "none" ELSE status[o]]
  /\ retryCount' = [o \in Outputs |-> IF o \in S THEN 0 ELSE retryCount[o]]
  /\ deps' = [o \in Outputs |-> IF o \in S THEN {} ELSE deps[o]]
  /\ UNCHANGED <<sequence, early, controlVars, workerVars, delivered>>

RemoveStagedOutput(o) == o \in Staged /\ Discard({o})

StagerClose == Staged # {} /\ Discard(Staged)

\* The failed outputs without a retry left go, and those past ExpiresAt or
\* submitted more than an hour ago.  The caller chooses ExpiresAt and nothing
\* else reads the two times, so these may be any outputs.
StagerCleanup ==
  LET exhausted == {o \in Staged : status[o] = "failed" /\ retryCount[o] >= MaxOutputRetries}
  IN  \E S \in SUBSET Staged : exhausted \subseteq S /\ S # {} /\ Discard(S)

\* Of an output that has left the stage this is an error, which its callers
\* ignore or skip on.
UpdateOutputStatus(o, s) ==
  /\ IF o \in Staged THEN status' = [status EXCEPT ![o] = s] ELSE UNCHANGED status
  /\ UNCHANGED <<sequence, retryCount, deps, early>>

MarkOutputFailed(o) ==
  /\ IF o \in Staged
     THEN /\ retryCount' = [retryCount EXCEPT ![o] = @ + 1]
          /\ status' = [status EXCEPT ![o] =
                          IF retryCount[o] + 1 < MaxOutputRetries THEN "pending" ELSE "failed"]
     ELSE UNCHANGED <<retryCount, status>>
  /\ UNCHANGED <<sequence, deps, early>>

\* Mutant: a dependency that has left the stage counts as satisfied.
SatisfiedOrGone(o) == \A d \in deps[o] : status[d] \in {"submitted", "none"}

DependenciesSatisfied(o) == \A d \in deps[o] : status[d] = "submitted"

\* Mutant: only outputs that somebody has marked as ready.
MarkedReady == {o \in Staged : status[o] = "ready" /\ DependenciesSatisfied(o)}

\* The code also asks for the status "ready", which nothing sets.
ReadyOutputs == {o \in Staged : status[o] = "pending" /\ DependenciesSatisfied(o)}

----------------------------------------------------------------------------
\* The submitter (Start, Stop of OutputSubmitter).  The sequencer starts it once.

SubmitterStart ==
  /\ ~running /\ ~stopClosed
  /\ running' = TRUE
  /\ wpc' = [w \in Workers |-> "idle"]
  /\ UNCHANGED <<stageVars, stopping, stopClosed, startCtxDone, collected, inHand, delivered>>

SubmitterStop ==
  /\ running /\ ~stopping
  /\ running' = FALSE
  /\ stopClosed' = TRUE
  /\ stopping' = TRUE
  /\ UNCHANGED <<stageVars, startCtxDone, workerVars, delivered>>

\* Stop returns nil when no worker is left, and its error after 30 seconds.
StopReturns ==
  /\ stopping
  /\ \A w \in Workers : wpc[w] = "off"
  /\ stopping' = FALSE
  /\ UNCHANGED <<stageVars, running, stopClosed, startCtxDone, workerVars, delivered>>

StopTimesOut ==
  /\ stopping
  /\ \E w \in Workers : wpc[w] # "off"
  /\ stopping' = FALSE
  /\ UNCHANGED <<stageVars, running, stopClosed, startCtxDone, workerVars, delivered>>

SubmitterCancel ==
  /\ ~startCtxDone
  /\ startCtxDone' = TRUE
  /\ UNCHANGED <<stageVars, running, stopping, stopClosed, workerVars, delivered>>

----------------------------------------------------------------------------
\* submissionWorker w.

\* A tick: processReadyOutputs reads the stage.  A map has no order, so which
\* outputs MaxBatchSize lets through is open.
Collect(w) ==
  /\ wpc[w] = "idle" /\ collected[w] = {}
  /\ \E S \in SUBSET ReadyOutputs :
       /\ S # {}
       /\ \/ S = ReadyOutputs /\ Cardinality(S) =< MaxBatchSize
          \/ Cardinality(S) = MaxBatchSize
       /\ collected' = [collected EXCEPT ![w] = S]
  /\ UNCHANGED <<stageVars, controlVars, wpc, inHand, delivered>>

\* Mutant: the output is marked before the worker finds its context cancelled
\* and drops it.
ClaimAndLeave(w, o) ==
  /\ wpc[w] = "idle"
  /\ o \in collected[w]
  /\ collected' = [collected EXCEPT ![w] = @ \ {o}]
  /\ UpdateOutputStatus(o, "submitting")
  /\ IF o \in Staged /\ ~startCtxDone
     THEN /\ wpc' = [wpc EXCEPT ![w] = "submitting"]
          /\ inHand' = [inHand EXCEPT ![w] = o]
     ELSE UNCHANGED <<wpc, inHand>>
  /\ UNCHANGED <<controlVars, delivered>>

\* UpdateOutputStatus(o, Submitting) fails only if o has left the stage.
Claim(w, o) ==
  /\ wpc[w] = "idle"
  /\ o \in collected[w]
  /\ collected' = [collected EXCEPT ![w] = @ \ {o}]
  /\ UpdateOutputStatus(o, "submitting")
  /\ IF o \in Staged
     THEN /\ wpc' = [wpc EXCEPT ![w] = "submitting"]
          /\ inHand' = [inHand EXCEPT ![w] = o]
     ELSE UNCHANGED <<wpc, inHand>>
  /\ UNCHANGED <<controlVars, delivered>>

\* An attempt of Client.Submit reaches L0; its answer arrives or is lost.
Attempt(w) ==
  /\ wpc[w] = "submitting"
  /\ ~startCtxDone
  /\ delivered' = delivered \cup {inHand[w]}
  /\ wpc' = [wpc EXCEPT ![w] = "accepted"] \/ UNCHANGED wpc
  /\ UNCHANGED <<stageVars, controlVars, collected, inHand>>

\* The worker goes on to the next output of its batch, or waits for a tick.
Finish(w) ==
  /\ wpc' = [wpc EXCEPT ![w] = "idle"]
  /\ inHand' = [inHand EXCEPT ![w] = 0]
  /\ UNCHANGED <<controlVars, collected, delivered>>

\* submitStagedOutput succeeded.
Succeed(w) ==
  /\ wpc[w] = "accepted"
  /\ UpdateOutputStatus(inHand[w], "submitted")
  /\ Finish(w)

\* The validation, or the last attempt of the client, failed.
GiveUp(w) ==
  /\ wpc[w] = "submitting"
  /\ MarkOutputFailed(inHand[w])
  /\ Finish(w)

\* The select takes ctx.Done() or stopChan, though a tick may be preferred.
WorkerLeaves(w) ==
  /\ wpc[w] = "idle" /\ collected[w] = {}
  /\ stopClosed \/ startCtxDone
  /\ wpc' = [wpc EXCEPT ![w] = "leaving"]
  /\ UNCHANGED <<stageVars, controlVars, collected, inHand, delivered>>

\* The deferred workers-- needs the lock that a waiting Stop holds.
SignOff(w) ==
  /\ wpc[w] = "leaving"
  /\ ~stopping
  /\ wpc' = [wpc EXCEPT ![w] = "off"]
  /\ UNCHANGED <<stageVars, controlVars, collected, inHand, delivered>>

WorkerStep(w) ==
  \/ Collect(w)
  \/ \E o \in Outputs : Claim(w, o)
  \/ Attempt(w) \/ Succeed(w) \/ GiveUp(w)
  \/ WorkerLeaves(w) \/ SignOff(w)

SubmissionNext ==
  \/ StageOutput
  \/ \E e \in Edges : SetDependency(e[1], e[2])
  \/ \E o \in Outputs : RemoveStagedOutput(o)
  \/ StagerClose \/ StagerCleanup
  \/ SubmitterStart \/ SubmitterStop \/ StopReturns \/ StopTimesOut \/ SubmitterCancel
  \/ \E w \in Workers : WorkerStep(w)

SubmissionSpec == SubmissionInit /\ [][SubmissionNext]_submissionVars

\* Each worker is a goroutine, its ticker ticks, and SubmissionTimeout ends
\* every submission; Stop's own timer ends its waiting.
SubmissionFairness ==
  /\ \A w \in Workers : WF_submissionVars(WorkerStep(w))
  /\ WF_submissionVars(StopReturns \/ StopTimesOut)

----------------------------------------------------------------------------
\* The types of the variables; a worker that has left or is leaving holds
\* nothing, and one that submits has an output.  Workers that hold the same output
\* may each count a failure, but an output whose count has reached MaxOutputRetries
\* is not handed out again: it passes it at most once for each further worker.
SubmissionTypeOK ==
  /\ sequence \in 0 .. MaxOutputs
  /\ status \in [Outputs -> Statuses]
  /\ retryCount \in [Outputs -> 0 .. MaxOutputRetries - 1 + Cardinality(Workers)]
  /\ deps \in [Outputs -> SUBSET Outputs]
  /\ {running, stopping, stopClosed, startCtxDone} \subseteq BOOLEAN
  /\ wpc \in [Workers -> {"off", "idle", "submitting", "accepted", "leaving"}]
  /\ collected \in [Workers -> SUBSET Outputs]
  /\ inHand \in [Workers -> 0 .. MaxOutputs]
  /\ delivered \subseteq Outputs
  /\ early \in [Outputs -> SUBSET Outputs]
  /\ \A w \in Workers :
       /\ wpc[w] \in {"off", "leaving"} => collected[w] = {}
       /\ wpc[w] \in {"submitting", "accepted"} <=> inHand[w] # 0

\* An output marked as submitting is being submitted by some worker, whatever
\* the other workers made of it: it is not lost in that state.
NoOrphan ==
  \A o \in Outputs :
    status[o] = "submitting" =>
      \E w \in Workers : inHand[w] = o /\ wpc[w] \in {"submitting", "accepted"}

\* An output shown as submitted has been accepted by L0; and an output reaches L0
\* only after each dependency that was set before a worker took it, although
\* dependencies expire, fail and leave the stage.
DeliveredInOrder ==
  /\ \A o \in Outputs : status[o] = "submitted" => o \in delivered
  /\ \A o \in delivered : early[o] \subseteq delivered

\* While the workers run, a staged output does not stay undecided, unless a
\* dependency of it is not submitted.
OutputsSettle ==
  \A o \in Outputs :
    (running /\ ~startCtxDone /\ status[o] \in {"pending", "submitting"})
      ~> \/ status[o] \in {"submitted", "failed", "none"}
         \/ \E d \in deps[o] : status[d] # "submitted"
         \/ ~running \/ startCtxDone

----------------------------------------------------------------------------
\* What the comments say and the code does not keep.

\* "Check if another worker is already processing this output" (submit.go:203)
\* and "Skip if already being processed": no two workers submit one output.
NoDoubleSubmission ==
  \A v, w \in Workers :
    (v # w /\ {wpc[v], wpc[w]} \subseteq {"submitting", "accepted"}) => inHand[v] # inHand[w]

\* "Wait for workers to finish (with timeout)" (submit.go:119): Stop runs into
\* its timeout only if a worker is still at work.
StopWaitsForWorkers ==
  [][StopTimesOut => \E w \in Workers : wpc[w] \notin {"leaving", "off"}]_submissionVars
=============================================================================
