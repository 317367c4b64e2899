----------------------- MODULE OutputSubmissionProofs ----------------------
(***************************************************************************)
(* Theorems about OutputSubmission, for any number of workers, outputs,    *)
(* retries and batches and for any dependencies: its types with the bound  *)
(* on the retries, that no output is left behind as being submitted, and   *)
(* the order of deliveries.                                                *)
(***************************************************************************)
EXTENDS OutputSubmission, FiniteSetTheorems, TLAPS

\* The workers that have read o from the stage and not finished with it.
Holders(o) == {w \in Workers : Holds(w, o)}

\* The retries of an output, and those that its holders may still count: what
\* keeps the count within the bound that TypeOK states.
Counted ==
  \A o \in Outputs :
    retryCount[o] + Cardinality(Holders(o)) =< MaxOutputRetries - 1 + Cardinality(Workers)

\* The count starts at 0, and only an output with a try left waits for one.
Tallied ==
  \A o \in Outputs :
    /\ status[o] = "none" => retryCount[o] = 0
    /\ status[o] = "pending" => retryCount[o] < MaxOutputRetries

\* A worker holds an output once, so that it counts one failure of it.
HeldOnce == \A w \in Workers : inHand[w] \notin collected[w]

\* Start finds no worker at work.
OffBeforeStart == ~running /\ ~stopClosed => \A w \in Workers : wpc[w] = "off"

\* The dependencies that were set in time are those the stage knows, until the
\* output is discarded; whoever holds an output has seen them submitted.
DependenciesSeen ==
  /\ \A o \in Outputs : o > sequence => status[o] = "none" /\ early[o] = {}
  /\ \A o \in Outputs : status[o] # "none" => early[o] \subseteq deps[o]
  /\ \A w \in Workers : wpc[w] = "accepted" => inHand[w] \in delivered
  /\ \A w \in Workers, o \in Outputs : Holds(w, o) => early[o] \subseteq delivered

\* The inductive invariant.
SubmissionInv ==
  /\ SubmissionTypeOK /\ Counted /\ Tallied /\ HeldOnce /\ OffBeforeStart
  /\ DependenciesSeen /\ NoOrphan /\ DeliveredInOrder

----------------------------------------------------------------------------
\* The holders of an output are some of the workers.
LEMMA SomeWorkers ==
  ASSUME NEW S, S \subseteq Workers
  PROVE  /\ IsFiniteSet(S)
         /\ Cardinality(S) \in Nat /\ Cardinality(Workers) \in Nat
         /\ Cardinality(S) =< Cardinality(Workers)
<1>1. IsFiniteSet(Workers)
  BY SubmissionAssumption
<1> QED
  BY <1>1, FS_Subset, FS_CardinalityType

LEMMA FewerWorkers ==
  ASSUME NEW S, NEW T, S \subseteq Workers, T \subseteq S
  PROVE  Cardinality(T) =< Cardinality(S)
BY SomeWorkers, FS_Subset

\* The count stays within the bound where nobody counts and nobody takes hold.
LEMMA CountedKept ==
  ASSUME SubmissionTypeOK, Counted,
         \A o \in Outputs : retryCount'[o] \in Nat /\ retryCount'[o] =< retryCount[o],
         \A o \in Outputs : Holders(o)' \subseteq Holders(o)
  PROVE  Counted'
<1> SUFFICES ASSUME NEW o \in Outputs
             PROVE  retryCount'[o] + Cardinality(Holders(o)')
                      =< MaxOutputRetries - 1 + Cardinality(Workers)
  BY DEF Counted
<1>1. Holders(o) \subseteq Workers /\ Holders(o)' \subseteq Workers
  BY DEF Holders
<1>2. /\ Cardinality(Holders(o)) \in Nat /\ Cardinality(Holders(o)') \in Nat
      /\ Cardinality(Holders(o)') =< Cardinality(Holders(o))
      /\ Cardinality(Workers) \in Nat
  BY <1>1, SomeWorkers, FewerWorkers
<1>3. retryCount[o] + Cardinality(Holders(o)) =< MaxOutputRetries - 1 + Cardinality(Workers)
  BY DEF Counted
<1>4. retryCount[o] \in Nat /\ retryCount'[o] \in Nat /\ retryCount'[o] =< retryCount[o]
  <2>1. MaxOutputRetries - 1 + Cardinality(Workers) \in Int
    BY <1>2, SubmissionAssumption
  <2> QED
    BY <2>1 DEF SubmissionTypeOK
<1> QED
  BY <1>2, <1>3, <1>4, SubmissionAssumption

LEMMA SubmissionInitInvariant == SubmissionInit => SubmissionInv
<1> SUFFICES ASSUME SubmissionInit PROVE SubmissionInv
  OBVIOUS
<1>1. Cardinality(Workers) \in Nat /\ MaxOutputRetries \in Nat \ {0} /\ MaxOutputs \in Nat \ {0}
  BY SomeWorkers, SubmissionAssumption
<1>2. SubmissionTypeOK
  <2>1. {running, stopping, stopClosed, startCtxDone} \subseteq BOOLEAN
    BY DEF SubmissionInit
  <2>2. retryCount \in [Outputs -> 0 .. MaxOutputRetries - 1 + Cardinality(Workers)]
    BY <1>1 DEF SubmissionInit
  <2>3. inHand \in [Workers -> 0 .. MaxOutputs] /\ sequence \in 0 .. MaxOutputs
    BY <1>1 DEF SubmissionInit
  <2> QED
    BY <2>1, <2>2, <2>3 DEF SubmissionInit, SubmissionTypeOK, Statuses
<1>3. Counted
  <2> SUFFICES ASSUME NEW o \in Outputs
               PROVE  retryCount[o] + Cardinality(Holders(o)) =< MaxOutputRetries - 1 + Cardinality(Workers)
    BY DEF Counted
  <2>1. Holders(o) = {}
    BY DEF SubmissionInit, Holders, Holds, Outputs
  <2> QED
    BY <1>1, <2>1, FS_EmptySet, SubmissionAssumption DEF SubmissionInit
<1>4. Tallied /\ HeldOnce /\ OffBeforeStart /\ DependenciesSeen /\ NoOrphan /\ DeliveredInOrder
  BY SubmissionAssumption
  DEF SubmissionInit, Tallied, HeldOnce, OffBeforeStart, DependenciesSeen, NoOrphan, DeliveredInOrder,
      Holds, Outputs
<1> QED
  BY <1>2, <1>3, <1>4 DEF SubmissionInv

----------------------------------------------------------------------------
\* Steps that leave the workers alone.

LEMMA StageOutputPreserves ==
  ASSUME SubmissionInv, StageOutput
  PROVE  SubmissionInv'
<1> USE DEF SubmissionInv
<1>1. /\ sequence + 1 \in Outputs
      /\ status' = [status EXCEPT ![sequence + 1] = "pending"]
      /\ status[sequence + 1] = "none" /\ retryCount[sequence + 1] = 0
      /\ MaxOutputRetries \in Nat \ {0}
  BY SubmissionAssumption DEF StageOutput, SubmissionTypeOK, DependenciesSeen, Tallied, Outputs
<1>2. SubmissionTypeOK'
  <2>1. sequence' \in 0 .. MaxOutputs
    BY <1>1 DEF StageOutput, Outputs
  <2>2. status' \in [Outputs -> Statuses]
    BY <1>1 DEF StageOutput, SubmissionTypeOK, Statuses
  <2> QED
    BY <2>1, <2>2 DEF StageOutput, SubmissionTypeOK, controlVars, workerVars
<1>3. Counted'
  BY DEF StageOutput, Counted, Holders, Holds, workerVars
<1>4. Tallied'
  BY <1>1 DEF StageOutput, SubmissionTypeOK, Tallied
<1>5. HeldOnce' /\ OffBeforeStart'
  BY DEF StageOutput, HeldOnce, OffBeforeStart, controlVars, workerVars
<1>6. DependenciesSeen'
  BY <1>1 DEF StageOutput, SubmissionTypeOK, DependenciesSeen, Outputs, Holds, workerVars
<1>7. NoOrphan' /\ DeliveredInOrder'
  BY <1>1 DEF StageOutput, SubmissionTypeOK, NoOrphan, DeliveredInOrder, workerVars
<1> QED
  BY <1>2, <1>3, <1>4, <1>5, <1>6, <1>7

LEMMA SetDependencyPreserves ==
  ASSUME SubmissionInv, NEW e \in Edges, SetDependency(e[1], e[2])
  PROVE  SubmissionInv'
<1> USE DEF SubmissionInv
<1> DEFINE o == e[1]  d == e[2]
<1>1. o \in Outputs /\ d \in Outputs /\ status[o] # "none"
  BY SubmissionAssumption DEF Outputs, SetDependency, Staged
<1> HIDE DEF o, d
<1>2. SetDependency(o, d)
  BY DEF o, d
<1>3. SubmissionTypeOK'
  <2>1. deps \in [Outputs -> SUBSET Outputs] /\ early \in [Outputs -> SUBSET Outputs]
    BY DEF SubmissionTypeOK
  <2>2. deps' = [deps EXCEPT ![o] = @ \cup {d}]
    BY <1>2 DEF SetDependency
  <2>3. deps' \in [Outputs -> SUBSET Outputs]
    BY <1>1, <2>1, <2>2
  <2>4. early' = [early EXCEPT ![o] = @ \cup {d}] \/ early' = early
    BY <1>2 DEF SetDependency
  <2>5. early' \in [Outputs -> SUBSET Outputs]
    BY <1>1, <2>1, <2>4
  <2> QED
    BY <1>2, <2>3, <2>5 DEF SetDependency, SubmissionTypeOK, controlVars, workerVars
<1>4. Counted'
  BY <1>2 DEF SetDependency, Counted, Holders, Holds, workerVars
<1>5. Tallied' /\ HeldOnce' /\ OffBeforeStart' /\ NoOrphan'
  BY <1>2 DEF SetDependency, Tallied, HeldOnce, OffBeforeStart, NoOrphan, controlVars, workerVars
<1>6. DependenciesSeen'
  <2> USE DEF SetDependency, SubmissionTypeOK, DependenciesSeen, workerVars
  <2>1. \A p \in Outputs : p > sequence' => status'[p] = "none" /\ early'[p] = {}
    BY <1>1, <1>2
  <2>2. \A p \in Outputs : status'[p] # "none" => early'[p] \subseteq deps'[p]
    BY <1>1, <1>2
  <2>3. \A w \in Workers, p \in Outputs : Holds(w, p) => early'[p] \subseteq delivered
    BY <1>1, <1>2
  <2> QED
    BY <1>2, <2>1, <2>2, <2>3 DEF Holds
<1>7. DeliveredInOrder'
  BY <1>1, <1>2 DEF SetDependency, SubmissionTypeOK, DeliveredInOrder
<1> QED
  BY <1>3, <1>4, <1>5, <1>6, <1>7

\* RemoveStagedOutput, Close and Cleanup.
LEMMA DiscardPreserves ==
  ASSUME SubmissionInv, NEW S \in SUBSET Outputs, Discard(S)
  PROVE  SubmissionInv'
<1> USE DEF SubmissionInv
<1>1. MaxOutputRetries \in Nat \ {0} /\ Cardinality(Workers) \in Nat
  BY SubmissionAssumption, SomeWorkers
<1>2. SubmissionTypeOK'
  BY <1>1 DEF Discard, SubmissionTypeOK, Statuses, controlVars, workerVars
<1>3. Counted'
  <2>1. \A o \in Outputs : retryCount'[o] \in Nat /\ retryCount'[o] =< retryCount[o]
    BY <1>1 DEF Discard, SubmissionTypeOK
  <2>2. \A o \in Outputs : Holders(o)' \subseteq Holders(o)
    BY DEF Discard, Holders, Holds, workerVars
  <2> QED
    BY <2>1, <2>2, CountedKept
<1>4. Tallied'
  BY <1>1 DEF Discard, SubmissionTypeOK, Tallied
<1>5. HeldOnce' /\ OffBeforeStart' /\ NoOrphan'
  BY DEF Discard, HeldOnce, OffBeforeStart, NoOrphan, controlVars, workerVars
<1>6. DependenciesSeen'
  BY DEF Discard, DependenciesSeen, Outputs, Holds, workerVars
<1>7. DeliveredInOrder'
  BY DEF Discard, DeliveredInOrder
<1> QED
  BY <1>2, <1>3, <1>4, <1>5, <1>6, <1>7

----------------------------------------------------------------------------
\* Start, Stop and the context.
LEMMA ControlPreserves ==
  ASSUME SubmissionInv, SubmitterStart \/ SubmitterStop \/ StopReturns \/ StopTimesOut \/ SubmitterCancel
  PROVE  SubmissionInv'
<1> USE DEF SubmissionInv
<1> USE DEF SubmitterStart, SubmitterStop, StopReturns, StopTimesOut, SubmitterCancel, stageVars, workerVars
<1>1. wpc' = wpc \/ (wpc = [w \in Workers |-> "off"] /\ wpc' = [w \in Workers |-> "idle"])
  BY DEF OffBeforeStart, SubmissionTypeOK
<1>2. SubmissionTypeOK'
  BY <1>1 DEF SubmissionTypeOK
<1>3. Counted'
  BY DEF Counted, Holders, Holds
<1>4. Tallied' /\ HeldOnce' /\ OffBeforeStart'
  BY DEF Tallied, HeldOnce, OffBeforeStart
<1>5. DependenciesSeen' /\ NoOrphan' /\ DeliveredInOrder'
  BY <1>1 DEF DependenciesSeen, NoOrphan, DeliveredInOrder, Holds
<1> QED
  BY <1>2, <1>3, <1>4, <1>5

----------------------------------------------------------------------------
\* Steps of a worker.

\* Who collects an output finds its dependencies submitted, and counts at most one
\* failure more than the others.
LEMMA CollectPreserves ==
  ASSUME SubmissionInv, NEW w \in Workers, Collect(w)
  PROVE  SubmissionInv'
<1> USE DEF SubmissionInv
<1>1. PICK S \in SUBSET ReadyOutputs : collected' = [collected EXCEPT ![w] = S]
  BY DEF Collect
<1>2. /\ UNCHANGED <<stageVars, controlVars, wpc, inHand, delivered>>
      /\ wpc[w] = "idle" /\ collected[w] = {} /\ inHand[w] = 0
  BY DEF Collect, SubmissionTypeOK
<1>3. \A o \in S : o \in Outputs /\ status[o] = "pending" /\ early[o] \subseteq delivered
  BY DEF ReadyOutputs, Staged, DependenciesSatisfied, DependenciesSeen, DeliveredInOrder, SubmissionTypeOK
<1>4. SubmissionTypeOK'
  BY <1>1, <1>2, <1>3 DEF SubmissionTypeOK, stageVars, controlVars
<1>5. Counted'
  <2> SUFFICES ASSUME NEW o \in Outputs
               PROVE  retryCount[o] + Cardinality(Holders(o)')
                        =< MaxOutputRetries - 1 + Cardinality(Workers)
    BY <1>2 DEF Counted, stageVars
  <2>1. CASE o \in S
    <3>1. retryCount[o] \in Nat /\ retryCount[o] < MaxOutputRetries /\ MaxOutputRetries \in Nat
      BY <1>3, <2>1, SomeWorkers, SubmissionAssumption DEF Tallied, SubmissionTypeOK
    <3>2. Holders(o)' \subseteq Workers
      BY DEF Holders
    <3> QED
      BY <3>1, <3>2, SomeWorkers
  <2>2. CASE o \notin S
    <3>1. Holders(o)' = Holders(o)
      BY <1>1, <1>2, <2>2 DEF Holders, Holds, SubmissionTypeOK
    <3> QED
      BY <3>1 DEF Counted
  <2> QED
    BY <2>1, <2>2
<1>6. HeldOnce'
  BY <1>1, <1>2, <1>3 DEF HeldOnce, SubmissionTypeOK, Outputs
<1>7. Tallied' /\ OffBeforeStart' /\ NoOrphan' /\ DeliveredInOrder'
  BY <1>2 DEF Tallied, OffBeforeStart, NoOrphan, DeliveredInOrder, stageVars, controlVars
<1>8. DependenciesSeen'
  BY <1>1, <1>2, <1>3 DEF DependenciesSeen, Holds, SubmissionTypeOK, stageVars
<1> QED
  BY <1>4, <1>5, <1>6, <1>7, <1>8

LEMMA ClaimPreserves ==
  ASSUME SubmissionInv, NEW w \in Workers, NEW o \in Outputs, Claim(w, o)
  PROVE  SubmissionInv'
<1> USE DEF SubmissionInv
<1>1. /\ o \in collected[w] /\ wpc[w] = "idle" /\ inHand[w] = 0 /\ o # 0
      /\ collected' = [collected EXCEPT ![w] = @ \ {o}]
      /\ UNCHANGED <<sequence, retryCount, deps, early, controlVars, delivered>>
  BY DEF Claim, UpdateOutputStatus, SubmissionTypeOK, Outputs
<1>2. \/ /\ status[o] # "none" /\ status' = [status EXCEPT ![o] = "submitting"]
         /\ wpc' = [wpc EXCEPT ![w] = "submitting"]
         /\ inHand' = [inHand EXCEPT ![w] = o]
      \/ UNCHANGED <<status, wpc, inHand>>
  BY DEF Claim, UpdateOutputStatus, Staged
<1>3. SubmissionTypeOK'
  <2>1. collected' \in [Workers -> SUBSET Outputs]
    BY <1>1 DEF SubmissionTypeOK
  <2>2. status' \in [Outputs -> Statuses]
    BY <1>2 DEF SubmissionTypeOK, Statuses
  <2>3. /\ wpc' \in [Workers -> {"off", "idle", "submitting", "accepted", "leaving"}]
        /\ inHand' \in [Workers -> 0 .. MaxOutputs]
    BY <1>2 DEF SubmissionTypeOK, Outputs
  <2>4. \A v \in Workers : /\ wpc'[v] \in {"off", "leaving"} => collected'[v] = {}
                           /\ wpc'[v] \in {"submitting", "accepted"} <=> inHand'[v] # 0
    BY <1>1, <1>2 DEF SubmissionTypeOK
  <2> QED
    BY <1>1, <2>1, <2>2, <2>3, <2>4 DEF SubmissionTypeOK, controlVars
<1>4. \A v \in Workers, p \in Outputs : Holds(v, p)' => Holds(v, p)
  BY <1>1, <1>2 DEF Holds, SubmissionTypeOK
<1>5. Counted'
  <2>1. \A p \in Outputs : retryCount'[p] \in Nat /\ retryCount'[p] =< retryCount[p]
    <3>1. \A p \in Outputs : retryCount[p] \in Int /\ retryCount[p] \in Nat
      BY SomeWorkers, SubmissionAssumption DEF SubmissionTypeOK
    <3> QED
      BY <1>1, <3>1
  <2>2. \A p \in Outputs : Holders(p)' \subseteq Holders(p)
    BY <1>4 DEF Holders
  <2> QED
    BY <2>1, <2>2, CountedKept
<1>6. Tallied'
  BY <1>1, <1>2 DEF Tallied, SubmissionTypeOK
<1>7. HeldOnce'
  BY <1>1, <1>2 DEF HeldOnce, SubmissionTypeOK
<1>8. OffBeforeStart'
  BY <1>1, <1>2 DEF OffBeforeStart, controlVars
<1>9. DependenciesSeen'
  <2> USE DEF DependenciesSeen, SubmissionTypeOK
  <2>1. \A p \in Outputs : p > sequence => status'[p] = "none" /\ early[p] = {}
    BY <1>2
  <2>2. \A p \in Outputs : status'[p] # "none" => early[p] \subseteq deps[p]
    BY <1>2
  <2>3. \A v \in Workers : wpc'[v] = "accepted" => inHand'[v] \in delivered
    BY <1>2
  <2>4. \A v \in Workers, p \in Outputs : Holds(v, p)' => early[p] \subseteq delivered
    BY <1>4
  <2> QED
    BY <1>1, <2>1, <2>2, <2>3, <2>4 DEF Holds
<1>10. NoOrphan'
  BY <1>1, <1>2 DEF NoOrphan, SubmissionTypeOK
<1>11. DeliveredInOrder'
  BY <1>1, <1>2 DEF DeliveredInOrder, SubmissionTypeOK
<1> QED
  BY <1>3, <1>5, <1>6, <1>7, <1>8, <1>9, <1>10, <1>11

LEMMA AttemptPreserves ==
  ASSUME SubmissionInv, NEW w \in Workers, Attempt(w)
  PROVE  SubmissionInv'
<1> USE DEF SubmissionInv
<1>1. /\ wpc[w] = "submitting" /\ delivered' = delivered \cup {inHand[w]}
      /\ wpc' = [wpc EXCEPT ![w] = "accepted"] \/ wpc' = wpc
      /\ UNCHANGED <<stageVars, controlVars, collected, inHand>>
      /\ inHand[w] \in Outputs
  BY DEF Attempt, SubmissionTypeOK, Outputs
<1>2. SubmissionTypeOK'
  BY <1>1 DEF SubmissionTypeOK, stageVars, controlVars
<1>3. Counted'
  BY <1>1 DEF Counted, Holders, Holds, stageVars
<1>4. Tallied' /\ HeldOnce' /\ NoOrphan'
  BY <1>1 DEF Tallied, HeldOnce, NoOrphan, SubmissionTypeOK, stageVars
<1>5. OffBeforeStart'
  BY <1>1 DEF OffBeforeStart, SubmissionTypeOK, controlVars
<1>6. DependenciesSeen'
  BY <1>1 DEF DependenciesSeen, Holds, SubmissionTypeOK, stageVars
<1>7. DeliveredInOrder'
  BY <1>1 DEF DeliveredInOrder, DependenciesSeen, Holds, SubmissionTypeOK, stageVars
<1> QED
  BY <1>2, <1>3, <1>4, <1>5, <1>6, <1>7

\* What Succeed and GiveUp have in common: the worker lets its output go, and the
\* status it leaves behind is not "submitting".
LEMMA FinishPreserves ==
  ASSUME SubmissionInv, NEW w \in Workers, wpc[w] \in {"submitting", "accepted"}, Finish(w),
         UNCHANGED <<sequence, deps, early>>,
         NEW s \in {"pending", "submitted", "failed"},
         status' = [status EXCEPT ![inHand[w]] = IF @ = "none" THEN "none" ELSE s],
         s = "submitted" => inHand[w] \in delivered,
         Counted', Tallied', retryCount' \in [Outputs -> Nat]
  PROVE  SubmissionInv'
<1> USE DEF SubmissionInv
<1> DEFINE o == inHand[w]
<1>1. /\ o \in Outputs /\ o # 0
      /\ wpc' = [wpc EXCEPT ![w] = "idle"] /\ inHand' = [inHand EXCEPT ![w] = 0]
      /\ UNCHANGED <<controlVars, collected, delivered>>
  BY DEF SubmissionTypeOK, Outputs, Finish
<1>2. SubmissionTypeOK'
  <2>1. retryCount' \in [Outputs -> 0 .. MaxOutputRetries - 1 + Cardinality(Workers)]
    <3> SUFFICES ASSUME NEW p \in Outputs
                 PROVE  retryCount'[p] \in 0 .. MaxOutputRetries - 1 + Cardinality(Workers)
      OBVIOUS
    <3>1. Holders(p)' \subseteq Workers
      BY DEF Holders
    <3>2. Cardinality(Holders(p)') \in Nat /\ Cardinality(Workers) \in Nat
      BY <3>1, SomeWorkers
    <3> QED
      BY <3>2, SubmissionAssumption DEF Counted
  <2>2. status' \in [Outputs -> Statuses]
    BY DEF SubmissionTypeOK, Statuses
  <2>3. /\ wpc' \in [Workers -> {"off", "idle", "submitting", "accepted", "leaving"}]
        /\ inHand' \in [Workers -> 0 .. MaxOutputs]
    BY <1>1, SubmissionAssumption DEF SubmissionTypeOK
  <2>4. \A v \in Workers : /\ wpc'[v] \in {"off", "leaving"} => collected'[v] = {}
                           /\ wpc'[v] \in {"submitting", "accepted"} <=> inHand'[v] # 0
    BY <1>1 DEF SubmissionTypeOK
  <2> QED
    BY <1>1, <2>1, <2>2, <2>3, <2>4 DEF SubmissionTypeOK, controlVars
<1>3. HeldOnce'
  BY <1>1 DEF HeldOnce, SubmissionTypeOK, Outputs
<1>4. OffBeforeStart'
  BY <1>1 DEF OffBeforeStart, SubmissionTypeOK, controlVars
<1>5. DependenciesSeen'
  <2> USE DEF DependenciesSeen, SubmissionTypeOK
  <2>1. \A p \in Outputs : status'[p] # "none" => status[p] # "none"
    BY <1>1
  <2>2. \A v \in Workers : wpc'[v] = "accepted" => inHand'[v] \in delivered
    BY <1>1
  <2>3. \A v \in Workers, p \in Outputs : Holds(v, p)' => Holds(v, p)
    BY <1>1 DEF Holds, Outputs
  <2>4. \A p \in Outputs : p > sequence => status'[p] = "none"
    BY <1>1
  <2> QED
    BY <1>1, <2>1, <2>2, <2>3, <2>4 DEF Holds
<1>6. NoOrphan'
  BY <1>1 DEF NoOrphan, SubmissionTypeOK
<1>7. DeliveredInOrder'
  BY <1>1 DEF DeliveredInOrder, SubmissionTypeOK
<1> QED
  BY <1>2, <1>3, <1>4, <1>5, <1>6, <1>7

LEMMA SucceedPreserves ==
  ASSUME SubmissionInv, NEW w \in Workers, Succeed(w)
  PROVE  SubmissionInv'
<1> USE DEF SubmissionInv
<1> DEFINE o == inHand[w]
<1>1. /\ wpc[w] = "accepted" /\ o \in Outputs /\ o \in delivered
      /\ wpc' = [wpc EXCEPT ![w] = "idle"] /\ inHand' = [inHand EXCEPT ![w] = 0]
      /\ UNCHANGED <<sequence, retryCount, deps, early, controlVars, collected, delivered>>
      /\ status \in [Outputs -> Statuses]
  BY DEF Succeed, Finish, UpdateOutputStatus, SubmissionTypeOK, Outputs, DependenciesSeen
<1>2. status' = [status EXCEPT ![o] = IF @ = "none" THEN "none" ELSE "submitted"]
  BY <1>1 DEF Succeed, UpdateOutputStatus, Staged
<1>3. \A p \in Outputs : retryCount[p] \in Nat
  BY SomeWorkers, SubmissionAssumption DEF SubmissionTypeOK
<1>4. Counted'
  <2>1. \A p \in Outputs : Holders(p)' \subseteq Holders(p)
    BY <1>1 DEF Holders, Holds, SubmissionTypeOK, Outputs
  <2>2. \A p \in Outputs : retryCount'[p] \in Nat /\ retryCount'[p] =< retryCount[p]
    BY <1>1, <1>3
  <2> QED
    BY <2>1, <2>2, CountedKept
<1>5. Tallied'
  BY <1>1, <1>2 DEF Tallied
<1>6. retryCount' \in [Outputs -> Nat]
  BY <1>1, <1>3 DEF SubmissionTypeOK
<1> QED
  BY <1>1, <1>2, <1>4, <1>5, <1>6, FinishPreserves DEF Succeed

\* The worker's own count is taken from those its output had to expect.
LEMMA GiveUpPreserves ==
  ASSUME SubmissionInv, NEW w \in Workers, GiveUp(w)
  PROVE  SubmissionInv'
<1> USE DEF SubmissionInv
<1> DEFINE o == inHand[w]
           s == IF retryCount[o] + 1 < MaxOutputRetries THEN "pending" ELSE "failed"
<1>1. /\ wpc[w] = "submitting" /\ o \in Outputs
      /\ wpc' = [wpc EXCEPT ![w] = "idle"] /\ inHand' = [inHand EXCEPT ![w] = 0]
      /\ UNCHANGED <<sequence, deps, early, controlVars, collected, delivered>>
      /\ status \in [Outputs -> Statuses]
  BY DEF GiveUp, Finish, MarkOutputFailed, SubmissionTypeOK, Outputs
<1>2. status' = [status EXCEPT ![o] = IF @ = "none" THEN "none" ELSE s]
  BY <1>1 DEF GiveUp, MarkOutputFailed, Staged
<1>3. /\ retryCount \in [Outputs -> Nat] /\ MaxOutputRetries \in Nat \ {0}
      /\ Cardinality(Workers) \in Nat
  BY SomeWorkers, SubmissionAssumption DEF SubmissionTypeOK
<1>4. retryCount' = [retryCount EXCEPT ![o] = @ + 1] \/ (retryCount' = retryCount /\ status[o] = "none")
  BY <1>1 DEF GiveUp, MarkOutputFailed, Staged
<1>5. retryCount' \in [Outputs -> Nat]
  BY <1>3, <1>4
<1>6. \A p \in Outputs : Holders(p)' = Holders(p) \ (IF p = o THEN {w} ELSE {})
  BY <1>1 DEF Holders, Holds, HeldOnce, SubmissionTypeOK, Outputs
<1>7. Counted'
  <2> SUFFICES ASSUME NEW p \in Outputs
               PROVE  retryCount'[p] + Cardinality(Holders(p)')
                        =< MaxOutputRetries - 1 + Cardinality(Workers)
    BY DEF Counted
  <2>1. Holders(p) \subseteq Workers /\ IsFiniteSet(Holders(p))
    BY SomeWorkers DEF Holders
  <2>2. /\ Cardinality(Holders(p)) \in Nat
        /\ retryCount[p] + Cardinality(Holders(p)) =< MaxOutputRetries - 1 + Cardinality(Workers)
    BY <2>1, SomeWorkers DEF Counted
  <2>3. CASE p = o
    <3>1. w \in Holders(p) /\ Holders(p)' = Holders(p) \ {w}
      BY <1>6, <2>3 DEF Holders, Holds
    <3>2. Cardinality(Holders(p)') = Cardinality(Holders(p)) - 1
      BY <2>1, <3>1, FS_RemoveElement
    <3>3. retryCount'[p] =< retryCount[p] + 1 /\ retryCount'[p] \in Nat /\ retryCount[p] \in Nat
      BY <1>3, <1>4, <1>5
    <3> QED
      BY <1>3, <2>2, <3>2, <3>3
  <2>4. CASE p # o
    BY <1>3, <1>4, <1>6, <2>2, <2>4
  <2> QED
    BY <2>3, <2>4
<1>8. Tallied'
  <2>1. CASE status[o] = "none"
    <3>1. status' = status /\ retryCount' = retryCount
      BY <1>1, <2>1 DEF GiveUp, MarkOutputFailed, Staged
    <3> QED
      BY <3>1 DEF Tallied
  <2>2. CASE status[o] # "none"
    <3>1. retryCount' = [retryCount EXCEPT ![o] = @ + 1] /\ status' = [status EXCEPT ![o] = s]
      BY <1>1, <2>2 DEF GiveUp, MarkOutputFailed, Staged
    <3>2. \A p \in Outputs \ {o} : status'[p] = status[p] /\ retryCount'[p] = retryCount[p]
      BY <1>1, <1>3, <3>1
    <3>3. status'[o] = s /\ retryCount'[o] = retryCount[o] + 1 /\ retryCount[o] \in Nat
      BY <1>1, <1>3, <3>1
    <3> QED
      BY <1>3, <3>2, <3>3 DEF Tallied
  <2> QED
    BY <2>1, <2>2
<1> QED
  <2>1. s \in {"pending", "submitted", "failed"} /\ s # "submitted"
    OBVIOUS
  <2> HIDE DEF s
  <2> QED
    BY <1>1, <1>2, <1>5, <1>7, <1>8, <2>1, FinishPreserves DEF GiveUp

LEMMA LeavePreserves ==
  ASSUME SubmissionInv, NEW w \in Workers, WorkerLeaves(w) \/ SignOff(w)
  PROVE  SubmissionInv'
<1> USE DEF SubmissionInv, WorkerLeaves, SignOff
<1>1. /\ wpc' = [wpc EXCEPT ![w] = "leaving"] \/ wpc' = [wpc EXCEPT ![w] = "off"]
      /\ wpc[w] \in {"idle", "leaving"} /\ collected[w] = {}
      /\ UNCHANGED <<stageVars, controlVars, collected, inHand, delivered>>
  BY DEF SubmissionTypeOK
<1>2. SubmissionTypeOK'
  BY <1>1 DEF SubmissionTypeOK, stageVars, controlVars
<1>3. Counted'
  BY <1>1 DEF Counted, Holders, Holds, stageVars
<1>4. Tallied' /\ HeldOnce'
  BY <1>1 DEF Tallied, HeldOnce, stageVars
<1>5. OffBeforeStart'
  BY <1>1 DEF OffBeforeStart, SubmissionTypeOK, controlVars
<1>6. DependenciesSeen'
  BY <1>1 DEF DependenciesSeen, Holds, SubmissionTypeOK, stageVars
<1>7. NoOrphan' /\ DeliveredInOrder'
  BY <1>1 DEF NoOrphan, DeliveredInOrder, SubmissionTypeOK, stageVars
<1> QED
  BY <1>2, <1>3, <1>4, <1>5, <1>6, <1>7

----------------------------------------------------------------------------
LEMMA SubmissionNextPreserves == SubmissionInv /\ [SubmissionNext]_submissionVars => SubmissionInv'
<1> SUFFICES ASSUME SubmissionInv, [SubmissionNext]_submissionVars PROVE SubmissionInv'
  OBVIOUS
<1>1. CASE StageOutput
  BY <1>1, StageOutputPreserves
<1>2. CASE \E e \in Edges : SetDependency(e[1], e[2])
  BY <1>2, SetDependencyPreserves
<1>3. CASE (\E o \in Outputs : RemoveStagedOutput(o)) \/ StagerClose \/ StagerCleanup
  <2>1. \E S \in SUBSET Outputs : Discard(S)
    BY <1>3 DEF RemoveStagedOutput, StagerClose, StagerCleanup, Staged
  <2> QED
    BY <2>1, DiscardPreserves
<1>4. CASE SubmitterStart \/ SubmitterStop \/ StopReturns \/ StopTimesOut \/ SubmitterCancel
  BY <1>4, ControlPreserves
<1>5. ASSUME NEW w \in Workers, WorkerStep(w)
      PROVE  SubmissionInv'
  BY <1>5, CollectPreserves, ClaimPreserves, AttemptPreserves, SucceedPreserves, GiveUpPreserves,
     LeavePreserves
  DEF WorkerStep
<1>6. CASE UNCHANGED submissionVars
  <2> USE <1>6 DEF submissionVars, stageVars, controlVars, workerVars
  <2>1. SubmissionTypeOK' = SubmissionTypeOK /\ Counted' = Counted /\ Tallied' = Tallied /\ HeldOnce' = HeldOnce
    BY DEF SubmissionTypeOK, Counted, Holders, Holds, Tallied, HeldOnce
  <2>2. /\ OffBeforeStart' = OffBeforeStart /\ DependenciesSeen' = DependenciesSeen
        /\ NoOrphan' = NoOrphan /\ DeliveredInOrder' = DeliveredInOrder
    BY DEF OffBeforeStart, DependenciesSeen, Holds, NoOrphan, DeliveredInOrder
  <2> QED
    BY <2>1, <2>2 DEF SubmissionInv
<1> QED
  BY <1>1, <1>2, <1>3, <1>4, <1>5, <1>6 DEF SubmissionNext

\* The inductive invariant holds throughout (stage.go and submit.go).
THEOREM SubmissionInvariant == SubmissionSpec => []SubmissionInv
BY SubmissionInitInvariant, SubmissionNextPreserves, PTL DEF SubmissionSpec

\* The variables keep their types; workers that hold the same output take its count
\* past MaxRetries by at most one each (MarkOutputFailed).
THEOREM SubmissionKeepsTypes == SubmissionSpec => []SubmissionTypeOK
<1>1. SubmissionInv => SubmissionTypeOK
  BY DEF SubmissionInv
<1> QED
  BY <1>1, SubmissionInvariant, PTL

\* An output that is marked as being submitted has a worker at it (processOutput).
THEOREM SubmissionNoOrphan == SubmissionSpec => []NoOrphan
<1>1. SubmissionInv => NoOrphan
  BY DEF SubmissionInv
<1> QED
  BY <1>1, SubmissionInvariant, PTL

\* What is shown as submitted was accepted, and an output is accepted only after
\* the dependencies set in time (areDependenciesSatisfied).
THEOREM SubmissionDeliveredInOrder == SubmissionSpec => []DeliveredInOrder
<1>1. SubmissionInv => DeliveredInOrder
  BY DEF SubmissionInv
<1> QED
  BY <1>1, SubmissionInvariant, PTL
=============================================================================
