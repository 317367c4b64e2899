------------------------------- MODULE Outbox -------------------------------
(***************************************************************************)
(* The persistent outbox (bridge/outputs/outbox.go) and the submission     *)
(* loop that empties it (SubmissionLoop in sequencer/loop.go).             *)
(*                                                                         *)
(* Every operation of the outbox is one badger transaction, so it is one   *)
(* step, and what it wrote survives the process.  The worker handles an    *)
(* item in several of them with the submission in between.  Nobody but the *)
(* worker looks at their errors, and it drops them.                        *)
(***************************************************************************)
EXTENDS OrderedLists

CONSTANTS
  BatchSize,          \* SubmitterConfig
  MinBackoff,         \* BackoffMin and BackoffMax, in ticks
  MaxBackoff,
  DurationLimit,      \* the largest time.Duration
  GiveUpAfter,        \* Cleanup: 10 tries
  Malformed,          \* the items whose bytes deserializeEnvelope refuses
  MaxItems,           \* bound: items enqueued in one behaviour
  MaxTries,           \* bound: failed attempts of an item
  MaxRuns,            \* bound: starts of the process
  MaxStorageErrors    \* bound: failing transactions

OutboxAssumption ==
  /\ {BatchSize, MinBackoff, MaxBackoff, MaxItems} \subseteq Nat \ {0}
  /\ {DurationLimit, GiveUpAfter, MaxTries, MaxRuns, MaxStorageErrors} \subseteq Nat
  /\ Malformed \subseteq 1 .. MaxItems

\* An item is known by the position of its ID, which begins with the time of
\* its creation: the iterator of the store returns items in this order.
Items == 1 .. MaxItems

VARIABLES
  created,        \* items created so far
  stored,         \* the items in the store
  tries,          \* OutboxItem.Tries
  delay,          \* ticks until OutboxItem.NextAttempt
  aged,           \* the items created more than Cleanup's maxAge ago: 1 .. aged
  adding,         \* envelopes that EnqueueEnvelopes has yet to enqueue
  worker,         \* OutboxWorker: where it stands; "dead": no process
  batch,          \* the items that processBatch has yet to process
  cancelled,      \* the context of Start is done
  sent,           \* the items that submitEnvelope has submitted
  runsLeft, errorsLeft

storeVars == <<created, stored, tries, delay, aged>>
workVars == <<adding, worker, batch, cancelled>>
limitVars == <<runsLeft, errorsLeft>>
vars == <<storeVars, workVars, sent, limitVars>>

Init ==
  /\ created = 0
  /\ stored = {}
  /\ tries = [i \in Items |-> 0]
  /\ delay = [i \in Items |-> 0]
  /\ aged = 0
  /\ adding = 0
  /\ worker = "dead"
  /\ batch = <<>>
  /\ cancelled = FALSE
  /\ sent = {}
  /\ runsLeft = MaxRuns
  /\ errorsLeft = MaxStorageErrors

----------------------------------------------------------------------------
\* Transactions of the store.  One that fails has no effect.

Delete(S) ==
  /\ stored' = stored \ S
  /\ UNCHANGED <<created, tries, delay, aged>>

Fails ==
  /\ errorsLeft > 0
  /\ errorsLeft' = errorsLeft - 1
  /\ UNCHANGED storeVars

MarkDone(i) == Fails \/ (Delete({i}) /\ UNCHANGED errorsLeft)

\* Mutant: the cap is left out.
BackoffsUncapped(n) == {MinBackoff * 2^n}

\* min * 2^tries, capped at max, through a float that is converted to a
\* Duration: beyond the limit the result is the platform's.  A negative one is
\* no delay.
Backoffs(n) ==
  LET exact == MinBackoff * 2^n
  IN  IF exact > DurationLimit THEN {0, MaxBackoff}
      ELSE {d \in 0 .. MaxBackoff : d = exact \/ (exact > MaxBackoff /\ d = MaxBackoff)}

\* Of an item that is gone this is an error.
MarkRetry(i) ==
  \/ Fails
  \/ /\ IF i \in stored
        THEN /\ tries' = [tries EXCEPT ![i] = @ + 1]
             /\ \E d \in Backoffs(tries[i]) : delay' = [delay EXCEPT ![i] = d]
        ELSE UNCHANGED <<tries, delay>>
     /\ UNCHANGED <<created, stored, aged, errorsLeft>>

\* Mutant: old items go, however often they were tried.
CleanupByAge ==
  /\ worker # "dead"
  /\ Fails \/ (Delete({i \in stored : i =< aged}) /\ UNCHANGED errorsLeft)
  /\ UNCHANGED <<workVars, sent, runsLeft>>

\* SubmissionLoop.Cleanup and Stop; nothing keeps the worker from an item that
\* goes.
Cleanup ==
  /\ worker # "dead"
  /\ \/ Fails
     \/ /\ Delete({i \in stored : i =< aged /\ tries[i] > GiveUpAfter})
        /\ UNCHANGED errorsLeft
  /\ UNCHANGED <<workVars, sent, runsLeft>>

EnqueueEnvelopes(n) ==
  /\ worker # "dead"
  /\ adding = 0
  /\ adding' = n
  /\ UNCHANGED <<storeVars, worker, batch, cancelled, sent, limitVars>>

\* Outbox.Enqueue: an error ends the call, and the items before it stay.
Enqueue ==
  /\ adding > 0
  /\ \/ /\ created < MaxItems
        /\ created' = created + 1
        /\ stored' = stored \cup {created + 1}
        /\ adding' = adding - 1
        /\ UNCHANGED <<tries, delay, aged, errorsLeft>>
     \/ Fails /\ adding' = 0
  /\ UNCHANGED <<worker, batch, cancelled, sent, runsLeft>>

Ready == {i \in stored : delay[i] = 0}

FirstOf(S, n) ==
  LET size == Cardinality(S)
  IN  SubSeq(Ascending(S), 1, IF size < n THEN size ELSE n)

\* Mutant: the scan ends one item early.
DequeueFewer == FirstOf(Ready, BatchSize - 1)

DequeueReady == FirstOf(Ready, BatchSize)

----------------------------------------------------------------------------
\* OutboxWorker.

Start ==
  /\ worker = "dead"
  /\ runsLeft > 0
  /\ runsLeft' = runsLeft - 1
  /\ worker' = "idle"
  /\ cancelled' = FALSE
  /\ UNCHANGED <<storeVars, adding, batch, sent, errorsLeft>>

\* The process dies, at any point.
Die ==
  /\ worker # "dead"
  /\ worker' = "dead"
  /\ adding' = 0
  /\ batch' = <<>>
  /\ UNCHANGED <<storeVars, cancelled, sent, limitVars>>

Cancel ==
  /\ worker # "dead" /\ ~cancelled
  /\ cancelled' = TRUE
  /\ UNCHANGED <<storeVars, adding, worker, batch, sent, limitVars>>

\* A tick finds items that are ready.
ProcessBatch ==
  /\ worker = "idle" /\ batch = <<>>
  /\ DequeueReady # <<>>
  /\ batch' = DequeueReady
  /\ UNCHANGED <<storeVars, adding, worker, cancelled, sent, limitVars>>

ProcessItem ==
  /\ worker = "idle" /\ batch # <<>>
  /\ worker' = IF Head(batch) \in Malformed THEN "refused" ELSE "submitting"
  /\ UNCHANGED <<storeVars, adding, batch, cancelled, sent, limitVars>>

\* A placeholder for the call of L0: it succeeds unless the context is done.
SubmitEnvelope ==
  /\ worker = "submitting"
  /\ \/ worker' = "submitted" /\ sent' = sent \cup {Head(batch)}
     \/ /\ cancelled /\ tries[Head(batch)] < MaxTries
        /\ worker' = "failed"
        /\ UNCHANGED sent
  /\ UNCHANGED <<storeVars, adding, batch, cancelled, limitVars>>

\* isPermanentError says no to every error.
Mark ==
  /\ \/ worker \in {"refused", "submitted"} /\ MarkDone(Head(batch))
     \/ worker = "failed" /\ MarkRetry(Head(batch))
  /\ worker' = "idle"
  /\ batch' = Tail(batch)
  /\ UNCHANGED <<adding, cancelled, sent, runsLeft>>

Leave ==
  /\ worker = "idle" /\ batch = <<>>
  /\ cancelled
  /\ worker' = "left"
  /\ UNCHANGED <<storeVars, adding, batch, cancelled, sent, limitVars>>

OutboxWorker == ProcessBatch \/ ProcessItem \/ SubmitEnvelope \/ Mark \/ Leave

\* Delays run down, and some items reach maxAge.
Tick ==
  /\ delay' = [i \in Items |-> IF delay[i] = 0 THEN 0 ELSE delay[i] - 1]
  /\ aged' \in aged .. created
  /\ UNCHANGED <<created, stored, tries, workVars, sent, limitVars>>

Next ==
  \/ \E n \in 1 .. MaxItems : EnqueueEnvelopes(n)
  \/ Enqueue \/ Cleanup
  \/ Start \/ Die \/ Cancel
  \/ OutboxWorker
  \/ Tick

\* The worker is a goroutine on a ticker whose submissions end, and time
\* passes.  Nothing is fair about callers, or about the life of the process.
Fairness == WF_vars(OutboxWorker) /\ WF_vars(Tick)

Spec == Init /\ [][Next]_vars

LiveSpec == Spec /\ Fairness

----------------------------------------------------------------------------
\* The types of the variables.  What the worker holds had been created, and it
\* works only on an item of its batch.
TypeOK ==
  /\ created \in 0 .. MaxItems
  /\ stored \subseteq 1 .. created
  /\ tries \in [Items -> Nat]
  /\ delay \in [Items -> 0 .. MaxBackoff]
  /\ aged \in 0 .. created
  /\ adding \in 0 .. MaxItems
  /\ worker \in {"dead", "idle", "submitting", "submitted", "failed", "refused", "left"}
  /\ batch \in Seq(1 .. created)
  /\ cancelled \in BOOLEAN
  /\ sent \subseteq 1 .. created
  /\ runsLeft \in 0 .. MaxRuns /\ errorsLeft \in 0 .. MaxStorageErrors
  /\ worker \in {"submitting", "submitted", "failed", "refused"} => batch # <<>>
  /\ worker \in {"dead", "left"} => batch = <<>>

\* The outbox keeps the promise of Delivery across deaths of the process,
\* failing transactions, cancellations and cleanups: an item leaves the store
\* only when it has been submitted, is malformed, or has failed more than
\* GiveUpAfter times.
D == INSTANCE Delivery WITH
       state <- [i \in Items |-> IF i > created THEN "new"
                                 ELSE IF i \in stored THEN "queued" ELSE "settled"],
       attempts <- tries

ImplementsDelivery == D!Spec

\* The items in the store of a process that stays alive are dealt with: neither
\* one that fails before the others nor a lost mark keeps them there.
ItemsSettle == []<>(stored = {} \/ worker = "dead" \/ cancelled)
=============================================================================
