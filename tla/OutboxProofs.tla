---------------------------- MODULE OutboxProofs ----------------------------
(***************************************************************************)
(* Theorems about Outbox, for any sizes, backoffs and malformed items: its *)
(* types, and that it implements Delivery, whatever dies, fails, or is     *)
(* cancelled or cleaned up.                                                *)
(***************************************************************************)
EXTENDS Outbox, OrderedListProofs

\* What the worker found out about the item it is about to mark is still so: only
\* then may the mark take the item from the store.
MarksJustified ==
  /\ worker = "submitted" => Head(batch) \in sent
  /\ worker = "refused" => Head(batch) \in Malformed

\* The inductive invariant.
IInv == TypeOK /\ MarksJustified

----------------------------------------------------------------------------
\* FirstOf returns members of its set, and one at least if it may.
LEMMA FirstOfProperties ==
  ASSUME NEW n \in Nat, NEW S \in SUBSET (1 .. n), NEW m \in Nat
  PROVE  /\ FirstOf(S, m) \in Seq(1 .. n)
         /\ S # {} /\ m > 0 => FirstOf(S, m) # <<>>
<1> DEFINE c == Cardinality(S)
           k == IF c < m THEN c ELSE m
<1>1. IsFiniteSet(S) /\ c \in Nat
  <2>1. IsFiniteSet(1 .. n)
    BY FS_Interval
  <2>2. IsFiniteSet(S)
    BY <2>1, FS_Subset
  <2> QED
    BY <2>2, FS_CardinalityType
<1>2. Ascending(S) \in [1 .. c -> S]
  BY AscendingExists DEF Ascending
<1>3. FirstOf(S, m) = SubSeq(Ascending(S), 1, k)
  BY DEF FirstOf
<1>4. S # {} => c # 0
  BY <1>1, FS_EmptySet
<1> HIDE DEF c
<1>5. k \in Nat /\ k =< c /\ (c > 0 /\ m > 0 => k > 0)
  BY <1>1
<1> HIDE DEF k
<1>6. /\ SubSeq(Ascending(S), 1, k) \in Seq(1 .. n)
      /\ Len(SubSeq(Ascending(S), 1, k)) = IF 1 =< k THEN k - 1 + 1 ELSE 0
  <2>1. \A i \in 1 .. k : Ascending(S)[i] \in 1 .. n
    <3> TAKE i \in 1 .. k
    <3>1. i \in 1 .. c
      BY <1>1, <1>5
    <3>2. Ascending(S)[i] \in S
      BY <1>2, <3>1
    <3> QED
      BY <3>2
  <2>2. 1 \in Int /\ k \in Int
    BY <1>5
  <2> QED
    BY <2>1, <2>2, SubSeqProperties
<1>7. k > 0 => SubSeq(Ascending(S), 1, k) # <<>>
  <2> DEFINE r == SubSeq(Ascending(S), 1, k)
  <2>1. k > 0 => Len(r) = k
    BY <1>5, <1>6
  <2> HIDE DEF r
  <2>2. r = <<>> => Len(r) = 0
    BY EmptySeq
  <2>3. k > 0 => r # <<>>
    BY <1>5, <2>1, <2>2
  <2> QED
    BY <2>3 DEF r
<1> QED
  BY <1>1, <1>3, <1>4, <1>5, <1>6, <1>7

\* A list over fewer items is a list over more.
LEMMA LongerSeq ==
  ASSUME NEW m \in Nat, NEW n \in Nat, m =< n, NEW s \in Seq(1 .. m)
  PROVE  s \in Seq(1 .. n)
<1>1. Len(s) \in Nat /\ s \in [1 .. Len(s) -> 1 .. m]
  BY LenProperties
<1>2. s \in [1 .. Len(s) -> 1 .. n]
  BY <1>1
<1> QED
  BY <1>1, <1>2, SeqDef

\* What the assumption says of each constant.
LEMMA Bounds ==
  ASSUME OutboxAssumption
  PROVE  /\ BatchSize \in Nat \ {0} /\ MaxBackoff \in Nat \ {0} /\ MaxItems \in Nat \ {0}
         /\ MaxRuns \in Nat /\ MaxStorageErrors \in Nat
BY DEF OutboxAssumption

LEMMA CreatedAreItems ==
  ASSUME OutboxAssumption, IInv
  PROVE  created \in Nat /\ 1 .. created \subseteq Items
<1>1. created \in 0 .. MaxItems /\ MaxItems \in Nat
  BY Bounds DEF IInv, TypeOK
<1> QED
  BY <1>1 DEF Items

\* The delay that MarkRetry sets is within the cap.
LEMMA BackoffsCapped ==
  ASSUME OutboxAssumption, NEW n \in Nat
  PROVE  Backoffs(n) \subseteq 0 .. MaxBackoff
<1>1. MaxBackoff \in Nat \ {0}
  BY DEF OutboxAssumption
<1> QED
  BY <1>1 DEF Backoffs

----------------------------------------------------------------------------
LEMMA InitInvariant ==
  ASSUME OutboxAssumption
  PROVE  Init => IInv
<1>1. <<>> \in Seq(1 .. 0)
  OBVIOUS
<1> SUFFICES ASSUME Init PROVE IInv
  OBVIOUS
<1>2. batch \in Seq(1 .. created)
  BY <1>1 DEF Init
<1>3. tries \in [Items -> Nat] /\ delay \in [Items -> 0 .. MaxBackoff]
  BY Bounds DEF Init
<1>4. /\ created \in 0 .. MaxItems /\ stored \subseteq 1 .. created /\ sent \subseteq 1 .. created
      /\ aged \in 0 .. created /\ adding \in 0 .. MaxItems
      /\ runsLeft \in 0 .. MaxRuns /\ errorsLeft \in 0 .. MaxStorageErrors
  BY Bounds DEF Init
<1> QED
  BY <1>2, <1>3, <1>4 DEF Init, IInv, TypeOK, MarksJustified

\* A transaction that deletes, or one that fails.
LEMMA DeletePreserves ==
  ASSUME OutboxAssumption, IInv, NEW S,
         (Delete(S) /\ UNCHANGED errorsLeft) \/ Fails,
         UNCHANGED <<workVars, sent, runsLeft>>
  PROVE  IInv'
<1>1. /\ UNCHANGED <<created, tries, delay, aged, workVars, sent, runsLeft>>
      /\ stored' \subseteq stored
  BY DEF Delete, Fails, storeVars
<1>2. errorsLeft' \in 0 .. MaxStorageErrors
  BY Bounds DEF Fails, IInv, TypeOK
<1> QED
  BY <1>1, <1>2 DEF IInv, TypeOK, MarksJustified, workVars

LEMMA EnqueuePreserves ==
  ASSUME OutboxAssumption, IInv, Enqueue
  PROVE  IInv'
<1>1. MaxItems \in Nat /\ created \in 0 .. MaxItems
  BY DEF OutboxAssumption, IInv, TypeOK
<1>2. CASE Fails /\ adding' = 0
  <2>1. errorsLeft' \in 0 .. MaxStorageErrors /\ adding' \in 0 .. MaxItems
    BY <1>1, <1>2, Bounds DEF Fails, IInv, TypeOK
  <2> QED
    BY <1>2, <2>1 DEF IInv, TypeOK, MarksJustified, Enqueue, Fails, storeVars
<1>3. CASE ~ (Fails /\ adding' = 0)
  <2>1. /\ created < MaxItems /\ created' = created + 1 /\ stored' = stored \cup {created + 1}
        /\ adding > 0 /\ adding' = adding - 1
        /\ UNCHANGED <<tries, delay, aged, errorsLeft, worker, batch, cancelled, sent, runsLeft>>
    BY <1>3 DEF Enqueue
  <2>2. batch \in Seq(1 .. created + 1)
    BY <1>1, LongerSeq DEF IInv, TypeOK
  <2>3. /\ created' \in 0 .. MaxItems /\ stored' \subseteq 1 .. created'
        /\ aged' \in 0 .. created' /\ adding' \in 0 .. MaxItems
        /\ sent' \subseteq 1 .. created'
    BY <1>1, <2>1 DEF IInv, TypeOK
  <2> QED
    BY <2>1, <2>2, <2>3 DEF IInv, TypeOK, MarksJustified
<1> QED
  BY <1>2, <1>3

\* The calls of others, and the life of the process.
LEMMA CallsPreserve ==
  ASSUME OutboxAssumption, IInv,
         (\E n \in 1 .. MaxItems : EnqueueEnvelopes(n)) \/ Start \/ Die \/ Cancel
  PROVE  IInv'
<1>1. MaxItems \in Nat /\ MaxRuns \in Nat
  BY DEF OutboxAssumption
<1>2. CASE \E n \in 1 .. MaxItems : EnqueueEnvelopes(n)
  BY <1>1, <1>2 DEF EnqueueEnvelopes, IInv, TypeOK, MarksJustified, storeVars, limitVars
<1>3. CASE Start
  <2>1. runsLeft' \in 0 .. MaxRuns
    BY <1>1, <1>3 DEF Start, IInv, TypeOK
  <2> QED
    BY <1>3, <2>1 DEF Start, IInv, TypeOK, MarksJustified, storeVars
<1>4. CASE Die
  <2>1. <<>> \in Seq(1 .. created)
    BY DEF IInv, TypeOK
  <2> QED
    BY <1>1, <1>4, <2>1 DEF Die, IInv, TypeOK, MarksJustified, storeVars, limitVars
<1>5. CASE Cancel
  BY <1>5 DEF Cancel, IInv, TypeOK, MarksJustified, storeVars, limitVars
<1> QED
  BY <1>2, <1>3, <1>4, <1>5

LEMMA TickPreserves ==
  ASSUME OutboxAssumption, IInv, Tick
  PROVE  IInv'
<1>1. MaxBackoff \in Nat /\ created \in Nat /\ aged \in 0 .. created
  BY DEF OutboxAssumption, IInv, TypeOK
<1>2. delay' \in [Items -> 0 .. MaxBackoff]
  BY <1>1 DEF Tick, IInv, TypeOK
<1>3. aged' \in 0 .. created
  BY <1>1 DEF Tick
<1> QED
  BY <1>2, <1>3 DEF Tick, IInv, TypeOK, MarksJustified, workVars, limitVars

\* The worker marks the item at the head of its batch.
LEMMA MarkPreserves ==
  ASSUME OutboxAssumption, IInv, Mark
  PROVE  IInv'
<1>1. worker \in {"submitted", "refused", "failed"} /\ batch # <<>> /\ batch \in Seq(1 .. created)
  BY DEF Mark, IInv, TypeOK
<1>2. Head(batch) \in 1 .. created /\ Tail(batch) \in Seq(1 .. created)
  BY <1>1, HeadTailProperties
<1>3. /\ worker' = "idle" /\ batch' = Tail(batch)
      /\ UNCHANGED <<adding, cancelled, sent, runsLeft>>
  BY DEF Mark
<1>4. /\ created' = created /\ aged' = aged /\ stored' \subseteq stored
      /\ tries' \in [Items -> Nat] /\ delay' \in [Items -> 0 .. MaxBackoff]
      /\ errorsLeft' \in 0 .. MaxStorageErrors
  <2>1. CASE MarkDone(Head(batch))
    <3>1. /\ UNCHANGED <<created, aged, tries, delay>> /\ stored' \subseteq stored
          /\ UNCHANGED errorsLeft \/ (errorsLeft > 0 /\ errorsLeft' = errorsLeft - 1)
      BY <2>1 DEF MarkDone, Delete, Fails, storeVars
    <3>2. errorsLeft \in 0 .. MaxStorageErrors /\ MaxStorageErrors \in Nat
      BY Bounds DEF IInv, TypeOK
    <3>3. errorsLeft' \in 0 .. MaxStorageErrors
      BY ONLY <3>1, <3>2
    <3> QED
      BY <3>1, <3>3 DEF IInv, TypeOK
  <2>2. CASE MarkRetry(Head(batch))
    <3>1. CASE Fails
      BY <3>1, Bounds DEF Fails, storeVars, IInv, TypeOK
    <3>2. CASE ~ Fails
      <4>1. /\ tries \in [Items -> Nat] /\ delay \in [Items -> 0 .. MaxBackoff]
            /\ Head(batch) \in Items
        BY <1>2, CreatedAreItems DEF IInv, TypeOK
      <4>2. Backoffs(tries[Head(batch)]) \subseteq 0 .. MaxBackoff
        BY <4>1, BackoffsCapped
      <4>3. tries' \in [Items -> Nat] /\ delay' \in [Items -> 0 .. MaxBackoff]
        BY <2>2, <3>2, <4>1, <4>2 DEF MarkRetry
      <4> QED
        BY <2>2, <3>2, <4>3 DEF MarkRetry, IInv, TypeOK
    <3> QED
      BY <3>1, <3>2
  <2> QED
    BY <2>1, <2>2 DEF Mark
<1> QED
  BY <1>2, <1>3, <1>4 DEF IInv, TypeOK, MarksJustified

LEMMA OtherWorkPreserves ==
  ASSUME OutboxAssumption, IInv, ProcessBatch \/ ProcessItem \/ SubmitEnvelope \/ Leave
  PROVE  IInv'
<1> USE DEF IInv, TypeOK, MarksJustified, storeVars, limitVars
<1>1. CASE ProcessBatch
  <2>1. BatchSize \in Nat /\ created \in Nat /\ stored \in SUBSET (1 .. created)
    BY Bounds
  <2>2. Ready \in SUBSET (1 .. created)
    BY <2>1 DEF Ready
  <2>3. DequeueReady \in Seq(1 .. created)
    BY <2>1, <2>2, FirstOfProperties DEF DequeueReady
  <2> QED
    BY <1>1, <2>3 DEF ProcessBatch
<1>2. CASE ProcessItem
  BY <1>2 DEF ProcessItem
<1>3. CASE SubmitEnvelope
  <2>1. Head(batch) \in 1 .. created
    BY <1>3, HeadTailProperties DEF SubmitEnvelope
  <2> QED
    BY <1>3, <2>1 DEF SubmitEnvelope
<1>4. CASE Leave
  BY <1>4 DEF Leave
<1> QED
  BY <1>1, <1>2, <1>3, <1>4

LEMMA NextPreserves ==
  ASSUME OutboxAssumption
  PROVE  IInv /\ [Next]_vars => IInv'
<1> SUFFICES ASSUME IInv, [Next]_vars PROVE IInv'
  OBVIOUS
<1>1. CASE Cleanup
  BY <1>1, DeletePreserves DEF Cleanup
<1>2. CASE UNCHANGED vars
  BY <1>2 DEF vars, storeVars, workVars, limitVars, IInv, TypeOK, MarksJustified
<1> QED
  BY <1>1, <1>2, EnqueuePreserves, CallsPreserve, TickPreserves, MarkPreserves, OtherWorkPreserves
  DEF Next, OutboxWorker

\* The inductive invariant holds throughout (outbox.go and the loop over it).
THEOREM OutboxInvariant ==
  ASSUME OutboxAssumption
  PROVE  Spec => []IInv
BY InitInvariant, NextPreserves, PTL DEF Spec

\* The variables keep their types: no delay is longer than BackoffMax, and the
\* worker works only on items of its batch (calculateBackoff, processBatch).
THEOREM OutboxTypeOK ==
  ASSUME OutboxAssumption
  PROVE  Spec => []TypeOK
<1>1. IInv => TypeOK
  BY DEF IInv
<1> QED
  BY <1>1, OutboxInvariant, PTL

----------------------------------------------------------------------------
\* The refinement.  Where an item stands, in the words of Delivery.
StateOf == [i \in Items |-> IF i > created THEN "new"
                            ELSE IF i \in stored THEN "queued" ELSE "settled"]

\* A step that leaves the store, the tries and what was sent is a stutter.
LEMMA StutterRefines ==
  ASSUME UNCHANGED <<created, stored, tries, sent>>
  PROVE  UNCHANGED D!vars
BY DEF D!vars

\* Items that may leave settle.
LEMMA DeleteRefines ==
  ASSUME OutboxAssumption, IInv, NEW S, Delete(S), UNCHANGED sent,
         \A i \in S \cap stored : i \in sent \cup Malformed \/ tries[i] > GiveUpAfter
  PROVE  D!Next
<1> DEFINE T == S \cap stored
<1>1. T \subseteq Items /\ \A i \in T : i =< created /\ ~ (i > created)
  <2>1. created \in 0 .. MaxItems /\ stored \subseteq 1 .. created /\ MaxItems \in Nat
    BY Bounds DEF IInv, TypeOK
  <2>2. \A i \in stored : i \in Items /\ i =< created /\ ~ (i > created)
    BY <2>1 DEF Items
  <2> QED
    BY <2>2
<1>2. \A i \in T : D!MaySettle(i)
  BY <1>1 DEF D!MaySettle
<1>3. stored' = stored \ S /\ created' = created /\ tries' = tries /\ sent' = sent
  BY DEF Delete
<1>4. StateOf' = [i \in Items |-> IF i \in T THEN "settled" ELSE StateOf[i]]
  BY <1>1, <1>3 DEF StateOf
<1>5. PICK U \in SUBSET Items : U = T
  BY <1>1
<1>6. D!Settle(U)
  BY <1>2, <1>3, <1>4, <1>5 DEF D!Settle, StateOf
<1> QED
  BY <1>6 DEF D!Next

\* A new item is accepted.
LEMMA EnqueueRefines ==
  ASSUME OutboxAssumption, IInv, Enqueue
  PROVE  [D!Next]_D!vars
<1>1. CASE Fails /\ adding' = 0
  BY <1>1, StutterRefines DEF Enqueue, Fails, storeVars
<1>2. CASE ~ (Fails /\ adding' = 0)
  <2> PICK i \in Items : i = created + 1
    BY <1>2, Bounds DEF Enqueue, IInv, TypeOK, Items
  <2>1. created' = i /\ stored' = stored \cup {i} /\ tries' = tries /\ sent' = sent
    BY <1>2 DEF Enqueue
  <2>2. created \in Nat /\ Items \subseteq Nat /\ stored \subseteq 1 .. created
    <3>1. created \in Nat /\ stored \subseteq 1 .. created
      BY CreatedAreItems DEF IInv, TypeOK
    <3>2. Items \subseteq Nat
      BY Bounds DEF Items
    <3> QED
      BY <3>1, <3>2
  <2>3. StateOf[i] = "new" /\ StateOf'[i] = "queued"
    BY <2>1, <2>2 DEF StateOf
  <2>4. \A j \in Items \ {i} : StateOf'[j] = StateOf[j]
    BY <2>1, <2>2 DEF StateOf
  <2>5. StateOf' = [StateOf EXCEPT ![i] = "queued"]
    BY <2>1, <2>3, <2>4 DEF StateOf
  <2>6. D!Accept(i)
    BY <2>1, <2>3, <2>5 DEF D!Accept, StateOf
  <2> QED
    BY <2>6 DEF D!Next
<1> QED
  BY <1>1, <1>2

\* The mark of the item at the head of the batch settles it or counts a failure.
LEMMA MarkRefines ==
  ASSUME OutboxAssumption, IInv, Mark
  PROVE  [D!Next]_D!vars
<1> DEFINE i == Head(batch)
<1>1. batch # <<>> /\ batch \in Seq(1 .. created) /\ sent' = sent
  BY DEF Mark, IInv, TypeOK
<1>2. i \in 1 .. created /\ created \in Nat /\ i \in Items
  <2>1. i \in 1 .. created
    BY <1>1, HeadTailProperties
  <2> QED
    BY <2>1, CreatedAreItems
<1> HIDE DEF i
<1>3. CASE Fails
  BY <1>1, <1>3, StutterRefines DEF Fails, storeVars
<1>4. CASE Delete({i}) /\ worker \in {"refused", "submitted"}
  <2>1. i \in sent \cup Malformed
    BY <1>4 DEF IInv, MarksJustified, i
  <2> QED
    BY <1>1, <1>4, <2>1, DeleteRefines
<1>5. CASE worker = "failed" /\ ~ Fails
  <2>1. created' = created /\ stored' = stored
    BY <1>5 DEF Mark, MarkRetry
  <2>2. CASE i \in stored
    <3>1. tries' = [tries EXCEPT ![i] = @ + 1]
      BY <1>5, <2>2 DEF Mark, MarkRetry, i
    <3>2. StateOf' = StateOf /\ StateOf[i] = "queued"
      BY <1>2, <2>1, <2>2 DEF StateOf
    <3>3. D!Fail(i)
      BY <1>1, <3>1, <3>2 DEF D!Fail, StateOf
    <3> QED
      BY <1>2, <3>3 DEF D!Next
  <2>3. CASE i \notin stored
    <3>1. tries' = tries
      BY <1>5, <2>3 DEF Mark, MarkRetry, i
    <3> QED
      BY <1>1, <2>1, <3>1, StutterRefines
  <2> QED
    BY <2>2, <2>3
<1> QED
  BY <1>3, <1>4, <1>5 DEF Mark, MarkDone, i

\* What is submitted is an item of the outbox.
LEMMA SubmitRefines ==
  ASSUME OutboxAssumption, IInv, SubmitEnvelope
  PROVE  [D!Next]_D!vars
<1>1. UNCHANGED <<created, stored, tries>>
  BY DEF SubmitEnvelope, storeVars
<1>2. CASE sent' = sent
  BY <1>1, <1>2, StutterRefines
<1>3. CASE sent' # sent
  <2> DEFINE i == Head(batch)
  <2>1. sent' = sent \cup {i} /\ batch # <<>> /\ batch \in Seq(1 .. created)
    BY <1>3 DEF SubmitEnvelope, IInv, TypeOK
  <2>2. i \in 1 .. created /\ created \in Nat /\ i \in Items
    <3>1. i \in 1 .. created
      BY <2>1, HeadTailProperties
    <3> QED
      BY <3>1, CreatedAreItems
  <2> HIDE DEF i
  <2>3. StateOf[i] # "new" /\ StateOf' = StateOf
    BY <1>1, <2>2 DEF StateOf
  <2>4. D!Send(i)
    BY <1>1, <2>1, <2>3 DEF D!Send, StateOf
  <2> QED
    BY <2>2, <2>4 DEF D!Next
<1> QED
  BY <1>2, <1>3

LEMMA CleanupRefines ==
  ASSUME OutboxAssumption, IInv, Cleanup
  PROVE  [D!Next]_D!vars
<1>1. CASE Fails
  BY <1>1, StutterRefines DEF Fails, storeVars, Cleanup
<1>2. CASE Delete({i \in stored : i =< aged /\ tries[i] > GiveUpAfter})
  BY <1>2, DeleteRefines DEF Cleanup
<1> QED
  BY <1>1, <1>2 DEF Cleanup

LEMMA InitRefines ==
  ASSUME OutboxAssumption
  PROVE  Init => D!Init
BY DEF Init, D!Init, Items, OutboxAssumption

LEMMA NextRefines ==
  ASSUME OutboxAssumption
  PROVE  IInv /\ [Next]_vars => [D!Next]_D!vars
<1> SUFFICES ASSUME IInv, [Next]_vars PROVE [D!Next]_D!vars
  OBVIOUS
<1>1. CASE \/ \E n \in 1 .. MaxItems : EnqueueEnvelopes(n)
           \/ Start \/ Die \/ Cancel \/ Tick
           \/ ProcessBatch \/ ProcessItem \/ Leave \/ UNCHANGED vars
  <2>1. UNCHANGED <<created, stored, tries, sent>>
    BY <1>1 DEF EnqueueEnvelopes, Start, Die, Cancel, Tick, ProcessBatch, ProcessItem, Leave,
         vars, storeVars
  <2> QED
    BY <2>1, StutterRefines
<1> QED
  BY <1>1, EnqueueRefines, MarkRefines, SubmitRefines, CleanupRefines DEF Next, OutboxWorker

\* The outbox keeps the promise of Delivery: an item leaves the store only when it
\* was submitted, is malformed or failed too often (MarkDone, Cleanup).
THEOREM OutboxImplementsDelivery ==
  ASSUME OutboxAssumption
  PROVE  Spec => ImplementsDelivery
BY InitRefines, NextRefines, OutboxInvariant, PTL DEF Spec, ImplementsDelivery, D!Spec
=============================================================================
