------------------------------ MODULE L0Proofs ------------------------------
(***************************************************************************)
(* Theorems about what brings things to L0: the DN writer (DNWriter), for  *)
(* any number of writes, of retries, of connection loops and of            *)
(* reconnections, and any capacity of the channel; the endpoints           *)
(* (Endpoints), for any number of them and of calls that race; the         *)
(* schedule and the top-ups (Pricing); and Bridge, which puts them beside  *)
(* the outbox and the stage of outputs, about which OutboxProofs and       *)
(* OutputSubmissionProofs have the theorems.                               *)
(***************************************************************************)
EXTENDS Bridge, OutboxProofs, OutputSubmissionProofs

----------------------------------------------------------------------------
(***************************************************************************)
(* The DN writer.                                                          *)
(***************************************************************************)
\* The inductive invariant, in what the writes hold and what the subscriber
\* holds.

Returned(r) == {w \in Writes : result[w] = r}

\* A write is counted where it has returned, and nowhere before.
Counts ==
  /\ written = Cardinality(Returned("ok"))
  /\ errors = Cardinality(Returned("error"))
  /\ \A w \in Writes : result[w] = "none" <=> at[w] # "done"

\* The attempts that are over have each used up the tries of the client.
Budget ==
  \A w \in Writes :
    submissions[w] =< attempt[w] * (config.clientRetries + 1) + clientTries[w]
                        + (IF at[w] = "submitting" THEN 0 ELSE 1)

WriteTypes ==
  /\ config \in DW!Configs
  /\ at \in [Writes -> {"submitting", "confirming", "subscribing", "waiting", "done"}]
  /\ attempt \in [Writes -> 0 .. config.maxRetries]
  /\ clientTries \in [Writes -> 0 .. config.clientRetries]
  /\ submissions \in [Writes -> Nat]
  /\ result \in [Writes -> {"none", "ok", "error"}]
  /\ retries \in Nat
  /\ accepted \subseteq Writes
  /\ outcome \in [Writes -> {"none", "executed", "failed"}]
  /\ \A w \in Writes : at[w] \in {"confirming", "subscribing", "waiting"} => w \in accepted

WriteInv == WriteTypes /\ Counts /\ Budget /\ DW!SuccessIsFinal

\* What is in the channel, and what a connection will still deliver, is the
\* outcome of the transaction it names, which is final.
Confirmations ==
  {c \in [tx : Writes, status : {"executed", "failed"}] : outcome[c.tx] = c.status}

WireInv ==
  /\ subscribed \subseteq Writes /\ resubscribing \subseteq Writes
  /\ channel \in Seq(Confirmations)
  /\ dialled \in 0 .. MaxDials /\ esConn \in 0 .. dialled
  /\ live \subseteq 1 .. dialled
  /\ onWire \subseteq (1 .. dialled) \X Writes
  /\ events \subseteq (1 .. dialled) \X Writes
  /\ \A e \in events : outcome[e[2]] # "none"
  /\ loopState \in [DW!Loops -> {"off", "dial", "attach", "top", "read"}]
  /\ reading \in [DW!Loops -> 0 .. dialled] /\ dialFailures \in [DW!Loops -> Nat]
  /\ channelClosed \in BOOLEAN /\ writerClosed \in BOOLEAN
  /\ ctxDone \in BOOLEAN /\ crashed \in BOOLEAN

\* The inductive invariant.
WriterInv == WriteInv /\ WireInv

----------------------------------------------------------------------------
LEMMA WriterBounds ==
  ASSUME DW!DNWriterAssumption
  PROVE  /\ IsFiniteSet(Writes) /\ MaxDials \in Nat /\ MaxLoops \in Nat
         /\ MaxRetries \in Nat /\ ClientRetries \in Nat
BY DEF DW!DNWriterAssumption, DW!IsFiniteSet, IsFiniteSet

LEMMA ConfigTypes ==
  ASSUME DW!DNWriterAssumption, WriteTypes
  PROVE  /\ config.waitForExecution \in BOOLEAN
         /\ config.maxRetries \in Nat /\ config.clientRetries \in Nat
BY WriterBounds DEF WriteTypes, DW!Configs

LEMMA SeqOfMore ==
  ASSUME NEW S, NEW T, S \subseteq T, NEW q \in Seq(S)
  PROVE  q \in Seq(T)
<1>1. Len(q) \in Nat /\ q \in [1 .. Len(q) -> S]
  BY LenProperties
<1>2. q \in [1 .. Len(q) -> T]
  BY <1>1
<1> QED
  BY <1>1, <1>2, SeqDef

LEMMA NatTimes ==
  ASSUME NEW a \in Nat, NEW b \in Nat
  PROVE  a * b \in Nat
OBVIOUS

LEMMA Times ==
  ASSUME NEW a \in Nat, NEW b \in Nat, NEW k \in Nat, a =< b
  PROVE  a * k \in Nat /\ a * k =< b * k /\ (a + 1) * k = a * k + k
<1>1. PICK d \in Nat : b = a + d
  <2>1. b - a \in Nat /\ b = a + (b - a)
    OBVIOUS
  <2> QED
    BY <2>1
<1>2. a * k \in Nat /\ d * k \in Nat /\ (a + d) * k = a * k + d * k
  OBVIOUS
<1>3. (a + 1) * k = a * k + k
  OBVIOUS
<1> QED
  BY <1>1, <1>2, <1>3

\* Both retry loops together submit a write this often.
LEMMA SubmissionBound ==
  ASSUME DW!DNWriterAssumption, WriteTypes, Budget, NEW w \in Writes
  PROVE  submissions[w] \in 0 .. (config.maxRetries + 1) * (config.clientRetries + 1)
<1> DEFINE k == config.clientRetries + 1
<1>1. /\ submissions[w] \in Nat /\ attempt[w] \in 0 .. config.maxRetries
      /\ clientTries[w] \in 0 .. config.clientRetries
  BY DEF WriteTypes
<1>2. k \in Nat /\ config.maxRetries \in Nat /\ config.clientRetries \in Nat /\ attempt[w] \in Nat
  BY <1>1, ConfigTypes
<1>3. config.maxRetries + 1 \in Nat /\ attempt[w] =< config.maxRetries /\ clientTries[w] + 1 =< k
  BY <1>1, <1>2
<1>4. submissions[w] =< attempt[w] * k + clientTries[w] + (IF at[w] = "submitting" THEN 0 ELSE 1)
  BY DEF Budget
<1> HIDE DEF k
<1>5. attempt[w] * k \in Nat /\ config.maxRetries * k \in Nat
  BY <1>2, NatTimes
<1>6. attempt[w] * k =< config.maxRetries * k /\ (config.maxRetries + 1) * k = config.maxRetries * k + k
  BY <1>2, <1>3, Times
<1>7. submissions[w] =< attempt[w] * k + k
  BY <1>1, <1>2, <1>3, <1>4, <1>5
<1>8. submissions[w] =< (config.maxRetries + 1) * k /\ (config.maxRetries + 1) * k \in Nat
  BY <1>1, <1>2, <1>5, <1>6, <1>7
<1> QED
  BY <1>1, <1>8 DEF k

LEMMA SameCardinality ==
  \A S : DW!Cardinality(S) = Cardinality(S)
BY DEF DW!Cardinality, Cardinality

LEMMA WriterTypes ==
  ASSUME DW!DNWriterAssumption, WriterInv
  PROVE  DW!TypeOK
<1> USE DEF WriterInv, WriteInv, WireInv
<1>1. \A w \in Writes : submissions[w] \in 0 .. (config.maxRetries + 1) * (config.clientRetries + 1)
  BY SubmissionBound
<1>2. channel \in Seq([tx : Writes, status : {"executed", "failed"}])
  <2>1. Confirmations \subseteq [tx : Writes, status : {"executed", "failed"}]
    BY DEF Confirmations
  <2> QED
    BY <2>1, SeqOfMore
<1> QED
  BY <1>1, <1>2, SameCardinality DEF DW!TypeOK, WriteTypes, Counts, Returned

LEMMA WriterInit ==
  ASSUME DW!DNWriterAssumption, DW!Init
  PROVE  WriterInv
<1>1. /\ 0 \in 0 .. config.maxRetries /\ 0 \in 0 .. config.clientRetries /\ 0 \in 0 .. MaxDials
      /\ 0 * (config.clientRetries + 1) + 0 + 0 = 0 /\ config \in DW!Configs
  BY WriterBounds DEF DW!Init, DW!Configs
<1>2. WriteTypes
  BY <1>1 DEF DW!Init, WriteTypes
<1>3. Counts
  <2>1. Returned("ok") = {} /\ Returned("error") = {}
    BY DEF DW!Init, Returned
  <2> QED
    BY <2>1, FS_EmptySet DEF DW!Init, Counts
<1>4. Budget
  <2> SUFFICES ASSUME NEW w \in Writes
               PROVE  0 =< 0 * (config.clientRetries + 1) + 0 + 0
    BY DEF DW!Init, Budget
  <2> QED
    BY <1>1
<1>5. DW!SuccessIsFinal
  BY DEF DW!Init, DW!SuccessIsFinal
<1>6. WireInv
  <2>1. channel \in Seq(Confirmations) /\ dialled = 0 /\ esConn = 0 /\ dialled \in 0 .. MaxDials
        /\ esConn \in 0 .. dialled
    BY <1>1 DEF DW!Init
  <2>2. /\ reading \in [DW!Loops -> 0 .. dialled] /\ dialFailures \in [DW!Loops -> Nat]
        /\ loopState \in [DW!Loops -> {"off", "dial", "attach", "top", "read"}]
    BY <2>1 DEF DW!Init
  <2> QED
    BY <2>1, <2>2 DEF DW!Init, WireInv
<1> QED
  BY <1>2, <1>3, <1>4, <1>5, <1>6 DEF WriterInv, WriteInv

----------------------------------------------------------------------------
\* The writes.

LEMMA WriteKeeps ==
  ASSUME WriteInv, UNCHANGED <<DW!writeVars, DW!l0Side, config>>
  PROVE  WriteInv'
BY DEF DW!writeVars, DW!l0Side, WriteInv, WriteTypes, Counts, Returned, Budget, DW!SuccessIsFinal

\* One more write is counted when it returns.
LEMMA OneMore ==
  ASSUME DW!DNWriterAssumption, WriteTypes, Counts, NEW w \in Writes, NEW r \in {"ok", "error"},
         at[w] # "done", result' = [result EXCEPT ![w] = r]
  PROVE  /\ Cardinality(Returned("ok")') = IF r = "ok" THEN written + 1 ELSE written
         /\ Cardinality(Returned("error")') = IF r = "error" THEN errors + 1 ELSE errors
<1>1. result[w] = "none" /\ result \in [Writes -> {"none", "ok", "error"}]
  BY DEF Counts, WriteTypes
<1>2. ASSUME NEW q \in {"ok", "error"}
      PROVE  /\ Cardinality(Returned(q)) \in Nat
             /\ Cardinality(Returned(q)')
                  = IF r = q THEN Cardinality(Returned(q)) + 1 ELSE Cardinality(Returned(q))
  <2>1. IsFiniteSet(Returned(q)) /\ w \notin Returned(q)
    BY <1>1, WriterBounds, FS_Subset DEF Returned
  <2>2. Returned(q)' = IF r = q THEN Returned(q) \cup {w} ELSE Returned(q)
    BY <1>1 DEF Returned
  <2> QED
    BY <2>1, <2>2, FS_AddElement, FS_CardinalityType
<1> QED
  BY <1>2 DEF Counts

\* A write returns, and with "ok" only if its transaction is final.
LEMMA ReturnPreserves ==
  ASSUME DW!DNWriterAssumption, WriteInv, NEW w \in Writes, NEW r \in {"ok", "error"},
         at[w] # "done", at' = [at EXCEPT ![w] = "done"], result' = [result EXCEPT ![w] = r],
         written' = (IF r = "ok" THEN written + 1 ELSE written),
         errors' = (IF r = "error" THEN errors + 1 ELSE errors),
         UNCHANGED <<config, attempt, clientTries, retries, outcome>>,
         accepted \subseteq accepted', accepted' \subseteq Writes,
         \/ submissions' = submissions
         \/ at[w] = "submitting" /\ submissions' = [submissions EXCEPT ![w] = @ + 1],
         r = "ok" => w \in accepted' /\ (config.waitForExecution => outcome[w] = "executed")
  PROVE  WriteInv'
<1> USE DEF WriteInv
<1>1. WriteTypes'
  BY DEF WriteTypes
<1>2. Counts'
  <2>1. /\ written' = Cardinality(Returned("ok")')
        /\ errors' = Cardinality(Returned("error")')
    BY OneMore
  <2>2. \A v \in Writes : result'[v] = "none" <=> at'[v] # "done"
    BY DEF WriteTypes, Counts
  <2> QED
    BY <2>1, <2>2 DEF Counts
<1>3. Budget'
  <2> SUFFICES ASSUME NEW v \in Writes
               PROVE  submissions'[v] =< attempt[v] * (config.clientRetries + 1) + clientTries[v]
                                           + (IF at'[v] = "submitting" THEN 0 ELSE 1)
    BY DEF Budget
  <2> DEFINE n == attempt[v] * (config.clientRetries + 1)
  <2>1. submissions[v] =< n + clientTries[v] + (IF at[v] = "submitting" THEN 0 ELSE 1)
    BY DEF Budget
  <2>2. /\ n \in Nat /\ clientTries[v] \in Nat /\ submissions[v] \in Nat
    <3>1. attempt[v] \in Nat /\ config.clientRetries + 1 \in Nat
      BY ConfigTypes DEF WriteTypes
    <3> QED
      BY <3>1, Times DEF WriteTypes
  <2>3. at'[v] = (IF v = w THEN "done" ELSE at[v])
    BY DEF WriteTypes
  <2>4. \/ submissions'[v] = submissions[v]
        \/ v = w /\ at[v] = "submitting" /\ submissions'[v] = submissions[v] + 1
    BY DEF WriteTypes
  <2> HIDE DEF n
  <2>5. submissions'[v] =< n + clientTries[v] + (IF at'[v] = "submitting" THEN 0 ELSE 1)
    BY <2>1, <2>2, <2>3, <2>4
  <2> QED
    BY <2>5 DEF n
<1>4. DW!SuccessIsFinal'
  BY DEF WriteTypes, DW!SuccessIsFinal
<1> QED
  BY <1>1, <1>2, <1>3, <1>4

\* A write goes on, with a transaction that L0 has accepted.
LEMMA AdvancePreserves ==
  ASSUME DW!DNWriterAssumption, WriteInv, NEW w \in Writes,
         NEW s \in {"confirming", "subscribing", "waiting"}, at[w] # "done",
         at' = [at EXCEPT ![w] = s],
         UNCHANGED <<config, attempt, clientTries, result, written, errors, retries, outcome>>,
         accepted \subseteq accepted', accepted' \subseteq Writes, w \in accepted',
         \/ submissions' = submissions /\ at[w] # "submitting"
         \/ at[w] = "submitting" /\ submissions' = [submissions EXCEPT ![w] = @ + 1]
  PROVE  WriteInv'
<1> USE DEF WriteInv
<1>1. WriteTypes'
  BY DEF WriteTypes
<1>2. Counts'
  BY DEF WriteTypes, Counts, Returned
<1>3. Budget'
  <2> SUFFICES ASSUME NEW v \in Writes
               PROVE  submissions'[v] =< attempt[v] * (config.clientRetries + 1) + clientTries[v]
                                           + (IF at'[v] = "submitting" THEN 0 ELSE 1)
    BY DEF Budget
  <2> DEFINE n == attempt[v] * (config.clientRetries + 1)
  <2>1. submissions[v] =< n + clientTries[v] + (IF at[v] = "submitting" THEN 0 ELSE 1)
    BY DEF Budget
  <2>2. /\ n \in Nat /\ clientTries[v] \in Nat /\ submissions[v] \in Nat
    <3>1. attempt[v] \in Nat /\ config.clientRetries + 1 \in Nat
      BY ConfigTypes DEF WriteTypes
    <3> QED
      BY <3>1, Times DEF WriteTypes
  <2>3. at'[v] = (IF v = w THEN s ELSE at[v]) /\ s # "submitting"
    BY DEF WriteTypes
  <2>4. \/ submissions'[v] = submissions[v] /\ (v = w => at[v] # "submitting")
        \/ v = w /\ at[v] = "submitting" /\ submissions'[v] = submissions[v] + 1
    BY DEF WriteTypes
  <2> HIDE DEF n
  <2>5. submissions'[v] =< n + clientTries[v] + (IF at'[v] = "submitting" THEN 0 ELSE 1)
    BY <2>1, <2>2, <2>3, <2>4
  <2> QED
    BY <2>5 DEF n
<1>4. DW!SuccessIsFinal'
  BY DEF DW!SuccessIsFinal
<1> QED
  BY <1>1, <1>2, <1>3, <1>4

\* A submission that fails is tried again by the client, or by the writer when
\* the client has given up.
LEMMA RetryPreserves ==
  ASSUME DW!DNWriterAssumption, WriteInv, NEW w \in Writes, at[w] = "submitting",
         UNCHANGED <<config, at, result, written, errors, outcome>>,
         submissions' = [submissions EXCEPT ![w] = @ + 1],
         accepted \subseteq accepted', accepted' \subseteq Writes,
         \/ /\ clientTries[w] < config.clientRetries
            /\ clientTries' = [clientTries EXCEPT ![w] = @ + 1]
            /\ UNCHANGED <<attempt, retries>>
         \/ /\ ~ (clientTries[w] < config.clientRetries) /\ attempt[w] < config.maxRetries
            /\ clientTries' = [clientTries EXCEPT ![w] = 0]
            /\ attempt' = [attempt EXCEPT ![w] = @ + 1]
            /\ retries' = retries + 1
  PROVE  WriteInv'
<1> USE DEF WriteInv
<1>1. /\ attempt[w] \in 0 .. config.maxRetries /\ clientTries[w] \in 0 .. config.clientRetries
      /\ submissions[w] \in Nat /\ config.maxRetries \in Nat /\ config.clientRetries \in Nat
  BY ConfigTypes DEF WriteTypes
<1>2. WriteTypes'
  BY <1>1 DEF WriteTypes
<1>3. Counts'
  BY DEF Counts, Returned
<1>4. Budget'
  <2> SUFFICES ASSUME NEW v \in Writes
               PROVE  submissions'[v] =< attempt'[v] * (config.clientRetries + 1) + clientTries'[v]
                                           + (IF at[v] = "submitting" THEN 0 ELSE 1)
    BY DEF Budget
  <2>1. submissions[v] =< attempt[v] * (config.clientRetries + 1) + clientTries[v]
                            + (IF at[v] = "submitting" THEN 0 ELSE 1)
    BY DEF Budget
  <2>2. CASE v # w
    <3>1. /\ submissions'[v] = submissions[v] /\ attempt'[v] = attempt[v]
          /\ clientTries'[v] = clientTries[v]
      BY <2>2 DEF WriteTypes
    <3> QED
      BY <2>1, <3>1
  <2>3. CASE v = w
    <3> DEFINE k == config.clientRetries + 1
               n == attempt[w] * k
    <3>1. k \in Nat /\ n \in Nat /\ (attempt[w] + 1) * k = n + k
      BY <1>1, Times
    <3>2. submissions[w] =< n + clientTries[w] /\ submissions'[w] = submissions[w] + 1
      BY <1>1, <2>1, <2>3, <3>1 DEF WriteTypes
    <3>3. \/ attempt'[w] * k = n /\ clientTries'[w] = clientTries[w] + 1
          \/ attempt'[w] * k = n + k /\ clientTries'[w] = 0 /\ clientTries[w] =< config.clientRetries
      BY <1>1, <3>1 DEF WriteTypes
    <3>4. k = config.clientRetries + 1
      OBVIOUS
    <3> HIDE DEF k, n
    <3>5. submissions'[w] =< attempt'[w] * k + clientTries'[w]
      BY <1>1, <3>1, <3>2, <3>3, <3>4
    <3>6. attempt'[w] * k + clientTries'[w] + 0 = attempt'[w] * k + clientTries'[w]
      BY <1>1, <3>1, <3>3
    <3> QED
      BY <2>3, <3>4, <3>5, <3>6
  <2> QED
    BY <2>2, <2>3
<1>5. DW!SuccessIsFinal'
  BY DEF DW!SuccessIsFinal
<1> QED
  BY <1>2, <1>3, <1>4, <1>5

LEMMA SubmitPreserves ==
  ASSUME DW!DNWriterAssumption, WriteInv, NEW w \in Writes,
         DW!SubmitSucceeds(w) \/ DW!SubmitFails(w) \/ DW!SubmitCancelled(w)
  PROVE  WriteInv'
<1> USE DEF DW!ReturnOk, DW!ReturnError, DW!l0Side, DW!lifeVars
<1>1. at[w] = "submitting" /\ accepted \subseteq Writes
  BY DEF DW!SubmitSucceeds, DW!SubmitFails, DW!SubmitCancelled, WriteInv, WriteTypes
<1>2. CASE DW!SubmitSucceeds(w) /\ config.waitForExecution
  <2>1. /\ at' = [at EXCEPT ![w] = "confirming"]
        /\ submissions' = [submissions EXCEPT ![w] = @ + 1] /\ accepted' = accepted \cup {w}
        /\ UNCHANGED <<config, attempt, clientTries, result, written, errors, retries, outcome>>
    BY <1>2 DEF DW!SubmitSucceeds
  <2> QED
    BY <1>1, <2>1, AdvancePreserves
<1>3. CASE DW!SubmitSucceeds(w) /\ ~config.waitForExecution
  <2>1. /\ at' = [at EXCEPT ![w] = "done"] /\ result' = [result EXCEPT ![w] = "ok"]
        /\ written' = written + 1 /\ errors' = errors
        /\ submissions' = [submissions EXCEPT ![w] = @ + 1] /\ accepted' = accepted \cup {w}
        /\ UNCHANGED <<config, attempt, clientTries, retries, outcome>>
    BY <1>3 DEF DW!SubmitSucceeds
  <2> QED
    BY <1>1, <1>3, <2>1, ReturnPreserves
<1>4. CASE DW!SubmitFails(w) /\ (clientTries[w] < config.clientRetries \/ attempt[w] < config.maxRetries)
  <2>1. accepted \subseteq accepted' /\ accepted' \subseteq Writes
    BY <1>1, <1>4 DEF DW!SubmitFails
  <2>2. /\ UNCHANGED <<config, at, result, written, errors, outcome>>
        /\ submissions' = [submissions EXCEPT ![w] = @ + 1]
        /\ \/ /\ clientTries[w] < config.clientRetries
              /\ clientTries' = [clientTries EXCEPT ![w] = @ + 1]
              /\ UNCHANGED <<attempt, retries>>
           \/ /\ ~ (clientTries[w] < config.clientRetries) /\ attempt[w] < config.maxRetries
              /\ clientTries' = [clientTries EXCEPT ![w] = 0]
              /\ attempt' = [attempt EXCEPT ![w] = @ + 1]
              /\ retries' = retries + 1
    BY <1>4 DEF DW!SubmitFails
  <2> QED
    BY <1>1, <2>1, <2>2, RetryPreserves
<1>5. CASE DW!SubmitFails(w) /\ ~ (clientTries[w] < config.clientRetries \/ attempt[w] < config.maxRetries)
  <2>1. accepted \subseteq accepted' /\ accepted' \subseteq Writes
    BY <1>1, <1>5 DEF DW!SubmitFails
  <2>2. /\ at' = [at EXCEPT ![w] = "done"] /\ result' = [result EXCEPT ![w] = "error"]
        /\ errors' = errors + 1 /\ written' = written
        /\ submissions' = [submissions EXCEPT ![w] = @ + 1]
        /\ UNCHANGED <<config, attempt, clientTries, retries, outcome>>
    BY <1>5 DEF DW!SubmitFails
  <2> QED
    BY <1>1, <2>1, <2>2, ReturnPreserves
<1>6. CASE DW!SubmitCancelled(w)
  <2>1. /\ at' = [at EXCEPT ![w] = "done"] /\ result' = [result EXCEPT ![w] = "error"]
        /\ errors' = errors + 1 /\ written' = written
        /\ UNCHANGED <<config, submissions, attempt, clientTries, retries, outcome, accepted>>
    BY <1>6 DEF DW!SubmitCancelled
  <2> QED
    BY <1>1, <2>1, ReturnPreserves
<1> QED
  BY <1>2, <1>3, <1>4, <1>5, <1>6

\* The wait for the execution.  A confirmation of the write's own transaction
\* says what L0 has made of it.
LEMMA WaitPreserves ==
  ASSUME DW!DNWriterAssumption, WriterInv, NEW w \in Writes,
         DW!EnsureStarted(w) \/ DW!WaitForConfirmation(w) \/ DW!WaitTimesOut(w)
           \/ DW!TakeConfirmation(w)
  PROVE  WriteInv'
<1> USE DEF DW!ReturnOk, DW!ReturnError, DW!l0Side, DW!lifeVars
<1>1. /\ WriteInv /\ at[w] \in {"confirming", "subscribing", "waiting"}
      /\ w \in accepted /\ accepted \subseteq Writes
  BY DEF WriterInv, WriteInv, WriteTypes, DW!EnsureStarted, DW!WaitForConfirmation, DW!WaitTimesOut,
         DW!TakeConfirmation
<1>2. UNCHANGED <<config, attempt, clientTries, submissions, retries, accepted, outcome>>
  BY DEF DW!EnsureStarted, DW!WaitForConfirmation, DW!WaitTimesOut, DW!TakeConfirmation
<1>3. \/ \E s \in {"subscribing", "waiting"} :
           at' = [at EXCEPT ![w] = s] /\ UNCHANGED <<result, written, errors>>
      \/ /\ at' = [at EXCEPT ![w] = "done"] /\ result' = [result EXCEPT ![w] = "error"]
         /\ errors' = errors + 1 /\ written' = written
      \/ /\ at' = [at EXCEPT ![w] = "done"] /\ result' = [result EXCEPT ![w] = "ok"]
         /\ written' = written + 1 /\ errors' = errors
         /\ outcome[w] = "executed"
      \/ UNCHANGED <<at, result, written, errors>>
  <2>1. CASE DW!EnsureStarted(w) \/ DW!WaitForConfirmation(w) \/ DW!WaitTimesOut(w)
    BY <2>1 DEF DW!EnsureStarted, DW!WaitForConfirmation, DW!WaitTimesOut
  <2>2. CASE DW!TakeConfirmation(w)
    <3>1. channel # <<>> => Head(channel) \in Confirmations
      BY HeadTailProperties DEF WriterInv, WireInv
    <3>2. channel # <<>> /\ Head(channel).tx = w /\ Head(channel).status = "executed"
            => outcome[w] = "executed"
      BY <3>1 DEF Confirmations
    <3> QED
      BY <2>2, <3>2 DEF DW!TakeConfirmation
  <2> QED
    BY <2>1, <2>2
<1>4. ASSUME NEW s \in {"subscribing", "waiting"}, at' = [at EXCEPT ![w] = s],
             UNCHANGED <<result, written, errors>>
      PROVE  WriteInv'
  BY <1>1, <1>2, <1>4, AdvancePreserves
<1>5. CASE /\ at' = [at EXCEPT ![w] = "done"] /\ result' = [result EXCEPT ![w] = "error"]
           /\ errors' = errors + 1 /\ written' = written
  BY <1>1, <1>2, <1>5, ReturnPreserves
<1>6. CASE /\ at' = [at EXCEPT ![w] = "done"] /\ result' = [result EXCEPT ![w] = "ok"]
           /\ written' = written + 1 /\ errors' = errors
           /\ outcome[w] = "executed"
  BY <1>1, <1>2, <1>6, ReturnPreserves
<1>7. CASE UNCHANGED <<at, result, written, errors>>
  BY <1>1, <1>2, <1>7, WriteKeeps DEF DW!writeVars
<1> QED
  BY <1>3, <1>4, <1>5, <1>6, <1>7

\* A confirmation stands for as long as no outcome changes.
LEMMA SameConfirmations ==
  ASSUME UNCHANGED outcome
  PROVE  Confirmations' = Confirmations
BY DEF Confirmations

LEMMA SubscribePreserves ==
  ASSUME WireInv, NEW t \in Writes, DW!Subscribe(t) \/ DW!Unsubscribe(t),
         UNCHANGED dialled
  PROVE  subscribed' \subseteq Writes /\ onWire' \subseteq (1 .. dialled') \X Writes
<1>1. /\ subscribed \subseteq Writes /\ onWire \subseteq (1 .. dialled) \X Writes
      /\ live \subseteq 1 .. dialled
  BY DEF WireInv
<1>2. CASE DW!Subscribe(t)
  <2>1. /\ subscribed' \subseteq subscribed \cup {t}
        /\ \/ onWire' = onWire
           \/ esConn \in live /\ onWire' = onWire \cup {<<esConn, t>>}
    BY <1>2 DEF DW!Subscribe
  <2>2. esConn \in live => <<esConn, t>> \in (1 .. dialled) \X Writes
    BY <1>1
  <2>3. onWire' \subseteq (1 .. dialled) \X Writes
    BY <1>1, <2>1, <2>2
  <2> QED
    BY <1>1, <2>1, <2>3
<1>3. CASE DW!Unsubscribe(t)
  BY <1>1, <1>3 DEF DW!Unsubscribe
<1> QED
  BY <1>2, <1>3

\* What a write does to the subscriber.
LEMMA WriteWire ==
  ASSUME DW!DNWriterAssumption, WriterInv, NEW w \in Writes, DW!WriteStep(w)
  PROVE  WireInv'
<1>1. WireInv /\ UNCHANGED outcome /\ UNCHANGED dialled
  BY DEF WriterInv, DW!WriteStep, DW!SubmitSucceeds, DW!SubmitFails, DW!SubmitCancelled,
         DW!EnsureStarted, DW!WaitForConfirmation, DW!WaitTimesOut, DW!TakeConfirmation, DW!l0Side, DW!wireVars
<1>2. Confirmations' = Confirmations
  BY <1>1, SameConfirmations
<1>3. CASE DW!SubmitSucceeds(w) \/ DW!SubmitFails(w) \/ DW!SubmitCancelled(w)
  <2>1. UNCHANGED <<subscribed, DW!chanVars, DW!wireVars, DW!loopVars, DW!lifeVars>>
    BY <1>3 DEF DW!SubmitSucceeds, DW!SubmitFails, DW!SubmitCancelled
  <2> QED
    BY <1>1, <1>2, <2>1 DEF WireInv, DW!chanVars, DW!wireVars, DW!loopVars, DW!lifeVars
<1>4. CASE DW!EnsureStarted(w)
  <2>1. UNCHANGED <<subscribed, DW!chanVars, DW!wireVars, reading, dialFailures, resubscribing, DW!lifeVars>>
    BY <1>4 DEF DW!EnsureStarted
  <2>2. loopState' \in [DW!Loops -> {"off", "dial", "attach", "top", "read"}]
    BY <1>1, <1>4 DEF DW!EnsureStarted, WireInv
  <2> QED
    BY <1>1, <1>2, <2>1, <2>2 DEF WireInv, DW!chanVars, DW!wireVars, DW!lifeVars
<1>5. CASE DW!WaitForConfirmation(w) \/ DW!WaitTimesOut(w)
  <2>1. UNCHANGED <<DW!chanVars, esConn, live, events, DW!loopVars, DW!lifeVars>>
    BY <1>5 DEF DW!WaitForConfirmation, DW!WaitTimesOut
  <2>2. DW!Subscribe(w) \/ DW!Unsubscribe(w) \/ UNCHANGED <<subscribed, onWire>>
    BY <1>5 DEF DW!WaitForConfirmation, DW!WaitTimesOut
  <2>3. subscribed' \subseteq Writes /\ onWire' \subseteq (1 .. dialled') \X Writes
    BY <1>1, <2>2, SubscribePreserves DEF WireInv
  <2> QED
    BY <1>1, <1>2, <2>1, <2>3 DEF WireInv, DW!chanVars, DW!loopVars, DW!lifeVars
<1>6. CASE DW!TakeConfirmation(w)
  <2>1. /\ UNCHANGED <<channelClosed, esConn, live, events, DW!loopVars, writerClosed, ctxDone>>
        /\ crashed' \in {crashed, TRUE}
    BY <1>6 DEF DW!TakeConfirmation
  <2>2. channel \in Seq(Confirmations)
    BY <1>1 DEF WireInv
  <2>3. channel # <<>> => Tail(channel) \in Seq(Confirmations)
    BY <2>2, HeadTailProperties
  <2>4. channel' \in Seq(Confirmations)
    BY <1>6, <2>2, <2>3 DEF DW!TakeConfirmation
  <2>5. DW!Unsubscribe(w) \/ UNCHANGED <<subscribed, onWire>>
    BY <1>6 DEF DW!TakeConfirmation
  <2>6. subscribed' \subseteq Writes /\ onWire' \subseteq (1 .. dialled') \X Writes
    BY <1>1, <2>5, SubscribePreserves DEF WireInv
  <2> QED
    BY <1>1, <1>2, <2>1, <2>4, <2>6 DEF WireInv, DW!loopVars
<1> QED
  BY <1>3, <1>4, <1>5, <1>6 DEF DW!WriteStep

----------------------------------------------------------------------------
\* The connection loops and the owner of the writer.

LEMMA LosePreserves ==
  ASSUME WireInv, NEW c, DW!Lose(c), UNCHANGED <<outcome, dialled>>
  PROVE  /\ live' \subseteq 1 .. dialled'
         /\ onWire' \subseteq (1 .. dialled') \X Writes
         /\ events' \subseteq (1 .. dialled') \X Writes
         /\ \A e \in events' : outcome'[e[2]] # "none"
BY DEF WireInv, DW!Lose

\* A loop ends, or finds that its connection has failed.
LEMMA LoopLosesPreserves ==
  ASSUME DW!DNWriterAssumption, WireInv, NEW l \in DW!Loops, DW!LoopEnds(l) \/ DW!ReadFails(l)
  PROVE  WireInv'
<1>1. /\ UNCHANGED <<outcome, dialled, subscribed, DW!chanVars, dialFailures, resubscribing, DW!lifeVars>>
      /\ esConn' \in {esConn, 0}
      /\ DW!Lose(esConn) \/ UNCHANGED <<live, onWire, events>>
      /\ \E s \in {"off", "dial"} : loopState' = [loopState EXCEPT ![l] = s]
      /\ reading' \in {reading, [reading EXCEPT ![l] = 0]}
  BY DEF DW!LoopEnds, DW!ReadFails, DW!l0Side
<1>2. Confirmations' = Confirmations
  BY <1>1, SameConfirmations
<1>3. dialled \in Nat /\ 0 \in 0 .. dialled
  BY WriterBounds DEF WireInv
<1>4. /\ live' \subseteq 1 .. dialled'
      /\ onWire' \subseteq (1 .. dialled') \X Writes
      /\ events' \subseteq (1 .. dialled') \X Writes
      /\ \A e \in events' : outcome'[e[2]] # "none"
  BY <1>1, LosePreserves DEF WireInv
<1>5. /\ esConn' \in 0 .. dialled'
      /\ loopState' \in [DW!Loops -> {"off", "dial", "attach", "top", "read"}]
      /\ reading' \in [DW!Loops -> 0 .. dialled']
  BY <1>1, <1>3 DEF WireInv
<1> QED
  BY <1>1, <1>2, <1>4, <1>5 DEF WireInv, DW!chanVars, DW!lifeVars

\* A loop dials: the connections are numbered by the dial.
LEMMA DialPreserves ==
  ASSUME DW!DNWriterAssumption, WireInv, NEW l \in DW!Loops, DW!ConnectFails(l) \/ DW!Connect(l)
  PROVE  WireInv'
<1>1. /\ UNCHANGED <<outcome, subscribed, DW!chanVars, onWire, events, reading, DW!lifeVars>>
      /\ dialled < MaxDials /\ dialled' = dialled + 1
      /\ esConn' \in {esConn, dialled + 1}
      /\ live' \subseteq live \cup {dialled + 1}
      /\ resubscribing' \subseteq resubscribing \cup subscribed
      /\ \E s \in {"off", "dial", "attach"} : loopState' = [loopState EXCEPT ![l] = s]
      /\ \E n \in {0, dialFailures[l] + 1} : dialFailures' = [dialFailures EXCEPT ![l] = n]
  BY DEF DW!ConnectFails, DW!Connect, DW!l0Side
<1>2. Confirmations' = Confirmations
  BY <1>1, SameConfirmations
<1>3. /\ dialled \in Nat /\ dialled' \in 0 .. MaxDials
      /\ 1 .. dialled \subseteq 1 .. dialled' /\ 0 .. dialled \subseteq 0 .. dialled'
      /\ dialled + 1 \in 1 .. dialled' /\ dialled + 1 \in 0 .. dialled'
  BY <1>1, WriterBounds DEF WireInv
<1>4. /\ live' \subseteq 1 .. dialled' /\ esConn' \in 0 .. dialled'
      /\ onWire' \subseteq (1 .. dialled') \X Writes
      /\ events' \subseteq (1 .. dialled') \X Writes
      /\ reading' \in [DW!Loops -> 0 .. dialled']
  BY <1>1, <1>3 DEF WireInv
<1>5. /\ loopState' \in [DW!Loops -> {"off", "dial", "attach", "top", "read"}]
      /\ dialFailures' \in [DW!Loops -> Nat]
  BY <1>1 DEF WireInv
<1> QED
  BY <1>1, <1>2, <1>3, <1>4, <1>5 DEF WireInv, DW!chanVars, DW!lifeVars

LEMMA AttachPreserves ==
  ASSUME DW!DNWriterAssumption, WireInv, NEW l \in DW!Loops, DW!Attach(l) \/ DW!BeginRead(l)
  PROVE  WireInv'
<1>1. /\ UNCHANGED <<outcome, subscribed, DW!chanVars, DW!wireVars, dialFailures, resubscribing,
                     writerClosed, ctxDone>>
      /\ crashed' \in {crashed, TRUE}
      /\ \/ UNCHANGED loopState
         \/ \E s \in {"top", "read"} : loopState' = [loopState EXCEPT ![l] = s]
      /\ reading' \in {reading, [reading EXCEPT ![l] = esConn]}
  BY DEF DW!Attach, DW!BeginRead, DW!l0Side
<1>2. Confirmations' = Confirmations
  BY <1>1, SameConfirmations
<1>3. loopState' \in [DW!Loops -> {"off", "dial", "attach", "top", "read"}]
  BY <1>1 DEF WireInv
<1>4. reading' \in [DW!Loops -> 0 .. dialled']
  <2>1. reading \in [DW!Loops -> 0 .. dialled] /\ esConn \in 0 .. dialled /\ dialled' = dialled
    BY <1>1 DEF WireInv, DW!wireVars
  <2> QED
    BY <1>1, <2>1
<1>5. crashed' \in BOOLEAN
  BY <1>1 DEF WireInv
<1> QED
  BY <1>1, <1>2, <1>3, <1>4, <1>5 DEF WireInv, DW!chanVars, DW!wireVars

\* What is read is an outcome: it becomes a confirmation of that outcome.
LEMMA ReadPreserves ==
  ASSUME DW!DNWriterAssumption, WriterInv, NEW l \in DW!Loops, DW!ReadEvent(l)
  PROVE  WireInv'
<1>1. PICK e \in events :
        /\ events' = events \ {e}
        /\ IF channelClosed THEN crashed' = TRUE /\ UNCHANGED channel
           ELSE /\ \/ channel' = Append(channel, [tx |-> e[2], status |-> outcome[e[2]]])
                   \/ UNCHANGED channel
                /\ UNCHANGED crashed
  BY DEF DW!ReadEvent
<1>2. /\ UNCHANGED <<outcome, subscribed, channelClosed, esConn, dialled, live, onWire, dialFailures,
                     resubscribing, writerClosed, ctxDone>>
      /\ loopState' = [loopState EXCEPT ![l] = "top"]
      /\ reading' = [reading EXCEPT ![l] = 0]
  BY DEF DW!ReadEvent, DW!l0Side
<1>3. Confirmations' = Confirmations
  BY <1>2, SameConfirmations
<1>4. channel' \in Seq(Confirmations)
  <2> DEFINE c == [tx |-> e[2], status |-> outcome[e[2]]]
  <2>1. channel \in Seq(Confirmations)
    BY DEF WriterInv, WireInv
  <2>2. e[2] \in Writes /\ outcome[e[2]] \in {"executed", "failed"}
    BY DEF WriterInv, WireInv, WriteInv, WriteTypes
  <2>3. c \in Confirmations
    BY <2>2 DEF Confirmations
  <2> HIDE DEF c
  <2>4. Append(channel, c) \in Seq(Confirmations)
    BY <2>1, <2>3, AppendProperties
  <2>5. channel' \in {channel, Append(channel, c)}
    BY <1>1 DEF c
  <2> QED
    BY <2>1, <2>4, <2>5
<1>5. /\ events' \subseteq (1 .. dialled') \X Writes
      /\ \A f \in events' : outcome'[f[2]] # "none"
      /\ crashed' \in BOOLEAN
  BY <1>1, <1>2 DEF WriterInv, WireInv
<1>6. 0 \in 0 .. dialled
  BY WriterBounds DEF WriterInv, WireInv
<1>7. /\ loopState' \in [DW!Loops -> {"off", "dial", "attach", "top", "read"}]
      /\ reading' \in [DW!Loops -> 0 .. dialled']
  BY <1>2, <1>6 DEF WriterInv, WireInv
<1> QED
  BY <1>2, <1>3, <1>4, <1>5, <1>7 DEF WriterInv, WireInv

LEMMA LoopPreserves ==
  ASSUME DW!DNWriterAssumption, WriterInv, NEW l \in DW!Loops, DW!LoopStep(l)
  PROVE  WriterInv'
<1>1. WriteInv /\ WireInv
  BY DEF WriterInv
<1>2. UNCHANGED <<DW!writeVars, DW!l0Side, config>>
  BY DEF DW!lifeVars, DW!LoopStep, DW!LoopEnds, DW!ConnectFails, DW!Connect, DW!Attach,
         DW!BeginRead, DW!ReadEvent, DW!ReadFails
<1>3. WriteInv'
  BY <1>1, <1>2, WriteKeeps
<1>4. WireInv'
  BY <1>1, LoopLosesPreserves, DialPreserves, AttachPreserves, ReadPreserves DEF DW!LoopStep
<1> QED
  BY <1>3, <1>4 DEF WriterInv

LEMMA ResubscribePreserves ==
  ASSUME DW!DNWriterAssumption, WriterInv, DW!ResubscribeNext
  PROVE  WriterInv'
<1>1. WriteInv /\ WireInv
  BY DEF WriterInv
<1>2. PICK t \in resubscribing :
        /\ resubscribing' = resubscribing \ {t}
        /\ DW!Subscribe(t) \/ UNCHANGED <<subscribed, onWire>>
        /\ UNCHANGED <<DW!writeVars, DW!l0Side, DW!chanVars, esConn, dialled, live, events, loopState,
                       reading, dialFailures, DW!lifeVars>>
  BY DEF DW!ResubscribeNext
<1>3. WriteInv'
  BY <1>1, <1>2, WriteKeeps DEF DW!lifeVars
<1>4. Confirmations' = Confirmations
  BY <1>2, SameConfirmations DEF DW!l0Side
<1>5. subscribed' \subseteq Writes /\ onWire' \subseteq (1 .. dialled') \X Writes
  <2>1. t \in Writes
    BY <1>1 DEF WireInv
  <2> QED
    BY <1>1, <1>2, <2>1, SubscribePreserves DEF WireInv
<1>6. WireInv'
  BY <1>1, <1>2, <1>4, <1>5 DEF WireInv, DW!chanVars, DW!l0Side, DW!lifeVars
<1> QED
  BY <1>3, <1>6 DEF WriterInv

\* The owner closes the subscriber or ends the context, or a connection breaks.
LEMMA EndPreserves ==
  ASSUME DW!DNWriterAssumption, WriterInv,
         DW!Close \/ DW!CancelContext \/ (\E c \in 1 .. MaxDials : DW!Break(c))
  PROVE  WriterInv'
<1>1. WriteInv /\ WireInv
  BY DEF WriterInv
<1>2. /\ UNCHANGED <<DW!writeVars, DW!l0Side, subscribed, channel, dialled, DW!loopVars, config, crashed>>
      /\ channelClosed' \in {channelClosed, config.waitForExecution}
      /\ writerClosed' \in {writerClosed, TRUE} /\ ctxDone' \in {ctxDone, TRUE}
      /\ esConn' \in {esConn, 0}
      /\ (\E c \in Nat : DW!Lose(c)) \/ UNCHANGED <<live, onWire, events>>
  <2>1. esConn \in Nat /\ 1 .. MaxDials \subseteq Nat
    BY <1>1, WriterBounds DEF WireInv
  <2>2. CASE DW!Close
    BY <2>1, <2>2 DEF DW!Close
  <2>3. CASE DW!CancelContext
    BY <2>3 DEF DW!CancelContext, DW!chanVars, DW!wireVars
  <2>4. CASE \E c \in 1 .. MaxDials : DW!Break(c)
    BY <2>1, <2>4 DEF DW!Break, DW!chanVars, DW!lifeVars
  <2> QED
    BY <2>2, <2>3, <2>4
<1>3. WriteInv'
  BY <1>1, <1>2, WriteKeeps
<1>4. Confirmations' = Confirmations
  BY <1>2, SameConfirmations DEF DW!l0Side
<1>5. /\ live' \subseteq 1 .. dialled'
      /\ onWire' \subseteq (1 .. dialled') \X Writes
      /\ events' \subseteq (1 .. dialled') \X Writes
      /\ \A e \in events' : outcome'[e[2]] # "none"
  BY <1>1, <1>2, LosePreserves DEF WireInv, DW!l0Side
<1>6. /\ channelClosed' \in BOOLEAN /\ writerClosed' \in BOOLEAN /\ ctxDone' \in BOOLEAN
  BY <1>1, <1>2, ConfigTypes DEF WireInv, WriteInv
<1>7. esConn' \in 0 .. dialled'
  BY <1>1, <1>2 DEF WireInv
<1>8. WireInv'
  BY <1>1, <1>2, <1>4, <1>5, <1>6, <1>7 DEF WireInv, DW!loopVars
<1> QED
  BY <1>3, <1>8 DEF WriterInv

----------------------------------------------------------------------------
\* L0 executes a transaction once, so what was confirmed stays confirmed.
LEMMA ExecutePreserves ==
  ASSUME DW!DNWriterAssumption, WriterInv, NEW w \in Writes, NEW o \in {"executed", "failed"},
         DW!Execute(w, o)
  PROVE  WriterInv'
<1>1. WriteInv /\ WireInv
  BY DEF WriterInv
<1>2. /\ outcome[w] = "none" /\ outcome' = [outcome EXCEPT ![w] = o]
      /\ events' = events \cup {p \in onWire : p[2] = w}
      /\ UNCHANGED <<DW!writeVars, accepted, subscribed, DW!chanVars, esConn, dialled, live, onWire,
                     DW!loopVars, DW!lifeVars>>
  BY DEF DW!Execute
<1>3. outcome \in [Writes -> {"none", "executed", "failed"}]
  BY <1>1 DEF WriteInv, WriteTypes
<1>4. \A v \in Writes : outcome[v] # "none" => outcome'[v] = outcome[v]
  BY <1>2, <1>3
<1>5. WriteInv'
  <2>1. WriteTypes'
    BY <1>1, <1>2 DEF WriteInv, WriteTypes, DW!writeVars, DW!lifeVars
  <2>2. Counts' /\ Budget'
    BY <1>1, <1>2 DEF WriteInv, Counts, Returned, Budget, DW!writeVars, DW!lifeVars
  <2>3. DW!SuccessIsFinal'
    BY <1>1, <1>2, <1>4 DEF WriteInv, DW!SuccessIsFinal, DW!writeVars, DW!lifeVars
  <2> QED
    BY <2>1, <2>2, <2>3 DEF WriteInv
<1>6. channel' \in Seq(Confirmations')
  <2>1. Confirmations \subseteq Confirmations'
    BY <1>4 DEF Confirmations
  <2>2. channel \in Seq(Confirmations) /\ channel' = channel
    BY <1>1, <1>2 DEF WireInv, DW!chanVars
  <2> QED
    BY <2>1, <2>2, SeqOfMore
<1>7. /\ events' \subseteq (1 .. dialled) \X Writes
      /\ \A e \in events' : outcome'[e[2]] # "none"
  <2>1. /\ events \subseteq (1 .. dialled) \X Writes /\ onWire \subseteq (1 .. dialled) \X Writes
        /\ \A e \in events : outcome[e[2]] # "none"
    BY <1>1 DEF WireInv
  <2>2. \A e \in events' : e[2] \in Writes /\ (outcome[e[2]] # "none" \/ e[2] = w)
    BY <1>2, <2>1
  <2>3. outcome'[w] # "none"
    BY <1>2, <1>3
  <2>4. \A e \in events' : outcome'[e[2]] # "none"
    BY <1>4, <2>2, <2>3
  <2> QED
    BY <1>2, <2>1, <2>4
<1>8. WireInv'
  BY <1>1, <1>2, <1>6, <1>7 DEF WireInv, DW!chanVars, DW!loopVars, DW!lifeVars
<1> QED
  BY <1>5, <1>8 DEF WriterInv

LEMMA WriterNext ==
  ASSUME DW!DNWriterAssumption
  PROVE  WriterInv /\ [DW!Next]_(DW!vars) => WriterInv'
<1> SUFFICES ASSUME WriterInv, [DW!Next]_(DW!vars) PROVE WriterInv'
  OBVIOUS
<1>1. CASE UNCHANGED DW!vars
  <2>1. /\ UNCHANGED <<DW!writeVars, DW!l0Side, config>>
        /\ UNCHANGED <<subscribed, DW!chanVars, DW!wireVars, DW!loopVars, DW!lifeVars>>
    BY <1>1 DEF DW!vars, DW!lifeVars
  <2>2. WriteInv' /\ Confirmations' = Confirmations
    BY <2>1, WriteKeeps, SameConfirmations DEF WriterInv, DW!l0Side
  <2>3. WireInv'
    BY <2>1, <2>2 DEF WriterInv, WireInv, DW!l0Side, DW!chanVars, DW!wireVars, DW!loopVars, DW!lifeVars
  <2> QED
    BY <2>2, <2>3 DEF WriterInv
<1>2. ASSUME NEW w \in Writes, DW!WriteStep(w)
      PROVE  WriterInv'
  <2>1. WriteInv /\ WireInv
    BY DEF WriterInv
  <2>2. WriteInv'
    BY <1>2, <2>1, SubmitPreserves, WaitPreserves DEF DW!WriteStep
  <2> QED
    BY <1>2, <2>2, WriteWire DEF WriterInv
<1> QED
  BY <1>1, <1>2, LoopPreserves, ResubscribePreserves, EndPreserves, ExecutePreserves DEF DW!Next

\* The inductive invariant holds throughout (DNWriter, EventSubscriber).
THEOREM DNWriterInvariant ==
  ASSUME DW!DNWriterAssumption
  PROVE  DW!Spec => []WriterInv
<1>1. DW!Init => WriterInv
  BY WriterInit
<1>2. WriterInv /\ [DW!Next]_(DW!vars) => WriterInv'
  BY WriterNext
<1> QED
  BY <1>1, <1>2, PTL DEF DW!Spec

\* The variables have their types, every write that returns is counted once, and the
\* two retry loops together submit it at most (maxRetries + 1) * (clientRetries + 1)
\* times (submitWithRetry, executeWithRetry, WriterStats).
THEOREM DNWriterTypeOK ==
  ASSUME DW!DNWriterAssumption
  PROVE  DW!Spec => []DW!TypeOK
<1>1. WriterInv => DW!TypeOK
  BY WriterTypes
<1> QED
  BY <1>1, DNWriterInvariant, PTL

\* A write returns success only for a transaction that L0 has accepted and, when the
\* writer waits for it, has executed: for any number of writes that take their
\* confirmations from one channel, and of loops that share the connection
\* (waitForExecution, processEvent).
THEOREM DNWriterSuccessIsFinal ==
  ASSUME DW!DNWriterAssumption
  PROVE  DW!Spec => []DW!SuccessIsFinal
<1>1. WriterInv => DW!SuccessIsFinal
  BY DEF WriterInv, WriteInv
<1> QED
  BY <1>1, DNWriterInvariant, PTL

----------------------------------------------------------------------------
(***************************************************************************)
(* The endpoints and their health.                                         *)
(***************************************************************************)
PoolTypes ==
  /\ endpoints \in {{}, EP!Servers}
  /\ healthy \in [EP!Servers -> BOOLEAN] /\ failures \in [EP!Servers -> 0 .. MaxCount]
  /\ retryIn \in [EP!Servers -> 0 .. Backoff]

CallTypes ==
  /\ current \in EP!Servers
  /\ caller \in [Callers -> {"out", "look", "advance", "return"}]
  /\ seen \in [Callers -> EP!Servers] /\ looked \in [Callers -> 0 .. NumEndpoints]
  /\ picked \in [Callers -> EP!Servers]
  /\ \A c \in Callers : caller[c] = "advance" => looked[c] < NumEndpoints

CheckTypes ==
  /\ checker \in {"off", "idle", "copy", "next", "probing", "apply"}
  /\ unchecked \subseteq endpoints /\ probed \in EP!Servers /\ answer \in BOOLEAN
  /\ up \in [EP!Servers -> BOOLEAN]
  /\ reportsLeft \in 0 .. MaxReports /\ changesLeft \in 0 .. MaxChanges

\* An endpoint is healthy if and only if none of its failures is counted any more: a
\* report and a failed check count one and mark it, a check that succeeds resets both.
HealthCounted == \A e \in EP!Servers : healthy[e] <=> failures[e] = 0

\* Nobody calls Next before Start.
Started == endpoints = {} => EP!Unlocked

EndpointInv ==
  PoolTypes /\ CallTypes /\ CheckTypes /\ HealthCounted /\ Started /\ EP!NextPrefersHealthy

LEMMA EndpointBounds ==
  ASSUME EP!EndpointsAssumption
  PROVE  /\ NumEndpoints \in Nat \ {0} /\ MaxCount \in Nat \ {0} /\ Backoff \in Nat \ {0}
         /\ MaxReports \in Nat /\ MaxChanges \in Nat
         /\ 0 \in EP!Servers /\ \A e \in EP!Servers : e \in Nat
         /\ \A n \in 0 .. MaxCount : EP!Counted(n) \in 0 .. MaxCount /\ EP!Counted(n) # 0
         /\ \A n \in Nat : n % NumEndpoints \in EP!Servers
<1>1. /\ NumEndpoints \in Nat \ {0} /\ MaxCount \in Nat \ {0} /\ Backoff \in Nat \ {0}
      /\ MaxReports \in Nat /\ MaxChanges \in Nat
  BY DEF EP!EndpointsAssumption
<1>2. 0 \in EP!Servers /\ \A e \in EP!Servers : e \in Nat
  BY <1>1 DEF EP!Servers
<1>3. \A n \in 0 .. MaxCount : EP!Counted(n) \in 0 .. MaxCount /\ EP!Counted(n) # 0
  BY <1>1 DEF EP!Counted
<1>4. \A n \in Nat : n % NumEndpoints \in EP!Servers
  BY <1>1 DEF EP!Servers
<1> QED
  BY <1>1, <1>2, <1>3, <1>4

LEMMA EndpointTypes ==
  ASSUME EndpointInv
  PROVE  /\ endpoints \in {{}, EP!Servers} /\ endpoints \subseteq EP!Servers
         /\ healthy \in [EP!Servers -> BOOLEAN] /\ failures \in [EP!Servers -> 0 .. MaxCount]
         /\ retryIn \in [EP!Servers -> 0 .. Backoff] /\ current \in EP!Servers
         /\ caller \in [Callers -> {"out", "look", "advance", "return"}]
         /\ seen \in [Callers -> EP!Servers] /\ looked \in [Callers -> 0 .. NumEndpoints]
         /\ picked \in [Callers -> EP!Servers]
         /\ \A c \in Callers : caller[c] = "advance" => looked[c] < NumEndpoints
         /\ unchecked \subseteq endpoints /\ probed \in EP!Servers /\ answer \in BOOLEAN
         /\ up \in [EP!Servers -> BOOLEAN]
         /\ reportsLeft \in 0 .. MaxReports /\ changesLeft \in 0 .. MaxChanges
         /\ \A e \in EP!Servers : healthy[e] <=> failures[e] = 0
BY DEF EndpointInv, PoolTypes, CallTypes, CheckTypes, HealthCounted

LEMMA EndpointInit ==
  ASSUME EP!EndpointsAssumption, EP!Init
  PROVE  EndpointInv
<1>1. PoolTypes /\ HealthCounted
  BY EndpointBounds DEF EP!Init, PoolTypes, HealthCounted
<1>2. CallTypes
  BY EndpointBounds DEF EP!Init, CallTypes
<1>3. CheckTypes
  <2>1. probed \in EP!Servers /\ reportsLeft \in 0 .. MaxReports /\ changesLeft \in 0 .. MaxChanges
    BY EndpointBounds DEF EP!Init
  <2>2. answer \in BOOLEAN /\ up \in [EP!Servers -> BOOLEAN]
    BY DEF EP!Init
  <2> QED
    BY <2>1, <2>2 DEF EP!Init, CheckTypes
<1>4. EP!NextPrefersHealthy /\ Started
  BY DEF EP!Init, EP!NextPrefersHealthy, Started, EP!Unlocked
<1> QED
  BY <1>1, <1>2, <1>3, <1>4 DEF EndpointInv

\* The pool does not change, but for the time that passes.
LEMMA PoolStays ==
  ASSUME EndpointInv, UNCHANGED <<endpoints, healthy, failures>>,
         retryIn' \in [EP!Servers -> 0 .. Backoff],
         \A e \in EP!Servers : retryIn[e] = 0 => retryIn'[e] = 0,
         UNCHANGED <<current, caller, seen, looked, picked>>
  PROVE  PoolTypes' /\ CallTypes' /\ HealthCounted' /\ Started' /\ EP!NextPrefersHealthy'
<1>1. PoolTypes' /\ CallTypes' /\ HealthCounted' /\ Started'
  BY DEF EndpointInv, PoolTypes, CallTypes, HealthCounted, Started, EP!Servers, EP!Unlocked
<1>2. EP!NextPrefersHealthy'
  BY EndpointTypes DEF EndpointInv, EP!NextPrefersHealthy, EP!isEndpointHealthy
<1> QED
  BY <1>1, <1>2

\* What the checker and the servers do by themselves.
LEMMA CheckerPreservesPool ==
  ASSUME EP!EndpointsAssumption, EndpointInv,
         EP!CheckerTick \/ EP!BeginChecks \/ EP!NextCheck \/ EP!checkEndpointHealth
           \/ EP!StopEndpoints \/ (\E e \in EP!Servers : EP!Change(e)) \/ EP!TickBackoff
  PROVE  EndpointInv'
<1>1. UNCHANGED <<endpoints, healthy, failures, current, caller, seen, looked, picked>>
  BY DEF EP!CheckerTick, EP!BeginChecks, EP!NextCheck, EP!checkEndpointHealth, EP!StopEndpoints,
         EP!Change, EP!TickBackoff, EP!poolVars, EP!callVars
<1>2. CASE EP!TickBackoff
  <2>1. /\ retryIn' = [e \in EP!Servers |-> IF retryIn[e] = 0 THEN 0 ELSE retryIn[e] - 1]
        /\ UNCHANGED <<checker, unchecked, probed, answer, up, reportsLeft, changesLeft>>
    BY <1>2 DEF EP!TickBackoff, EP!checkVars, EP!worldVars
  <2>2. /\ retryIn' \in [EP!Servers -> 0 .. Backoff]
        /\ \A e \in EP!Servers : retryIn[e] = 0 => retryIn'[e] = 0
    BY <2>1, EndpointTypes, EndpointBounds
  <2>3. CheckTypes'
    BY <1>1, <2>1 DEF EndpointInv, CheckTypes, EP!Servers
  <2> QED
    BY <1>1, <2>2, <2>3, PoolStays DEF EndpointInv
<1>3. CASE ~EP!TickBackoff
  <2>1. UNCHANGED retryIn
    BY <1>3 DEF EP!CheckerTick, EP!BeginChecks, EP!NextCheck, EP!checkEndpointHealth,
                EP!StopEndpoints, EP!Change, EP!poolVars
  <2>2. PoolTypes' /\ CallTypes' /\ HealthCounted' /\ Started' /\ EP!NextPrefersHealthy'
    BY <1>1, <2>1, EndpointTypes, PoolStays
  <2>3. CheckTypes'
    <3>1. CASE EP!CheckerTick \/ EP!BeginChecks \/ EP!StopEndpoints
      BY <1>1, <3>1, EndpointTypes DEF EndpointInv, EP!CheckerTick, EP!BeginChecks, EP!StopEndpoints,
         CheckTypes, EP!Servers, EP!worldVars
    <3>2. CASE EP!NextCheck
      <4>1. /\ UNCHANGED <<answer, up, reportsLeft, changesLeft>>
            /\ checker' \in {"idle", "next", "probing"}
            /\ unchecked' \subseteq unchecked
            /\ probed' = 0 \/ probed' \in unchecked
        BY <3>2 DEF EP!NextCheck, EP!worldVars
      <4>2. probed' \in EP!Servers /\ unchecked' \subseteq endpoints
        BY <4>1, EndpointTypes, EndpointBounds
      <4> QED
        BY <1>1, <4>1, <4>2 DEF EndpointInv, CheckTypes, EP!Servers
    <3>3. CASE EP!checkEndpointHealth
      <4>1. answer' \in BOOLEAN
        BY <3>3, EndpointTypes DEF EP!checkEndpointHealth
      <4> QED
        BY <1>1, <3>3, <4>1 DEF EndpointInv, EP!checkEndpointHealth, CheckTypes, EP!Servers,
           EP!worldVars
    <3>4. ASSUME NEW e \in EP!Servers, EP!Change(e) PROVE CheckTypes'
      <4>1. /\ changesLeft > 0 /\ changesLeft' = changesLeft - 1 /\ up' = [up EXCEPT ![e] = ~@]
            /\ UNCHANGED <<checker, unchecked, probed, answer, reportsLeft>>
        BY <3>4 DEF EP!Change, EP!checkVars
      <4>2. changesLeft' \in 0 .. MaxChanges
        BY <4>1, EndpointTypes, EndpointBounds
      <4>3. up' \in [EP!Servers -> BOOLEAN]
        BY <4>1, EndpointTypes
      <4> QED
        BY <1>1, <4>1, <4>2, <4>3 DEF EndpointInv, CheckTypes, EP!Servers
    <3> QED
      BY <1>3, <3>1, <3>2, <3>3, <3>4
  <2> QED
    BY <2>2, <2>3 DEF EndpointInv
<1> QED
  BY <1>2, <1>3

\* A write of the pool waits for the calls that are in the lock.
LEMMA WritePreserves ==
  ASSUME EP!EndpointsAssumption, EndpointInv,
         EP!StartEndpoints \/ EP!ApplyCheck \/ \E e \in EP!Servers : EP!ReportFailure(e)
  PROVE  EndpointInv'
<1>1. UNCHANGED <<current, caller, seen, looked, picked, up>>
  BY DEF EP!StartEndpoints, EP!ApplyCheck, EP!ReportFailure, EP!callVars, EP!worldVars
<1>2. CASE EP!StartEndpoints
  <2>1. /\ endpoints = {} /\ endpoints' = EP!Servers /\ checker' = "idle"
        /\ UNCHANGED <<healthy, failures, retryIn, unchecked, probed, answer, reportsLeft, changesLeft>>
    BY <1>2 DEF EP!StartEndpoints, EP!worldVars
  <2>2. \A c \in Callers : caller[c] = "out"
    BY <2>1 DEF EndpointInv, Started, EP!Unlocked
  <2>3. PoolTypes' /\ HealthCounted' /\ CallTypes'
    BY <1>1, <2>1 DEF EndpointInv, PoolTypes, HealthCounted, CallTypes, EP!Servers
  <2>4. CheckTypes'
    BY <1>1, <2>1 DEF EndpointInv, CheckTypes, EP!Servers
  <2>5. Started' /\ EP!NextPrefersHealthy'
    BY <1>1, <2>2 DEF Started, EP!Unlocked, EP!NextPrefersHealthy
  <2> QED
    BY <2>3, <2>4, <2>5 DEF EndpointInv
<1>3. CASE EP!ApplyCheck
  <2>1. /\ \A c \in Callers : caller[c] = "out"
        /\ checker' = "next" /\ answer' = FALSE
        /\ UNCHANGED <<endpoints, unchecked, probed, reportsLeft, changesLeft>>
    BY <1>3 DEF EP!ApplyCheck, EP!Unlocked, EP!worldVars
  <2>2. /\ healthy' = [healthy EXCEPT ![probed] = answer]
        /\ failures' = [failures EXCEPT ![probed] = IF answer THEN 0 ELSE EP!Counted(@)]
        /\ retryIn' = [retryIn EXCEPT ![probed] =
                          IF answer THEN 0
                          ELSE IF EP!Counted(failures[probed]) >= MaxFailures THEN Backoff ELSE @]
    BY <1>3 DEF EP!ApplyCheck
  <2>3. PICK n : n = EP!Counted(failures[probed])
    OBVIOUS
  <2>4. n \in 0 .. MaxCount /\ n # 0
    BY <2>3, EndpointTypes, EndpointBounds
  <2>5. /\ healthy' \in [EP!Servers -> BOOLEAN] /\ healthy'[probed] = answer
        /\ \A e \in EP!Servers \ {probed} : healthy'[e] = healthy[e]
    BY <2>2, EndpointTypes
  <2>6. PICK m \in 0 .. MaxCount : (m = 0 <=> answer) /\ failures' = [failures EXCEPT ![probed] = m]
    <3>1. CASE answer
      <4>1. failures' = [failures EXCEPT ![probed] = 0] /\ 0 \in 0 .. MaxCount
        BY <2>2, <3>1, EndpointBounds
      <4> QED
        BY <3>1, <4>1
    <3>2. CASE ~answer
      <4>1. failures' = [failures EXCEPT ![probed] = n]
        BY <2>2, <2>3, <3>2
      <4> QED
        BY <2>4, <3>2, <4>1
    <3> QED
      BY <3>1, <3>2
  <2>7. /\ failures' \in [EP!Servers -> 0 .. MaxCount] /\ failures'[probed] = m
        /\ \A e \in EP!Servers \ {probed} : failures'[e] = failures[e]
    BY <2>6, EndpointTypes
  <2>8. retryIn' \in [EP!Servers -> 0 .. Backoff]
    BY <2>2, EndpointTypes, EndpointBounds
  <2>9. PoolTypes' /\ HealthCounted'
    <3>1. \A e \in EP!Servers : healthy'[e] <=> failures'[e] = 0
      BY <2>5, <2>6, <2>7, EndpointTypes
    <3> QED
      BY <2>1, <2>5, <2>7, <2>8, <3>1, EndpointTypes DEF PoolTypes, HealthCounted, EP!Servers
  <2>10. CallTypes' /\ CheckTypes'
    BY <1>1, <2>1 DEF EndpointInv, CallTypes, CheckTypes, EP!Servers
  <2>11. Started' /\ EP!NextPrefersHealthy'
    BY <1>1, <2>1 DEF Started, EP!Unlocked, EP!NextPrefersHealthy
  <2> QED
    BY <2>9, <2>10, <2>11 DEF EndpointInv
<1>4. ASSUME NEW e \in EP!Servers, EP!ReportFailure(e) PROVE EndpointInv'
  <2>1. /\ \A c \in Callers : caller[c] = "out"
        /\ reportsLeft > 0 /\ reportsLeft' = reportsLeft - 1
        /\ UNCHANGED <<endpoints, checker, unchecked, probed, answer, changesLeft>>
    BY <1>4 DEF EP!ReportFailure, EP!Unlocked, EP!checkVars
  <2>2. PICK n : n = EP!Counted(failures[e])
    OBVIOUS
  <2>3. n \in 0 .. MaxCount /\ n # 0
    BY <2>2, EndpointTypes, EndpointBounds
  <2>4. PoolTypes' /\ HealthCounted'
    <3>1. CASE UNCHANGED <<failures, healthy, retryIn>>
      BY <2>1, <3>1 DEF EndpointInv, PoolTypes, HealthCounted, EP!Servers
    <3>2. CASE /\ failures' = [failures EXCEPT ![e] = n]
               /\ healthy' = [healthy EXCEPT ![e] = FALSE]
               /\ retryIn' = [retryIn EXCEPT ![e] = Backoff]
      <4>1. /\ healthy' \in [EP!Servers -> BOOLEAN] /\ ~healthy'[e]
            /\ \A f \in EP!Servers \ {e} : healthy'[f] = healthy[f]
        BY <3>2, EndpointTypes
      <4>2. /\ failures' \in [EP!Servers -> 0 .. MaxCount] /\ failures'[e] = n
            /\ \A f \in EP!Servers \ {e} : failures'[f] = failures[f]
        BY <2>3, <3>2, EndpointTypes
      <4>3. retryIn' \in [EP!Servers -> 0 .. Backoff]
        BY <3>2, EndpointTypes, EndpointBounds
      <4>4. \A f \in EP!Servers : healthy'[f] <=> failures'[f] = 0
        BY <2>3, <4>1, <4>2, EndpointTypes
      <4> QED
        BY <2>1, <4>1, <4>2, <4>3, <4>4, EndpointTypes DEF PoolTypes, HealthCounted, EP!Servers
    <3> QED
      BY <1>4, <2>2, <3>1, <3>2 DEF EP!ReportFailure
  <2>5. CallTypes' /\ CheckTypes'
    <3>1. reportsLeft' \in 0 .. MaxReports
      BY <2>1, EndpointTypes, EndpointBounds
    <3> QED
      BY <1>1, <2>1, <3>1 DEF EndpointInv, CallTypes, CheckTypes, EP!Servers
  <2>6. Started' /\ EP!NextPrefersHealthy'
    BY <1>1, <2>1 DEF Started, EP!Unlocked, EP!NextPrefersHealthy
  <2> QED
    BY <2>4, <2>5, <2>6 DEF EndpointInv
<1> QED
  BY <1>2, <1>3, <1>4

\* A call of Next goes on.
LEMMA CallPreserves ==
  ASSUME EP!EndpointsAssumption, EndpointInv, NEW c \in Callers,
         UNCHANGED <<endpoints, healthy, failures, retryIn>>,
         UNCHANGED <<checker, unchecked, probed, answer, up, reportsLeft, changesLeft>>,
         endpoints # {}, current' \in EP!Servers,
         NEW s \in {"out", "look", "advance", "return"}, caller' = [caller EXCEPT ![c] = s],
         NEW e \in EP!Servers, seen' = [seen EXCEPT ![c] = e],
         NEW n \in 0 .. NumEndpoints, looked' = [looked EXCEPT ![c] = n],
         s = "advance" => n < NumEndpoints,
         NEW p \in EP!Servers, picked' = [picked EXCEPT ![c] = p],
         s = "return" /\ ~EP!isEndpointHealthy(p) => \A f \in EP!Servers : ~healthy[f]
  PROVE  EndpointInv'
<1>1. /\ caller' \in [Callers -> {"out", "look", "advance", "return"}] /\ caller'[c] = s
      /\ seen' \in [Callers -> EP!Servers] /\ looked' \in [Callers -> 0 .. NumEndpoints]
      /\ looked'[c] = n /\ picked' \in [Callers -> EP!Servers] /\ picked'[c] = p
      /\ \A d \in Callers \ {c} :
           caller'[d] = caller[d] /\ looked'[d] = looked[d] /\ picked'[d] = picked[d]
  BY EndpointTypes
<1>2. CallTypes'
  <2>1. \A d \in Callers : caller'[d] = "advance" => looked'[d] < NumEndpoints
    BY <1>1, EndpointTypes
  <2> QED
    BY <1>1, <2>1 DEF CallTypes, EP!Servers
<1>3. PoolTypes' /\ CheckTypes' /\ HealthCounted' /\ Started'
  BY DEF EndpointInv, PoolTypes, CheckTypes, HealthCounted, Started, EP!Servers
<1>4. EP!NextPrefersHealthy'
  <2> SUFFICES ASSUME NEW d \in Callers, caller'[d] = "return",
                      ~(healthy[picked'[d]] \/ retryIn[picked'[d]] = 0), NEW f \in endpoints
               PROVE  ~healthy[f]
    BY DEF EP!NextPrefersHealthy, EP!isEndpointHealthy
  <2>1. CASE d = c
    BY <1>1, <2>1, EndpointTypes DEF EP!isEndpointHealthy
  <2>2. CASE d # c
    BY <1>1, <2>2 DEF EndpointInv, EP!NextPrefersHealthy, EP!isEndpointHealthy
  <2> QED
    BY <2>1, <2>2
<1> QED
  BY <1>2, <1>3, <1>4 DEF EndpointInv

\* Whoever looked at as many endpoints as there are, takes the one that failed least: it
\* is not healthy only if none is.
LEMMA NextCallPreserves ==
  ASSUME EP!EndpointsAssumption, EndpointInv, NEW c \in Callers, EP!BeginNext(c) \/ EP!InNext(c)
  PROVE  EndpointInv'
<1>1. /\ UNCHANGED <<endpoints, healthy, failures, retryIn>>
      /\ UNCHANGED <<checker, unchecked, probed, answer, up, reportsLeft, changesLeft>>
  BY DEF EP!BeginNext, EP!InNext, EP!Look, EP!Advance, EP!FallBack, EP!ReturnNext, EP!poolVars,
         EP!checkVars, EP!worldVars
<1>2. endpoints # {}
  <2>1. CASE EP!BeginNext(c)
    BY <2>1 DEF EP!BeginNext
  <2>2. CASE EP!InNext(c)
    <3>1. caller[c] # "out"
      BY <2>2 DEF EP!InNext, EP!Look, EP!Advance, EP!FallBack, EP!ReturnNext
    <3> QED
      BY <3>1 DEF EndpointInv, Started, EP!Unlocked
  <2> QED
    BY <2>1, <2>2
<1>3. /\ current \in EP!Servers /\ seen[c] \in EP!Servers /\ looked[c] \in 0 .. NumEndpoints
      /\ picked[c] \in EP!Servers /\ NumEndpoints \in Nat
      /\ seen = [seen EXCEPT ![c] = seen[c]] /\ looked = [looked EXCEPT ![c] = looked[c]]
      /\ picked = [picked EXCEPT ![c] = picked[c]]
  BY EndpointTypes, EndpointBounds
<1>4. CASE EP!BeginNext(c)
  <2>1. caller' = [caller EXCEPT ![c] = "look"] /\ UNCHANGED <<current, seen, looked, picked>>
    BY <1>4 DEF EP!BeginNext
  <2> QED
    BY <1>1, <1>2, <1>3, <2>1, CallPreserves
<1>5. CASE EP!Look(c)
  <2>1. /\ caller' = [caller EXCEPT ![c] = "advance"] /\ seen' = [seen EXCEPT ![c] = current]
        /\ looked[c] < NumEndpoints /\ UNCHANGED <<current, looked, picked>>
    BY <1>5 DEF EP!Look
  <2> QED
    BY <1>1, <1>2, <1>3, <2>1, CallPreserves
<1>6. CASE EP!Advance(c)
  <2>1. /\ caller[c] = "advance" /\ looked' = [looked EXCEPT ![c] = looked[c] + 1]
        /\ UNCHANGED seen
        /\ \E now \in {current, seen[c]} : current' = (now + 1) % NumEndpoints
    BY <1>6 DEF EP!Advance
  <2>2. looked[c] + 1 \in 0 .. NumEndpoints
    BY <1>3, <2>1, EndpointTypes
  <2>3. current' \in EP!Servers
    <3>1. \A now \in EP!Servers : now + 1 \in Nat
      BY EndpointBounds
    <3> QED
      BY <1>3, <2>1, <3>1, EndpointBounds
  <2>4. CASE EP!isEndpointHealthy(seen[c])
    <3>1. picked' = [picked EXCEPT ![c] = seen[c]] /\ caller' = [caller EXCEPT ![c] = "return"]
      BY <1>6, <2>4 DEF EP!Advance
    <3> QED
      BY <1>1, <1>2, <1>3, <2>1, <2>2, <2>3, <2>4, <3>1, CallPreserves
  <2>5. CASE ~EP!isEndpointHealthy(seen[c])
    <3>1. caller' = [caller EXCEPT ![c] = "look"] /\ UNCHANGED picked
      BY <1>6, <2>5 DEF EP!Advance
    <3> QED
      BY <1>1, <1>2, <1>3, <2>1, <2>2, <2>3, <3>1, CallPreserves
  <2> QED
    BY <2>4, <2>5
<1>7. CASE EP!FallBack(c)
  <2>1. PICK e \in EP!Servers :
          /\ \A f \in EP!Servers : failures[e] < failures[f] \/ (failures[e] = failures[f] /\ e =< f)
          /\ picked' = [picked EXCEPT ![c] = e]
    BY <1>7 DEF EP!FallBack
  <2>2. caller' = [caller EXCEPT ![c] = "return"] /\ UNCHANGED <<current, seen, looked>>
    BY <1>7 DEF EP!FallBack
  <2>3. ~healthy[e] => \A f \in EP!Servers : ~healthy[f]
    <3> SUFFICES ASSUME ~healthy[e], NEW f \in EP!Servers, healthy[f] PROVE FALSE
      OBVIOUS
    <3>1. failures[e] # 0 /\ failures[f] = 0
      BY EndpointTypes
    <3>2. failures[e] \in Nat /\ failures[e] =< failures[f]
      BY <2>1, EndpointTypes, EndpointBounds
    <3> QED
      BY <3>1, <3>2
  <2>4. ~EP!isEndpointHealthy(e) => ~healthy[e]
    BY DEF EP!isEndpointHealthy
  <2> QED
    BY <1>1, <1>2, <1>3, <2>1, <2>2, <2>3, <2>4, CallPreserves
<1>8. CASE EP!ReturnNext(c)
  <2>1. /\ caller' = [caller EXCEPT ![c] = "out"] /\ seen' = [seen EXCEPT ![c] = 0]
        /\ looked' = [looked EXCEPT ![c] = 0] /\ picked' = [picked EXCEPT ![c] = 0]
        /\ UNCHANGED current /\ 0 \in 0 .. NumEndpoints
    BY <1>3, <1>8 DEF EP!ReturnNext
  <2> QED
    BY <1>1, <1>2, <1>3, <2>1, EndpointBounds, CallPreserves
<1> QED
  BY <1>4, <1>5, <1>6, <1>7, <1>8 DEF EP!InNext

LEMMA EndpointNext ==
  ASSUME EP!EndpointsAssumption, EndpointInv, [EP!Next]_(EP!vars)
  PROVE  EndpointInv'
<1>1. CASE EP!Next
  BY <1>1, CheckerPreservesPool, WritePreserves, NextCallPreserves DEF EP!Next, EP!HealthCheckLoop
<1>2. CASE UNCHANGED EP!vars
  <2>1. /\ UNCHANGED <<endpoints, healthy, failures, retryIn, current, caller, seen, looked, picked>>
        /\ UNCHANGED <<checker, unchecked, probed, answer, up, reportsLeft, changesLeft>>
    BY <1>2 DEF EP!vars, EP!poolVars, EP!callVars, EP!checkVars, EP!worldVars
  <2>2. PoolTypes' /\ CallTypes' /\ HealthCounted' /\ Started' /\ EP!NextPrefersHealthy'
    BY <2>1, EndpointTypes, PoolStays
  <2>3. CheckTypes'
    BY <2>1 DEF EndpointInv, CheckTypes, EP!Servers
  <2> QED
    BY <2>2, <2>3 DEF EndpointInv
<1> QED
  BY <1>1, <1>2

\* The invariant of the endpoints: the health of one and its count of failures say the
\* same, and a call of Next has its answer from a pool that has not changed since.
THEOREM EndpointsInvariant ==
  ASSUME EP!EndpointsAssumption
  PROVE  EP!Spec => []EndpointInv
<1>1. EP!Init => EndpointInv
  BY EndpointInit
<1>2. EndpointInv /\ [EP!Next]_(EP!vars) => EndpointInv'
  BY EndpointNext
<1> QED
  BY <1>1, <1>2, PTL DEF EP!Spec

\* The variables of the endpoints have their types.
THEOREM EndpointsTypeOK ==
  ASSUME EP!EndpointsAssumption
  PROVE  EP!Spec => []EP!TypeOK
<1>1. EndpointInv => EP!TypeOK
  BY DEF EndpointInv, PoolTypes, CallTypes, CheckTypes, EP!TypeOK
<1> QED
  BY <1>1, EndpointsInvariant, PTL

\* For any number of endpoints and of calls that race, Next returns an endpoint in backoff
\* only when none is healthy (RoundRobin.Next, getBestEndpoint).
THEOREM EndpointsNextPrefersHealthy ==
  ASSUME EP!EndpointsAssumption
  PROVE  EP!Spec => []EP!NextPrefersHealthy
<1>1. EndpointInv => EP!NextPrefersHealthy
  BY DEF EndpointInv
<1> QED
  BY <1>1, EndpointsInvariant, PTL

----------------------------------------------------------------------------
(***************************************************************************)
(* The schedule and the top-ups.  The types are inductive as they stand.   *)
(***************************************************************************)
LEMMA PricingBounds ==
  ASSUME PR!PricingAssumption
  PROVE  /\ Ttl \in Nat \ {0} /\ Target \in Nat \ {0} /\ MaxTopUps \in Nat /\ MaxErrors \in Nat
         /\ PR!Nobody \notin PR!Users /\ PR!Loop \in PR!Users
BY DEF PR!PricingAssumption, PR!Nobody, PR!Users, PR!Loop

LEMMA PricingInit ==
  ASSUME PR!PricingAssumption, PR!Init
  PROVE  PR!TypeOK
<1>1. /\ age \in 0 .. Ttl /\ balance \in Nat /\ read \in 0 .. Target - 1
      /\ topUpsLeft \in 0 .. MaxTopUps /\ queryErrorsLeft \in 0 .. MaxErrors
      /\ topUps \in Seq(1 .. Target)
  BY PricingBounds DEF PR!Init
<1>2. /\ user \in [PR!Users -> {"out", "refresh", "fetching", "queried", "got"}]
      /\ \A u \in PR!Users : user[u] = "fetching" <=> refreshing = u
  BY PricingBounds DEF PR!Init
<1> QED
  BY <1>1, <1>2 DEF PR!Init, PR!TypeOK, PR!Users, PR!Loop

\* One user asks the registry at a time, and whoever asks holds the lock.
LEMMA ScheduleTypes ==
  ASSUME PR!PricingAssumption, PR!TypeOK, NEW u \in PR!Users,
         NEW s \in {"out", "refresh", "fetching", "queried", "got"},
         user' = [user EXCEPT ![u] = s],
         \/ s = "fetching" /\ refreshing = PR!Nobody /\ refreshing' = u
         \/ s # "fetching" /\ user[u] = "fetching" /\ refreshing' = PR!Nobody
         \/ s # "fetching" /\ user[u] # "fetching" /\ refreshing' = refreshing
  PROVE  /\ user' \in [PR!Users -> {"out", "refresh", "fetching", "queried", "got"}]
         /\ \A v \in PR!Users : user'[v] = "fetching" <=> refreshing' = v
<1>1. /\ user \in [PR!Users -> {"out", "refresh", "fetching", "queried", "got"}]
      /\ \A v \in PR!Users : user[v] = "fetching" <=> refreshing = v
  BY DEF PR!TypeOK, PR!Users, PR!Loop
<1>2. \A v \in PR!Users : user'[v] = IF v = u THEN s ELSE user[v]
  BY <1>1
<1>3. user' \in [PR!Users -> {"out", "refresh", "fetching", "queried", "got"}]
  BY <1>1
<1> QED
  BY <1>1, <1>2, <1>3, PricingBounds

LEMMA PricingNext ==
  ASSUME PR!PricingAssumption, PR!TypeOK, [PR!Next]_(PR!vars)
  PROVE  PR!TypeOK'
<1> DEFINE Schedule ==
             /\ user \in [PR!Users -> {"out", "refresh", "fetching", "queried", "got"}]
             /\ \A u \in PR!Users : user[u] = "fetching" <=> refreshing = u
           Credits ==
             /\ age \in 0 .. Ttl /\ autoStops \in BOOLEAN
             /\ balance \in Nat /\ read \in 0 .. Target - 1
             /\ topUps \in Seq(1 .. Target) /\ topUpsLeft \in 0 .. MaxTopUps
             /\ queryErrorsLeft \in 0 .. MaxErrors
<1>1. Schedule /\ Credits
  BY DEF PR!TypeOK
<1>2. Schedule' /\ Credits' => PR!TypeOK'
  BY DEF PR!TypeOK, PR!Users, PR!Loop
<1>3. ASSUME UNCHANGED <<user, refreshing>> PROVE Schedule'
  BY <1>1, <1>3 DEF PR!Users, PR!Loop
<1>4. ASSUME NEW u \in PR!Users, PR!Get(u), user[u] # "fetching" PROVE Schedule'
  <2>1. /\ UNCHANGED refreshing
        /\ \E s \in {"got", "refresh"} : user' = [user EXCEPT ![u] = s]
    BY <1>4 DEF PR!Get
  <2> QED
    BY <1>4, <2>1, ScheduleTypes DEF PR!Users, PR!Loop
<1>5. ASSUME NEW u \in PR!Users, NEW s \in {"out", "queried"}, user[u] # "fetching",
             user' = [user EXCEPT ![u] = s], UNCHANGED refreshing
      PROVE  Schedule'
  BY <1>5, ScheduleTypes DEF PR!Users, PR!Loop
<1>6. ASSUME UNCHANGED <<balance, read, topUps, topUpsLeft>>, age' \in 0 .. Ttl,
             autoStops' \in BOOLEAN, queryErrorsLeft' \in 0 .. MaxErrors
      PROVE  Credits'
  BY <1>1, <1>6
<1> HIDE DEF Credits
<1>7. ASSUME NEW u \in PR!Users, PR!UserStep(u) PROVE PR!TypeOK'
  <2>1. CASE PR!Refresh(u)
    <3>1. Schedule'
      <4>1. CASE PR!Fresh
        <5>1. user[u] = "refresh" /\ user' = [user EXCEPT ![u] = "got"] /\ refreshing' = refreshing
          BY <2>1, <4>1 DEF PR!Refresh
        <5> QED
          BY <5>1, ScheduleTypes DEF PR!Users, PR!Loop
      <4>2. CASE ~PR!Fresh
        <5>1. /\ refreshing = PR!Nobody /\ refreshing' = u
              /\ user' = [user EXCEPT ![u] = "fetching"]
          BY <2>1, <4>2 DEF PR!Refresh
        <5> QED
          BY <5>1, ScheduleTypes DEF PR!Users, PR!Loop
      <4> QED
        BY <4>1, <4>2
    <3>2. Credits'
      BY <1>1, <1>6, <2>1 DEF PR!Refresh, PR!creditVars, Credits
    <3> QED
      BY <1>2, <3>1, <3>2
  <2>2. CASE PR!Fetch(u)
    <3>1. Schedule'
      <4>1. /\ user[u] = "fetching" /\ refreshing' = PR!Nobody
            /\ user' = [user EXCEPT ![u] = "got"]
        BY <2>2 DEF PR!Fetch
      <4> QED
        BY <4>1, ScheduleTypes DEF PR!Users, PR!Loop
    <3>2. Credits'
      <4>1. age' \in 0 .. Ttl /\ queryErrorsLeft' \in 0 .. MaxErrors
        BY <1>1, <2>2, PricingBounds DEF PR!Fetch, Credits
      <4> QED
        BY <1>1, <1>6, <2>2, <4>1 DEF PR!Fetch, PR!creditVars, Credits
    <3> QED
      BY <1>2, <3>1, <3>2
  <2>3. CASE PR!Leave(u)
    <3>1. Schedule'
      BY <1>5, <2>3 DEF PR!Leave
    <3>2. Credits'
      BY <1>1, <1>6, <2>3 DEF PR!Leave, PR!creditVars, Credits
    <3> QED
      BY <1>2, <3>1, <3>2
  <2> QED
    BY <1>7, <2>1, <2>2, <2>3 DEF PR!UserStep
<1>8. ASSUME NEW u \in Readers, PR!Use(u) PROVE PR!TypeOK'
  <2>1. Schedule'
    BY <1>4, <1>8 DEF PR!Use, PR!Users
  <2>2. Credits'
    BY <1>1, <1>6, <1>8 DEF PR!Use, PR!Get, PR!creditVars, Credits
  <2> QED
    BY <1>2, <2>1, <2>2
<1>9. ASSUME PR!AutoRefresh("auto") PROVE PR!TypeOK'
  <2>1. Schedule'
    <3>1. CASE "auto" \in PR!Users
      <4>1. /\ user["auto"] # "fetching" /\ UNCHANGED refreshing
            /\ user' = [user EXCEPT !["auto"] = "refresh"]
        BY <1>9 DEF PR!AutoRefresh
      <4> QED
        BY <3>1, <4>1, ScheduleTypes DEF PR!Users, PR!Loop
    <3>2. CASE "auto" \notin PR!Users
      <4>1. user' = user /\ UNCHANGED refreshing
        BY <1>1, <1>9, <3>2 DEF PR!AutoRefresh
      <4> QED
        BY <1>3, <4>1
    <3> QED
      BY <3>1, <3>2
  <2>2. Credits'
    BY <1>1, <1>6, <1>9 DEF PR!AutoRefresh, PR!creditVars, Credits
  <2> QED
    BY <1>2, <2>1, <2>2
<1>10. ASSUME PR!StopRefresh \/ PR!PricingTick PROVE PR!TypeOK'
  <2>1. UNCHANGED <<user, refreshing, balance, read, topUps, topUpsLeft, queryErrorsLeft>>
    BY <1>10 DEF PR!StopRefresh, PR!PricingTick, PR!creditVars
  <2>2. age' \in 0 .. Ttl /\ autoStops' \in BOOLEAN
    <3>1. CASE PR!StopRefresh
      BY <1>1, <3>1 DEF PR!StopRefresh, Credits
    <3>2. CASE PR!PricingTick
      <4>1. age' = age + 1 /\ age < Ttl /\ age \in 0 .. Ttl /\ Ttl \in Nat
        BY <1>1, <3>2, PricingBounds DEF PR!PricingTick, Credits
      <4> QED
        BY <1>1, <3>2, <4>1 DEF PR!PricingTick, Credits
    <3> QED
      BY <1>10, <3>1, <3>2
  <2> QED
    BY <1>1, <1>2, <1>3, <1>6, <2>1, <2>2 DEF Credits
<1>11. ASSUME PR!QueryCredits PROVE PR!TypeOK'
  <2>1. UNCHANGED <<age, refreshing, autoStops, balance, topUps, topUpsLeft>>
    BY <1>11 DEF PR!QueryCredits
  <2>2. Schedule'
    <3>1. user[PR!Loop] = "out" /\ PR!Loop \in PR!Users
      BY <1>11, PricingBounds DEF PR!QueryCredits
    <3>2. UNCHANGED user \/ user' = [user EXCEPT ![PR!Loop] = "queried"]
      BY <1>11 DEF PR!QueryCredits
    <3> QED
      BY <1>3, <1>5, <2>1, <3>1, <3>2
  <2>3. read' \in 0 .. Target - 1 /\ queryErrorsLeft' \in 0 .. MaxErrors
    BY <1>1, <1>11, PricingBounds DEF PR!QueryCredits, PR!Funded, Credits
  <2> QED
    BY <1>1, <1>2, <2>1, <2>2, <2>3 DEF Credits
<1>12. ASSUME PR!GetForTopUp PROVE PR!TypeOK'
  <2>1. Schedule'
    BY <1>4, <1>12, PricingBounds DEF PR!GetForTopUp
  <2>2. Credits'
    BY <1>1, <1>6, <1>12 DEF PR!GetForTopUp, PR!Get, PR!creditVars, Credits
  <2> QED
    BY <1>2, <2>1, <2>2
<1>13. ASSUME PR!EnqueueTopUp PROVE PR!TypeOK'
  <2>1. /\ user[PR!Loop] = "got" /\ user' = [user EXCEPT ![PR!Loop] = "out"]
        /\ UNCHANGED <<age, refreshing, autoStops, balance, queryErrorsLeft>>
        /\ topUpsLeft > 0 /\ topUpsLeft' = topUpsLeft - 1 /\ read' = 0
        /\ topUps' = Append(topUps, Target - read)
    BY <1>13 DEF PR!EnqueueTopUp
  <2>2. Schedule'
    BY <1>5, <2>1, PricingBounds
  <2>3. Target - read \in 1 .. Target /\ 0 \in 0 .. Target - 1 /\ topUpsLeft' \in 0 .. MaxTopUps
    BY <1>1, <2>1, PricingBounds DEF Credits
  <2>4. topUps' \in Seq(1 .. Target)
    BY <1>1, <2>1, <2>3, AppendProperties DEF Credits
  <2> QED
    BY <1>1, <1>2, <2>1, <2>2, <2>3, <2>4 DEF Credits
<1>14. ASSUME PR!ExecuteTopUp \/ \E n \in 1 .. Target : PR!Spend(n) PROVE PR!TypeOK'
  <2>1. UNCHANGED <<user, refreshing, age, autoStops, read, topUpsLeft, queryErrorsLeft>>
    BY <1>14 DEF PR!ExecuteTopUp, PR!Spend, PR!scheduleVars
  <2>2. balance' \in Nat /\ topUps' \in Seq(1 .. Target)
    <3>1. CASE PR!ExecuteTopUp
      <4>1. Head(topUps) \in 1 .. Target /\ Tail(topUps) \in Seq(1 .. Target)
        BY <1>1, <3>1, HeadTailProperties DEF PR!ExecuteTopUp, Credits
      <4> QED
        BY <1>1, <3>1, <4>1 DEF PR!ExecuteTopUp, Credits
    <3>2. ASSUME NEW n \in 1 .. Target, PR!Spend(n)
          PROVE  balance' \in Nat /\ topUps' \in Seq(1 .. Target)
      BY <1>1, <3>2, PricingBounds DEF PR!Spend, Credits
    <3> QED
      BY <1>14, <3>1, <3>2
  <2> QED
    BY <1>1, <1>2, <1>3, <2>1, <2>2 DEF Credits
<1>15. CASE UNCHANGED PR!vars
  BY <1>1, <1>2, <1>3, <1>6, <1>15 DEF PR!vars, PR!scheduleVars, PR!creditVars, Credits
<1> QED
  BY <1>7, <1>8, <1>9, <1>10, <1>11, <1>12, <1>13, <1>14, <1>15 DEF PR!Next, PR!CreditsLoop

\* The variables of the schedule and the top-ups have their types: one user at most asks
\* the registry, and no top-up is empty or larger than the target (refresh, EnsureCredits).
THEOREM PricingTypeOK ==
  ASSUME PR!PricingAssumption
  PROVE  PR!Spec => []PR!TypeOK
BY PricingInit, PricingNext, PTL DEF PR!Spec

----------------------------------------------------------------------------
(***************************************************************************)
(* The composition: a step of one component leaves the others' invariants, *)
(* because it leaves their variables.                                      *)
(***************************************************************************)
LEMMA ExtendedStep ==
  ASSUME [DeliveryNext]_deliveryVars
  PROVE  [Next]_vars /\ [SubmissionNext]_submissionVars
BY DEF DeliveryNext, deliveryVars

LEMMA OthersStep ==
  ASSUME [DeliveryNext]_deliveryVars
  PROVE  [DW!Next]_(DW!vars) /\ [EP!Next]_(EP!vars) /\ [PR!Next]_(PR!vars)
<1>1. /\ DW!Next \/ UNCHANGED dnWriter
      /\ EP!Next \/ UNCHANGED endpointHealth
      /\ PR!Next \/ UNCHANGED pricing
  BY DEF DeliveryNext, deliveryVars
<1>2. UNCHANGED dnWriter => UNCHANGED DW!vars
  BY DEF dnWriter, DW!vars, DW!writeVars, DW!l0Side, DW!chanVars, DW!wireVars, DW!loopVars,
         DW!lifeVars
<1>3. UNCHANGED endpointHealth => UNCHANGED EP!vars
  BY DEF endpointHealth, EP!vars, EP!poolVars, EP!callVars, EP!checkVars, EP!worldVars
<1>4. UNCHANGED pricing => UNCHANGED PR!vars
  BY DEF pricing, PR!vars, PR!scheduleVars, PR!creditVars
<1> QED
  BY <1>1, <1>2, <1>3, <1>4

\* What the module says of the components holds together.
BridgeInv == IInv /\ SubmissionInv /\ WriterInv /\ EndpointInv /\ PR!TypeOK

THEOREM BridgeInvariant ==
  ASSUME BridgeAssumption
  PROVE  DeliverySpec => []BridgeInv
<1>1. /\ OutboxAssumption /\ DW!DNWriterAssumption /\ EP!EndpointsAssumption
      /\ PR!PricingAssumption
  BY DEF BridgeAssumption
<1>2. DeliveryInit => BridgeInv
  BY <1>1, InitInvariant, SubmissionInitInvariant, WriterInit, EndpointInit,
     PricingInit
  DEF DeliveryInit, BridgeInv
<1>3. BridgeInv /\ [DeliveryNext]_deliveryVars => BridgeInv'
  BY <1>1, ExtendedStep, OthersStep, NextPreserves, SubmissionNextPreserves, WriterNext,
     EndpointNext, PricingNext
  DEF BridgeInv
<1> QED
  BY <1>2, <1>3, PTL DEF DeliverySpec

\* The variables of every component have their types, with every attempt of a write within
\* the budget of the two retry loops and no top-up above the target.
THEOREM BridgeTypes ==
  ASSUME BridgeAssumption
  PROVE  DeliverySpec => []DeliveryTypeOK
<1>1. BridgeInv => DeliveryTypeOK
  BY WriterTypes DEF BridgeAssumption, BridgeInv, IInv, SubmissionInv, DeliveryTypeOK, EndpointInv, PoolTypes,
     CallTypes, CheckTypes, EP!TypeOK
<1> QED
  BY <1>1, BridgeInvariant, PTL

\* An output shown as submitting has a worker behind it, and one shown as submitted was accepted,
\* after its dependencies.
THEOREM BridgeKeepsOutputs ==
  ASSUME BridgeAssumption
  PROVE  DeliverySpec => [](NoOrphan /\ DeliveredInOrder)
<1>1. BridgeInv => NoOrphan /\ DeliveredInOrder
  BY DEF BridgeInv, SubmissionInv
<1> QED
  BY <1>1, BridgeInvariant, PTL

\* A write returns success only for what L0 has accepted and, where it is awaited, executed,
\* whatever the configuration of the writer and of its client.
THEOREM BridgeSuccessIsFinal ==
  ASSUME BridgeAssumption
  PROVE  DeliverySpec => []SuccessIsFinal
<1>1. BridgeInv => SuccessIsFinal
  BY DEF BridgeInv, WriterInv, WriteInv, SuccessIsFinal
<1> QED
  BY <1>1, BridgeInvariant, PTL

\* Next returns an endpoint in backoff only when none is healthy.
THEOREM BridgeNextPrefersHealthy ==
  ASSUME BridgeAssumption
  PROVE  DeliverySpec => []NextPrefersHealthy
<1>1. BridgeInv => NextPrefersHealthy
  BY DEF BridgeInv, EndpointInv, NextPrefersHealthy
<1> QED
  BY <1>1, BridgeInvariant, PTL

\* The outbox keeps the promise of Delivery beside the other components too.
THEOREM BridgeImplementsDelivery ==
  ASSUME BridgeAssumption
  PROVE  DeliverySpec => ImplementsDelivery
<1>1. DeliveryInit => Init
  BY DEF DeliveryInit
<1>2. [DeliveryNext]_deliveryVars => [Next]_vars
  BY ExtendedStep
<1>3. OutboxAssumption
  BY DEF BridgeAssumption
<1> QED
  BY <1>1, <1>2, <1>3, OutboxImplementsDelivery, PTL DEF DeliverySpec, Spec
=============================================================================
