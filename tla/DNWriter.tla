------------------------------ MODULE DNWriter ------------------------------
(***************************************************************************)
(* Writes to the directory network (bridge/anchors/dn_writer.go) with the  *)
(* two retry loops they go through (submitWithRetry, and executeWithRetry  *)
(* of bridge/l0api/client.go), and the event subscriber                    *)
(* (EventSubscriber in bridge/l0api/events.go) that tells when the written *)
(* transaction has executed.                                               *)
(*                                                                         *)
(* The writes share the subscriber: one channel of confirmations, one      *)
(* connection, and a connection loop for each write that found it          *)
(* disconnected.  L0 is external: it may accept a submission whose answer  *)
(* is lost, and it sends the outcome of an accepted transaction on the     *)
(* connections it is subscribed on.                                        *)
(***************************************************************************)
EXTENDS Integers, Sequences, FiniteSets

CONSTANTS
  Writes,             \* the calls of WriteMetadata, WriteAnchor, WriteBlockHeader
  MaxRetries,         \* the most that DNWriterConfig.MaxRetries may be
  ClientRetries,      \* the most that ClientConfig.MaxRetries may be
  MaxReconnects,      \* EventSubscriber: 10
  ChannelSize,        \* capacity of confirmationCh: 100
  MaxDials,           \* bound: attempts to connect
  MaxLoops            \* bound: connection loops

DNWriterAssumption ==
  /\ IsFiniteSet(Writes)
  /\ {MaxRetries, ClientRetries, MaxReconnects, ChannelSize, MaxDials, MaxLoops} \subseteq Nat

Loops == 1 .. MaxLoops

\* DNWriterConfig, and the retries of ClientConfig.
Configs ==
  [waitForExecution : BOOLEAN, maxRetries : 0 .. MaxRetries, clientRetries : 0 .. ClientRetries]

VARIABLES
  config,         \* what the writer and the client were made with
  at,             \* where each write stands
  attempt,        \* of submitWithRetry
  clientTries,    \* of executeWithRetry in this attempt
  submissions,    \* history: calls of L0 for the write
  result,         \* what the write returned
  written,        \* WriterStats: MetadataWritten + AnchorsWritten
  errors, retries,
  accepted,       \* the writes whose transaction L0 has accepted
  outcome,        \* of each transaction: "none", "executed" or "failed"
  subscribed,     \* EventSubscriber.subscriptions; a write stands for its TxID
  channel,        \* confirmationCh
  channelClosed,
  esConn,         \* EventSubscriber.conn: the number of its dial, 0 for nil;
                  \* connected is esConn # 0
  dialled,
  live,           \* the connections that work
  onWire,         \* pairs of a connection and a transaction subscribed on it
  events,         \* pairs of a connection and an outcome it will deliver
  loopState,      \* of each connection loop: "off", "dial", "attach", "top" or "read"
  reading,        \* the connection whose ReadMessage the loop is in
  dialFailures,   \* reconnectAttempts
  resubscribing,  \* what resubscribeAll goroutines have yet to subscribe
  writerClosed,
  ctxDone,
  crashed         \* the process has panicked

writeVars == <<at, attempt, clientTries, submissions, result, written, errors, retries>>
l0Side == <<accepted, outcome>>
chanVars == <<channel, channelClosed>>
wireVars == <<esConn, dialled, live, onWire, events>>
loopVars == <<loopState, reading, dialFailures, resubscribing>>
lifeVars == <<config, writerClosed, ctxDone, crashed>>
vars == <<writeVars, l0Side, subscribed, chanVars, wireVars, loopVars, lifeVars>>

Init ==
  /\ config \in Configs
  /\ at = [w \in Writes |-> "submitting"]
  /\ attempt = [w \in Writes |-> 0] /\ clientTries = [w \in Writes |-> 0]
  /\ submissions = [w \in Writes |-> 0]
  /\ result = [w \in Writes |-> "none"]
  /\ written = 0 /\ errors = 0 /\ retries = 0
  /\ accepted = {} /\ outcome = [w \in Writes |-> "none"]
  /\ subscribed = {} /\ channel = <<>> /\ channelClosed = FALSE
  /\ esConn = 0 /\ dialled = 0 /\ live = {} /\ onWire = {} /\ events = {}
  /\ loopState = [l \in Loops |-> "off"]
  /\ reading = [l \in Loops |-> 0] /\ dialFailures = [l \in Loops |-> 0]
  /\ resubscribing = {}
  /\ writerClosed = FALSE /\ ctxDone = FALSE /\ crashed = FALSE

----------------------------------------------------------------------------
\* Submission.  A call that has not come yet is one that has not submitted.

ReturnError(w) ==
  /\ at' = [at EXCEPT ![w] = "done"]
  /\ result' = [result EXCEPT ![w] = "error"]
  /\ errors' = errors + 1
  /\ UNCHANGED written

ReturnOk(w) ==
  /\ at' = [at EXCEPT ![w] = "done"]
  /\ result' = [result EXCEPT ![w] = "ok"]
  /\ written' = written + 1
  /\ UNCHANGED errors

\* L0 accepts the submission and its answer arrives.
SubmitSucceeds(w) ==
  /\ at[w] = "submitting"
  /\ submissions' = [submissions EXCEPT ![w] = @ + 1]
  /\ accepted' = accepted \cup {w}
  /\ IF config.waitForExecution
     THEN at' = [at EXCEPT ![w] = "confirming"] /\ UNCHANGED <<result, written, errors>>
     ELSE ReturnOk(w)
  /\ UNCHANGED <<attempt, clientTries, retries, outcome, subscribed, chanVars, wireVars, loopVars,
                 lifeVars>>

\* An error of one submission, whether L0 accepted it or not.  Both loops
\* retry every error.
SubmitFails(w) ==
  /\ at[w] = "submitting"
  /\ submissions' = [submissions EXCEPT ![w] = @ + 1]
  /\ accepted' = accepted \/ accepted' = accepted \cup {w}
  /\ IF clientTries[w] < config.clientRetries
     THEN /\ clientTries' = [clientTries EXCEPT ![w] = @ + 1]
          /\ UNCHANGED <<at, attempt, result, written, errors, retries>>
     ELSE IF attempt[w] < config.maxRetries
     THEN /\ clientTries' = [clientTries EXCEPT ![w] = 0]
          /\ attempt' = [attempt EXCEPT ![w] = @ + 1]
          /\ retries' = retries + 1
          /\ UNCHANGED <<at, result, written, errors>>
     ELSE /\ ReturnError(w)
          /\ UNCHANGED <<attempt, clientTries, retries>>
  /\ UNCHANGED <<outcome, subscribed, chanVars, wireVars, loopVars, lifeVars>>

\* Both waits between attempts end with the context.
SubmitCancelled(w) ==
  /\ at[w] = "submitting"
  /\ ctxDone
  /\ clientTries[w] + attempt[w] > 0
  /\ ReturnError(w)
  /\ UNCHANGED <<attempt, clientTries, submissions, retries, l0Side, subscribed, chanVars, wireVars,
                 loopVars, lifeVars>>

----------------------------------------------------------------------------
\* waitForExecution.

\* Starts a connection loop if there is no connection now.
EnsureStarted(w) ==
  /\ at[w] = "confirming"
  /\ at' = [at EXCEPT ![w] = "subscribing"]
  /\ IF esConn # 0 THEN UNCHANGED loopState
     ELSE \E l \in Loops :
            /\ loopState[l] = "off" /\ dialFailures[l] = 0
            /\ loopState' = [loopState EXCEPT ![l] = "dial"]
  /\ UNCHANGED <<attempt, clientTries, submissions, result, written, errors, retries, l0Side,
                 subscribed, chanVars, wireVars, reading, dialFailures, resubscribing, lifeVars>>

\* SubscribeToTx succeeds.  A transaction that is in the map is not sent, and
\* one that comes while there is no connection is only put into the map.
Subscribe(t) ==
  \/ t \in subscribed /\ UNCHANGED <<subscribed, onWire>>
  \/ /\ t \notin subscribed /\ esConn = 0
     /\ subscribed' = subscribed \cup {t}
     /\ UNCHANGED onWire
  \/ /\ t \notin subscribed /\ esConn \in live
     /\ subscribed' = subscribed \cup {t}
     /\ onWire' = onWire \cup {<<esConn, t>>}

\* The connection is broken: the subscription cannot be sent.
CannotSubscribe(t) == t \notin subscribed /\ esConn # 0 /\ esConn \notin live

Unsubscribe(t) ==
  /\ subscribed' = subscribed \ {t}
  /\ onWire' = IF t \in subscribed THEN onWire \ {<<esConn, t>>} ELSE onWire

WaitForConfirmation(w) ==
  /\ at[w] = "subscribing"
  /\ \/ /\ Subscribe(w)
        /\ at' = [at EXCEPT ![w] = "waiting"]
        /\ UNCHANGED <<result, written, errors>>
     \/ /\ CannotSubscribe(w)
        /\ ReturnError(w)
        /\ UNCHANGED <<subscribed, onWire>>
  /\ UNCHANGED <<attempt, clientTries, submissions, retries, l0Side, chanVars, esConn, dialled, live,
                 events, loopVars, lifeVars>>

\* Mutant: only the end of the context ends the wait.
WaitCancelled(w) ==
  /\ at[w] = "waiting" /\ ctxDone
  /\ Unsubscribe(w)
  /\ ReturnError(w)
  /\ UNCHANGED <<attempt, clientTries, submissions, retries, l0Side, chanVars, esConn, dialled,
                 live, events, loopVars, lifeVars>>

\* ExecutionTimeout has passed, or the context is done.
WaitTimesOut(w) ==
  /\ at[w] = "waiting"
  /\ Unsubscribe(w)
  /\ ReturnError(w)
  /\ UNCHANGED <<attempt, clientTries, submissions, retries, l0Side, chanVars, esConn, dialled, live,
                 events, loopVars, lifeVars>>

\* Mutant: the first confirmation is taken for the write's own.
TakeAnyConfirmation(w) ==
  /\ at[w] = "waiting" /\ channel # <<>>
  /\ channel' = Tail(channel)
  /\ Unsubscribe(w)
  /\ IF Head(channel).status = "executed" THEN ReturnOk(w) ELSE ReturnError(w)
  /\ UNCHANGED <<attempt, clientTries, submissions, retries, l0Side, channelClosed, esConn, dialled,
                 live, events, loopVars, lifeVars>>

\* The next confirmation of anybody: another's is dropped.  A closed channel
\* gives nil, whose TxID is read.
TakeConfirmation(w) ==
  /\ at[w] = "waiting"
  /\ \/ /\ channel # <<>>
        /\ channel' = Tail(channel)
        /\ IF Head(channel).tx = w
           THEN /\ Unsubscribe(w)
                /\ IF Head(channel).status = "executed" THEN ReturnOk(w) ELSE ReturnError(w)
           ELSE UNCHANGED <<at, result, written, errors, subscribed, onWire>>
        /\ UNCHANGED crashed
     \/ /\ channel = <<>> /\ channelClosed
        /\ crashed' = TRUE
        /\ UNCHANGED <<at, result, written, errors, subscribed, onWire, channel>>
  /\ UNCHANGED <<attempt, clientTries, submissions, retries, l0Side, channelClosed, esConn, dialled,
                 live, events, loopVars, config, writerClosed, ctxDone>>

WriteStep(w) ==
  \/ SubmitSucceeds(w) \/ SubmitFails(w) \/ SubmitCancelled(w)
  \/ EnsureStarted(w) \/ WaitForConfirmation(w) \/ WaitTimesOut(w) \/ TakeConfirmation(w)

----------------------------------------------------------------------------
\* A connection is closed or breaks, and with it what L0 holds for it.
Lose(c) ==
  /\ live' = live \ {c}
  /\ onWire' = {p \in onWire : p[1] # c}
  /\ events' = {p \in events : p[1] # c}

\* connectionLoop l.  Loops share the connection, and each sets and clears it.

LoopEnds(l) ==
  /\ loopState[l] \in {"dial", "top"}
  /\ ctxDone
  /\ loopState' = [loopState EXCEPT ![l] = "off"]
  /\ IF loopState[l] = "top" THEN Lose(esConn) /\ esConn' = 0
     ELSE UNCHANGED <<esConn, live, onWire, events>>
  /\ UNCHANGED <<writeVars, l0Side, subscribed, chanVars, dialled, reading, dialFailures,
                 resubscribing, lifeVars>>

ConnectFails(l) ==
  /\ loopState[l] = "dial"
  /\ dialled < MaxDials
  /\ dialled' = dialled + 1
  /\ dialFailures' = [dialFailures EXCEPT ![l] = @ + 1]
  /\ loopState' = [loopState EXCEPT ![l] =
                     IF dialFailures[l] + 1 >= MaxReconnects THEN "off" ELSE "dial"]
  /\ UNCHANGED <<writeVars, l0Side, subscribed, chanVars, esConn, live, onWire, events, reading,
                 resubscribing, lifeVars>>

Connect(l) ==
  /\ loopState[l] = "dial"
  /\ dialled < MaxDials
  /\ dialled' = dialled + 1
  /\ esConn' = dialled + 1
  /\ live' = live \cup {dialled + 1}
  /\ dialFailures' = [dialFailures EXCEPT ![l] = 0]
  /\ resubscribing' = resubscribing \cup subscribed
  /\ loopState' = [loopState EXCEPT ![l] = "attach"]
  /\ UNCHANGED <<writeVars, l0Side, subscribed, chanVars, onWire, events, reading, lifeVars>>

\* handleConnection puts its pong handler on the connection of the moment, which
\* another loop or Stop may have set to nil, ...
Attach(l) ==
  /\ loopState[l] = "attach"
  /\ IF esConn = 0
     THEN crashed' = TRUE /\ UNCHANGED loopState
     ELSE loopState' = [loopState EXCEPT ![l] = "top"] /\ UNCHANGED crashed
  /\ UNCHANGED <<writeVars, l0Side, subscribed, chanVars, wireVars, reading, dialFailures,
                 resubscribing, config, writerClosed, ctxDone>>

\* ... and reads from the one of the moment.
BeginRead(l) ==
  /\ loopState[l] = "top"
  /\ ~ctxDone
  /\ IF esConn = 0
     THEN crashed' = TRUE /\ UNCHANGED <<loopState, reading>>
     ELSE /\ reading' = [reading EXCEPT ![l] = esConn]
          /\ loopState' = [loopState EXCEPT ![l] = "read"]
          /\ UNCHANGED crashed
  /\ UNCHANGED <<writeVars, l0Side, subscribed, chanVars, wireVars, dialFailures, resubscribing,
                 config, writerClosed, ctxDone>>

\* handleMessage and processEvent.  A full channel drops the confirmation.  Events of
\* other types are confirmations of status "pending".  One ends the wait for its own
\* transaction with an error, as WaitTimesOut may at any time, and others skip it: here
\* it only takes the room of another, which is dropped.
ReadEvent(l) ==
  /\ loopState[l] = "read"
  /\ reading[l] \in live
  /\ \E e \in events :
       /\ e[1] = reading[l]
       /\ events' = events \ {e}
       /\ IF channelClosed THEN crashed' = TRUE /\ UNCHANGED channel
          ELSE /\ \/ /\ Len(channel) < ChannelSize
                     /\ channel' = Append(channel, [tx |-> e[2], status |-> outcome[e[2]]])
                  \/ UNCHANGED channel
               /\ UNCHANGED crashed
  /\ loopState' = [loopState EXCEPT ![l] = "top"]
  /\ reading' = [reading EXCEPT ![l] = 0]
  /\ UNCHANGED <<writeVars, l0Side, subscribed, channelClosed, esConn, dialled, live, onWire,
                 dialFailures, resubscribing, config, writerClosed, ctxDone>>

\* The loop closes the connection of the moment, perhaps not the one it read.
ReadFails(l) ==
  /\ loopState[l] = "read"
  /\ reading[l] \notin live
  /\ Lose(esConn)
  /\ esConn' = 0
  /\ loopState' = [loopState EXCEPT ![l] = "dial"]
  /\ reading' = [reading EXCEPT ![l] = 0]
  /\ UNCHANGED <<writeVars, l0Side, subscribed, chanVars, dialled, dialFailures, resubscribing,
                 lifeVars>>

ResubscribeNext ==
  \E t \in resubscribing :
    /\ resubscribing' = resubscribing \ {t}
    /\ Subscribe(t) \/ (CannotSubscribe(t) /\ UNCHANGED <<subscribed, onWire>>)
    /\ UNCHANGED <<writeVars, l0Side, chanVars, esConn, dialled, live, events, loopState,
                   reading, dialFailures, lifeVars>>

LoopStep(l) ==
  \/ LoopEnds(l) \/ ConnectFails(l) \/ Connect(l)
  \/ Attach(l) \/ BeginRead(l) \/ ReadEvent(l) \/ ReadFails(l)

----------------------------------------------------------------------------
\* The owner of the writer, and L0.

\* EventSubscriber.Stop, which does not stop the loops.  The sequencer is stopped
\* once the context is done (cmd/accumen/main.go).
Close ==
  /\ ~writerClosed /\ ctxDone
  /\ writerClosed' = TRUE
  /\ Lose(esConn)
  /\ esConn' = 0
  /\ channelClosed' = config.waitForExecution
  /\ UNCHANGED <<writeVars, l0Side, subscribed, channel, dialled, loopVars, config, ctxDone, crashed>>

CancelContext ==
  /\ ~ctxDone
  /\ ctxDone' = TRUE
  /\ UNCHANGED <<writeVars, l0Side, subscribed, chanVars, wireVars, loopVars, config,
                 writerClosed, crashed>>

\* An execution that is subscribed for; no other one is seen here.
Execute(w, o) ==
  LET notified == {p \in onWire : p[2] = w}
  IN  /\ w \in accepted /\ outcome[w] = "none"
      /\ notified # {}
      /\ outcome' = [outcome EXCEPT ![w] = o]
      /\ events' = events \cup notified
      /\ UNCHANGED <<writeVars, accepted, subscribed, chanVars, esConn, dialled, live, onWire,
                     loopVars, lifeVars>>

Break(c) ==
  /\ c \in live
  /\ Lose(c)
  /\ UNCHANGED <<writeVars, l0Side, subscribed, chanVars, esConn, dialled, loopVars, lifeVars>>

Next ==
  /\ ~crashed
  /\ \/ \E w \in Writes : WriteStep(w)
     \/ \E l \in Loops : LoopStep(l)
     \/ ResubscribeNext
     \/ Close \/ CancelContext
     \/ \E w \in Writes, o \in {"executed", "failed"} : Execute(w, o)
     \/ \E c \in 1 .. MaxDials : Break(c)

Spec == Init /\ [][Next]_vars

\* A write that has begun is one goroutine whose calls and waits have deadlines.
Fairness == \A w \in Writes : WF_vars(~crashed /\ submissions[w] > 0 /\ WriteStep(w))

LiveSpec == Spec /\ Fairness

----------------------------------------------------------------------------
\* The types of the variables.  A write waits only for an accepted transaction,
\* each that has returned is counted once, and the two retry loops submit it at
\* most (maxRetries + 1) * (clientRetries + 1) times.
TypeOK ==
  /\ config \in Configs
  /\ at \in [Writes -> {"submitting", "confirming", "subscribing", "waiting", "done"}]
  /\ attempt \in [Writes -> 0 .. config.maxRetries]
  /\ clientTries \in [Writes -> 0 .. config.clientRetries]
  /\ \A w \in Writes : submissions[w] \in 0 .. (config.maxRetries + 1) * (config.clientRetries + 1)
  /\ written = Cardinality({w \in Writes : result[w] = "ok"})
  /\ errors = Cardinality({w \in Writes : result[w] = "error"})
  /\ result \in [Writes -> {"none", "ok", "error"}]
  /\ retries \in Nat
  /\ accepted \subseteq Writes /\ outcome \in [Writes -> {"none", "executed", "failed"}]
  /\ subscribed \subseteq Writes /\ resubscribing \subseteq Writes
  /\ channel \in Seq([tx : Writes, status : {"executed", "failed"}])
  /\ esConn \in 0 .. dialled /\ dialled \in 0 .. MaxDials
  /\ live \subseteq 1 .. dialled /\ onWire \subseteq (1 .. dialled) \X Writes
  /\ events \subseteq (1 .. dialled) \X Writes
  /\ loopState \in [Loops -> {"off", "dial", "attach", "top", "read"}]
  /\ reading \in [Loops -> 0 .. dialled] /\ dialFailures \in [Loops -> Nat]
  /\ {channelClosed, writerClosed, ctxDone, crashed} \subseteq BOOLEAN
  /\ \A w \in Writes : at[w] \in {"confirming", "subscribing", "waiting"} => w \in accepted

\* A write that returns no error was accepted by L0 and, if it waits for the
\* execution, has executed, although all writes take their confirmations from
\* one channel and an answer may be lost.
SuccessIsFinal ==
  \A w \in Writes :
    result[w] = "ok" => w \in accepted /\ (config.waitForExecution => outcome[w] = "executed")

\* Every write that has begun returns, or the process panics: a confirmation that
\* another write took, that was dropped or that never comes does not keep it.
WritesReturn ==
  []<>(\A w \in Writes : submissions[w] > 0 => at[w] = "done" \/ crashed)

----------------------------------------------------------------------------
\* What a comment says and the code does not keep.

\* "Resubscribe to all existing subscriptions" (events.go:309): once a
\* connection stands and the resubscription is over, what is in the map is
\* subscribed on it.
Resubscribed ==
  \A t \in subscribed :
    (esConn \in live /\ resubscribing = {}) => <<esConn, t>> \in onWire
=============================================================================
