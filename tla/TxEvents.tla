------------------------------ MODULE TxEvents ------------------------------
(***************************************************************************)
(* The events manager (Manager in bridge/l0api/events.go) and the          *)
(* goroutines that monitor a submitted transaction with it                 *)
(* (sequencer/loop.go): subscriptions with a channel each, one websocket   *)
(* that is dialled again when it breaks, goroutines that send the          *)
(* subscriptions on it, and goroutines that remove a subscription 100 ms   *)
(* after its final status.                                                 *)
(*                                                                         *)
(* The lock protects the map and the fields.  It is not held while a       *)
(* subscription is written or a status is put into a channel, so these are *)
(* steps of their own.  L0 is external: it sends the statuses of the       *)
(* transactions subscribed on the connection, in order, as long as the     *)
(* connection holds.                                                       *)
(***************************************************************************)
EXTENDS Integers, Sequences, FiniteSets

CONSTANTS
  Txs,
  Statuses,                       \* what L0 may say of a transaction
  MaxSubscriptions, BufferSize,   \* ManagerConfig
  MaxReconnects,                  \* ManagerConfig, 0 for no limit
  MaxOpens,                       \* bound: calls of SubscribeTx
  MaxDials,                       \* bound: attempts to connect
  MaxEvents                       \* bound: events that L0 sends

TxEventsAssumption ==
  /\ Txs # {} /\ Statuses \subseteq {"pending", "executed", "failed"}
  /\ {MaxSubscriptions, BufferSize, MaxReconnects, MaxOpens, MaxDials, MaxEvents} \subseteq Nat

\* A subscription is known by the number of the call that made it.  The calls
\* are the monitors; a monitor that finds the limit reached gets channel 0.
Calls == 1 .. MaxOpens
Final(status) == status \in {"executed", "failed"}
Events == [tx : Txs, status : Statuses]

VARIABLES
  subscriptions,  \* Manager.subscriptions, 0 for none
  buffer,         \* the contents of each channel
  closed,         \* the channels that are closed
  opens,          \* calls of SubscribeTx so far
  monitor,        \* of each call: [at, tx, ch, owns]
  loopAt,         \* where connectionLoop stands
  conn,           \* Manager.conn: the number of the dial that made it; 0 is nil
  dials,
  reconnects,     \* reconnectCount, kept where MaxReconnects limits it
  target,         \* what processEvent is about to send: <<channel, event>>
  writers,        \* goroutines in subscribeToTransaction: <<tx, conn they read>>
  resubscribe,    \* a resubscribeAll that has not read the map yet
  removers,       \* transactions whose subscription is to go after the 100 ms
  wire,           \* subscriptions that L0 holds for the connection
  inbox, eventsLeft,
  holds,          \* the connection is not broken
  stopAt,         \* where Stop stands
  shutdown,       \* shutdownCh is closed
  contextDone,    \* the context of Start is done
  panicked

mapVars == <<subscriptions, buffer, closed, opens, monitor>>
connVars == <<conn, dials, reconnects>>
l0Vars == <<wire, inbox, eventsLeft, holds>>
goVars == <<writers, resubscribe, removers>>
endVars == <<stopAt, shutdown, contextDone>>
vars == <<mapVars, loopAt, connVars, target, goVars, l0Vars, endVars, panicked>>

Nobody == [at |-> "none", tx |-> CHOOSE t \in Txs : TRUE, ch |-> 0, owns |-> FALSE]

Init ==
  /\ subscriptions = [t \in Txs |-> 0]
  /\ buffer = [c \in Calls |-> <<>>]
  /\ closed = {}
  /\ opens = 0
  /\ monitor = [c \in Calls |-> Nobody]
  /\ loopAt = "off"
  /\ conn = 0 /\ dials = 0 /\ reconnects = 0
  /\ target = <<>>
  /\ writers = {} /\ resubscribe = FALSE /\ removers = {}
  /\ wire = {} /\ inbox = <<>> /\ eventsLeft = MaxEvents /\ holds = FALSE
  /\ stopAt = "no" /\ shutdown = FALSE /\ contextDone = FALSE
  /\ panicked = FALSE

Subscribed == {t \in Txs : subscriptions[t] # 0}
Connected == conn # 0

----------------------------------------------------------------------------
\* Subscriptions.

\* A second call for a transaction gets the channel of the first, and a cancel
\* function that cancels a context nobody waits for.
SubscribeTx(t) ==
  LET c == opens + 1
      New == Cardinality(Subscribed) < MaxSubscriptions
  IN  /\ opens < MaxOpens
      /\ opens' = c
      /\ IF subscriptions[t] # 0
         THEN /\ monitor' = [monitor EXCEPT ![c] =
                    [at |-> "waiting", tx |-> t, ch |-> subscriptions[t], owns |-> FALSE]]
              /\ UNCHANGED <<subscriptions, writers>>
         ELSE /\ monitor' = [monitor EXCEPT ![c] =
                    [at |-> "waiting", tx |-> t, ch |-> IF New THEN c ELSE 0, owns |-> New]]
              /\ subscriptions' = IF New THEN [subscriptions EXCEPT ![t] = c] ELSE subscriptions
              /\ writers' = IF New /\ Connected THEN writers \cup {<<t, -1>>} ELSE writers
      /\ UNCHANGED <<buffer, closed, loopAt, connVars, target, resubscribe, removers, l0Vars,
                     endVars, panicked>>

\* unsubscribeTx removes whatever subscription the transaction has now.
UnsubscribeTx(t) ==
  IF subscriptions[t] = 0 THEN UNCHANGED <<subscriptions, closed, wire>>
  ELSE /\ closed' = closed \cup {subscriptions[t]}
       /\ subscriptions' = [subscriptions EXCEPT ![t] = 0]
       /\ wire' = IF Connected THEN wire \ {t} ELSE wire

\* The monitor returns, and its deferred cancel runs.
Finish(c) ==
  /\ monitor' = [monitor EXCEPT ![c].at = "done"]
  /\ IF monitor[c].owns THEN UnsubscribeTx(monitor[c].tx)
     ELSE UNCHANGED <<subscriptions, closed, wire>>

\* A monitor takes a status.  It returns on "failed"; it would on "confirmed",
\* which no event is turned into.
MonitorReads(c) ==
  LET ch == monitor[c].ch
  IN  /\ monitor[c].at = "waiting"
      /\ ch # 0 /\ buffer[ch] # <<>>
      /\ buffer' = [buffer EXCEPT ![ch] = Tail(@)]
      /\ IF Head(buffer[ch]).status = "failed" THEN Finish(c)
         ELSE UNCHANGED <<monitor, subscriptions, closed, wire>>
      /\ UNCHANGED <<opens, loopAt, connVars, target, goVars, inbox, eventsLeft, holds, endVars,
                     panicked>>

\* A closed channel gives empty statuses without end: only the timer is left.
MonitorTimesOut(c) ==
  /\ monitor[c].at = "waiting"
  /\ Finish(c)
  /\ UNCHANGED <<buffer, opens, loopAt, connVars, target, goVars, inbox, eventsLeft, holds,
                 endVars, panicked>>

\* The goroutine that processEvent left behind.
Remove(t) ==
  /\ t \in removers
  /\ removers' = removers \ {t}
  /\ UnsubscribeTx(t)
  /\ UNCHANGED <<buffer, opens, monitor, loopAt, connVars, target, writers, resubscribe,
                 inbox, eventsLeft, holds, endVars, panicked>>

----------------------------------------------------------------------------
\* The goroutines that send subscriptions.

\* Mutant: only what has been subscribed before is sent again.
ResubscribeOld ==
  /\ resubscribe
  /\ resubscribe' = FALSE
  /\ writers' = writers \cup ((Subscribed \cap wire) \X {-1})
  /\ UNCHANGED <<mapVars, loopAt, connVars, target, removers, l0Vars, endVars, panicked>>

ResubscribeAll ==
  /\ resubscribe
  /\ resubscribe' = FALSE
  /\ writers' = writers \cup (Subscribed \X {-1})
  /\ UNCHANGED <<mapVars, loopAt, connVars, target, removers, l0Vars, endVars, panicked>>

\* subscribeToTransaction reads the connection, which may be nil ...
WriterReads(w) ==
  /\ w \in writers /\ w[2] = -1
  /\ writers' = (writers \ {w}) \cup (IF Connected THEN {<<w[1], conn>>} ELSE {})
  /\ UNCHANGED <<mapVars, loopAt, connVars, target, resubscribe, removers, l0Vars, endVars,
                 panicked>>

\* ... and writes to it, in vain if it is another one by now or broken.
WriterWrites(w) ==
  /\ w \in writers /\ w[2] # -1
  /\ writers' = writers \ {w}
  /\ wire' = IF w[2] = conn /\ holds THEN wire \cup {w[1]} ELSE wire
  /\ UNCHANGED <<mapVars, loopAt, connVars, target, resubscribe, removers, inbox, eventsLeft,
                 holds, endVars, panicked>>

----------------------------------------------------------------------------
\* connectionLoop.

Start ==
  /\ loopAt = "off" /\ stopAt = "no"
  /\ loopAt' = "top"
  /\ UNCHANGED <<mapVars, connVars, target, goVars, l0Vars, endVars, panicked>>

LoopExits ==
  /\ loopAt = "top"
  /\ shutdown \/ contextDone
  /\ loopAt' = "done"
  /\ UNCHANGED <<mapVars, connVars, target, goVars, l0Vars, endVars, panicked>>

Dial ==
  /\ loopAt = "top"
  /\ ~shutdown /\ ~contextDone
  /\ dials < MaxDials
  /\ dials' = dials + 1
  /\ loopAt' = "dialing"
  /\ UNCHANGED <<mapVars, conn, reconnects, target, goVars, l0Vars, endVars, panicked>>

\* The wait of the backoff ends as the loop's own select does: it is left out.
DialFails ==
  /\ loopAt = "dialing"
  /\ reconnects' = IF MaxReconnects > 0 THEN reconnects + 1 ELSE 0
  /\ loopAt' = IF MaxReconnects > 0 /\ reconnects + 1 >= MaxReconnects THEN "done" ELSE "top"
  /\ UNCHANGED <<mapVars, conn, dials, target, goVars, l0Vars, endVars, panicked>>

\* Stop may have set conn to nil before this sets it.
Connect ==
  /\ loopAt = "dialing"
  /\ conn' = dials
  /\ wire' = {} /\ inbox' = <<>> /\ holds' = TRUE
  /\ resubscribe' = TRUE
  /\ reconnects' = 0
  /\ loopAt' = "attach"
  /\ UNCHANGED <<mapVars, dials, target, writers, removers, eventsLeft, endVars, panicked>>

\* handleConnection puts its pong handler on the conn of the moment, before it
\* looks at the shutdown.
Attach ==
  /\ loopAt = "attach"
  /\ IF Connected THEN loopAt' = "select" /\ UNCHANGED panicked
     ELSE panicked' = TRUE /\ UNCHANGED loopAt
  /\ UNCHANGED <<mapVars, connVars, target, goVars, l0Vars, endVars>>

\* handleConnection has returned.
Disconnect ==
  /\ conn' = 0
  /\ wire' = {} /\ inbox' = <<>> /\ holds' = FALSE
  /\ loopAt' = "top"

Select ==
  /\ loopAt = "select"
  /\ IF shutdown \/ contextDone THEN Disconnect
     ELSE loopAt' = "arm" /\ UNCHANGED <<conn, wire, inbox, holds>>
  /\ UNCHANGED <<mapVars, dials, reconnects, target, goVars, eventsLeft, endVars, panicked>>

\* The deadline is set, or a ping sent, on the conn of the moment.
Arm ==
  /\ loopAt = "arm"
  /\ IF Connected THEN loopAt' = "read" /\ UNCHANGED panicked
     ELSE panicked' = TRUE /\ UNCHANGED loopAt
  /\ UNCHANGED <<mapVars, connVars, target, goVars, l0Vars, endVars>>

\* Broken, or closed by Stop.
ReadFails ==
  /\ loopAt = "read"
  /\ ~holds \/ ~Connected
  /\ Disconnect
  /\ UNCHANGED <<mapVars, dials, reconnects, target, goVars, eventsLeft, endVars, panicked>>

\* handleMessage and processEvent up to the unlock.
ReceiveEvent ==
  /\ loopAt = "read"
  /\ holds /\ Connected /\ inbox # <<>>
  /\ inbox' = Tail(inbox)
  /\ LET e == Head(inbox)
     IN  IF subscriptions[e.tx] = 0 THEN loopAt' = "select" /\ UNCHANGED target
         ELSE loopAt' = "deliver" /\ target' = <<subscriptions[e.tx], e>>
  /\ UNCHANGED <<mapVars, connVars, goVars, wire, eventsLeft, holds, endVars, panicked>>

\* The channel may have been closed since.  A full one drops the status.
DeliverStatus ==
  LET ch == target[1]
      e == target[2]
  IN  /\ loopAt = "deliver"
      /\ IF ch \in closed
         THEN panicked' = TRUE /\ UNCHANGED <<buffer, removers, loopAt, target>>
         ELSE /\ IF Len(buffer[ch]) < BufferSize
                 THEN /\ buffer' = [buffer EXCEPT ![ch] = Append(@, e)]
                      /\ removers' = IF Final(e.status) THEN removers \cup {e.tx} ELSE removers
                 ELSE UNCHANGED <<buffer, removers>>
              /\ loopAt' = "select"
              /\ target' = <<>>
              /\ UNCHANGED panicked
      /\ UNCHANGED <<subscriptions, closed, opens, monitor, connVars, writers, resubscribe,
                     l0Vars, endVars>>

ConnectionLoop ==
  \/ LoopExits \/ Dial \/ DialFails \/ Connect \/ Attach \/ Select \/ Arm
  \/ ReadFails \/ ReceiveEvent \/ DeliverStatus

----------------------------------------------------------------------------
\* Stop and the context.

CancelContext ==
  /\ ~contextDone
  /\ contextDone' = TRUE
  /\ UNCHANGED <<mapVars, loopAt, connVars, target, goVars, l0Vars, stopAt, shutdown, panicked>>

Stop ==
  /\ stopAt = "no" /\ loopAt # "off"
  /\ shutdown' = TRUE
  /\ stopAt' = "channels"
  /\ UNCHANGED <<mapVars, loopAt, connVars, target, goVars, l0Vars, contextDone, panicked>>

StopCloses ==
  /\ stopAt = "channels"
  /\ closed' = closed \cup {subscriptions[t] : t \in Subscribed}
  /\ subscriptions' = [t \in Txs |-> 0]
  /\ stopAt' = "connection"
  /\ UNCHANGED <<buffer, opens, monitor, loopAt, connVars, target, goVars, l0Vars, shutdown,
                 contextDone, panicked>>

StopDisconnects ==
  /\ stopAt = "connection"
  /\ conn' = 0
  /\ wire' = {} /\ inbox' = <<>> /\ holds' = FALSE
  /\ stopAt' = "waiting"
  /\ UNCHANGED <<mapVars, loopAt, dials, reconnects, target, goVars, eventsLeft, shutdown,
                 contextDone, panicked>>

StopReturns ==
  /\ stopAt = "waiting" /\ loopAt = "done"
  /\ stopAt' = "returned"
  /\ UNCHANGED <<mapVars, loopAt, connVars, target, goVars, l0Vars, shutdown, contextDone, panicked>>

StopStep == StopCloses \/ StopDisconnects \/ StopReturns

----------------------------------------------------------------------------
\* L0, external.

SendEvent(e) ==
  /\ eventsLeft > 0
  /\ holds /\ e.tx \in wire
  /\ inbox' = Append(inbox, e)
  /\ eventsLeft' = eventsLeft - 1
  /\ UNCHANGED <<mapVars, loopAt, connVars, target, goVars, wire, holds, endVars, panicked>>

ConnectionBreaks ==
  /\ holds
  /\ holds' = FALSE
  /\ UNCHANGED <<mapVars, loopAt, connVars, target, goVars, wire, inbox, eventsLeft, endVars,
                 panicked>>

GoroutineStep ==
  \/ ResubscribeAll
  \/ \E w \in writers : WriterReads(w) \/ WriterWrites(w)
  \/ \E t \in Txs : Remove(t)

MonitorStep(c) == MonitorReads(c) \/ MonitorTimesOut(c)

\* After a panic the process is gone.
Next ==
  /\ ~panicked
  /\ \/ \E t \in Txs : SubscribeTx(t)
     \/ \E c \in Calls : MonitorStep(c)
     \/ GoroutineStep
     \/ Start \/ ConnectionLoop
     \/ CancelContext \/ Stop \/ StopStep
     \/ \E e \in Events : SendEvent(e)
     \/ ConnectionBreaks

Spec == Init /\ [][Next]_vars

----------------------------------------------------------------------------
\* The types of the variables.  A status in a channel is one of the transaction
\* whose monitor reads the channel.
TypeOK ==
  /\ subscriptions \in [Txs -> 0 .. opens]
  /\ buffer \in [Calls -> Seq(Events)]
  /\ closed \subseteq 1 .. opens
  /\ opens \in 0 .. MaxOpens
  /\ \A c \in Calls :
       /\ monitor[c].at \in {"none", "waiting", "done"}
       /\ monitor[c].tx \in Txs /\ monitor[c].ch \in 0 .. opens /\ monitor[c].owns \in BOOLEAN
       /\ Len(buffer[c]) =< BufferSize
       /\ monitor[c].ch # 0 => \A i \in DOMAIN buffer[monitor[c].ch] :
                                 buffer[monitor[c].ch][i].tx = monitor[c].tx
  /\ loopAt \in {"off", "top", "dialing", "attach", "select", "arm", "read", "deliver", "done"}
  /\ conn \in 0 .. dials /\ dials \in 0 .. MaxDials /\ reconnects \in 0 .. MaxDials
  /\ loopAt = "deliver" <=> target # <<>>
  /\ writers \subseteq Txs \X (-1 .. MaxDials)
  /\ removers \subseteq Txs /\ wire \subseteq Txs
  /\ inbox \in Seq(Events) /\ eventsLeft \in 0 .. MaxEvents
  /\ {resubscribe, holds, shutdown, contextDone, panicked} \subseteq BOOLEAN
  /\ stopAt \in {"no", "channels", "connection", "waiting", "returned"}

\* The cancel of a monitor, the removal after a final status and Stop all close
\* channels.  None is closed twice: what is in the map is open.  And after every
\* reconnection each subscription is on the new connection as soon as no goroutine
\* is left that has it to send.
SubscriptionsHold ==
  \A t \in Txs :
    /\ subscriptions[t] \notin closed
    /\ (t \in Subscribed /\ Connected /\ holds /\ ~resubscribe /\ \A w \in writers : w[1] # t)
         => t \in wire
=============================================================================
