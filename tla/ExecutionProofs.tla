-------------------------- MODULE ExecutionProofs --------------------------
(***************************************************************************)
(* Theorems about the execution of contracts and what surrounds it: the    *)
(* pause switch (ScopeGate), which is extended, the transaction events     *)
(* (TxEvents) and the engine (Execution), which are instantiated with      *)
(* their own constants and variables.  They hold for any number of         *)
(* workers, transactions, blocks, calls of Subscribe and goroutines that   *)
(* check a scope.                                                          *)
(***************************************************************************)
EXTENDS Contracts, FiniteSetTheorems, SequenceTheorems, TLAPS

----------------------------------------------------------------------------
(***************************************************************************)
(* The pause switch.                                                       *)
(***************************************************************************)
\* An answer takes time only while it is under way, and one that says "not
\* paused" is at least as old as a pause of the contract.
AnswersAge ==
  \A c \in Checkers :
    /\ checker[c].at # "answered" => checker[c].delay = 0
    /\ (checker[c].at = "answered" /\ ~checker[c].paused) => pausedFor =< checker[c].delay

\* An entry that lives and says "not paused" may have missed a pause since it
\* was stored and for as long as its answer took.
EntryAges == (cached.age < Ttl /\ ~cached.paused) => pausedFor =< cached.age + MaxDelay

EntryType == cached \in [paused : BOOLEAN, age : 0 .. Ttl]

\* The inductive invariant.
IInv == TypeOK /\ EntryType /\ AnswersAge /\ EntryAges /\ PauseHolds

LEMMA Bounds ==
  ASSUME ScopeGateAssumption
  PROVE  /\ Ttl \in Nat \ {0} /\ MaxDelay \in Nat /\ MaxHeight \in Nat /\ MaxChanges \in Nat
         /\ Long = Ttl + MaxDelay
BY DEF ScopeGateAssumption, Long

\* The records of the goroutines.
Checks == [at : {"idle", "get", "asking", "answered"}, why : {"pause", "staged"},
           paused : BOOLEAN, delay : 0 .. MaxDelay]

LEMMA Types ==
  ASSUME ScopeGateAssumption, IInv
  PROVE  /\ pausedFor \in 0 .. Long /\ letThrough \in 0 .. Long /\ changesLeft \in 0 .. MaxChanges
         /\ cached.paused \in BOOLEAN /\ cached.age \in 0 .. Ttl
         /\ checker \in [Checkers -> Checks]
         /\ Idle \in Checks /\ Idle.at = "idle" /\ Idle.delay = 0
BY Bounds DEF IInv, TypeOK, Checks, Idle

LEMMA InitInvariant ==
  ASSUME ScopeGateAssumption, Init
  PROVE  IInv
<1>1. /\ pausedFor = 0 /\ letThrough = 0 /\ changesLeft \in 0 .. MaxChanges
      /\ 0 \in 0 .. Long /\ 0 < Long /\ 0 \in 0 .. MaxHeight /\ 0 \in 0 .. MaxDelay
  BY Bounds DEF Init
<1>2. cached = [paused |-> FALSE, age |-> Ttl] /\ Ttl \in 0 .. Ttl /\ ~ (Ttl < Ttl)
  BY Bounds DEF Init
<1>3. checker = [c \in Checkers |-> Idle] /\ blockHeight = 0 /\ scope \in Scopes
  BY DEF Init
<1>4. TypeOK
  BY <1>1, <1>2, <1>3 DEF TypeOK, Idle
<1>5. EntryType /\ AnswersAge /\ EntryAges /\ PauseHolds
  BY <1>1, <1>2, <1>3 DEF EntryType, AnswersAge, EntryAges, PauseHolds, Idle
<1> QED
  BY <1>4, <1>5 DEF IInv

\* The document changes: a pause begins, goes on or ends.
LEMMA ChangePreserves ==
  ASSUME ScopeGateAssumption, IInv, NEW s \in Scopes, Become(s)
  PROVE  IInv'
<1>1. /\ UNCHANGED <<cached, checker, blockHeight, letThrough>>
      /\ changesLeft > 0 /\ changesLeft' = changesLeft - 1 /\ scope' = s
      /\ pausedFor' = IF s = "paused" THEN pausedFor ELSE 0
  BY DEF Become
<1>2. pausedFor' \in 0 .. Long /\ pausedFor' =< pausedFor /\ changesLeft' \in 0 .. MaxChanges
      /\ (pausedFor' > 0 => scope' = "paused")
  BY <1>1, Types, Bounds
<1>3. TypeOK' /\ EntryType' /\ PauseHolds'
  BY <1>1, <1>2 DEF IInv, TypeOK, EntryType, PauseHolds
<1>4. AnswersAge'
  <2> SUFFICES ASSUME NEW c \in Checkers
               PROVE  /\ checker[c].at # "answered" => checker[c].delay = 0
                      /\ (checker[c].at = "answered" /\ ~checker[c].paused)
                           => pausedFor' =< checker[c].delay
    BY <1>1 DEF AnswersAge
  <2>1. checker[c].delay \in 0 .. MaxDelay
    BY Types DEF Checks
  <2> QED
    BY <1>2, <2>1, Types, Bounds DEF IInv, AnswersAge
<1>5. EntryAges'
  BY <1>1, <1>2, Types, Bounds DEF IInv, EntryAges
<1> QED
  BY <1>3, <1>4, <1>5 DEF IInv

\* A goroutine goes on and nothing else changes.
LEMMA CheckerPreserves ==
  ASSUME ScopeGateAssumption, IInv,
         UNCHANGED <<scope, pausedFor, changesLeft, cached, blockHeight>>,
         NEW c \in Checkers, NEW r \in Checks, checker' = [checker EXCEPT ![c] = r],
         r.at # "answered" => r.delay = 0,
         (r.at = "answered" /\ ~r.paused) => pausedFor =< r.delay,
         letThrough' \in 0 .. Long, letThrough' < Long
  PROVE  IInv'
<1>1. checker' \in [Checkers -> Checks]
  BY Types
<1>2. TypeOK' /\ EntryType' /\ EntryAges' /\ PauseHolds'
  BY <1>1 DEF IInv, TypeOK, EntryType, EntryAges, PauseHolds, Checks
<1>3. AnswersAge'
  BY Types DEF IInv, AnswersAge
<1> QED
  BY <1>2, <1>3 DEF IInv

\* An entry is used only while it lives, which bounds what it may have missed.
LEMMA GetPreserves ==
  ASSUME ScopeGateAssumption, IInv, NEW c \in Checkers, Get(c)
  PROVE  IInv'
<1>1. UNCHANGED <<scope, pausedFor, changesLeft, cached, blockHeight>> /\ checker[c].at = "get"
  BY DEF Get
<1>2. checker[c] \in Checks /\ checker[c].delay = 0
  BY <1>1, Types DEF IInv, AnswersAge
<1>3. CASE cached.age < Ttl
  <2>1. /\ checker' = [checker EXCEPT ![c] = Idle]
        /\ letThrough' = letThrough \/ (~cached.paused /\ letThrough' = pausedFor)
    BY <1>3 DEF Get, Decide
  <2>2. ~cached.paused => pausedFor < Long
    BY <1>3, Types, Bounds DEF IInv, EntryAges
  <2>3. letThrough' \in 0 .. Long /\ letThrough' < Long
    BY <2>1, <2>2, Types DEF IInv, PauseHolds
  <2> QED
    BY <1>1, <2>1, <2>3, Types, CheckerPreserves
<1>4. CASE ~ (cached.age < Ttl)
  <2> DEFINE r == [checker[c] EXCEPT !.at = "asking"]
  <2>1. /\ r \in Checks /\ r.at = "asking" /\ r.delay = 0
        /\ checker' = [checker EXCEPT ![c] = r] /\ letThrough' = letThrough
    BY <1>2, <1>4, Types DEF Get, Checks
  <2>2. letThrough' \in 0 .. Long /\ letThrough' < Long
    BY <2>1, Types DEF IInv, PauseHolds
  <2> HIDE DEF r
  <2> QED
    BY <1>1, <2>1, <2>2, CheckerPreserves
<1> QED
  BY <1>3, <1>4

\* The steps of a check around the answer.
LEMMA AskPreserves ==
  ASSUME ScopeGateAssumption, IInv, NEW c \in Checkers,
         Answer(c) \/ FetchFails(c) \/ \E why \in {"pause", "staged"} : Check(c, why)
  PROVE  IInv'
<1>1. /\ UNCHANGED <<scope, pausedFor, changesLeft, cached, blockHeight>>
      /\ letThrough' \in 0 .. Long /\ letThrough' < Long
  BY Types DEF Answer, FetchFails, Check, IInv, PauseHolds
<1>2. checker[c] \in Checks /\ (checker[c].at # "answered" => checker[c].delay = 0)
  BY Types DEF IInv, AnswersAge
<1>3. CASE Answer(c)
  <2> DEFINE r == [checker[c] EXCEPT !.at = "answered", !.paused = (scope = "paused")]
  <2>1. /\ r \in Checks /\ r.at = "answered" /\ r.delay = 0 /\ r.paused = (scope = "paused")
        /\ checker' = [checker EXCEPT ![c] = r]
    BY <1>2, <1>3, Types DEF Answer, Checks
  <2> HIDE DEF r
  <2>2. ~r.paused => scope # "paused"
    BY <2>1
  <2>3. scope # "paused" => pausedFor = 0
    BY Types, Bounds DEF IInv, TypeOK
  <2>4. ~r.paused => pausedFor =< r.delay
    BY <2>1, <2>2, <2>3
  <2> QED
    BY <1>1, <2>1, <2>4, CheckerPreserves
<1>4. CASE FetchFails(c)
  <2>1. checker' = [checker EXCEPT ![c] = Idle]
    BY <1>4 DEF FetchFails
  <2> QED
    BY <1>1, <2>1, Types, CheckerPreserves
<1>5. ASSUME NEW why \in {"pause", "staged"}, Check(c, why) PROVE IInv'
  <2> DEFINE r == [checker[c] EXCEPT !.at = "get", !.why = why]
  <2>1. /\ r \in Checks /\ r.at = "get" /\ r.delay = 0
        /\ checker' = [checker EXCEPT ![c] = r]
    BY <1>2, <1>5, Types DEF Check, Checks
  <2> HIDE DEF r
  <2> QED
    BY <1>1, <2>1, CheckerPreserves
<1> QED
  BY <1>3, <1>4, <1>5

\* What is stored is as old as its answer, also over an entry that is younger.
LEMMA StorePreserves ==
  ASSUME ScopeGateAssumption, IInv, NEW c \in Checkers, Store(c)
  PROVE  IInv'
<1> DEFINE p == checker[c].paused
<1>1. /\ UNCHANGED <<scope, pausedFor, changesLeft, blockHeight>>
      /\ checker[c].at = "answered" /\ cached' = [paused |-> p, age |-> 0]
      /\ checker' = [checker EXCEPT ![c] = Idle]
      /\ letThrough' = letThrough \/ (~p /\ letThrough' = pausedFor)
  BY DEF Store, Decide
<1>2. p \in BOOLEAN /\ checker[c].delay \in 0 .. MaxDelay
  BY Types DEF Checks
<1>3. ~p => pausedFor =< checker[c].delay
  BY <1>1 DEF IInv, AnswersAge
<1> HIDE DEF p
<1>4. ~p => pausedFor =< MaxDelay /\ pausedFor < Long
  BY <1>2, <1>3, Types, Bounds
<1>5. letThrough' \in 0 .. Long /\ PauseHolds'
  BY <1>1, <1>4, Types DEF IInv, PauseHolds, Long
<1>6. EntryType' /\ EntryAges'
  <2>1. cached' = [paused |-> p, age |-> 0] /\ 0 \in 0 .. Ttl /\ 0 + MaxDelay = MaxDelay
    BY <1>1, Bounds
  <2>2. cached'.paused = p /\ cached'.age = 0
    BY <2>1
  <2> QED
    BY <1>1, <1>2, <1>4, <2>1, <2>2 DEF EntryType, EntryAges
<1>7. checker' \in [Checkers -> Checks]
  BY <1>1, Types
<1>8. TypeOK'
  BY <1>1, <1>5, <1>6, <1>7 DEF IInv, TypeOK, EntryType, Checks
<1>9. AnswersAge'
  BY <1>1, Types DEF IInv, AnswersAge
<1> QED
  BY <1>5, <1>6, <1>8, <1>9 DEF IInv

\* A pause, an entry and an answer grow older together.
LEMMA TickPreserves ==
  ASSUME ScopeGateAssumption, IInv, Tick
  PROVE  IInv'
<1>1. /\ UNCHANGED <<scope, changesLeft, blockHeight, letThrough>>
      /\ \A c \in Checkers : checker[c].at = "answered" => checker[c].delay < MaxDelay
      /\ pausedFor' = IF scope = "paused" /\ pausedFor < Long THEN pausedFor + 1 ELSE pausedFor
      /\ cached' = IF cached.age < Ttl THEN [cached EXCEPT !.age = cached.age + 1] ELSE cached
      /\ checker' = [c \in Checkers |-> IF checker[c].at = "answered"
                                        THEN [checker[c] EXCEPT !.delay = checker[c].delay + 1]
                                        ELSE checker[c]]
  BY DEF Tick
<1>2. /\ pausedFor' \in 0 .. Long /\ pausedFor' =< pausedFor + 1
      /\ pausedFor' > 0 => scope = "paused"
  BY <1>1, Types, Bounds DEF IInv, TypeOK
<1>3. EntryType' /\ EntryAges'
  <2>1. CASE cached.age < Ttl
    <3>1. /\ cached' \in [paused : BOOLEAN, age : 0 .. Ttl]
          /\ cached'.age = cached.age + 1 /\ cached'.paused = cached.paused
      BY <1>1, <2>1, Types, Bounds DEF IInv, EntryType
    <3>2. EntryAges'
      BY <1>2, <2>1, <3>1, Types, Bounds DEF IInv, EntryAges
    <3> QED
      BY <3>1, <3>2 DEF EntryType
  <2>2. CASE ~ (cached.age < Ttl)
    BY <1>1, <2>2 DEF IInv, EntryType, EntryAges
  <2> QED
    BY <2>1, <2>2
<1>4. ASSUME NEW c \in Checkers
      PROVE  /\ checker'[c] \in Checks
             /\ checker'[c].at # "answered" => checker'[c].delay = 0
             /\ (checker'[c].at = "answered" /\ ~checker'[c].paused)
                  => pausedFor' =< checker'[c].delay
  <2>1. checker[c] \in Checks
    BY Types
  <2>2. CASE checker[c].at = "answered"
    <3>1. /\ checker[c].delay + 1 \in 0 .. MaxDelay
          /\ ~checker[c].paused => pausedFor =< checker[c].delay
      BY <1>1, <2>1, <2>2, Bounds DEF Checks, IInv, AnswersAge
    <3>2. checker'[c] = [checker[c] EXCEPT !.delay = checker[c].delay + 1]
      BY <1>1, <2>2
    <3>3. /\ checker'[c] \in Checks /\ checker'[c].at = "answered"
          /\ checker'[c].paused = checker[c].paused
          /\ checker'[c].delay = checker[c].delay + 1
      BY <2>1, <2>2, <3>1, <3>2 DEF Checks
    <3>4. checker[c].delay \in 0 .. MaxDelay
      BY <2>1 DEF Checks
    <3> QED
      BY <1>2, <3>1, <3>3, <3>4, Types, Bounds
  <2>3. CASE checker[c].at # "answered"
    BY <1>1, <2>1, <2>3 DEF IInv, AnswersAge
  <2> QED
    BY <2>2, <2>3
<1>5. AnswersAge'
  BY <1>4 DEF AnswersAge
<1>6. checker' \in [Checkers -> Checks]
  BY <1>1, <1>4
<1>7. TypeOK' /\ PauseHolds'
  BY <1>1, <1>2, <1>3, <1>6 DEF IInv, TypeOK, EntryType, PauseHolds, Checks
<1> QED
  BY <1>3, <1>5, <1>7 DEF IInv

LEMMA NextPreserves ==
  ASSUME ScopeGateAssumption
  PROVE  IInv /\ [Next]_vars => IInv'
<1> SUFFICES ASSUME IInv, [Next]_vars PROVE IInv'
  OBVIOUS
<1>1. CASE (\E p \in BOOLEAN : SetPaused(p)) \/ Expire
  BY <1>1, ChangePreserves DEF SetPaused, Expire, Scopes
<1>2. CASE EndBlock \/ UNCHANGED vars
  <2>1. /\ UNCHANGED <<scope, pausedFor, changesLeft, cached, checker, letThrough>>
        /\ blockHeight' \in 0 .. MaxHeight
    BY <1>2, Bounds DEF EndBlock, vars, IInv, TypeOK
  <2> QED
    BY <2>1 DEF IInv, TypeOK, EntryType, AnswersAge, EntryAges, PauseHolds
<1> QED
  BY <1>1, <1>2, GetPreserves, AskPreserves, StorePreserves, TickPreserves DEF Next

\* The inductive invariant holds throughout (ScopeCache, executeSingleTransaction).
THEOREM ScopeGateInvariant ==
  ASSUME ScopeGateAssumption
  PROVE  Spec => []IInv
<1>1. Init => IInv
  BY InitInvariant
<1>2. IInv /\ [Next]_vars => IInv'
  BY NextPreserves
<1> QED
  BY <1>1, <1>2, PTL DEF Spec

\* The variables of the pause switch have their types.
THEOREM ScopeGateTypeOK ==
  ASSUME ScopeGateAssumption
  PROVE  Spec => []TypeOK
<1>1. IInv => TypeOK
  BY DEF IInv
<1> QED
  BY <1>1, ScopeGateInvariant, PTL

\* For any life of an entry and any delay of an answer, and however many fetches
\* are stored out of order, a contract is let through for less than both together
\* after it was paused (ScopeCache.Get, FetchFromDN).
THEOREM ScopeGatePauseHolds ==
  ASSUME ScopeGateAssumption
  PROVE  Spec => []PauseHolds
<1>1. IInv => PauseHolds
  BY DEF IInv
<1> QED
  BY <1>1, ScopeGateInvariant, PTL

----------------------------------------------------------------------------
(***************************************************************************)
(* The transaction events.                                                 *)
(***************************************************************************)
Monitors == [at : {"none", "waiting", "done"}, tx : Txs, ch : Nat, owns : BOOLEAN]

MapTypes ==
  /\ opens \in 0 .. MaxOpens
  /\ subscriptions \in [Txs -> 0 .. opens]
  /\ closed \subseteq 1 .. opens
  /\ monitor \in [TE!Calls -> Monitors]
  /\ buffer \in [TE!Calls -> Seq(TE!Events)]

LoopTypes ==
  /\ loopAt \in {"off", "top", "dialing", "attach", "select", "arm", "read", "deliver", "done"}
  /\ dials \in 0 .. MaxDials /\ conn \in 0 .. dials
  /\ reconnects \in 0 .. dials /\ (loopAt = "dialing" => reconnects < dials)
  /\ loopAt = "deliver" <=> target # <<>>

L0Types ==
  /\ writers \subseteq Txs \X (-1 .. MaxDials) /\ removers \subseteq Txs /\ wire \subseteq Txs
  /\ inbox \in Seq(TE!Events) /\ eventsLeft \in 0 .. MaxEvents
  /\ stopAt \in {"no", "channels", "connection", "waiting", "returned"}

Flags ==
  /\ resubscribe \in BOOLEAN /\ holds \in BOOLEAN /\ shutdown \in BOOLEAN
  /\ contextDone \in BOOLEAN /\ panicked \in BOOLEAN

EventTypes == MapTypes /\ LoopTypes /\ L0Types /\ Flags

\* A channel is that of the transaction its call is about, whoever has it.
Channel(ch, t) == ch \in 1 .. opens /\ monitor[ch].tx = t

OwnChannels ==
  /\ \A t \in TE!Subscribed : Channel(subscriptions[t], t)
  /\ \A c \in TE!Calls : monitor[c].ch # 0 => Channel(monitor[c].ch, monitor[c].tx)
  /\ \A c \in TE!Calls : /\ Len(buffer[c]) =< BufferSize
                         /\ \A i \in DOMAIN buffer[c] : Channel(c, buffer[c][i].tx)
  /\ target # <<>> =>
       /\ target = <<target[1], target[2]>> /\ target[2] \in TE!Events
       /\ Channel(target[1], target[2].tx)

\* What is subscribed is on the connection, or a goroutine will put it there which has
\* yet to read the connection, or has read this one.
Sending ==
  (conn # 0 /\ holds /\ ~resubscribe) =>
    \A t \in TE!Subscribed : t \in wire \/ <<t, -1>> \in writers \/ <<t, conn>> \in writers

EventInv ==
  /\ EventTypes /\ OwnChannels /\ Sending
  /\ \A t \in Txs : subscriptions[t] \notin closed

LEMMA EventBounds ==
  ASSUME TE!TxEventsAssumption
  PROVE  /\ MaxOpens \in Nat /\ MaxDials \in Nat /\ MaxEvents \in Nat /\ BufferSize \in Nat
         /\ MaxReconnects \in Nat /\ Txs # {}
BY DEF TE!TxEventsAssumption

LEMMA EventInit ==
  ASSUME TE!TxEventsAssumption, TE!Init
  PROVE  EventInv
<1>1. /\ opens = 0 /\ subscriptions = [t \in Txs |-> 0] /\ closed = {}
      /\ buffer = [c \in TE!Calls |-> <<>>] /\ monitor = [c \in TE!Calls |-> TE!Nobody]
      /\ loopAt = "off" /\ conn = 0 /\ dials = 0 /\ reconnects = 0 /\ target = <<>>
      /\ writers = {} /\ resubscribe = FALSE /\ removers = {} /\ wire = {} /\ inbox = <<>>
      /\ eventsLeft = MaxEvents /\ holds = FALSE
      /\ stopAt = "no" /\ shutdown = FALSE /\ contextDone = FALSE /\ panicked = FALSE
  BY DEF TE!Init
<1>2. TE!Nobody \in Monitors /\ TE!Nobody.ch = 0
  BY EventBounds DEF TE!Nobody, Monitors
<1>3. EventTypes
  <2>1. MapTypes
    BY <1>1, <1>2, EventBounds DEF MapTypes
  <2>2. LoopTypes
    BY <1>1, EventBounds DEF LoopTypes
  <2>3. L0Types
    BY <1>1, EventBounds DEF L0Types
  <2>4. Flags
    BY <1>1 DEF Flags
  <2> QED
    BY <2>1, <2>2, <2>3, <2>4 DEF EventTypes
<1>4. OwnChannels
  BY <1>1, <1>2, EventBounds DEF OwnChannels, TE!Subscribed
<1>5. Sending /\ \A t \in Txs : subscriptions[t] \notin closed
  BY <1>1 DEF Sending
<1> QED
  BY <1>3, <1>4, <1>5 DEF EventInv

\* Nothing is subscribed, delivered or read.
LEMMA ChannelsStay ==
  ASSUME EventInv, UNCHANGED <<subscriptions, buffer, closed, opens, monitor, target>>
  PROVE  MapTypes' /\ OwnChannels' /\ \A t \in Txs : subscriptions'[t] \notin closed'
<1>1. MapTypes'
  BY DEF EventInv, EventTypes, MapTypes, TE!Calls, TE!Events
<1>2. OwnChannels'
  BY DEF EventInv, OwnChannels, Channel, TE!Subscribed, TE!Calls, TE!Events
<1> QED
  BY <1>1, <1>2 DEF EventInv

LEMMA SubscribePreserves ==
  ASSUME TE!TxEventsAssumption, EventInv, NEW t \in Txs, TE!SubscribeTx(t)
  PROVE  EventInv'
<1>1. PICK c : c = opens + 1
  OBVIOUS
<1>2. /\ opens < MaxOpens /\ opens' = c
      /\ UNCHANGED <<buffer, closed, loopAt, conn, dials, reconnects, target, resubscribe,
                     removers, wire, inbox, eventsLeft, holds, stopAt, shutdown, contextDone,
                     panicked>>
  BY <1>1 DEF TE!SubscribeTx, TE!connVars, TE!l0Vars, TE!endVars
<1>3. c \in TE!Calls /\ c \in 1 .. opens' /\ opens \in Nat /\ opens' \in 0 .. MaxOpens
      /\ 0 .. opens \subseteq 0 .. opens' /\ 1 .. opens \subseteq 1 .. opens'
      /\ c \notin 0 .. opens
  BY <1>1, <1>2, EventBounds DEF EventInv, EventTypes, MapTypes, LoopTypes, L0Types, Flags, TE!Calls
<1>4. \A k, u : Channel(k, u) => k # c /\ k \in 1 .. opens' /\ k \in TE!Calls
  BY <1>3, EventBounds DEF Channel, EventInv, EventTypes, MapTypes, LoopTypes, L0Types, Flags, TE!Calls
<1>5. CASE subscriptions[t] # 0
  <2>1. /\ monitor' = [monitor EXCEPT ![c] =
              [at |-> "waiting", tx |-> t, ch |-> subscriptions[t], owns |-> FALSE]]
        /\ UNCHANGED <<subscriptions, writers>>
    BY <1>1, <1>5 DEF TE!SubscribeTx
  <2>2. Channel(subscriptions[t], t)
    BY <1>5 DEF EventInv, OwnChannels, TE!Subscribed
  <2>3. \A k, u : Channel(k, u) => Channel(k, u)'
    BY <1>4, <2>1 DEF Channel, EventInv, EventTypes, MapTypes, LoopTypes, L0Types, Flags
  <2>4. EventTypes'
    <3>1. MapTypes'
      <4>1. [at |-> "waiting", tx |-> t, ch |-> subscriptions[t], owns |-> FALSE] \in Monitors
        BY <1>3 DEF EventInv, EventTypes, MapTypes, Monitors
      <4> QED
        BY <1>2, <1>3, <2>1, <4>1 DEF EventInv, EventTypes, MapTypes, TE!Calls, TE!Events
    <3>2. LoopTypes' /\ L0Types' /\ Flags'
      BY <1>2, <2>1 DEF EventInv, EventTypes, LoopTypes, L0Types, Flags, TE!Events
    <3> QED
      BY <3>1, <3>2 DEF EventTypes
  <2>5. OwnChannels'
    <3>1. \A u \in TE!Subscribed' : Channel(subscriptions[u], u)'
      BY <2>1, <2>3 DEF EventInv, OwnChannels, TE!Subscribed
    <3>2. \A d \in TE!Calls : (monitor[d].ch # 0)' => Channel(monitor[d].ch, monitor[d].tx)'
      BY <1>3, <2>1, <2>2, <2>3 DEF EventInv, EventTypes, MapTypes, LoopTypes, L0Types, Flags, OwnChannels
    <3>3. \A d \in TE!Calls : /\ (Len(buffer[d]) =< BufferSize)'
                              /\ \A i \in DOMAIN buffer'[d] : Channel(d, buffer[d][i].tx)'
      BY <1>2, <2>3 DEF EventInv, OwnChannels
    <3>4. target' # <<>> =>
            /\ target' = <<target'[1], target'[2]>> /\ target'[2] \in TE!Events
            /\ Channel(target[1], target[2].tx)'
      BY <1>2, <2>3 DEF EventInv, OwnChannels
    <3> QED
      BY <3>1, <3>2, <3>3, <3>4 DEF OwnChannels, TE!Calls, TE!Events
  <2>6. Sending' /\ \A u \in Txs : subscriptions'[u] \notin closed'
    BY <1>2, <2>1 DEF EventInv, Sending, TE!Subscribed
  <2> QED
    BY <2>4, <2>5, <2>6 DEF EventInv
<1>6. CASE subscriptions[t] = 0
  <2>1. \E new \in BOOLEAN :
          /\ monitor' = [monitor EXCEPT ![c] = [at |-> "waiting", tx |-> t,
                                                ch |-> IF new THEN c ELSE 0, owns |-> new]]
          /\ subscriptions' = IF new THEN [subscriptions EXCEPT ![t] = c] ELSE subscriptions
          /\ writers' = IF new /\ TE!Connected THEN writers \cup {<<t, -1>>} ELSE writers
    <3> DEFINE New == TE!Cardinality(TE!Subscribed) < MaxSubscriptions
    <3>1. New \in BOOLEAN
      OBVIOUS
    <3> WITNESS New \in BOOLEAN
    <3> QED
      BY <1>1, <1>6 DEF TE!SubscribeTx
  <2>2. PICK new \in BOOLEAN :
          /\ monitor' = [monitor EXCEPT ![c] = [at |-> "waiting", tx |-> t,
                                                ch |-> IF new THEN c ELSE 0, owns |-> new]]
          /\ subscriptions' = IF new THEN [subscriptions EXCEPT ![t] = c] ELSE subscriptions
          /\ writers' = IF new /\ TE!Connected THEN writers \cup {<<t, -1>>} ELSE writers
    BY <2>1
  <2>3. (IF new THEN c ELSE 0) \in Nat
    BY <1>3
  <2>4. \A k, u : Channel(k, u) => Channel(k, u)'
    BY <1>4, <2>2 DEF Channel, EventInv, EventTypes, MapTypes
  <2>5. Channel(c, t)'
    BY <1>3, <2>2 DEF Channel, EventInv, EventTypes, MapTypes
  <2>6. /\ subscriptions' \in [Txs -> 0 .. opens'] /\ monitor' \in [TE!Calls -> Monitors]
        /\ writers' \subseteq Txs \X (-1 .. MaxDials)
    <3>1. subscriptions' \in [Txs -> 0 .. opens']
      BY <1>3, <2>2 DEF EventInv, EventTypes, MapTypes
    <3>2. monitor' \in [TE!Calls -> Monitors]
      <4>1. [at |-> "waiting", tx |-> t, ch |-> IF new THEN c ELSE 0, owns |-> new] \in Monitors
        BY <2>3 DEF Monitors
      <4> QED
        BY <2>2, <4>1 DEF EventInv, EventTypes, MapTypes
    <3>3. writers' \subseteq Txs \X (-1 .. MaxDials)
      BY <2>2, EventBounds DEF EventInv, EventTypes, LoopTypes, L0Types, Flags, TE!Connected
    <3> QED
      BY <3>1, <3>2, <3>3
  <2>7. EventTypes'
    BY <1>2, <1>3, <2>6 DEF EventInv, EventTypes, MapTypes, LoopTypes, L0Types, Flags
  <2>8. OwnChannels'
    <3>1. \A u \in TE!Subscribed' : Channel(subscriptions[u], u)'
      BY <2>2, <2>4, <2>5 DEF EventInv, EventTypes, MapTypes, OwnChannels, TE!Subscribed
    <3>2. \A d \in TE!Calls : (monitor[d].ch # 0)' => Channel(monitor[d].ch, monitor[d].tx)'
      BY <1>3, <2>2, <2>4, <2>5 DEF EventInv, EventTypes, MapTypes, OwnChannels
    <3>3. \A d \in TE!Calls : /\ (Len(buffer[d]) =< BufferSize)'
                              /\ \A i \in DOMAIN buffer'[d] : Channel(d, buffer[d][i].tx)'
      BY <1>2, <2>4 DEF EventInv, OwnChannels
    <3>4. target' # <<>> =>
            /\ target' = <<target'[1], target'[2]>> /\ target'[2] \in TE!Events
            /\ Channel(target[1], target[2].tx)'
      BY <1>2, <2>4 DEF EventInv, OwnChannels
    <3> QED
      BY <3>1, <3>2, <3>3, <3>4 DEF OwnChannels, TE!Calls, TE!Events
  <2>9. Sending'
    BY <1>2, <2>2 DEF EventInv, EventTypes, MapTypes, Sending, TE!Subscribed, TE!Connected
  <2>10. \A u \in Txs : subscriptions'[u] \notin closed'
    BY <1>2, <1>3, <2>2 DEF EventInv, EventTypes, MapTypes
  <2> QED
    BY <2>7, <2>8, <2>9, <2>10 DEF EventInv
<1> QED
  BY <1>5, <1>6

\* A subscription goes, if there is one; a monitor may end with it.
LEMMA UnsubscribePreserves ==
  ASSUME TE!TxEventsAssumption, EventInv, NEW t,
         TE!UnsubscribeTx(t) \/ UNCHANGED <<subscriptions, closed, wire>>, t \in Txs,
         monitor' \in [TE!Calls -> Monitors],
         \A c \in TE!Calls : monitor'[c].tx = monitor[c].tx /\ monitor'[c].ch = monitor[c].ch,
         buffer' \in [TE!Calls -> Seq(TE!Events)],
         \A c \in TE!Calls : /\ Len(buffer'[c]) =< BufferSize
                             /\ \A i \in DOMAIN buffer'[c] : \E j \in DOMAIN buffer[c] :
                                  buffer'[c][i].tx = buffer[c][j].tx,
         removers' \subseteq removers,
         UNCHANGED <<opens, loopAt, conn, dials, reconnects, target, writers, resubscribe, inbox,
                     eventsLeft, holds, stopAt, shutdown, contextDone, panicked>>
  PROVE  EventInv'
<1>1. /\ subscriptions' \in [Txs -> 0 .. opens] /\ closed' \subseteq 1 .. opens /\ wire' \subseteq Txs
      /\ TE!Subscribed' \subseteq TE!Subscribed
      /\ \A u \in TE!Subscribed' : subscriptions'[u] = subscriptions[u] /\ (u \in wire => u \in wire')
      /\ \A u \in Txs : subscriptions'[u] \notin closed'
  <2>1. CASE UNCHANGED <<subscriptions, closed, wire>> \/ subscriptions[t] = 0
    BY <2>1 DEF TE!UnsubscribeTx, EventInv, EventTypes, MapTypes, LoopTypes, L0Types, Flags, TE!Subscribed
  <2>2. CASE TE!UnsubscribeTx(t) /\ subscriptions[t] # 0
    <3>1. /\ closed' = closed \cup {subscriptions[t]} /\ subscriptions' = [subscriptions EXCEPT ![t] = 0]
          /\ wire' = IF TE!Connected THEN wire \ {t} ELSE wire
      BY <2>2 DEF TE!UnsubscribeTx
    <3>2. subscriptions[t] \in 1 .. opens /\ opens \in Nat /\ 0 \in 0 .. opens
      BY <2>2 DEF EventInv, EventTypes, MapTypes, LoopTypes, L0Types, Flags
    <3>3. \A u \in TE!Subscribed : subscriptions[u] = subscriptions[t] => u = t
      BY <2>2 DEF EventInv, OwnChannels, Channel, TE!Subscribed
    <3>4. \A u \in Txs : subscriptions'[u] \notin closed'
      <4> SUFFICES ASSUME NEW u \in Txs PROVE subscriptions'[u] \notin closed'
        OBVIOUS
      <4>1. CASE u = t \/ subscriptions[u] = 0
        BY <3>1, <3>2, <4>1 DEF EventInv, EventTypes, MapTypes, LoopTypes, L0Types, Flags
      <4>2. CASE u # t /\ subscriptions[u] # 0
        BY <3>1, <3>3, <4>2 DEF EventInv, EventTypes, MapTypes, LoopTypes, L0Types, Flags, TE!Subscribed
      <4> QED
        BY <4>1, <4>2
    <3>5. /\ subscriptions' \in [Txs -> 0 .. opens] /\ closed' \subseteq 1 .. opens /\ wire' \subseteq Txs
      BY <3>1, <3>2 DEF EventInv, EventTypes, MapTypes, LoopTypes, L0Types, Flags
    <3>6. /\ TE!Subscribed' \subseteq TE!Subscribed
          /\ \A u \in TE!Subscribed' : subscriptions'[u] = subscriptions[u] /\ (u \in wire => u \in wire')
      BY <3>1 DEF EventInv, EventTypes, MapTypes, LoopTypes, L0Types, Flags, TE!Subscribed
    <3> QED
      BY <3>4, <3>5, <3>6
  <2> QED
    BY <2>1, <2>2
<1>2. EventTypes'
  BY <1>1 DEF EventInv, EventTypes, MapTypes, LoopTypes, L0Types, Flags
<1>3. OwnChannels'
  <2>1. \A k \in TE!Calls : \A u : Channel(k, u) => Channel(k, u)'
    BY DEF Channel
  <2>2. \A k, u : Channel(k, u) => k \in TE!Calls
    BY EventBounds DEF Channel, EventInv, EventTypes, MapTypes, LoopTypes, L0Types, Flags, TE!Calls
  <2>3. \A u \in TE!Subscribed' : Channel(subscriptions[u], u)'
    BY <1>1, <2>1, <2>2 DEF EventInv, OwnChannels
  <2>4. \A d \in TE!Calls : (monitor[d].ch # 0)' => Channel(monitor[d].ch, monitor[d].tx)'
    BY <2>1, <2>2 DEF EventInv, OwnChannels
  <2>5. \A d \in TE!Calls : /\ (Len(buffer[d]) =< BufferSize)'
                            /\ \A i \in DOMAIN buffer'[d] : Channel(d, buffer[d][i].tx)'
    BY <2>1, <2>2 DEF EventInv, OwnChannels
  <2>6. target' # <<>> =>
          /\ target' = <<target'[1], target'[2]>> /\ target'[2] \in TE!Events
          /\ Channel(target[1], target[2].tx)'
    BY <2>1, <2>2 DEF EventInv, OwnChannels
  <2> QED
    BY <2>3, <2>4, <2>5, <2>6 DEF OwnChannels, TE!Calls, TE!Events
<1>4. Sending'
  BY <1>1 DEF EventInv, Sending
<1> QED
  BY <1>1, <1>2, <1>3, <1>4 DEF EventInv

LEMMA MonitorPreserves ==
  ASSUME TE!TxEventsAssumption, EventInv, NEW c \in TE!Calls, TE!MonitorStep(c)
  PROVE  EventInv'
<1>1. monitor \in [TE!Calls -> Monitors] /\ buffer \in [TE!Calls -> Seq(TE!Events)]
  BY DEF EventInv, EventTypes, MapTypes, LoopTypes, L0Types, Flags
<1>2. monitor[c].tx \in Txs
  BY <1>1 DEF Monitors
<1>3. ASSUME TE!Finish(c)
      PROVE  /\ TE!UnsubscribeTx(monitor[c].tx) \/ UNCHANGED <<subscriptions, closed, wire>>
             /\ monitor' \in [TE!Calls -> Monitors]
             /\ \A d \in TE!Calls : monitor'[d].tx = monitor[d].tx /\ monitor'[d].ch = monitor[d].ch
  <2>1. monitor' = [monitor EXCEPT ![c].at = "done"]
    BY <1>3 DEF TE!Finish
  <2>2. TE!UnsubscribeTx(monitor[c].tx) \/ UNCHANGED <<subscriptions, closed, wire>>
    BY <1>3 DEF TE!Finish
  <2> QED
    BY <1>1, <2>1, <2>2 DEF Monitors
<1>4. \A d \in TE!Calls : /\ Len(buffer[d]) =< BufferSize
                          /\ \A i \in DOMAIN buffer[d] : \E j \in DOMAIN buffer[d] :
                               buffer[d][i].tx = buffer[d][j].tx
  BY DEF EventInv, OwnChannels
<1>5. CASE TE!MonitorReads(c)
  <2> DEFINE ch == monitor[c].ch
  <2>1. /\ ch # 0 /\ buffer[ch] # <<>> /\ buffer' = [buffer EXCEPT ![ch] = Tail(@)]
        /\ UNCHANGED <<opens, loopAt, conn, dials, reconnects, target, writers, resubscribe,
                       removers, inbox, eventsLeft, holds, stopAt, shutdown, contextDone, panicked>>
        /\ TE!Finish(c) \/ UNCHANGED <<monitor, subscriptions, closed, wire>>
    BY <1>5 DEF TE!MonitorReads, TE!connVars, TE!goVars, TE!endVars
  <2>2. ch \in TE!Calls
    BY <2>1, EventBounds DEF EventInv, EventTypes, MapTypes, LoopTypes, L0Types, Flags, OwnChannels, Channel, TE!Calls
  <2>3. \A d \in TE!Calls : buffer'[d] = IF d = ch THEN Tail(buffer[d]) ELSE buffer[d]
    BY <1>1, <2>1
  <2>4. /\ buffer[ch] \in Seq(TE!Events) /\ Tail(buffer[ch]) \in Seq(TE!Events)
        /\ Len(Tail(buffer[ch])) = Len(buffer[ch]) - 1
        /\ \A i \in DOMAIN Tail(buffer[ch]) :
             i + 1 \in DOMAIN buffer[ch] /\ Tail(buffer[ch])[i] = buffer[ch][i + 1]
    BY <1>1, <2>1, <2>2
  <2>5. buffer' \in [TE!Calls -> Seq(TE!Events)]
    BY <1>1, <2>1, <2>4
  <2>6. Len(Tail(buffer[ch])) =< BufferSize
    BY <1>4, <2>2, <2>4, EventBounds
  <2>7. \A i \in DOMAIN Tail(buffer[ch]) : \E j \in DOMAIN buffer[ch] :
          Tail(buffer[ch])[i].tx = buffer[ch][j].tx
    BY <2>4
  <2>8. \A d \in TE!Calls : /\ Len(buffer'[d]) =< BufferSize
                            /\ \A i \in DOMAIN buffer'[d] : \E j \in DOMAIN buffer[d] :
                                 buffer'[d][i].tx = buffer[d][j].tx
    <3> TAKE d \in TE!Calls
    <3>1. CASE d = ch
      <4>1. buffer'[d] = Tail(buffer[ch])
        BY <2>3, <3>1
      <4> QED
        BY <2>6, <2>7, <3>1, <4>1
    <3>2. CASE d # ch
      <4>1. buffer'[d] = buffer[d]
        BY <2>3, <3>2
      <4> QED
        BY <1>4, <4>1
    <3> QED
      BY <3>1, <3>2
  <2>9. CASE TE!Finish(c)
    BY <1>2, <1>3, <2>1, <2>5, <2>8, <2>9, UnsubscribePreserves
  <2>10. CASE UNCHANGED <<monitor, subscriptions, closed, wire>>
    BY <1>1, <1>2, <2>1, <2>5, <2>8, <2>10, UnsubscribePreserves
  <2> QED
    BY <2>1, <2>9, <2>10
<1>6. CASE TE!MonitorTimesOut(c)
  <2>1. /\ TE!Finish(c)
        /\ UNCHANGED <<buffer, opens, loopAt, conn, dials, reconnects, target, writers, resubscribe,
                       removers, inbox, eventsLeft, holds, stopAt, shutdown, contextDone, panicked>>
    BY <1>6 DEF TE!MonitorTimesOut, TE!connVars, TE!goVars, TE!endVars
  <2>2. UNCHANGED buffer
    BY <2>1
  <2> QED
    BY <1>1, <1>2, <1>3, <1>4, <2>1, <2>2, UnsubscribePreserves
<1> QED
  BY <1>5, <1>6 DEF TE!MonitorStep

LEMMA GoroutinePreserves ==
  ASSUME TE!TxEventsAssumption, EventInv, TE!GoroutineStep
  PROVE  EventInv'
<1>1. CASE TE!ResubscribeAll
  <2>1. /\ resubscribe' = FALSE /\ writers' = writers \cup (TE!Subscribed \X {-1})
        /\ UNCHANGED <<subscriptions, buffer, closed, opens, monitor, loopAt, conn, dials,
                       reconnects, target, removers, wire, inbox, eventsLeft, holds, stopAt,
                       shutdown, contextDone, panicked>>
    BY <1>1 DEF TE!ResubscribeAll, TE!mapVars, TE!connVars, TE!l0Vars, TE!endVars
  <2>2. writers' \subseteq Txs \X (-1 .. MaxDials)
    BY <2>1, EventBounds DEF EventInv, EventTypes, MapTypes, LoopTypes, L0Types, Flags, TE!Subscribed
  <2>3. LoopTypes' /\ L0Types' /\ Flags'
    BY <2>1, <2>2 DEF EventInv, EventTypes, LoopTypes, L0Types, Flags, TE!Calls, TE!Events
  <2>4. Sending'
    BY <2>1 DEF Sending, TE!Subscribed
  <2> QED
    BY <2>1, <2>3, <2>4, ChannelsStay DEF EventInv, EventTypes
<1>2. CASE \E w \in writers : TE!WriterReads(w) \/ TE!WriterWrites(w)
  <2>1. PICK w \in writers : TE!WriterReads(w) \/ TE!WriterWrites(w)
    BY <1>2
  <2>2. w = <<w[1], w[2]>> /\ w[1] \in Txs /\ w[2] \in -1 .. MaxDials /\ conn \in 0 .. MaxDials
    BY EventBounds DEF EventInv, EventTypes, MapTypes, LoopTypes, L0Types, Flags
  <2>3. CASE TE!WriterReads(w)
    <3>1. /\ w[2] = -1
          /\ writers' = (writers \ {w}) \cup (IF TE!Connected THEN {<<w[1], conn>>} ELSE {})
          /\ UNCHANGED <<subscriptions, buffer, closed, opens, monitor, loopAt, conn, dials,
                         reconnects, target, resubscribe, removers, wire, inbox, eventsLeft,
                         holds, stopAt, shutdown, contextDone, panicked>>
      BY <2>3 DEF TE!WriterReads, TE!mapVars, TE!connVars, TE!l0Vars, TE!endVars
    <3>2. writers' \subseteq Txs \X (-1 .. MaxDials)
      BY <2>2, <3>1, EventBounds DEF EventInv, EventTypes, MapTypes, LoopTypes, L0Types, Flags
    <3>3. LoopTypes' /\ L0Types' /\ Flags'
      BY <3>1, <3>2 DEF EventInv, EventTypes, LoopTypes, L0Types, Flags, TE!Calls, TE!Events
    <3>4. Sending'
      <4>1. \A t : <<t, -1>> \in writers /\ conn # 0 => <<t, -1>> \in writers' \/ <<t, conn>> \in writers'
        BY <2>2, <3>1 DEF TE!Connected
      <4>2. \A t : <<t, conn>> \in writers /\ conn # -1 => <<t, conn>> \in writers'
        BY <2>2, <3>1
      <4> QED
        BY <2>2, <3>1, <4>1, <4>2 DEF EventInv, Sending, TE!Subscribed
    <3> QED
      BY <3>1, <3>3, <3>4, ChannelsStay DEF EventInv, EventTypes
  <2>4. CASE TE!WriterWrites(w)
    <3>1. /\ w[2] # -1 /\ writers' = writers \ {w}
          /\ wire' = IF w[2] = conn /\ holds THEN wire \cup {w[1]} ELSE wire
          /\ UNCHANGED <<subscriptions, buffer, closed, opens, monitor, loopAt, conn, dials,
                         reconnects, target, resubscribe, removers, inbox, eventsLeft, holds,
                         stopAt, shutdown, contextDone, panicked>>
      BY <2>4 DEF TE!WriterWrites, TE!mapVars, TE!connVars, TE!endVars
    <3>2. LoopTypes' /\ L0Types' /\ Flags'
      BY <2>2, <3>1 DEF EventInv, EventTypes, LoopTypes, L0Types, Flags, TE!Calls, TE!Events
    <3>3. Sending'
      <4>1. \A t : <<t, -1>> \in writers => <<t, -1>> \in writers'
        BY <2>2, <3>1
      <4>2. \A t : <<t, conn>> \in writers /\ holds => <<t, conn>> \in writers' \/ t \in wire'
        BY <2>2, <3>1
      <4> QED
        BY <3>1, <4>1, <4>2 DEF EventInv, Sending, TE!Subscribed
    <3> QED
      BY <3>1, <3>2, <3>3, ChannelsStay DEF EventInv, EventTypes
  <2> QED
    BY <2>1, <2>3, <2>4
<1>3. CASE \E t \in Txs : TE!Remove(t)
  <2>1. PICK t \in Txs : TE!Remove(t)
    BY <1>3
  <2>2. /\ TE!UnsubscribeTx(t) /\ removers' \subseteq removers
        /\ UNCHANGED <<buffer, opens, monitor, loopAt, conn, dials, reconnects, target, writers,
                       resubscribe, inbox, eventsLeft, holds, stopAt, shutdown, contextDone, panicked>>
    BY <2>1 DEF TE!Remove, TE!connVars, TE!endVars
  <2>3. /\ monitor' = monitor /\ monitor \in [TE!Calls -> Monitors]
        /\ buffer' = buffer /\ buffer \in [TE!Calls -> Seq(TE!Events)]
        /\ \A d \in TE!Calls : /\ Len(buffer[d]) =< BufferSize
                               /\ \A i \in DOMAIN buffer[d] : \E j \in DOMAIN buffer[d] :
                                    buffer[d][i].tx = buffer[d][j].tx
    BY <2>2 DEF EventInv, EventTypes, MapTypes, LoopTypes, L0Types, Flags, OwnChannels
  <2> QED
    BY <2>2, <2>3, UnsubscribePreserves
<1> QED
  BY <1>1, <1>2, <1>3 DEF TE!GoroutineStep

\* handleConnection has returned, or Stop has closed the connection.
LEMMA DisconnectPreserves ==
  ASSUME TE!TxEventsAssumption, EventInv,
         conn' = 0, wire' = {}, inbox' = <<>>, holds' = FALSE,
         loopAt' = loopAt \/ (loopAt' = "top" /\ loopAt \notin {"dialing", "deliver"}),
         stopAt' = stopAt \/ stopAt' = "waiting",
         UNCHANGED <<subscriptions, buffer, closed, opens, monitor, dials, reconnects, target,
                     writers, resubscribe, removers, eventsLeft, shutdown, contextDone, panicked>>
  PROVE  EventInv'
<1>1. LoopTypes' /\ L0Types' /\ Flags'
  <2>1. LoopTypes'
    BY DEF EventInv, EventTypes, LoopTypes
  <2>2. L0Types'
    BY DEF EventInv, EventTypes, L0Types, TE!Events
  <2>3. Flags'
    BY DEF EventInv, EventTypes, Flags
  <2> QED
    BY <2>1, <2>2, <2>3
<1>2. Sending'
  BY DEF Sending
<1> QED
  BY <1>1, <1>2, ChannelsStay DEF EventInv, EventTypes

LEMMA LoopPreserves ==
  ASSUME TE!TxEventsAssumption, EventInv,
         TE!Start \/ TE!LoopExits \/ TE!Dial \/ TE!DialFails \/ TE!Connect \/ TE!Attach \/ TE!Select
           \/ TE!Arm \/ TE!ReadFails
  PROVE  EventInv'
<1>1. CASE TE!Start \/ TE!LoopExits \/ TE!Dial \/ TE!DialFails \/ TE!Attach \/ TE!Arm
  <2>1. /\ loopAt' # "deliver" /\ loopAt # "deliver"
        /\ UNCHANGED <<subscriptions, buffer, closed, opens, monitor, conn, target, writers,
                       resubscribe, removers, wire, inbox, eventsLeft, holds, stopAt, shutdown,
                       contextDone>>
    BY <1>1 DEF TE!Start, TE!LoopExits, TE!Dial, TE!DialFails, TE!Attach, TE!Arm, TE!mapVars,
                TE!connVars, TE!goVars, TE!l0Vars, TE!endVars
  <2>2. /\ loopAt' \in {"top", "done", "dialing", "attach", "select", "arm", "read"}
        /\ panicked' \in BOOLEAN
        /\ dials' \in 0 .. MaxDials /\ dials =< dials'
        /\ reconnects' \in 0 .. dials' /\ (loopAt' = "dialing" => reconnects' < dials')
    <3>1. CASE TE!Start \/ TE!LoopExits \/ TE!Attach \/ TE!Arm
      <4>1. /\ UNCHANGED <<dials, reconnects>> /\ (panicked' = panicked \/ panicked' = TRUE)
            /\ loopAt' \in {"top", "done", "attach", "select", "arm", "read"}
        BY <3>1 DEF TE!Start, TE!LoopExits, TE!Attach, TE!Arm, TE!connVars
      <4>2. panicked' \in BOOLEAN
        BY <4>1 DEF EventInv, EventTypes, Flags
      <4>3. loopAt' \in {"top", "done", "dialing", "attach", "select", "arm", "read"} /\ loopAt' # "dialing"
        BY <4>1
      <4> QED
        BY <4>1, <4>2, <4>3 DEF EventInv, EventTypes, LoopTypes
    <3>2. CASE TE!Dial
      BY <3>2, EventBounds DEF TE!Dial, EventInv, EventTypes, MapTypes, LoopTypes, L0Types, Flags
    <3>3. CASE TE!DialFails
      <4>1. /\ loopAt = "dialing" /\ loopAt' \in {"done", "top"} /\ UNCHANGED <<dials, panicked>>
            /\ reconnects' \in {reconnects + 1, 0}
        BY <3>3 DEF TE!DialFails
      <4> QED
        BY <4>1 DEF EventInv, EventTypes, MapTypes, LoopTypes, L0Types, Flags
    <3> QED
      BY <1>1, <3>1, <3>2, <3>3
  <2>3. LoopTypes' /\ L0Types' /\ Flags'
    BY <2>1, <2>2, EventBounds DEF EventInv, EventTypes, LoopTypes, L0Types, Flags, TE!Calls, TE!Events
  <2>4. Sending'
    BY <2>1 DEF EventInv, Sending, TE!Subscribed
  <2> QED
    BY <2>1, <2>3, <2>4, ChannelsStay DEF EventInv, EventTypes
<1>2. CASE TE!Connect
  <2>1. /\ loopAt = "dialing" /\ conn' = dials /\ wire' = {} /\ inbox' = <<>> /\ holds' = TRUE
        /\ resubscribe' = TRUE /\ reconnects' = 0 /\ loopAt' = "attach"
        /\ UNCHANGED <<subscriptions, buffer, closed, opens, monitor, dials, target, writers,
                       removers, eventsLeft, stopAt, shutdown, contextDone, panicked>>
    BY <1>2 DEF TE!Connect, TE!mapVars, TE!endVars
  <2>2. LoopTypes' /\ L0Types' /\ Flags'
    BY <2>1, EventBounds DEF EventInv, EventTypes, LoopTypes, L0Types, Flags, TE!Calls, TE!Events
  <2>3. Sending'
    BY <2>1 DEF Sending
  <2> QED
    BY <2>1, <2>2, <2>3, ChannelsStay DEF EventInv, EventTypes
<1>3. CASE TE!Select \/ TE!ReadFails
  <2>1. CASE TE!Disconnect
    <3>1. /\ loopAt \in {"select", "read"}
          /\ UNCHANGED <<subscriptions, buffer, closed, opens, monitor, dials, reconnects, target,
                         writers, resubscribe, removers, eventsLeft, stopAt, shutdown, contextDone,
                         panicked>>
      BY <1>3 DEF TE!Select, TE!ReadFails, TE!mapVars, TE!goVars, TE!endVars
    <3> QED
      BY <2>1, <3>1, DisconnectPreserves DEF TE!Disconnect
  <2>2. CASE ~TE!Disconnect
    <3>1. /\ loopAt = "select" /\ loopAt' = "arm"
          /\ UNCHANGED <<subscriptions, buffer, closed, opens, monitor, conn, dials, reconnects,
                         target, writers, resubscribe, removers, wire, inbox, eventsLeft, holds,
                         stopAt, shutdown, contextDone, panicked>>
      BY <1>3, <2>2 DEF TE!Select, TE!ReadFails, TE!mapVars, TE!goVars, TE!endVars
    <3>2. LoopTypes' /\ L0Types' /\ Flags' /\ Sending'
      BY <3>1 DEF EventInv, EventTypes, LoopTypes, L0Types, Flags, Sending, TE!Calls, TE!Events, TE!Subscribed
    <3> QED
      BY <3>1, <3>2, ChannelsStay DEF EventInv, EventTypes
  <2> QED
    BY <2>1, <2>2
<1> QED
  BY <1>1, <1>2, <1>3

LEMMA ReceivePreserves ==
  ASSUME TE!TxEventsAssumption, EventInv, TE!ReceiveEvent
  PROVE  EventInv'
<1> DEFINE e == Head(inbox)
<1>1. /\ loopAt = "read" /\ inbox # <<>> /\ inbox' = Tail(inbox)
      /\ IF subscriptions[e.tx] = 0 THEN loopAt' = "select" /\ UNCHANGED target
         ELSE loopAt' = "deliver" /\ target' = <<subscriptions[e.tx], e>>
      /\ UNCHANGED <<subscriptions, buffer, closed, opens, monitor, conn, dials, reconnects,
                     writers, resubscribe, removers, wire, eventsLeft, holds, stopAt, shutdown,
                     contextDone, panicked>>
  BY DEF TE!ReceiveEvent, TE!mapVars, TE!connVars, TE!goVars, TE!endVars
<1>2. e \in TE!Events /\ inbox' \in Seq(TE!Events) /\ e.tx \in Txs
  <2>1. inbox \in Seq(TE!Events)
    BY DEF EventInv, EventTypes, L0Types, Flags
  <2>2. e \in TE!Events /\ inbox' \in Seq(TE!Events)
    BY <1>1, <2>1
  <2> QED
    BY <2>2 DEF TE!Events
<1>3. LoopTypes' /\ L0Types' /\ Flags'
  <2>1. L0Types' /\ Flags'
    BY <1>1, <1>2 DEF EventInv, EventTypes, L0Types, Flags, TE!Events
  <2>2. <<subscriptions[e.tx], e>> # <<>>
    OBVIOUS
  <2>3. (loopAt' = "select" /\ target' = <<>>) \/ (loopAt' = "deliver" /\ target' # <<>>)
    BY <1>1, <2>2 DEF EventInv, EventTypes, LoopTypes
  <2>4. LoopTypes'
    BY <1>1, <2>3 DEF EventInv, EventTypes, LoopTypes
  <2> QED
    BY <2>1, <2>4
<1>4. OwnChannels'
  <2>1. CASE subscriptions[e.tx] = 0
    BY <1>1, <2>1, ChannelsStay DEF EventInv, EventTypes
  <2>2. CASE subscriptions[e.tx] # 0
    <3>1. Channel(subscriptions[e.tx], e.tx)
      BY <1>2, <2>2 DEF EventInv, OwnChannels, TE!Subscribed
    <3>2. target' = <<subscriptions[e.tx], e>>
      BY <1>1, <2>2
    <3> QED
      BY <1>1, <1>2, <3>1, <3>2 DEF EventInv, OwnChannels, Channel, TE!Subscribed, TE!Calls, TE!Events
  <2> QED
    BY <2>1, <2>2
<1>5. Sending'
  BY <1>1 DEF EventInv, Sending, TE!Subscribed
<1>6. MapTypes' /\ \A t \in Txs : subscriptions'[t] \notin closed'
  BY <1>1 DEF EventInv, EventTypes, MapTypes, TE!Calls, TE!Events
<1> QED
  BY <1>3, <1>4, <1>5, <1>6 DEF EventInv, EventTypes

LEMMA DeliverPreserves ==
  ASSUME TE!TxEventsAssumption, EventInv, TE!DeliverStatus
  PROVE  EventInv'
<1> DEFINE ch == target[1]
           e == target[2]
<1>1. /\ loopAt = "deliver"
      /\ UNCHANGED <<subscriptions, closed, opens, monitor, conn, dials, reconnects, writers,
                     resubscribe, wire, inbox, eventsLeft, holds, stopAt, shutdown, contextDone>>
  BY DEF TE!DeliverStatus, TE!connVars, TE!l0Vars, TE!endVars
<1>2. e \in TE!Events /\ Channel(ch, e.tx) /\ ch \in TE!Calls /\ e.tx \in Txs
  BY <1>1, EventBounds DEF EventInv, EventTypes, MapTypes, LoopTypes, L0Types, Flags, OwnChannels, Channel, TE!Calls, TE!Events
<1>3. Sending'
  BY <1>1 DEF EventInv, Sending, TE!Subscribed
<1>4. CASE ch \in closed
  <2>1. panicked' = TRUE /\ UNCHANGED <<buffer, removers, loopAt, target>>
    BY <1>4 DEF TE!DeliverStatus
  <2>2. LoopTypes' /\ L0Types' /\ Flags'
    BY <1>1, <2>1 DEF EventInv, EventTypes, LoopTypes, L0Types, Flags, TE!Calls, TE!Events
  <2> QED
    BY <1>1, <1>3, <2>1, <2>2, ChannelsStay DEF EventInv, EventTypes
<1>5. CASE ch \notin closed
  <2>1. /\ loopAt' = "select" /\ target' = <<>> /\ UNCHANGED panicked
        /\ IF Len(buffer[ch]) < BufferSize
           THEN /\ buffer' = [buffer EXCEPT ![ch] = Append(@, e)]
                /\ removers' = IF TE!Final(e.status) THEN removers \cup {e.tx} ELSE removers
           ELSE UNCHANGED <<buffer, removers>>
    BY <1>5 DEF TE!DeliverStatus
  <2>2. /\ buffer' \in [TE!Calls -> Seq(TE!Events)] /\ removers' \subseteq Txs
        /\ \A c \in TE!Calls : /\ Len(buffer'[c]) =< BufferSize
                               /\ \A i \in DOMAIN buffer'[c] : Channel(c, buffer'[c][i].tx)
    <3>1. CASE Len(buffer[ch]) < BufferSize
      <4>1. /\ buffer[ch] \in Seq(TE!Events) /\ Append(buffer[ch], e) \in Seq(TE!Events)
            /\ Len(Append(buffer[ch], e)) = Len(buffer[ch]) + 1 /\ Len(buffer[ch]) \in Nat
            /\ \A i \in DOMAIN Append(buffer[ch], e) :
                 (i \in DOMAIN buffer[ch] /\ Append(buffer[ch], e)[i] = buffer[ch][i])
                   \/ Append(buffer[ch], e)[i] = e
        BY <1>2 DEF EventInv, EventTypes, MapTypes, LoopTypes, L0Types, Flags
      <4>2. \A c \in TE!Calls : buffer'[c] = IF c = ch THEN Append(buffer[ch], e) ELSE buffer[c]
        BY <2>1, <3>1 DEF EventInv, EventTypes, MapTypes, LoopTypes, L0Types, Flags
      <4>3. buffer' \in [TE!Calls -> Seq(TE!Events)] /\ removers' \subseteq Txs
        BY <1>2, <2>1, <3>1, <4>1 DEF EventInv, EventTypes, MapTypes, LoopTypes, L0Types, Flags
      <4>4. Len(Append(buffer[ch], e)) =< BufferSize
        BY <3>1, <4>1, EventBounds
      <4>5. \A i \in DOMAIN Append(buffer[ch], e) : Channel(ch, Append(buffer[ch], e)[i].tx)
        BY <1>2, <4>1 DEF EventInv, OwnChannels
      <4> QED
        BY <4>2, <4>3, <4>4, <4>5 DEF EventInv, OwnChannels
    <3>2. CASE ~(Len(buffer[ch]) < BufferSize)
      BY <2>1, <3>2 DEF EventInv, EventTypes, MapTypes, LoopTypes, L0Types, Flags, OwnChannels
    <3> QED
      BY <3>1, <3>2
  <2>3. LoopTypes' /\ L0Types' /\ Flags'
    BY <1>1, <2>1, <2>2 DEF EventInv, EventTypes, LoopTypes, L0Types, Flags, TE!Calls, TE!Events
  <2>4. OwnChannels'
    <3>1. \A c, u : Channel(c, u) <=> Channel(c, u)'
      BY <1>1 DEF Channel
    <3> QED
      BY <1>1, <2>1, <2>2, <3>1 DEF EventInv, OwnChannels, TE!Subscribed, TE!Calls
  <2>5. MapTypes' /\ \A t \in Txs : subscriptions'[t] \notin closed'
    BY <1>1, <2>2 DEF EventInv, EventTypes, MapTypes, TE!Calls, TE!Events
  <2> QED
    BY <1>3, <2>3, <2>4, <2>5 DEF EventInv, EventTypes
<1> QED
  BY <1>4, <1>5

LEMMA EndPreserves ==
  ASSUME TE!TxEventsAssumption, EventInv, TE!CancelContext \/ TE!Stop \/ TE!StopStep
  PROVE  EventInv'
<1>1. CASE TE!CancelContext \/ TE!Stop \/ TE!StopReturns
  <2>1. UNCHANGED <<subscriptions, buffer, closed, opens, monitor, loopAt, conn, dials, reconnects,
                    target, writers, resubscribe, removers, wire, inbox, eventsLeft, holds, panicked>>
    BY <1>1 DEF TE!CancelContext, TE!Stop, TE!StopReturns, TE!mapVars, TE!connVars, TE!goVars,
                TE!l0Vars
  <2>2. /\ shutdown' \in BOOLEAN /\ contextDone' \in BOOLEAN
        /\ stopAt' \in {"no", "channels", "connection", "waiting", "returned"}
    BY <1>1 DEF TE!CancelContext, TE!Stop, TE!StopReturns, EventInv, EventTypes, MapTypes, LoopTypes, L0Types, Flags
  <2>3. LoopTypes' /\ L0Types' /\ Flags' /\ Sending'
    BY <2>1, <2>2 DEF EventInv, EventTypes, LoopTypes, L0Types, Flags, Sending, TE!Calls, TE!Events, TE!Subscribed
  <2> QED
    BY <2>1, <2>3, ChannelsStay DEF EventInv, EventTypes
<1>2. CASE TE!StopCloses
  <2>1. /\ closed' = closed \cup {subscriptions[t] : t \in TE!Subscribed}
        /\ subscriptions' = [t \in Txs |-> 0] /\ stopAt' = "connection"
        /\ UNCHANGED <<buffer, opens, monitor, loopAt, conn, dials, reconnects, target, writers,
                       resubscribe, removers, wire, inbox, eventsLeft, holds, shutdown, contextDone,
                       panicked>>
    BY <1>2 DEF TE!StopCloses, TE!connVars, TE!goVars, TE!l0Vars
  <2>2. /\ closed' \subseteq 1 .. opens /\ subscriptions' \in [Txs -> 0 .. opens]
        /\ TE!Subscribed' = {}
    <3>1. \A t \in TE!Subscribed : subscriptions[t] \in 1 .. opens
      BY DEF EventInv, EventTypes, MapTypes, LoopTypes, L0Types, Flags, TE!Subscribed
    <3> QED
      <4>1. closed' \subseteq 1 .. opens
        BY <2>1, <3>1 DEF EventInv, EventTypes, MapTypes
      <4>2. opens \in Nat
        BY EventBounds DEF EventInv, EventTypes, MapTypes
      <4>3. \A t \in Txs : subscriptions'[t] = 0
        BY <2>1
      <4> QED
        BY <2>1, <4>1, <4>2, <4>3 DEF TE!Subscribed
  <2>3. LoopTypes' /\ L0Types' /\ Flags'
    BY <2>1, <2>2 DEF EventInv, EventTypes, LoopTypes, L0Types, Flags, TE!Calls, TE!Events
  <2>4. OwnChannels'
    BY <2>1, <2>2 DEF EventInv, OwnChannels, Channel, TE!Calls, TE!Events
  <2>5. Sending' /\ \A t \in Txs : subscriptions'[t] \notin closed'
    BY <2>1, <2>2 DEF Sending
  <2>6. MapTypes'
    BY <2>1, <2>2 DEF EventInv, EventTypes, MapTypes, TE!Calls, TE!Events
  <2> QED
    BY <2>3, <2>4, <2>5, <2>6 DEF EventInv, EventTypes
<1>3. CASE TE!StopDisconnects
  BY <1>3, DisconnectPreserves
     DEF TE!StopDisconnects, TE!mapVars, TE!goVars
<1> QED
  BY <1>1, <1>2, <1>3 DEF TE!StopStep

LEMMA L0Preserves ==
  ASSUME TE!TxEventsAssumption, EventInv,
         (\E e \in TE!Events : TE!SendEvent(e)) \/ TE!ConnectionBreaks
  PROVE  EventInv'
<1>1. /\ UNCHANGED <<subscriptions, buffer, closed, opens, monitor, loopAt, conn, dials, reconnects,
                     target, writers, resubscribe, removers, wire, stopAt, shutdown, contextDone,
                     panicked>>
      /\ holds' \in BOOLEAN /\ (holds' => holds)
      /\ inbox' \in Seq(TE!Events) /\ eventsLeft' \in 0 .. MaxEvents
  <2>1. CASE \E e \in TE!Events : TE!SendEvent(e)
    BY <2>1, EventBounds
       DEF TE!SendEvent, TE!mapVars, TE!connVars, TE!goVars, TE!endVars, EventInv, EventTypes, MapTypes, LoopTypes, L0Types, Flags
  <2>2. CASE TE!ConnectionBreaks
    BY <2>2 DEF TE!ConnectionBreaks, TE!mapVars, TE!connVars, TE!goVars, TE!endVars, EventInv,
                EventTypes, MapTypes, LoopTypes, L0Types, Flags
  <2> QED
    BY <2>1, <2>2
<1>2. LoopTypes' /\ L0Types' /\ Flags'
  BY <1>1 DEF EventInv, EventTypes, LoopTypes, L0Types, Flags, TE!Calls, TE!Events
<1>3. Sending'
  BY <1>1 DEF EventInv, Sending, TE!Subscribed
<1> QED
  BY <1>1, <1>2, <1>3, ChannelsStay DEF EventInv, EventTypes

LEMMA EventStep ==
  ASSUME TE!TxEventsAssumption, EventInv, [TE!Next]_TE!vars
  PROVE  EventInv'
<1>1. CASE TE!Next
  <2>1. ASSUME NEW t \in Txs, TE!SubscribeTx(t) PROVE EventInv'
    BY <2>1, SubscribePreserves
  <2>2. ASSUME NEW c \in TE!Calls, TE!MonitorStep(c) PROVE EventInv'
    BY <2>2, MonitorPreserves
  <2>3. ASSUME TE!Start \/ TE!ConnectionLoop PROVE EventInv'
    BY <2>3, LoopPreserves, ReceivePreserves, DeliverPreserves DEF TE!ConnectionLoop
  <2> QED
    BY <1>1, <2>1, <2>2, <2>3, GoroutinePreserves, EndPreserves, L0Preserves DEF TE!Next
<1>2. CASE UNCHANGED TE!vars
  <2>1. UNCHANGED <<subscriptions, buffer, closed, opens, monitor, loopAt, conn, dials, reconnects,
                    target, writers, resubscribe, removers, wire, inbox, eventsLeft, holds, stopAt,
                    shutdown, contextDone, panicked>>
    BY <1>2 DEF TE!vars, TE!mapVars, TE!connVars, TE!goVars, TE!l0Vars, TE!endVars
  <2>2. LoopTypes' /\ L0Types' /\ Flags' /\ Sending'
    BY <2>1 DEF EventInv, EventTypes, LoopTypes, L0Types, Flags, Sending, TE!Calls, TE!Events, TE!Subscribed
  <2> QED
    BY <2>1, <2>2, ChannelsStay DEF EventInv, EventTypes
<1> QED
  BY <1>1, <1>2

THEOREM TxEventsInvariant ==
  ASSUME TE!TxEventsAssumption
  PROVE  TE!Spec => []EventInv
<1>1. TE!Init => EventInv
  BY EventInit
<1>2. EventInv /\ [TE!Next]_TE!vars => EventInv'
  BY EventStep
<1> QED
  BY <1>1, <1>2, PTL DEF TE!Spec

LEMMA EventTypesHold ==
  ASSUME TE!TxEventsAssumption, EventInv
  PROVE  TE!TypeOK
<1>1. \A c \in TE!Calls :
        /\ monitor[c].at \in {"none", "waiting", "done"}
        /\ monitor[c].tx \in Txs /\ monitor[c].ch \in 0 .. opens /\ monitor[c].owns \in BOOLEAN
  BY DEF EventInv, EventTypes, MapTypes, LoopTypes, L0Types, Flags, OwnChannels, Channel, Monitors
<1>2. \A c \in TE!Calls :
        /\ Len(buffer[c]) =< BufferSize
        /\ monitor[c].ch # 0 => \A i \in DOMAIN buffer[monitor[c].ch] :
                                  buffer[monitor[c].ch][i].tx = monitor[c].tx
  <2> TAKE c \in TE!Calls
  <2>1. Len(buffer[c]) =< BufferSize
    BY DEF EventInv, OwnChannels
  <2>2. ASSUME monitor[c].ch # 0, NEW i \in DOMAIN buffer[monitor[c].ch]
        PROVE  buffer[monitor[c].ch][i].tx = monitor[c].tx
    <3>1. Channel(monitor[c].ch, monitor[c].tx)
      BY <2>2 DEF EventInv, OwnChannels
    <3>2. opens \in 0 .. MaxOpens
      BY DEF EventInv, EventTypes, MapTypes
    <3>3. monitor[c].ch \in TE!Calls
      BY <3>1, <3>2, EventBounds DEF Channel, TE!Calls
    <3>4. Channel(monitor[c].ch, buffer[monitor[c].ch][i].tx)
      BY <2>2, <3>3 DEF EventInv, OwnChannels
    <3> QED
      BY <3>1, <3>4 DEF Channel
  <2> QED
    BY <2>1, <2>2
<1>3. reconnects \in 0 .. MaxDials
  BY EventBounds DEF EventInv, EventTypes, MapTypes, LoopTypes, L0Types, Flags
<1> QED
  BY <1>1, <1>2, <1>3 DEF EventInv, EventTypes, MapTypes, LoopTypes, L0Types, Flags, TE!TypeOK

\* A channel holds what L0 said of the transaction whose monitors read it.
THEOREM TxEventsTypeOK ==
  ASSUME TE!TxEventsAssumption
  PROVE  TE!Spec => []TE!TypeOK
<1>1. EventInv => TE!TypeOK
  BY EventTypesHold
<1> QED
  BY <1>1, TxEventsInvariant, PTL

\* However a cancel, a removal after a final status and Stop come together, no channel is
\* closed that is in the map; and however often the connection is lost, every subscription
\* gets on the new one (SubscribeTx, unsubscribeTx, resubscribeAll, subscribeToTransaction).
THEOREM TxEventsSubscriptionsHold ==
  ASSUME TE!TxEventsAssumption
  PROVE  TE!Spec => []TE!SubscriptionsHold
<1>1. EventInv => TE!SubscriptionsHold
  BY DEF EventInv, Sending, TE!SubscriptionsHold, TE!Connected
<1> QED
  BY <1>1, TxEventsInvariant, PTL

\* A channel that is closed stays closed, never gets back into the map, and no status is put
\* into it: what is left in it can only be read.
ClosedIsFinal ==
  \A c \in closed :
    /\ c \in closed' /\ \A t \in Txs : subscriptions'[t] # c
    /\ Len(buffer'[c]) =< Len(buffer[c])

LEMMA ClosedStep ==
  ASSUME TE!TxEventsAssumption, EventInv, TE!Next
  PROVE  ClosedIsFinal
<1>1. /\ closed \subseteq 1 .. opens /\ opens \in Nat /\ opens =< MaxOpens /\ MaxOpens \in Nat
      /\ subscriptions \in [Txs -> 0 .. opens] /\ buffer \in [TE!Calls -> Seq(TE!Events)]
      /\ \A t \in Txs : subscriptions[t] \notin closed
  BY EventBounds DEF EventInv, EventTypes, MapTypes
<1>2. \A c \in closed : c \in TE!Calls /\ Len(buffer[c]) \in Nat
  BY <1>1, LenProperties DEF TE!Calls
<1>3. ASSUME closed \subseteq closed', UNCHANGED buffer,
             \A t \in Txs : subscriptions'[t] \in {subscriptions[t], 0, opens + 1}
      PROVE  ClosedIsFinal
  <2>1. \A c \in closed : c # 0 /\ c # opens + 1
    BY <1>1
  <2> QED
    BY <1>1, <1>2, <1>3, <2>1 DEF ClosedIsFinal
<1>4. ASSUME NEW t \in Txs, TE!UnsubscribeTx(t)
      PROVE  /\ closed \subseteq closed'
             /\ \A u \in Txs : subscriptions'[u] \in {subscriptions[u], 0}
  BY <1>1, <1>4 DEF TE!UnsubscribeTx
<1>5. ASSUME NEW c \in TE!Calls, TE!Finish(c)
      PROVE  /\ closed \subseteq closed'
             /\ \A u \in Txs : subscriptions'[u] \in {subscriptions[u], 0}
  <2>1. monitor[c].tx \in Txs
    BY DEF EventInv, EventTypes, MapTypes, Monitors
  <2> QED
    BY <1>4, <1>5, <2>1 DEF TE!Finish
<1>6. ASSUME NEW t \in Txs, TE!SubscribeTx(t) PROVE ClosedIsFinal
  <2>1. UNCHANGED <<closed, buffer>>
    BY <1>6 DEF TE!SubscribeTx
  <2>2. subscriptions' = subscriptions \/ subscriptions' = [subscriptions EXCEPT ![t] = opens + 1]
    BY <1>6 DEF TE!SubscribeTx
  <2>3. \A u \in Txs : subscriptions'[u] \in {subscriptions[u], 0, opens + 1}
    BY <1>1, <2>2
  <2> QED
    BY <1>3, <2>1, <2>3
<1>7. ASSUME NEW c \in TE!Calls, TE!MonitorReads(c) PROVE ClosedIsFinal
  <2> DEFINE ch == monitor[c].ch
  <2>1. /\ ch # 0 /\ buffer[ch] # <<>>
        /\ buffer' = [buffer EXCEPT ![ch] = Tail(buffer[ch])]
        /\ TE!Finish(c) \/ UNCHANGED <<subscriptions, closed>>
    BY <1>7 DEF TE!MonitorReads
  <2>2. ch \in TE!Calls /\ buffer[ch] \in Seq(TE!Events)
    BY <1>1, <2>1 DEF EventInv, OwnChannels, Channel, TE!Calls
  <2>3. closed \subseteq closed' /\ \A u \in Txs : subscriptions'[u] \in {subscriptions[u], 0}
    BY <1>5, <2>1
  <2> HIDE DEF ch
  <2>4. Len(Tail(buffer[ch])) =< Len(buffer[ch])
    BY <2>1, <2>2, HeadTailProperties, LenProperties
  <2>5. ASSUME NEW d \in closed PROVE Len(buffer'[d]) =< Len(buffer[d])
    BY <1>1, <1>2, <2>1, <2>2, <2>4
  <2>6. ASSUME NEW d \in closed, NEW t \in Txs PROVE subscriptions'[t] # d
    BY <1>1, <2>3
  <2> QED
    BY <2>3, <2>5, <2>6 DEF ClosedIsFinal
<1>8. ASSUME NEW c \in TE!Calls, TE!MonitorTimesOut(c) PROVE ClosedIsFinal
  BY <1>3, <1>5, <1>8 DEF TE!MonitorTimesOut
<1>9. ASSUME NEW t \in Txs, TE!Remove(t) PROVE ClosedIsFinal
  BY <1>3, <1>4, <1>9 DEF TE!Remove
<1>10. ASSUME TE!DeliverStatus PROVE ClosedIsFinal
  <2>1. UNCHANGED <<subscriptions, closed>>
    BY <1>10 DEF TE!DeliverStatus
  <2>2. \/ UNCHANGED buffer
        \/ /\ target[1] \notin closed
           /\ buffer' = [buffer EXCEPT ![target[1]] = Append(@, target[2])]
    BY <1>10 DEF TE!DeliverStatus
  <2>3. ASSUME NEW d \in closed PROVE buffer'[d] = buffer[d]
    BY <1>1, <1>2, <2>2
  <2> QED
    BY <1>1, <1>2, <2>1, <2>3 DEF ClosedIsFinal
<1>11. ASSUME TE!StopCloses PROVE ClosedIsFinal
  <2>1. closed \subseteq closed' /\ UNCHANGED buffer /\ \A t \in Txs : subscriptions'[t] = 0
    BY <1>11 DEF TE!StopCloses
  <2> QED
    BY <1>3, <2>1
<1>12. CASE UNCHANGED <<subscriptions, closed, buffer>>
  BY <1>1, <1>3, <1>12
<1>13. ASSUME \/ TE!ResubscribeAll
              \/ \E w \in writers : TE!WriterReads(w) \/ TE!WriterWrites(w)
              \/ TE!Start \/ TE!CancelContext \/ TE!Stop \/ TE!StopDisconnects \/ TE!StopReturns
              \/ \E e \in TE!Events : TE!SendEvent(e)
              \/ TE!ConnectionBreaks
       PROVE  UNCHANGED <<subscriptions, closed, buffer>>
  BY <1>13 DEF TE!ResubscribeAll, TE!WriterReads, TE!WriterWrites, TE!Start, TE!CancelContext,
     TE!Stop, TE!StopDisconnects, TE!StopReturns, TE!SendEvent, TE!ConnectionBreaks, TE!mapVars
<1>14. ASSUME TE!ConnectionLoop, ~TE!DeliverStatus PROVE UNCHANGED <<subscriptions, closed, buffer>>
  BY <1>14 DEF TE!ConnectionLoop, TE!LoopExits, TE!Dial, TE!DialFails, TE!Connect, TE!Attach,
     TE!Select, TE!Arm, TE!ReadFails, TE!ReceiveEvent, TE!mapVars
<1> QED
  BY <1>6, <1>7, <1>8, <1>9, <1>10, <1>11, <1>12, <1>13, <1>14
     DEF TE!Next, TE!MonitorStep, TE!GoroutineStep, TE!StopStep

\* Whatever closes a channel, a monitor that returns, a removal after a final status or Stop:
\* its number is not given to another call of SubscribeTx, and a status that was on its way to
\* it is not delivered (unsubscribeTx, processEvent).
THEOREM TxEventsClosedIsFinal ==
  ASSUME TE!TxEventsAssumption
  PROVE  TE!Spec => [][ClosedIsFinal]_(TE!vars)
<1>1. EventInv /\ [TE!Next]_(TE!vars) => [ClosedIsFinal]_(TE!vars)
  BY ClosedStep
<1> QED
  BY <1>1, TxEventsInvariant, PTL DEF TE!Spec

----------------------------------------------------------------------------
(***************************************************************************)
(* The engine: what has become of a job.                                   *)
(***************************************************************************)
AllJobs == EX!Jobs \cup EX!RequestJobs \cup {<<>>}
Runs ==
  [at : {"idle", "load", "prepare", "host", "calling", "gate", "over"}, job : AllJobs,
   code : Codes \cup {"none"}, gas : Nat, calls : 0 .. MaxCalls, staged : BOOLEAN]
Blocks ==
  [at : {"idle", "sequential", "sending", "collecting"}, size : 0 .. MaxBatch,
   next : 1 .. MaxBatch + 1]

RunTypes ==
  /\ run \in [EX!Actors -> Runs]
  /\ \A a \in EX!Actors : run[a].gas =< EX!Limit(a)
  /\ cache \subseteq Codes /\ IsFiniteSet(cache) /\ Cardinality(cache) =< CacheSize
  /\ host \in {"none", "execute", "query"}
  /\ {cancelled, open, crashed} \subseteq BOOLEAN
  /\ wrote \subseteq EX!Jobs /\ ended \subseteq EX!Jobs \cup EX!RequestJobs

BlockTypes ==
  /\ pool \subseteq Workers
  /\ block \in Blocks /\ height \in 0 .. MaxBlocks
  /\ block.at # "idle" => height < MaxBlocks /\ block.next =< block.size + 1
  /\ block.at = "sending" => block.next =< block.size
  /\ block.at = "sequential" => pool = {}
  /\ block.at \in {"sending", "collecting"} => pool # {}
  /\ queue \in Seq(EX!Jobs) /\ Len(queue) =< 2 * Cardinality(pool)
  /\ answers \subseteq EX!Jobs \X {"success", "failed"}
  /\ outcomes \in Seq(EX!ResultStatuses)
  /\ block.at # "idle" => Len(outcomes) = block.size

\* A request has its own job, a transaction one of a block; who has none has no job.
OwnJobs ==
  \A a \in EX!Actors :
    /\ run[a].at \in {"idle", "over"} => run[a].job = <<>>
    /\ run[a].at \notin {"idle", "over"} =>
         IF a \in Requests THEN run[a].job = EX!RequestJob(a) ELSE run[a].job \in EX!Jobs
    /\ a \notin Requests => run[a].at # "over"
    /\ a \in Workers \ pool => run[a].at = "idle"
    /\ a = "producer" /\ run[a].at # "idle" =>
         block.at = "sequential" /\ block.next =< block.size /\ run[a].job = EX!Job(block.next)

\* A run has a code before it is compiled, and its host functions before it calls them.
OwnHost ==
  \A a \in EX!Actors :
    /\ run[a].at = "prepare" => run[a].code \in Codes
    /\ run[a].at = "calling" /\ a # "simulation" => host = EX!Mode(a)

\* A job is handed out once.
HandedOnce ==
  /\ \A i, j \in DOMAIN queue : queue[i] = queue[j] => i = j
  /\ \A a \in EX!Actors : \A i \in DOMAIN queue : run[a].job # queue[i]
  /\ \A a, b \in EX!Actors : run[a].job = run[b].job /\ run[a].job # <<>> => a = b

\* What is under way is of an earlier block, or of this one as far as it was handed out ...
HandedOut ==
  \A job \in EX!Jobs : EX!Pending(job) =>
    \/ job[1] =< height
    \/ /\ block.at # "idle" /\ job[1] = height + 1
       /\ block.at = "sequential" => job[2] = block.next
       /\ block.at = "sending" => job[2] < block.next

\* ... and what is answered is of this one, and over.
Answered ==
  \A x \in answers :
    /\ x[1][1] = height + 1 /\ block.at \in {"sending", "collecting"}
    /\ block.at = "sending" => x[1][2] < block.next
    /\ ~EX!Pending(x[1])
    /\ x[2] = "success" => x[1] \in ended

\* Results are collected in order; before the first block there are none.
Collected ==
  /\ block.at # "idle" =>
       \A i \in DOMAIN outcomes :
         outcomes[i] = "none" <=> (block.at = "sending" \/ i >= block.next)
  /\ block.at = "idle" /\ height = 0 => outcomes = <<>>

ExecInv ==
  /\ RunTypes /\ BlockTypes /\ OwnJobs /\ OwnHost /\ HandedOnce /\ HandedOut /\ Answered
  /\ Collected /\ EX!ResultsAreFinal

LEMMA ExecBounds ==
  ASSUME EX!ExecutionAssumption
  PROVE  /\ CacheSize \in Nat /\ GasLimit \in Nat /\ QueryGasLimit \in Nat /\ GasModulus \in Nat \ {0}
         /\ MaxBatch \in Nat \ {0} /\ MaxBlocks \in Nat \ {0} /\ MaxCalls \in Nat
         /\ Unfit \subseteq Codes /\ Requests \subseteq {"query", "simulation"}
         /\ Workers \cap {"producer", "query", "simulation"} = {}
         /\ "producer" \in EX!Actors /\ "producer" \notin Requests /\ "producer" \notin Workers
         /\ Workers \subseteq EX!Actors /\ Requests \subseteq EX!Actors
         /\ \A a \in EX!Actors : a = "producer" \/ a \in Workers \/ a \in Requests
         /\ \A a \in EX!Actors : EX!Limit(a) \in {GasLimit, QueryGasLimit}
         /\ \A a \in EX!Actors : EX!Limit(a) \in Nat
         /\ IsFiniteSet(Workers) /\ Cardinality(Workers) \in Nat
<1>1. /\ CacheSize \in Nat /\ GasLimit \in Nat /\ QueryGasLimit \in Nat
      /\ MaxBatch \in Nat \ {0} /\ MaxBlocks \in Nat \ {0} /\ MaxCalls \in Nat
      /\ Unfit \subseteq Codes /\ Requests \subseteq {"query", "simulation"}
      /\ Workers \cap {"producer", "query", "simulation"} = {}
      /\ IsFiniteSet(Workers) /\ GasModulus \in Nat /\ GasLimit < GasModulus
  BY DEF EX!ExecutionAssumption, EX!IsFiniteSet, IsFiniteSet
<1>2. Cardinality(Workers) \in Nat
  BY <1>1, FS_CardinalityType
<1>3. \A a \in EX!Actors : EX!Limit(a) \in {GasLimit, QueryGasLimit} /\ EX!Limit(a) \in Nat
  BY <1>1 DEF EX!Limit
<1> QED
  BY <1>1, <1>2, <1>3 DEF EX!Actors

LEMMA BlockFacts ==
  ASSUME EX!ExecutionAssumption, ExecInv
  PROVE  /\ block \in Blocks /\ block.next \in 1 .. MaxBatch + 1 /\ block.size \in 0 .. MaxBatch
         /\ block.next =< block.size => block.next \in 1 .. MaxBatch
         /\ height \in Nat /\ height \in 0 .. MaxBlocks
         /\ block.at # "idle" => height < MaxBlocks /\ Len(outcomes) = block.size
         /\ block.at = "sending" => block.next =< block.size
         /\ block.at = "sequential" => pool = {}
         /\ queue \in Seq(EX!Jobs) /\ Len(queue) =< 2 * Cardinality(pool)
         /\ outcomes \in Seq(EX!ResultStatuses)
         /\ pool \subseteq Workers /\ Cardinality(pool) \in Nat
<1>1. BlockTypes /\ MaxBatch \in Nat /\ MaxBlocks \in Nat
  BY ExecBounds DEF ExecInv
<1>2. block \in Blocks /\ block.next \in 1 .. MaxBatch + 1 /\ block.size \in 0 .. MaxBatch
  BY <1>1 DEF BlockTypes, Blocks
<1>3. block.next =< block.size => block.next \in 1 .. MaxBatch
  BY <1>1, <1>2
<1>4. height \in Nat /\ height \in 0 .. MaxBlocks
  BY <1>1 DEF BlockTypes
<1>5. Cardinality(pool) \in Nat
  BY <1>1, ExecBounds, FS_Subset, FS_CardinalityType DEF BlockTypes
<1> QED
  BY <1>1, <1>2, <1>3, <1>4, <1>5 DEF BlockTypes

LEMMA JobFacts ==
  ASSUME EX!ExecutionAssumption
  PROVE  /\ <<>> \notin EX!Jobs
         /\ \A job \in EX!Jobs : /\ job = <<job[1], job[2]>>
                                 /\ job[1] \in 1 .. MaxBlocks /\ job[2] \in 1 .. MaxBatch
         /\ \A h \in 1 .. MaxBlocks, i \in 1 .. MaxBatch : <<h, i>> \in EX!Jobs
         /\ \A q \in Requests : /\ EX!RequestJob(q) \in EX!RequestJobs
                                /\ EX!RequestJob(q) \notin EX!Jobs /\ EX!RequestJob(q) # <<>>
         /\ \A q, r \in Requests : EX!RequestJob(q) = EX!RequestJob(r) => q = r
<1>1. \A job \in EX!Jobs : /\ job = <<job[1], job[2]>>
                           /\ job[1] \in 1 .. MaxBlocks /\ job[2] \in 1 .. MaxBatch
  BY DEF EX!Jobs
<1>2. \A h \in 1 .. MaxBlocks, i \in 1 .. MaxBatch : <<h, i>> \in EX!Jobs
  BY DEF EX!Jobs
<1>3. <<>> \notin EX!Jobs
  <2>1. \A x, y : <<>> # <<x, y>>
    OBVIOUS
  <2> QED
    BY <1>1, <2>1
<1>4. \A q \in Requests : EX!RequestJob(q) = IF q = "query" THEN <<0, 1>> ELSE <<0, 2>>
  BY DEF EX!RequestJob
<1>5. /\ <<0, 1>> \notin EX!Jobs /\ <<0, 2>> \notin EX!Jobs
      /\ <<0, 1>> # <<>> /\ <<0, 2>> # <<>> /\ <<0, 1>> # <<0, 2>>
  <2>1. <<0, 1>>[1] = 0 /\ <<0, 2>>[1] = 0 /\ 0 \notin 1 .. MaxBlocks
    BY ExecBounds
  <2>2. <<0, 1>> # <<>> /\ <<0, 2>> # <<>> /\ <<0, 1>> # <<0, 2>>
    OBVIOUS
  <2> QED
    BY <1>1, <2>1, <2>2
<1>6. \A q \in Requests : q = "query" \/ q = "simulation"
  BY ExecBounds
<1> QED
  BY <1>1, <1>2, <1>3, <1>4, <1>5, <1>6 DEF EX!RequestJobs

LEMMA ExecInit ==
  ASSUME EX!ExecutionAssumption, EX!Init
  PROVE  ExecInv
<1>1. /\ block = [at |-> "idle", size |-> 0, next |-> 1] /\ height = 0 /\ queue = <<>>
      /\ answers = {} /\ outcomes = <<>> /\ run = [a \in EX!Actors |-> EX!NoRun]
      /\ cache = {} /\ host = "none" /\ cancelled = FALSE /\ open = TRUE /\ wrote = {}
      /\ ended = {} /\ crashed = FALSE /\ pool \subseteq Workers
  BY DEF EX!Init
<1>2. /\ EX!NoRun \in Runs /\ EX!NoRun.at = "idle" /\ EX!NoRun.job = <<>> /\ EX!NoRun.gas = 0
  BY ExecBounds DEF EX!NoRun, Runs, AllJobs
<1>3. RunTypes
  <2>1. run \in [EX!Actors -> Runs] /\ \A a \in EX!Actors : run[a].gas =< EX!Limit(a)
    BY <1>1, <1>2, ExecBounds
  <2>2. IsFiniteSet(cache) /\ Cardinality(cache) =< CacheSize
    BY <1>1, FS_EmptySet, ExecBounds
  <2> QED
    BY <1>1, <2>1, <2>2 DEF RunTypes
<1>4. BlockTypes
  <2>1. block \in Blocks /\ height \in 0 .. MaxBlocks
    BY <1>1, ExecBounds DEF Blocks
  <2>2. queue \in Seq(EX!Jobs) /\ Len(queue) =< 2 * Cardinality(pool) /\ outcomes \in Seq(EX!ResultStatuses)
    <3>1. Cardinality(pool) \in Nat
      BY <1>1, ExecBounds, FS_Subset, FS_CardinalityType
    <3> QED
      BY <1>1, <3>1
  <2> QED
    BY <1>1, <2>1, <2>2 DEF BlockTypes
<1>5. OwnJobs /\ OwnHost /\ HandedOnce
  BY <1>1, <1>2 DEF OwnJobs, OwnHost, HandedOnce
<1>6. \A job \in EX!Jobs : ~EX!Pending(job)
  BY <1>1, <1>2, JobFacts DEF EX!Pending
<1>7. HandedOut /\ Answered /\ Collected
  BY <1>1, <1>6 DEF HandedOut, Answered, Collected
<1>8. EX!ResultsAreFinal
  BY <1>1 DEF EX!ResultsAreFinal
<1> QED
  BY <1>3, <1>4, <1>5, <1>7, <1>8 DEF ExecInv

\* Nobody gets a job, and nobody is rid of one.
LEMMA JobsStay ==
  ASSUME ExecInv, UNCHANGED <<block, height, queue, answers, outcomes, pool>>,
         \A a \in EX!Actors : run'[a].job = run[a].job,
         ended \subseteq ended', wrote' \subseteq EX!Jobs, cancelled => cancelled'
  PROVE  BlockTypes' /\ HandedOnce' /\ HandedOut' /\ Answered' /\ Collected'
           /\ EX!ResultsAreFinal'
<1>1. BlockTypes'
  BY DEF ExecInv, BlockTypes, Blocks, EX!Jobs, EX!ResultStatuses
<1>2. \A job : EX!Pending(job)' <=> EX!Pending(job)
  BY DEF EX!Pending, EX!Actors
<1>3. HandedOnce'
  BY DEF ExecInv, HandedOnce, EX!Actors
<1>4. HandedOut'
  BY <1>2 DEF ExecInv, HandedOut, EX!Jobs
<1>5. Answered'
  BY <1>2 DEF ExecInv, Answered
<1>6. Collected'
  BY DEF ExecInv, Collected
<1>7. EX!ResultsAreFinal'
  BY <1>2 DEF ExecInv, EX!ResultsAreFinal, EX!Job, EX!Jobs
<1> QED
  BY <1>1, <1>3, <1>4, <1>5, <1>6, <1>7

\* A run goes on with its job.
LEMMA WorkPreserves ==
  ASSUME EX!ExecutionAssumption, ExecInv, NEW a \in EX!Actors, run[a].at \notin {"idle", "over"},
         NEW r \in Runs, run' = [run EXCEPT ![a] = r],
         r.job = run[a].job, r.at \notin {"idle", "over"}, r.gas =< EX!Limit(a),
         r.at = "calling" /\ a # "simulation" => host' = EX!Mode(a),
         r.at = "prepare" => r.code \in Codes,
         host' = host \/ (host = "none" /\ host' \in {"execute", "query"}),
         cache' \subseteq Codes, IsFiniteSet(cache'), Cardinality(cache') =< CacheSize,
         wrote' \subseteq EX!Jobs,
         ended \subseteq ended', ended' \subseteq EX!Jobs \cup EX!RequestJobs,
         UNCHANGED <<block, height, queue, answers, outcomes, cancelled, open, pool, crashed>>
  PROVE  ExecInv'
<1>1. run \in [EX!Actors -> Runs] /\ run' \in [EX!Actors -> Runs]
  BY DEF ExecInv, RunTypes
<1>2. run'[a] = r /\ \A b \in EX!Actors \ {a} : run'[b] = run[b]
  BY <1>1
<1>3. RunTypes'
  <2>1. \A b \in EX!Actors : run'[b].gas =< EX!Limit(b)
    BY <1>2 DEF ExecInv, RunTypes
  <2>2. host' \in {"none", "execute", "query"}
    BY DEF ExecInv, RunTypes
  <2> QED
    BY <1>1, <2>1, <2>2 DEF ExecInv, RunTypes, Runs, AllJobs, EX!Jobs, EX!RequestJobs, EX!Actors, EX!Limit
<1>4. OwnJobs'
  BY <1>2 DEF ExecInv, OwnJobs, EX!Actors, EX!Jobs, EX!Job
<1>5. OwnHost'
  <2>1. \A b \in EX!Actors : EX!Mode(b) # "none"
    BY DEF EX!Mode
  <2> QED
    BY <1>2, <2>1 DEF ExecInv, OwnHost, EX!Actors, EX!Mode
<1>6. \A b \in EX!Actors : run'[b].job = run[b].job
  BY <1>2
<1> QED
  BY <1>3, <1>4, <1>5, <1>6, JobsStay DEF ExecInv

\* A run ends, and its result goes to the block, if that still waits for it.
LEMMA FinishPreserves ==
  ASSUME EX!ExecutionAssumption, ExecInv, NEW a \in EX!Actors, run[a].at \notin {"idle", "over"},
         NEW status \in {"success", "failed"}, EX!Finish(a, status),
         status = "success" => run[a].job \in ended',
         ended \subseteq ended', ended' \subseteq EX!Jobs \cup EX!RequestJobs,
         cache' \subseteq Codes, IsFiniteSet(cache'), Cardinality(cache') =< CacheSize,
         UNCHANGED <<host, cancelled, open, pool, wrote, crashed>>
  PROVE  ExecInv'
<1>1. PICK r \in {EX!NoRun, [EX!NoRun EXCEPT !.at = "over"]} :
        run' = [run EXCEPT ![a] = r] /\ (a \notin Requests => r.at = "idle")
  BY DEF EX!Finish, EX!NoRun
<1>2. UNCHANGED <<height, queue>>
  BY DEF EX!Finish
<1>3. /\ r \in Runs /\ r.at \in {"idle", "over"} /\ r.job = <<>> /\ r.gas = 0
  <2>1. /\ EX!NoRun \in Runs /\ EX!NoRun.at = "idle" /\ EX!NoRun.job = <<>> /\ EX!NoRun.gas = 0
    BY ExecBounds DEF EX!NoRun, Runs, AllJobs
  <2>2. \A x \in Runs : LET y == [x EXCEPT !.at = "over"]
                        IN  y \in Runs /\ y.at = "over" /\ y.job = x.job /\ y.gas = x.gas
    BY DEF Runs
  <2> QED
    BY <1>1, <2>1, <2>2
<1>4. run \in [EX!Actors -> Runs] /\ run' \in [EX!Actors -> Runs]
  BY <1>1, <1>3 DEF ExecInv, RunTypes
<1>5. run'[a] = r /\ \A b \in EX!Actors \ {a} : run'[b] = run[b]
  BY <1>1, <1>4
<1>6. RunTypes'
  <2>1. \A b \in EX!Actors : run'[b].gas =< EX!Limit(b)
    BY <1>3, <1>5, ExecBounds DEF ExecInv, RunTypes
  <2> QED
    BY <1>4, <2>1
       DEF ExecInv, RunTypes, Runs, AllJobs, EX!Jobs, EX!RequestJobs, EX!Actors, EX!Limit
<1>7. OwnHost'
  BY <1>3, <1>5 DEF ExecInv, OwnHost, EX!Actors, EX!Mode
<1>8. HandedOnce'
  <2>1. \A i \in DOMAIN queue : queue[i] # <<>>
    BY JobFacts DEF ExecInv, BlockTypes
  <2> QED
    BY <1>2, <1>3, <1>5, <2>1 DEF ExecInv, HandedOnce, EX!Actors
<1>9. \A job : job # <<>> => (EX!Pending(job)' <=> EX!Pending(job) /\ job # run[a].job)
  BY <1>2, <1>3, <1>5 DEF EX!Pending, EX!Actors, ExecInv, HandedOnce
<1>10. \A job \in EX!Jobs : EX!Pending(job)' <=> EX!Pending(job) /\ job # run[a].job
  BY <1>9, JobFacts
<1>11. CASE a = "producer"
  <2>1. /\ outcomes' = [outcomes EXCEPT ![block.next] = status]
        /\ block' = [block EXCEPT !.next = @ + 1] /\ UNCHANGED answers
    BY <1>11 DEF EX!Finish
  <2>2. /\ block.at = "sequential" /\ block.next =< block.size /\ run[a].job = EX!Job(block.next)
        /\ r.at = "idle"
    BY <1>1, <1>11, ExecBounds DEF ExecInv, OwnJobs
  <2>3. /\ block.next \in 1 .. MaxBatch /\ block.size \in 0 .. MaxBatch /\ height \in 0 .. MaxBlocks
        /\ height < MaxBlocks /\ Len(outcomes) = block.size /\ outcomes \in Seq(EX!ResultStatuses)
        /\ block \in Blocks
    BY <2>2, BlockFacts
  <2>4. /\ block'.at = "sequential" /\ block'.size = block.size /\ block'.next = block.next + 1
        /\ block' \in Blocks
    <3>1. block.next + 1 \in 1 .. MaxBatch + 1
      <4>1. MaxBatch \in Nat
        BY ExecBounds
      <4> QED
        BY <2>3, <4>1
    <3> QED
      BY <2>1, <2>2, <2>3, <3>1 DEF Blocks
  <2>5. /\ outcomes' \in Seq(EX!ResultStatuses) /\ Len(outcomes') = block.size
        /\ DOMAIN outcomes' = 1 .. block.size /\ outcomes'[block.next] = status
        /\ \A i \in 1 .. block.size : i # block.next => outcomes'[i] = outcomes[i]
    BY <2>1, <2>2, <2>3 DEF EX!ResultStatuses
  <2>6. BlockTypes'
    <3>1. block'.next =< block'.size + 1
      BY <2>2, <2>3, <2>4
    <3> QED
      BY <1>2, <2>1, <2>2, <2>3, <2>4, <2>5, <3>1 DEF ExecInv, BlockTypes, EX!ResultStatuses, EX!Jobs
  <2>7. answers = {} /\ \A job \in EX!Jobs : EX!Pending(job)' => job[1] =< height
    <3>1. answers = {}
      BY <2>2 DEF ExecInv, Answered
    <3>2. ASSUME NEW job \in EX!Jobs, EX!Pending(job)' PROVE job[1] =< height
      <4>1. EX!Pending(job) /\ job # EX!Job(block.next) /\ job = <<job[1], job[2]>>
        BY <1>10, <2>2, <3>2, JobFacts
      <4>2. job[1] =< height \/ (job[1] = height + 1 /\ job[2] = block.next)
        BY <2>2, <4>1 DEF ExecInv, HandedOut
      <4> QED
        BY <4>1, <4>2 DEF EX!Job
    <3> QED
      BY <3>1, <3>2
  <2>8. HandedOut' /\ Answered'
    BY <1>2, <2>1, <2>7 DEF HandedOut, Answered, EX!Jobs
  <2>9. OwnJobs'
    BY <1>1, <1>3, <1>5, <1>11, ExecBounds DEF ExecInv, OwnJobs, EX!Actors, EX!Jobs, EX!Job, EX!RequestJob
  <2>10. Collected'
    BY <2>2, <2>3, <2>4, <2>5 DEF ExecInv, Collected
  <2>11. EX!ResultsAreFinal'
    <3>1. PICK job : job = run[a].job
      OBVIOUS
    <3>2. job = EX!Job(block.next) /\ job \in EX!Jobs /\ ~EX!Pending(job)'
      <4>1. job = EX!Job(block.next) /\ height + 1 \in 1 .. MaxBlocks
        BY <2>2, <2>3, <3>1, ExecBounds
      <4>2. job \in EX!Jobs
        BY <2>3, <4>1, JobFacts DEF EX!Job
      <4> QED
        BY <1>10, <3>1, <4>1, <4>2
    <3>3. \A i : EX!Job(i) # <<>> /\ EX!Job(i)' = EX!Job(i)
      BY <1>2 DEF EX!Job
    <3>4. wrote' \subseteq EX!Jobs
      BY DEF ExecInv, RunTypes
    <3>5. ASSUME NEW i \in DOMAIN outcomes'
          PROVE  /\ outcomes'[i] = "success" => EX!Job(i) \in ended' /\ ~EX!Pending(EX!Job(i))'
                 /\ outcomes'[i] = "failed" => ~EX!Pending(EX!Job(i))'
                 /\ outcomes'[i] = "timeout" => cancelled'
      <4>1. CASE i = block.next
        <5>1. EX!Job(i) = job /\ outcomes'[i] = status /\ job = run[a].job
          BY <2>5, <3>1, <3>2, <4>1
        <5>2. EX!Pending(EX!Job(i))' <=> EX!Pending(job)'
          BY <1>2, <5>1 DEF EX!Pending, EX!Job
        <5> QED
          BY <3>2, <5>1, <5>2
      <4>2. CASE i # block.next
        <5>1. i \in DOMAIN outcomes /\ outcomes'[i] = outcomes[i]
          BY <2>3, <2>5, <4>2
        <5>2. /\ outcomes[i] = "success" => EX!Job(i) \in ended /\ ~EX!Pending(EX!Job(i))
              /\ outcomes[i] = "failed" => ~EX!Pending(EX!Job(i))
              /\ outcomes[i] = "timeout" => cancelled
          BY <2>2, <5>1 DEF ExecInv, EX!ResultsAreFinal
        <5> QED
          BY <1>9, <3>3, <5>1, <5>2
      <4> QED
        BY <4>1, <4>2
    <3> QED
      BY <2>4, <3>3, <3>4, <3>5 DEF EX!ResultsAreFinal, EX!Jobs
  <2> QED
    BY <1>6, <1>7, <1>8, <2>6, <2>8, <2>9, <2>10, <2>11 DEF ExecInv
<1>12. CASE a # "producer"
  <2>1. /\ UNCHANGED <<outcomes, block>>
        /\ answers' = IF a \in Workers /\ run[a].job[1] = height + 1
                      THEN answers \cup {<<run[a].job, status>>} ELSE answers
    BY <1>12 DEF EX!Finish
  <2>2. a \in Workers => run[a].job \in EX!Jobs /\ EX!Pending(run[a].job) /\ a \notin Requests
    BY ExecBounds DEF ExecInv, OwnJobs, EX!Pending
  <2>3. OwnJobs'
    BY <1>1, <1>2, <1>3, <1>5, <1>12, <2>1 DEF ExecInv, OwnJobs, EX!Actors, EX!Jobs, EX!Job, EX!RequestJob
  <2>4. BlockTypes'
    <3>1. answers' \subseteq EX!Jobs \X {"success", "failed"}
      BY <2>1, <2>2 DEF ExecInv, BlockTypes
    <3> QED
      BY <1>2, <2>1, <3>1 DEF ExecInv, BlockTypes, EX!Jobs, EX!ResultStatuses
  <2>5. HandedOut' /\ Collected'
    BY <1>2, <1>10, <2>1 DEF ExecInv, HandedOut, Collected, EX!Jobs
  <2>6. Answered'
    <3> SUFFICES ASSUME NEW x \in answers'
                 PROVE  /\ x[1][1] = height + 1 /\ block.at \in {"sending", "collecting"}
                        /\ block.at = "sending" => x[1][2] < block.next
                        /\ ~EX!Pending(x[1])'
                        /\ x[2] = "success" => x[1] \in ended'
      BY <1>2, <2>1 DEF Answered
    <3>1. CASE x \in answers
      <4>1. x[1] \in EX!Jobs
        BY <3>1 DEF ExecInv, BlockTypes
      <4> QED
        BY <1>10, <3>1, <4>1 DEF ExecInv, Answered
    <3>2. CASE x \notin answers
      <4>1. /\ a \in Workers /\ run[a].job[1] = height + 1 /\ x[1] = run[a].job /\ x[2] = status
            /\ height \in Nat
        BY <2>1, <3>2 DEF ExecInv, BlockTypes
      <4>2. /\ block.at # "idle"
            /\ block.at = "sending" => run[a].job[2] < block.next
        BY <2>2, <4>1 DEF ExecInv, HandedOut
      <4>3. block.at \in {"sending", "collecting"}
        <5>1. block.at # "sequential"
          BY <4>1 DEF ExecInv, BlockTypes, OwnJobs, EX!Actors
        <5> QED
          BY <4>2, <5>1 DEF ExecInv, BlockTypes, Blocks
      <4> QED
        BY <1>10, <2>2, <4>1, <4>2, <4>3
    <3> QED
      BY <3>1, <3>2
  <2>7. EX!ResultsAreFinal'
    <3>1. \A h, i : <<h, i>> # <<>>
      OBVIOUS
    <3>2. \A h, i : EX!Pending(<<h, i>>)' => EX!Pending(<<h, i>>)
      BY <1>9, <3>1
    <3> QED
      BY <1>2, <2>1, <3>2 DEF ExecInv, EX!ResultsAreFinal, EX!Job, EX!Jobs
  <2> QED
    BY <1>6, <1>7, <1>8, <2>3, <2>4, <2>5, <2>6, <2>7 DEF ExecInv
<1> QED
  BY <1>11, <1>12
LEMMA BeginBlockPreserves ==
  ASSUME EX!ExecutionAssumption, ExecInv, NEW n \in 1 .. MaxBatch, EX!BeginBlock(n)
  PROVE  ExecInv'
<1>1. /\ block.at = "idle" /\ height < MaxBlocks
      /\ block' = [at |-> IF pool = {} THEN "sequential" ELSE "sending", size |-> n, next |-> 1]
      /\ outcomes' = [i \in 1 .. n |-> "none"]
      /\ UNCHANGED <<height, queue, answers, run, cache, host, cancelled, open, pool, wrote, ended, crashed>>
  BY DEF EX!BeginBlock, EX!Unlocked, EX!sharedVars
<1>2. /\ block'.at = (IF pool = {} THEN "sequential" ELSE "sending")
      /\ block'.size = n /\ block'.next = 1 /\ n \in Nat /\ n >= 1
  BY <1>1, ExecBounds
<1>3. RunTypes' /\ OwnHost' /\ HandedOnce'
  <2>1. RunTypes'
    BY <1>1 DEF ExecInv, RunTypes, Runs, AllJobs, EX!Jobs, EX!RequestJobs, EX!Actors, EX!Limit
  <2> QED
    BY <1>1, <2>1 DEF ExecInv, OwnHost, HandedOnce, EX!Actors, EX!Mode
<1>4. BlockTypes'
  <2>1. block' \in Blocks
    BY <1>1, ExecBounds DEF Blocks
  <2>2. outcomes' \in Seq(EX!ResultStatuses) /\ Len(outcomes') = n
    BY <1>1, <1>2 DEF EX!ResultStatuses
  <2> QED
    BY <1>1, <1>2, <2>1, <2>2 DEF ExecInv, BlockTypes, EX!Jobs, EX!ResultStatuses
<1>5. run["producer"].at = "idle"
  BY <1>1, ExecBounds DEF ExecInv, OwnJobs
<1>6. OwnJobs'
  BY <1>1, <1>5 DEF ExecInv, OwnJobs, EX!Actors, EX!Jobs, EX!RequestJob
<1>7. \A job : EX!Pending(job)' <=> EX!Pending(job)
  BY <1>1 DEF EX!Pending, EX!Actors
<1>8. HandedOut'
  BY <1>1, <1>7 DEF ExecInv, HandedOut, EX!Jobs
<1>9. Answered'
  BY <1>1 DEF ExecInv, Answered
<1>10. Collected'
  BY <1>1, <1>2 DEF Collected
<1>11. EX!ResultsAreFinal'
  BY <1>1, <1>2 DEF ExecInv, RunTypes, EX!ResultsAreFinal, EX!Jobs
<1> QED
  BY <1>3, <1>4, <1>6, <1>8, <1>9, <1>10, <1>11 DEF ExecInv

\* Work is handed out, or the loop goes on without.
LEMMA SendPreserves ==
  ASSUME EX!ExecutionAssumption, ExecInv, EX!Send
  PROVE  ExecInv'
<1>1. /\ block.at = "sending"
      /\ UNCHANGED <<height, answers, outcomes, run, cache, host, cancelled, open, pool, wrote, ended>>
  BY DEF EX!Send, EX!sharedVars
<1>2. /\ block \in Blocks /\ block.next \in 1 .. MaxBatch /\ block.size \in 0 .. MaxBatch
      /\ block.next =< block.size /\ height \in Nat /\ height < MaxBlocks
      /\ Len(outcomes) = block.size /\ queue \in Seq(EX!Jobs)
  BY <1>1, BlockFacts
<1>3. PICK job : job = EX!Job(block.next)
  OBVIOUS
<1>4. job \in EX!Jobs /\ job[1] = height + 1 /\ job[2] = block.next
  <2>1. height + 1 \in 1 .. MaxBlocks
    BY <1>2, ExecBounds
  <2> QED
    BY <1>2, <1>3, <2>1, JobFacts DEF EX!Job
<1>5. ~EX!Pending(job)
  BY <1>1, <1>2, <1>4 DEF ExecInv, HandedOut
<1>6. CASE crashed' = TRUE /\ UNCHANGED <<queue, block>>
  <2>1. RunTypes'
    BY <1>1, <1>6 DEF ExecInv, RunTypes, Runs, AllJobs, EX!Jobs, EX!RequestJobs, EX!Actors, EX!Limit
  <2>2. OwnJobs' /\ OwnHost'
    BY <1>1, <1>6 DEF ExecInv, OwnJobs, OwnHost, EX!Actors, EX!Jobs, EX!Job, EX!RequestJob, EX!Mode
  <2>3. wrote' \subseteq EX!Jobs
    BY <1>1 DEF ExecInv, RunTypes
  <2> QED
    BY <1>1, <1>6, <2>1, <2>2, <2>3, JobsStay DEF ExecInv
<1>7. CASE /\ block' = EX!Advance /\ UNCHANGED crashed
           /\ queue' = queue \/ (queue' = Append(queue, job) /\ Len(queue) < 2 * Cardinality(pool))
  <2>1. /\ block' \in Blocks /\ block'.size = block.size
        /\ \/ block'.at = "sending" /\ block'.next = block.next + 1 /\ block'.next =< block.size
           \/ block'.at = "collecting" /\ block'.next = 1
    <3>1. CASE block.next < block.size
      <4>1. block' = [block EXCEPT !.next = @ + 1] /\ block.next + 1 \in 1 .. MaxBatch + 1
        BY <1>2, <1>7, <3>1, ExecBounds DEF EX!Advance
      <4> QED
        BY <1>1, <1>2, <3>1, <4>1 DEF Blocks
    <3>2. CASE ~(block.next < block.size)
      <4>1. block' = [block EXCEPT !.at = "collecting", !.next = 1] /\ 1 \in 1 .. MaxBatch + 1
        BY <1>7, <3>2, ExecBounds DEF EX!Advance
      <4> QED
        BY <1>2, <4>1 DEF Blocks
    <3> QED
      BY <3>1, <3>2
  <2>2. /\ queue' \in Seq(EX!Jobs) /\ Len(queue') =< 2 * Cardinality(pool)
        /\ \A i \in DOMAIN queue' :
             (i \in DOMAIN queue /\ queue'[i] = queue[i]) \/ (i = Len(queue) + 1 /\ queue'[i] = job)
    <3>1. CASE queue' = queue
      BY <1>2, <3>1 DEF ExecInv, BlockTypes
    <3>2. CASE queue' = Append(queue, job) /\ Len(queue) < 2 * Cardinality(pool)
      <4>1. Len(queue') =< 2 * Cardinality(pool)
        BY <1>2, <1>4, <3>2, BlockFacts
      <4> QED
        BY <1>2, <1>4, <3>2, <4>1
    <3> QED
      BY <1>7, <3>1, <3>2
  <2>3. \A j : EX!Pending(j)' => EX!Pending(j) \/ j = job
    BY <1>1, <2>2 DEF EX!Pending, EX!Actors
  <2>4. RunTypes'
    BY <1>1, <1>7 DEF ExecInv, RunTypes, Runs, AllJobs, EX!Jobs, EX!RequestJobs, EX!Actors, EX!Limit
  <2>5. BlockTypes'
    <3>1. pool # {}
      BY <1>1 DEF ExecInv, BlockTypes
    <3>2. block'.next =< block'.size + 1
      BY <1>2, <2>1
    <3> QED
      BY <1>1, <1>2, <2>1, <2>2, <3>1, <3>2 DEF ExecInv, BlockTypes, EX!Jobs, EX!ResultStatuses
  <2>6. OwnJobs' /\ OwnHost'
    <3>1. run["producer"].at = "idle"
      BY <1>1, ExecBounds DEF ExecInv, OwnJobs
    <3> QED
      BY <1>1, <3>1 DEF ExecInv, OwnJobs, OwnHost, EX!Actors, EX!Jobs, EX!RequestJob, EX!Mode
  <2>7. HandedOnce'
    <3>1. \A i \in DOMAIN queue : queue[i] # job
      BY <1>5 DEF EX!Pending
    <3>2. \A b \in EX!Actors : run[b].job # job
      BY <1>5 DEF EX!Pending
    <3> QED
      BY <1>1, <2>2, <3>1, <3>2 DEF ExecInv, HandedOnce, EX!Actors
  <2>8. HandedOut'
    <3> SUFFICES ASSUME NEW j \in EX!Jobs, EX!Pending(j)'
                 PROVE  j[1] =< height \/ (j[1] = height + 1 /\ (block'.at = "sending" => j[2] < block'.next))
      BY <1>1, <2>1 DEF HandedOut, EX!Jobs
    <3>1. j[1] =< height \/ (j[1] = height + 1 /\ (j[2] < block.next \/ j[2] = block.next))
      BY <1>1, <1>4, <2>3 DEF ExecInv, HandedOut
    <3>2. j[2] \in Nat
      BY JobFacts
    <3> QED
      BY <1>2, <2>1, <3>1, <3>2
  <2>9. Answered'
    <3> SUFFICES ASSUME NEW x \in answers
                 PROVE  /\ x[1][1] = height + 1 /\ block'.at \in {"sending", "collecting"}
                        /\ block'.at = "sending" => x[1][2] < block'.next
                        /\ ~EX!Pending(x[1])'
                        /\ x[2] = "success" => x[1] \in ended
      BY <1>1 DEF Answered
    <3>1. /\ x[1][1] = height + 1 /\ x[1][2] < block.next /\ ~EX!Pending(x[1])
          /\ x[2] = "success" => x[1] \in ended
      BY <1>1 DEF ExecInv, Answered
    <3>2. x[1] \in EX!Jobs /\ x[1][2] \in Nat
      BY JobFacts, ExecBounds DEF ExecInv, BlockTypes
    <3> QED
      BY <1>2, <1>4, <2>1, <2>3, <3>1, <3>2
  <2>10. \A i \in DOMAIN outcomes : outcomes[i] = "none" /\ i >= 1
    BY <1>1, <1>2 DEF ExecInv, Collected, BlockTypes
  <2>11. Collected'
    BY <1>1, <2>1, <2>10 DEF Collected
  <2>12. EX!ResultsAreFinal'
    BY <1>1, <2>1, <2>10 DEF ExecInv, RunTypes, EX!ResultsAreFinal, EX!Jobs
  <2> QED
    BY <2>4, <2>5, <2>6, <2>7, <2>8, <2>9, <2>11, <2>12 DEF ExecInv
<1>8. \/ crashed' = TRUE /\ UNCHANGED <<queue, block>>
      \/ /\ block' = EX!Advance /\ UNCHANGED crashed
         /\ \/ queue' = queue
            \/ queue' = Append(queue, EX!Job(block.next)) /\ Len(queue) < 2 * Cardinality(pool)
  BY DEF EX!Send, EX!Cardinality, Cardinality
<1> QED
  BY <1>3, <1>6, <1>7, <1>8

LEMMA CollectPreserves ==
  ASSUME EX!ExecutionAssumption, ExecInv, EX!Collect
  PROVE  ExecInv'
<1>1. PICK status \in {"success", "failed", "timeout"} :
        /\ <<EX!Job(block.next), status>> \in answers \/ (status = "timeout" /\ cancelled)
        /\ outcomes' = [outcomes EXCEPT ![block.next] = status]
  BY DEF EX!Collect
<1>2. /\ block.at = "collecting" /\ block.next =< block.size
      /\ block' = [block EXCEPT !.next = @ + 1]
      /\ UNCHANGED <<height, queue, answers, run, cache, host, cancelled, open, pool, wrote, ended, crashed>>
  BY DEF EX!Collect, EX!sharedVars
<1>3. /\ block \in Blocks /\ block.next \in 1 .. MaxBatch /\ block.size \in 0 .. MaxBatch
      /\ height \in Nat /\ height < MaxBlocks /\ Len(outcomes) = block.size
      /\ outcomes \in Seq(EX!ResultStatuses)
  BY <1>2, BlockFacts
<1>4. /\ block'.at = "collecting" /\ block'.size = block.size /\ block'.next = block.next + 1
      /\ block' \in Blocks
  <2>1. block.next + 1 \in 1 .. MaxBatch + 1
    BY <1>3, ExecBounds
  <2> QED
    BY <1>2, <1>3, <2>1 DEF Blocks
<1>5. /\ outcomes' \in Seq(EX!ResultStatuses) /\ Len(outcomes') = block.size
      /\ DOMAIN outcomes' = 1 .. block.size /\ outcomes'[block.next] = status
      /\ \A i \in 1 .. block.size : i # block.next => outcomes'[i] = outcomes[i]
  BY <1>1, <1>2, <1>3 DEF EX!ResultStatuses
<1>6. RunTypes' /\ OwnHost' /\ HandedOnce'
  <2>1. RunTypes'
    BY <1>2 DEF ExecInv, RunTypes, Runs, AllJobs, EX!Jobs, EX!RequestJobs, EX!Actors, EX!Limit
  <2> QED
    BY <1>2, <2>1 DEF ExecInv, OwnHost, HandedOnce, EX!Actors, EX!Mode
<1>7. BlockTypes'
  <2>1. block'.next =< block'.size + 1
    BY <1>2, <1>3, <1>4
  <2> QED
    BY <1>2, <1>4, <1>5, <2>1 DEF ExecInv, BlockTypes, EX!Jobs, EX!ResultStatuses
<1>8. OwnJobs'
  <2>1. run["producer"].at = "idle"
    BY <1>2, ExecBounds DEF ExecInv, OwnJobs
  <2> QED
    BY <1>2, <2>1 DEF ExecInv, OwnJobs, EX!Actors, EX!Jobs, EX!RequestJob
<1>9. \A job : EX!Pending(job)' <=> EX!Pending(job)
  BY <1>2 DEF EX!Pending, EX!Actors
<1>10. HandedOut' /\ Answered'
  BY <1>2, <1>4, <1>9 DEF ExecInv, HandedOut, Answered, EX!Jobs
<1>11. Collected'
  <2> SUFFICES ASSUME NEW i \in DOMAIN outcomes'
               PROVE  outcomes'[i] = "none" <=> i >= block.next + 1
    BY <1>4 DEF Collected
  <2>1. i \in DOMAIN outcomes /\ i \in Int /\ (outcomes[i] = "none" <=> i >= block.next)
    BY <1>2, <1>3, <1>5 DEF ExecInv, Collected
  <2>2. CASE i = block.next
    BY <1>3, <1>5, <2>2
  <2>3. CASE i # block.next
    <3>1. outcomes'[i] = outcomes[i] /\ (i >= block.next <=> i >= block.next + 1)
      BY <1>3, <1>5, <2>1, <2>3
    <3> QED
      BY <2>1, <3>1
  <2> QED
    BY <2>2, <2>3
<1>12. EX!ResultsAreFinal'
  <2>1. \A i : EX!Job(i)' = EX!Job(i)
    BY <1>2 DEF EX!Job
  <2>2. wrote' \subseteq EX!Jobs
    BY <1>2 DEF ExecInv, RunTypes
  <2>3. ASSUME NEW i \in DOMAIN outcomes'
        PROVE  /\ outcomes'[i] = "success" => EX!Job(i) \in ended /\ ~EX!Pending(EX!Job(i))
               /\ outcomes'[i] = "failed" => ~EX!Pending(EX!Job(i))
               /\ outcomes'[i] = "timeout" => cancelled
    <3>1. CASE i = block.next
      <4>1. outcomes'[i] = status
        BY <1>5, <3>1
      <4>2. CASE status = "timeout" /\ cancelled
        BY <4>1, <4>2
      <4>3. CASE <<EX!Job(block.next), status>> \in answers
        <5>1. /\ status \in {"success", "failed"} /\ ~EX!Pending(EX!Job(block.next))
              /\ status = "success" => EX!Job(block.next) \in ended
          BY <4>3 DEF ExecInv, BlockTypes, Answered
        <5> QED
          BY <3>1, <4>1, <5>1
      <4> QED
        BY <1>1, <4>2, <4>3
    <3>2. CASE i # block.next
      <4>1. i \in DOMAIN outcomes /\ outcomes'[i] = outcomes[i]
        BY <1>3, <1>5, <3>2
      <4> QED
        BY <1>2, <4>1 DEF ExecInv, EX!ResultsAreFinal
    <3> QED
      BY <3>1, <3>2
  <2>4. \A i : EX!Pending(EX!Job(i))' <=> EX!Pending(EX!Job(i))
    BY <1>2 DEF EX!Pending, EX!Job, EX!Actors
  <2> QED
    BY <1>2, <1>4, <2>1, <2>2, <2>3, <2>4 DEF EX!ResultsAreFinal, EX!Jobs
<1> QED
  BY <1>6, <1>7, <1>8, <1>10, <1>11, <1>12 DEF ExecInv
LEMMA EndBlockPreserves ==
  ASSUME EX!ExecutionAssumption, ExecInv, EX!EndBlock
  PROVE  ExecInv'
<1>1. /\ block.at \in {"sequential", "collecting"} /\ block.next > block.size
      /\ height' = height + 1 /\ block' = [block EXCEPT !.at = "idle"] /\ answers' = {}
      /\ UNCHANGED <<queue, outcomes, run, cache, host, cancelled, open, pool, wrote, ended, crashed>>
  BY DEF EX!EndBlock, EX!sharedVars
<1>2. /\ block \in Blocks /\ block.next \in 1 .. MaxBatch + 1 /\ block.size \in 0 .. MaxBatch
      /\ height \in Nat /\ height < MaxBlocks /\ Len(outcomes) = block.size
      /\ outcomes \in Seq(EX!ResultStatuses)
  BY <1>1, BlockFacts
<1>3. block' \in Blocks /\ block'.at = "idle"
  BY <1>1, <1>2 DEF Blocks
<1>4. RunTypes' /\ OwnHost' /\ HandedOnce'
  <2>1. RunTypes'
    BY <1>1 DEF ExecInv, RunTypes, Runs, AllJobs, EX!Jobs, EX!RequestJobs, EX!Actors, EX!Limit
  <2> QED
    BY <1>1, <2>1 DEF ExecInv, OwnHost, HandedOnce, EX!Actors, EX!Mode
<1>5. BlockTypes'
  <2>1. height' \in 0 .. MaxBlocks
    BY <1>1, <1>2, ExecBounds
  <2> QED
    BY <1>1, <1>3, <2>1 DEF ExecInv, BlockTypes, EX!Jobs, EX!ResultStatuses
<1>6. OwnJobs'
  <2>1. run["producer"].at = "idle"
    BY <1>1, <1>2, ExecBounds DEF ExecInv, OwnJobs
  <2> QED
    BY <1>1, <2>1 DEF ExecInv, OwnJobs, EX!Actors, EX!Jobs, EX!RequestJob
<1>7. \A job : EX!Pending(job)' <=> EX!Pending(job)
  BY <1>1 DEF EX!Pending, EX!Actors
<1>8. HandedOut'
  <2> SUFFICES ASSUME NEW job \in EX!Jobs, EX!Pending(job) PROVE job[1] =< height + 1
    BY <1>1, <1>7 DEF HandedOut, EX!Jobs
  <2>1. job[1] =< height \/ job[1] = height + 1
    BY DEF ExecInv, HandedOut
  <2>2. job[1] \in Nat
    BY JobFacts
  <2> QED
    BY <1>2, <2>1, <2>2
<1>9. Answered' /\ Collected'
  BY <1>1, <1>2, <1>3 DEF Answered, Collected
<1>10. EX!ResultsAreFinal'
  <2>1. \A i \in DOMAIN outcomes :
          /\ outcomes[i] # "none"
          /\ outcomes[i] = "success" => <<height + 1, i>> \in ended /\ ~EX!Pending(<<height + 1, i>>)
          /\ outcomes[i] = "failed" => ~EX!Pending(<<height + 1, i>>)
          /\ outcomes[i] = "timeout" => cancelled
    <3> SUFFICES ASSUME NEW i \in DOMAIN outcomes
                 PROVE  /\ outcomes[i] # "none"
                        /\ outcomes[i] = "success" =>
                             <<height + 1, i>> \in ended /\ ~EX!Pending(<<height + 1, i>>)
                        /\ outcomes[i] = "failed" => ~EX!Pending(<<height + 1, i>>)
                        /\ outcomes[i] = "timeout" => cancelled
      OBVIOUS
    <3>1. i \in 1 .. block.size /\ ~(i >= block.next)
      BY <1>1, <1>2
    <3>2. outcomes[i] # "none"
      BY <1>1, <3>1 DEF ExecInv, Collected
    <3> QED
      BY <1>1, <3>2 DEF ExecInv, EX!ResultsAreFinal, EX!Job
  <2>2. \A i : EX!Pending(<<height, i>>)' <=> EX!Pending(<<height + 1, i>>)
    BY <1>1 DEF EX!Pending, EX!Actors
  <2>3. wrote' \subseteq EX!Jobs
    BY <1>1 DEF ExecInv, RunTypes
  <2>4. ASSUME NEW i \in DOMAIN outcomes
        PROVE  /\ outcomes[i] = "success" =>
                    <<height + 1, i>> \in ended' /\ ~EX!Pending(<<height, i>>)'
               /\ outcomes[i] = "failed" => ~EX!Pending(<<height, i>>)'
               /\ outcomes[i] = "timeout" => cancelled'
    BY <1>1, <2>1, <2>2
  <2> QED
    BY <1>1, <1>3, <2>1, <2>3, <2>4 DEF EX!ResultsAreFinal, EX!Jobs
<1> QED
  BY <1>4, <1>5, <1>6, <1>8, <1>9, <1>10 DEF ExecInv

\* An actor begins a run.
LEMMA FreshRun ==
  ASSUME EX!ExecutionAssumption, ExecInv, NEW a \in EX!Actors, run[a].at = "idle",
         NEW job \in EX!Jobs \cup EX!RequestJobs, run' = [run EXCEPT ![a] = EX!Fresh(job)],
         UNCHANGED <<cache, host, cancelled, open, pool, wrote, ended, crashed>>
  PROVE  /\ RunTypes' /\ OwnHost'
         /\ run'[a].at = "load" /\ run'[a].job = job /\ run[a].job = <<>>
         /\ \A b \in EX!Actors \ {a} : run'[b] = run[b]
<1>1. /\ EX!Fresh(job) \in Runs /\ EX!Fresh(job).at = "load" /\ EX!Fresh(job).job = job
      /\ EX!Fresh(job).gas = 0
  <2>1. EX!NoRun \in Runs /\ EX!NoRun.gas = 0
    BY ExecBounds DEF EX!NoRun, Runs, AllJobs
  <2>2. \A x \in Runs : LET y == [x EXCEPT !.at = "load", !.job = job]
                        IN  y \in Runs /\ y.at = "load" /\ y.job = job /\ y.gas = x.gas
    BY DEF Runs, AllJobs
  <2> QED
    BY <2>1, <2>2 DEF EX!Fresh
<1>2. run \in [EX!Actors -> Runs] /\ run' \in [EX!Actors -> Runs]
  BY <1>1 DEF ExecInv, RunTypes
<1>3. run'[a] = EX!Fresh(job) /\ \A b \in EX!Actors \ {a} : run'[b] = run[b]
  BY <1>2
<1>4. \A b \in EX!Actors : run'[b].gas =< EX!Limit(b)
  BY <1>1, <1>3, ExecBounds DEF ExecInv, RunTypes
<1>5. RunTypes'
  BY <1>2, <1>4 DEF ExecInv, RunTypes, Runs, AllJobs, EX!Jobs, EX!RequestJobs, EX!Actors, EX!Limit
<1>6. OwnHost'
  BY <1>1, <1>3 DEF ExecInv, OwnHost, EX!Actors, EX!Mode
<1> QED
  BY <1>1, <1>3, <1>5, <1>6 DEF ExecInv, OwnJobs

\* A job is begun that nobody has had, in the order of the block.
LEMMA StartNextPreserves ==
  ASSUME EX!ExecutionAssumption, ExecInv, EX!StartNext
  PROVE  ExecInv'
<1>1. PICK job : job = EX!Job(block.next)
  OBVIOUS
<1>2. /\ block.at = "sequential" /\ block.next =< block.size /\ run["producer"].at = "idle"
      /\ run' = [run EXCEPT !["producer"] = EX!Fresh(job)]
      /\ UNCHANGED <<block, height, queue, answers, outcomes>>
      /\ UNCHANGED <<cache, host, cancelled, open, pool, wrote, ended, crashed>>
  BY <1>1 DEF EX!StartNext, EX!blockVars, EX!sharedVars
<1>3. /\ block.next \in 1 .. MaxBatch /\ height \in Nat /\ height < MaxBlocks
      /\ Len(outcomes) = block.size /\ pool = {} /\ queue \in Seq(EX!Jobs)
      /\ Len(queue) =< 2 * Cardinality(pool) /\ block.size \in 0 .. MaxBatch
  BY <1>2, BlockFacts
<1>4. job \in EX!Jobs /\ job = <<height + 1, block.next>>
  <2>1. height + 1 \in 1 .. MaxBlocks
    BY <1>3, ExecBounds
  <2> QED
    BY <1>1, <1>3, <2>1, JobFacts DEF EX!Job
<1>5. /\ RunTypes' /\ OwnHost'
      /\ run'["producer"].at = "load" /\ run'["producer"].job = job /\ run["producer"].job = <<>>
      /\ \A b \in EX!Actors \ {"producer"} : run'[b] = run[b]
  BY <1>2, <1>4, ExecBounds, FreshRun
<1>6. DOMAIN queue = {}
  <2>1. Cardinality(pool) = 0
    BY <1>3, FS_EmptySet
  <2> QED
    BY <1>3, <2>1
<1>7. \A b \in EX!Actors : run[b].job # job
  <2>1. \A b \in EX!Actors : b = "producer" \/ b \in Requests \/ run[b].job = <<>>
    BY <1>3, ExecBounds DEF ExecInv, OwnJobs
  <2>2. \A b \in Requests : run[b].job = <<>> \/ run[b].job = EX!RequestJob(b)
    BY ExecBounds DEF ExecInv, OwnJobs
  <2> QED
    BY <1>4, <1>5, <2>1, <2>2, JobFacts
<1>8. \A j : EX!Pending(j)' => EX!Pending(j) \/ j = job
  BY <1>2, <1>5 DEF EX!Pending, EX!Actors
<1>9. BlockTypes'
  BY <1>2 DEF ExecInv, BlockTypes, Blocks, EX!Jobs, EX!ResultStatuses
<1>10. OwnJobs'
  <2>1. EX!Job(block.next)' = EX!Job(block.next)
    BY <1>2 DEF EX!Job
  <2>2. /\ run'["producer"].job \in EX!Jobs /\ "producer" \notin Requests \cup Workers
        /\ run'["producer"].job = EX!Job(block.next)'
    BY <1>1, <1>4, <1>5, <2>1, ExecBounds
  <2>3. \A b \in EX!Actors \ {"producer"} : run'[b] = run[b]
    BY <1>5
  <2> QED
    BY <1>2, <1>5, <2>2, <2>3 DEF ExecInv, OwnJobs, EX!Actors, EX!Jobs, EX!RequestJob
<1>11. HandedOnce'
  <2>1. \A b, c \in EX!Actors : run'[b].job = run'[c].job /\ run'[b].job # <<>> => b = c
    <3>1. \A b, c \in EX!Actors : run[b].job = run[c].job /\ run[b].job # <<>> => b = c
      BY DEF ExecInv, HandedOnce
    <3> QED
      BY <1>5, <1>7, <3>1
  <2> QED
    BY <1>2, <1>6, <2>1 DEF HandedOnce, EX!Actors
<1>12. HandedOut'
  <2> SUFFICES ASSUME NEW j \in EX!Jobs, EX!Pending(j)'
               PROVE  j[1] =< height \/ (j[1] = height + 1 /\ j[2] = block.next)
    BY <1>2 DEF HandedOut, EX!Jobs
  <2> QED
    BY <1>2, <1>4, <1>8 DEF ExecInv, HandedOut
<1>13. Answered' /\ Collected'
  BY <1>2 DEF ExecInv, Answered, Collected
<1>14. EX!ResultsAreFinal'
  <2>1. \A i : EX!Job(i)' = EX!Job(i) /\ EX!Job(i) = <<height + 1, i>>
    BY <1>2 DEF EX!Job
  <2>2. ASSUME NEW i \in DOMAIN outcomes, outcomes[i] # "none"
        PROVE  EX!Pending(EX!Job(i))' => EX!Pending(EX!Job(i))
    <3>1. i # block.next
      BY <1>2, <1>3, <2>2 DEF ExecInv, Collected
    <3>2. EX!Job(i) # job
      BY <1>4, <2>1, <3>1
    <3>3. PICK j : j = EX!Job(i) /\ j = EX!Job(i)'
      BY <2>1
    <3>4. (EX!Pending(EX!Job(i))' => EX!Pending(j)') /\ (EX!Pending(j) => EX!Pending(EX!Job(i)))
      BY <3>3 DEF EX!Pending
    <3> QED
      BY <1>8, <3>2, <3>3, <3>4
  <2> QED
    BY <1>2, <2>1, <2>2 DEF ExecInv, RunTypes, EX!ResultsAreFinal, EX!Jobs
<1> QED
  BY <1>5, <1>9, <1>10, <1>11, <1>12, <1>13, <1>14 DEF ExecInv
\* A worker takes the head of the queue: what is under way is the same.
LEMMA TakePreserves ==
  ASSUME EX!ExecutionAssumption, ExecInv, NEW w \in pool, EX!Take(w)
  PROVE  ExecInv'
<1>1. PICK job : job = Head(queue)
  OBVIOUS
<1>2. /\ run[w].at = "idle" /\ queue # <<>> /\ run' = [run EXCEPT ![w] = EX!Fresh(job)]
      /\ queue' = Tail(queue) /\ UNCHANGED <<block, height, answers, outcomes>>
      /\ UNCHANGED <<cache, host, cancelled, open, pool, wrote, ended, crashed>>
  BY <1>1 DEF EX!Take, EX!sharedVars
<1>3. w \in EX!Actors /\ w # "producer" /\ w \notin Requests
  BY ExecBounds, BlockFacts
<1>4. /\ queue \in Seq(EX!Jobs) /\ job \in EX!Jobs /\ job = queue[1] /\ 1 \in DOMAIN queue
      /\ queue' \in Seq(EX!Jobs) /\ Len(queue') = Len(queue) - 1 /\ Len(queue) \in Nat
      /\ \A i \in DOMAIN queue' : i + 1 \in DOMAIN queue /\ i + 1 # 1 /\ queue'[i] = queue[i + 1]
      /\ \A i \in DOMAIN queue : i = 1 \/ (i - 1 \in DOMAIN queue' /\ queue[i] = queue'[i - 1])
  <2>1. queue \in Seq(EX!Jobs)
    BY DEF ExecInv, BlockTypes
  <2> QED
    BY <1>1, <1>2, <2>1
<1>5. /\ RunTypes' /\ OwnHost'
      /\ run'[w].at = "load" /\ run'[w].job = job /\ run[w].job = <<>>
      /\ \A b \in EX!Actors \ {w} : run'[b] = run[b]
  BY <1>2, <1>3, <1>4, FreshRun
<1>6. \A j : j # <<>> => (EX!Pending(j)' <=> EX!Pending(j))
  <2> SUFFICES ASSUME NEW j, j # <<>>
               PROVE  EX!Pending(j)' <=> EX!Pending(j)
    OBVIOUS
  <2>1. (\E i \in DOMAIN queue : queue[i] = j) <=> (\E i \in DOMAIN queue' : queue'[i] = j) \/ j = job
    BY <1>4
  <2>2. (\E b \in EX!Actors : run'[b].job = j) <=> (\E b \in EX!Actors : run[b].job = j) \/ j = job
    BY <1>3, <1>5
  <2> QED
    BY <2>1, <2>2 DEF EX!Pending, EX!Actors
<1>7. \A j \in EX!Jobs : EX!Pending(j)' <=> EX!Pending(j)
  BY <1>6, JobFacts
<1>8. BlockTypes'
  <2>1. Len(queue') =< 2 * Cardinality(pool)
    <3>1. Len(queue) =< 2 * Cardinality(pool)
      BY DEF ExecInv, BlockTypes
    <3> QED
      BY <1>4, <3>1, BlockFacts
  <2> QED
    BY <1>2, <1>4, <2>1 DEF ExecInv, BlockTypes, Blocks, EX!Jobs, EX!ResultStatuses
<1>9. OwnJobs'
  BY <1>2, <1>3, <1>4, <1>5 DEF ExecInv, OwnJobs, EX!Actors, EX!Jobs, EX!Job, EX!RequestJob
<1>10. HandedOnce'
  <2>1. \A i, j \in DOMAIN queue' : queue'[i] = queue'[j] => i = j
    <3>1. \A i, j \in DOMAIN queue : queue[i] = queue[j] => i = j
      BY DEF ExecInv, HandedOnce
    <3> SUFFICES ASSUME NEW i \in DOMAIN queue', NEW j \in DOMAIN queue', queue'[i] = queue'[j]
                 PROVE  i = j
      OBVIOUS
    <3>2. i + 1 = j + 1 /\ i \in Nat /\ j \in Nat
      BY <1>4, <3>1
    <3> QED
      BY <3>2
  <2>2. \A b \in EX!Actors : \A i \in DOMAIN queue' : run'[b].job # queue'[i]
    <3> SUFFICES ASSUME NEW b \in EX!Actors, NEW i \in DOMAIN queue', run'[b].job = queue'[i]
                 PROVE  FALSE
      OBVIOUS
    <3>1. queue'[i] = queue[i + 1] /\ i + 1 \in DOMAIN queue /\ i + 1 # 1
      BY <1>4
    <3>2. b = w
      BY <1>5, <3>1 DEF ExecInv, HandedOnce
    <3>3. queue[i + 1] = queue[1] /\ 1 \in DOMAIN queue
      BY <1>4, <1>5, <3>1, <3>2
    <3> QED
      BY <3>1, <3>3 DEF ExecInv, HandedOnce
  <2>3. \A b, c \in EX!Actors : run'[b].job = run'[c].job /\ run'[b].job # <<>> => b = c
    <3>1. \A b \in EX!Actors : run[b].job # job
      BY <1>4 DEF ExecInv, HandedOnce
    <3> QED
      BY <1>5, <3>1 DEF ExecInv, HandedOnce
  <2> QED
    BY <2>1, <2>2, <2>3 DEF HandedOnce, EX!Actors
<1>11. HandedOut'
  BY <1>2, <1>7 DEF ExecInv, HandedOut, EX!Jobs
<1>12. Answered'
  <2>1. \A x \in answers : x[1] \in EX!Jobs
    BY DEF ExecInv, BlockTypes
  <2> QED
    BY <1>2, <1>7, <2>1 DEF ExecInv, Answered
<1>13. Collected'
  BY <1>2 DEF ExecInv, Collected
<1>14. EX!ResultsAreFinal'
  <2>1. \A h, i : <<h, i>> # <<>>
    OBVIOUS
  <2>2. \A h, i : EX!Pending(<<h, i>>)' <=> EX!Pending(<<h, i>>)
    BY <1>6, <2>1
  <2> QED
    BY <1>2, <2>2 DEF ExecInv, RunTypes, EX!ResultsAreFinal, EX!Job, EX!Jobs
<1> QED
  BY <1>5, <1>8, <1>9, <1>10, <1>11, <1>12, <1>13, <1>14 DEF ExecInv

LEMMA RequestPreserves ==
  ASSUME EX!ExecutionAssumption, ExecInv, NEW q \in Requests, EX!Request(q)
  PROVE  ExecInv'
<1>1. PICK job : job = EX!RequestJob(q)
  OBVIOUS
<1>2. /\ block.at = "idle" /\ run[q].at = "idle" /\ run' = [run EXCEPT ![q] = EX!Fresh(job)]
      /\ UNCHANGED <<block, height, queue, answers, outcomes>>
      /\ UNCHANGED <<cache, host, cancelled, open, pool, wrote, ended, crashed>>
  BY <1>1 DEF EX!Request, EX!blockVars, EX!sharedVars
<1>3. q \in EX!Actors /\ q # "producer" /\ q \notin Workers
  BY ExecBounds
<1>4. job \in EX!RequestJobs /\ job \notin EX!Jobs /\ job # <<>>
  BY <1>1, JobFacts
<1>5. /\ RunTypes' /\ OwnHost'
      /\ run'[q].at = "load" /\ run'[q].job = job /\ run[q].job = <<>>
      /\ \A b \in EX!Actors \ {q} : run'[b] = run[b]
  BY <1>2, <1>3, <1>4, FreshRun
<1>6. \A j : j # job => (EX!Pending(j)' => EX!Pending(j))
  BY <1>2, <1>5 DEF EX!Pending, EX!Actors
<1>7. \A j \in EX!Jobs : EX!Pending(j)' => EX!Pending(j)
  BY <1>4, <1>6
<1>8. BlockTypes'
  BY <1>2 DEF ExecInv, BlockTypes, Blocks, EX!Jobs, EX!ResultStatuses
<1>9. OwnJobs'
  <2>1. run'[q].job = EX!RequestJob(q)
    BY <1>1, <1>5
  <2> QED
    BY <1>2, <1>3, <1>5, <2>1 DEF ExecInv, OwnJobs, EX!Actors, EX!Jobs, EX!Job, EX!RequestJob
<1>10. HandedOnce'
  <2>1. \A i \in DOMAIN queue : queue[i] # job
    BY <1>4 DEF ExecInv, BlockTypes
  <2>2. \A b \in EX!Actors \ {q} : run[b].job # job
    <3> SUFFICES ASSUME NEW b \in EX!Actors \ {q} PROVE run[b].job # job
      OBVIOUS
    <3>1. run[b].job = <<>> \/ run[b].job \in EX!Jobs
            \/ (b \in Requests /\ run[b].job = EX!RequestJob(b))
      BY DEF ExecInv, OwnJobs
    <3> QED
      BY <1>1, <1>4, <3>1, JobFacts
  <2>3. \A b, c \in EX!Actors : run'[b].job = run'[c].job /\ run'[b].job # <<>> => b = c
    BY <1>5, <2>2 DEF ExecInv, HandedOnce
  <2>4. \A b \in EX!Actors : \A i \in DOMAIN queue : run'[b].job # queue[i]
    BY <1>5, <2>1 DEF ExecInv, HandedOnce
  <2> QED
    BY <1>2, <2>3, <2>4 DEF ExecInv, HandedOnce, EX!Actors
<1>11. HandedOut'
  BY <1>2, <1>7 DEF ExecInv, HandedOut, EX!Jobs
<1>12. Answered' /\ Collected'
  BY <1>2 DEF ExecInv, Answered, Collected
<1>13. EX!ResultsAreFinal'
  <2>1. \A i \in DOMAIN outcomes : <<height, i>> # job
    <3>1. job[1] = 0
      BY <1>1 DEF EX!RequestJob
    <3>2. \A i \in DOMAIN outcomes : height # 0
      BY <1>2 DEF ExecInv, Collected
    <3>3. \A i : <<height, i>>[1] = height
      OBVIOUS
    <3> QED
      BY <3>1, <3>2, <3>3
  <2>2. \A i \in DOMAIN outcomes : EX!Pending(<<height, i>>)' => EX!Pending(<<height, i>>)
    BY <1>2, <1>6, <2>1
  <2> QED
    BY <1>2, <2>2 DEF ExecInv, RunTypes, EX!ResultsAreFinal, EX!Job, EX!Jobs
<1> QED
  BY <1>5, <1>8, <1>9, <1>10, <1>11, <1>12, <1>13 DEF ExecInv
\* Nothing under way changes, but for the context and the engine.
LEMMA OpenPreserves ==
  ASSUME EX!ExecutionAssumption, ExecInv, EX!CancelContext \/ EX!Close
  PROVE  ExecInv'
<1>1. /\ UNCHANGED <<block, height, queue, answers, outcomes, run, cache, host, pool, wrote, ended, crashed>>
      /\ cancelled' \in {TRUE, cancelled} /\ open' \in {FALSE, open}
  BY DEF EX!CancelContext, EX!Close, EX!blockVars
<1>2. RunTypes'
  BY <1>1 DEF ExecInv, RunTypes, Runs, AllJobs, EX!Jobs, EX!RequestJobs, EX!Actors, EX!Limit
<1>3. OwnJobs' /\ OwnHost'
  BY <1>1 DEF ExecInv, OwnJobs, OwnHost, EX!Actors, EX!Jobs, EX!Job, EX!RequestJob, EX!Mode
<1>4. wrote' \subseteq EX!Jobs
  BY <1>1 DEF ExecInv, RunTypes
<1>5. cancelled => cancelled'
  BY <1>1
<1>6. \A b \in EX!Actors : run'[b].job = run[b].job
  BY <1>1
<1> QED
  BY <1>1, <1>2, <1>3, <1>4, <1>5, <1>6, JobsStay DEF ExecInv

----------------------------------------------------------------------------
\* The steps of a run.  First those that end it with an error.
LEMMA FailPreserves ==
  ASSUME EX!ExecutionAssumption, ExecInv, NEW a \in EX!Actors, run[a].at \notin {"idle", "over"},
         EX!Finish(a, "failed"),
         UNCHANGED <<cache, host, cancelled, open, pool, wrote, ended, crashed>>
  PROVE  ExecInv'
<1>1. /\ ended \subseteq ended' /\ ended' \subseteq EX!Jobs \cup EX!RequestJobs
      /\ cache' \subseteq Codes /\ IsFiniteSet(cache') /\ Cardinality(cache') =< CacheSize
  BY DEF ExecInv, RunTypes
<1> QED
  BY <1>1, FinishPreserves

LEMMA SamePlaces ==
  ASSUME EX!ExecutionAssumption, ExecInv, NEW a \in EX!Actors
  PROVE  /\ run[a] \in Runs /\ run[a].gas =< EX!Limit(a)
         /\ run[a].calls \in 0 .. MaxCalls /\ run[a].gas \in Nat /\ run[a].staged \in BOOLEAN
         /\ cache \subseteq Codes /\ IsFiniteSet(cache) /\ Cardinality(cache) =< CacheSize
         /\ wrote \subseteq EX!Jobs /\ ended \subseteq EX!Jobs \cup EX!RequestJobs
         /\ run[a].at = "calling" /\ a # "simulation" => host = EX!Mode(a)
         /\ run[a].at = "prepare" => run[a].code \in Codes
BY DEF ExecInv, RunTypes, OwnHost, Runs

LEMMA LoadPreserves ==
  ASSUME EX!ExecutionAssumption, ExecInv, NEW a \in EX!Actors, EX!Load(a)
  PROVE  ExecInv'
<1>1. run[a].at = "load" /\ UNCHANGED <<cache, host, cancelled, open, pool, wrote, ended, crashed>>
  BY DEF EX!Load, EX!sharedVars
<1>2. CASE EX!Finish(a, "failed")
  BY <1>1, <1>2, FailPreserves
<1>3. ASSUME NEW c \in Codes, UNCHANGED EX!blockVars,
             run' = [run EXCEPT ![a].code = c,
                                ![a].at = IF a # "simulation" /\ c \in cache THEN "host" ELSE "prepare"]
      PROVE  ExecInv'
  <2>1. UNCHANGED <<block, height, queue, answers, outcomes>>
    BY <1>3 DEF EX!blockVars
  <2>2. PICK at \in {"host", "prepare"} :
          at = IF a # "simulation" /\ c \in cache THEN "host" ELSE "prepare"
    OBVIOUS
  <2>3. PICK r : r = [run[a] EXCEPT !.code = c, !.at = at]
    OBVIOUS
  <2>4. /\ r \in Runs /\ r.at = at /\ r.job = run[a].job /\ r.gas = run[a].gas /\ r.code = c
    BY <2>2, <2>3, SamePlaces DEF Runs
  <2>5. run' = [run EXCEPT ![a] = r]
    BY <1>3, <2>2, <2>3 DEF ExecInv, RunTypes
  <2> QED
    BY <1>1, <2>1, <2>2, <2>4, <2>5, SamePlaces, WorkPreserves
<1> QED
  BY <1>2, <1>3 DEF EX!Load
\* A module gets into the cache when there is room for it.
LEMMA PreparePreserves ==
  ASSUME EX!ExecutionAssumption, ExecInv, NEW a \in EX!Actors, EX!Prepare(a)
  PROVE  ExecInv'
<1>1. run[a].at = "prepare" /\ UNCHANGED <<host, cancelled, open, pool, wrote, ended>>
  BY DEF EX!Prepare
<1>2. PICK c : c = run[a].code
  OBVIOUS
<1>3. \/ EX!Finish(a, "failed") /\ UNCHANGED <<cache, crashed>>
      \/ /\ run' = [run EXCEPT ![a].at = "host"] /\ UNCHANGED EX!blockVars /\ UNCHANGED crashed
         /\ \/ cache' = cache
            \/ /\ c \notin Unfit /\ cache' = cache \cup {c}
               /\ c \in cache \/ Cardinality(cache) < CacheSize
      \/ crashed' = TRUE /\ UNCHANGED <<EX!blockVars, run, cache>>
  BY <1>2 DEF EX!Prepare, EX!Cardinality, Cardinality
<1>4. CASE EX!Finish(a, "failed") /\ UNCHANGED <<cache, crashed>>
  BY <1>1, <1>4, FailPreserves
<1>5. CASE crashed' = TRUE /\ UNCHANGED <<EX!blockVars, run, cache>>
  <2>1. UNCHANGED <<block, height, queue, answers, outcomes, run, cache>>
    BY <1>5 DEF EX!blockVars
  <2>2. RunTypes'
    BY <1>1, <1>5, <2>1
       DEF ExecInv, RunTypes, Runs, AllJobs, EX!Jobs, EX!RequestJobs, EX!Actors, EX!Limit
  <2>3. OwnJobs' /\ OwnHost'
    BY <1>1, <2>1 DEF ExecInv, OwnJobs, OwnHost, EX!Actors, EX!Jobs, EX!Job, EX!RequestJob, EX!Mode
  <2>4. wrote' \subseteq EX!Jobs
    BY <1>1 DEF ExecInv, RunTypes
  <2> QED
    BY <1>1, <2>1, <2>2, <2>3, <2>4, JobsStay DEF ExecInv
<1>6. CASE /\ run' = [run EXCEPT ![a].at = "host"] /\ UNCHANGED EX!blockVars /\ UNCHANGED crashed
           /\ \/ cache' = cache
              \/ /\ c \notin Unfit /\ cache' = cache \cup {c}
                 /\ c \in cache \/ Cardinality(cache) < CacheSize
  <2>1. PICK r : r = [run[a] EXCEPT !.at = "host"]
    OBVIOUS
  <2>2. /\ r \in Runs /\ r.at = "host" /\ r.job = run[a].job /\ r.gas = run[a].gas
    BY <2>1, SamePlaces DEF Runs
  <2>3. run' = [run EXCEPT ![a] = r]
    BY <1>6, <2>1 DEF ExecInv, RunTypes
  <2>4. /\ cache' \subseteq Codes /\ IsFiniteSet(cache') /\ Cardinality(cache') =< CacheSize
    <3>1. CASE cache' = cache
      BY <3>1, SamePlaces
    <3>2. CASE c \in cache /\ cache' = cache \cup {c}
      <4>1. cache' = cache
        BY <3>2
      <4> QED
        BY <4>1, SamePlaces
    <3>3. CASE c \notin cache /\ cache' = cache \cup {c} /\ Cardinality(cache) < CacheSize
      <4>1. c \in Codes
        BY <1>1, <1>2, SamePlaces
      <4>2. IsFiniteSet(cache') /\ Cardinality(cache') = Cardinality(cache) + 1
        BY <3>3, SamePlaces, FS_AddElement
      <4>3. Cardinality(cache) \in Nat
        BY SamePlaces, FS_CardinalityType
      <4> QED
        BY <3>3, <4>1, <4>2, <4>3, SamePlaces, ExecBounds
    <3> QED
      BY <1>6, <3>1, <3>2, <3>3
  <2>5. UNCHANGED <<block, height, queue, answers, outcomes>>
    BY <1>6 DEF EX!blockVars
  <2> QED
    BY <1>1, <1>6, <2>2, <2>3, <2>4, <2>5, SamePlaces, WorkPreserves
<1> QED
  BY <1>3, <1>4, <1>5, <1>6

LEMMA InstantiatePreserves ==
  ASSUME EX!ExecutionAssumption, ExecInv, NEW a \in EX!Actors, EX!Instantiate(a)
  PROVE  ExecInv'
<1>1. run[a].at = "host" /\ UNCHANGED <<cache, cancelled, open, pool, wrote, ended, crashed>>
  BY DEF EX!Instantiate
<1>2. CASE EX!Finish(a, "failed") /\ UNCHANGED host
  BY <1>1, <1>2, FailPreserves
<1>3. CASE /\ a = "simulation" \/ host = "none"
           /\ run' = [run EXCEPT ![a].at = "calling"] /\ UNCHANGED EX!blockVars
           /\ host' = IF a = "simulation" THEN host ELSE EX!Mode(a)
  <2>1. PICK r : r = [run[a] EXCEPT !.at = "calling"]
    OBVIOUS
  <2>2. /\ r \in Runs /\ r.at = "calling" /\ r.job = run[a].job /\ r.gas = run[a].gas
    BY <2>1, SamePlaces DEF Runs
  <2>3. run' = [run EXCEPT ![a] = r]
    BY <1>3, <2>1 DEF ExecInv, RunTypes
  <2>4. host' = host \/ (host = "none" /\ host' \in {"execute", "query"})
    BY <1>3 DEF EX!Mode
  <2>5. a # "simulation" => host' = EX!Mode(a)
    BY <1>3
  <2>6. UNCHANGED <<block, height, queue, answers, outcomes>>
    BY <1>3 DEF EX!blockVars
  <2> QED
    BY <1>1, <2>2, <2>3, <2>4, <2>5, <2>6, SamePlaces, WorkPreserves
<1> QED
  BY <1>2, <1>3 DEF EX!Instantiate

LEMMA ReturnPreserves ==
  ASSUME EX!ExecutionAssumption, ExecInv, NEW a \in EX!Actors, EX!Return(a)
  PROVE  ExecInv'
<1>1. /\ run[a].at = "calling" /\ ended' = ended \cup {run[a].job}
      /\ UNCHANGED <<cache, host, cancelled, open, pool, wrote, crashed>>
  BY DEF EX!Return
<1>2. /\ ended \subseteq ended' /\ run[a].job \in ended' /\ ended' \subseteq EX!Jobs \cup EX!RequestJobs
  <2>1. run[a].job \in EX!Jobs \cup EX!RequestJobs
    BY <1>1, JobFacts DEF ExecInv, OwnJobs
  <2> QED
    BY <1>1, <2>1, SamePlaces
<1>3. CASE EX!Finish(a, "success")
  BY <1>1, <1>2, <1>3, SamePlaces, FinishPreserves
<1>4. CASE run' = [run EXCEPT ![a].at = "gate"] /\ UNCHANGED EX!blockVars
  <2>1. PICK r : r = [run[a] EXCEPT !.at = "gate"]
    OBVIOUS
  <2>2. /\ r \in Runs /\ r.at = "gate" /\ r.job = run[a].job /\ r.gas = run[a].gas
    BY <2>1, SamePlaces DEF Runs
  <2>3. run' = [run EXCEPT ![a] = r]
    BY <1>4, <2>1 DEF ExecInv, RunTypes
  <2>4. UNCHANGED <<block, height, queue, answers, outcomes>>
    BY <1>4 DEF EX!blockVars
  <2> QED
    BY <1>1, <1>2, <2>2, <2>3, <2>4, SamePlaces, WorkPreserves
<1> QED
  BY <1>3, <1>4 DEF EX!Return
\* What is consumed stays within the limit, for the sum is what is compared.
LEMMA ConsumeBound ==
  ASSUME EX!ExecutionAssumption, NEW gas \in Nat, NEW amount \in Nat, NEW limit \in Nat,
         gas =< limit
  PROVE  LET m == EX!ConsumeGas(gas, amount, limit)
         IN  m.gas \in Nat /\ m.gas =< limit /\ m.paid \in BOOLEAN
<1>1. PICK sum : sum = (gas + amount) % GasModulus
  OBVIOUS
<1>2. sum \in Nat
  BY <1>1, ExecBounds
<1>3. EX!ConsumeGas(gas, amount, limit)
        = IF sum > limit THEN [gas |-> gas, paid |-> FALSE] ELSE [gas |-> sum, paid |-> TRUE]
  BY <1>1 DEF EX!ConsumeGas
<1>4. CASE sum > limit
  BY <1>3, <1>4
<1>5. CASE ~(sum > limit)
  BY <1>2, <1>3, <1>5
<1> QED
  BY <1>4, <1>5

LEMMA ChargeBound ==
  ASSUME EX!ExecutionAssumption, NEW f \in EX!Functions, NEW gas \in Nat, NEW limit \in Nat,
         gas =< limit
  PROVE  LET m == EX!Charge(gas, f, limit)
         IN  m.gas \in Nat /\ m.gas =< limit /\ m.paid \in BOOLEAN
<1>1. EX!Charges[f][1] \in Nat /\ EX!Charges[f][2] \in Nat
  BY DEF EX!Functions, EX!Charges
<1>2. PICK b : b = EX!ConsumeGas(gas, EX!Charges[f][1], limit)
  OBVIOUS
<1>3. b.gas \in Nat /\ b.gas =< limit /\ b.paid \in BOOLEAN
  BY <1>1, <1>2, ConsumeBound
<1>4. EX!Charge(gas, f, limit) = IF b.paid THEN EX!ConsumeGas(b.gas, EX!Charges[f][2], limit) ELSE b
  BY <1>2 DEF EX!Charge
<1>5. PICK c : c = EX!ConsumeGas(b.gas, EX!Charges[f][2], limit)
  OBVIOUS
<1>6. c.gas \in Nat /\ c.gas =< limit /\ c.paid \in BOOLEAN
  BY <1>1, <1>3, <1>5, ConsumeBound
<1>7. EX!Charge(gas, f, limit) = b \/ EX!Charge(gas, f, limit) = c
  BY <1>4, <1>5
<1> QED
  BY <1>3, <1>6, <1>7

\* A write is that of a transaction: the functions of the query mode have none.
LEMMA HostCallPreserves ==
  ASSUME EX!ExecutionAssumption, ExecInv, NEW a \in EX!Actors, NEW f \in EX!Functions,
         EX!HostCall(a, f)
  PROVE  ExecInv'
<1>1. PICK m : m = EX!Charge(run[a].gas, f, EX!Limit(a))
  OBVIOUS
<1>2. /\ run[a].at = "calling" /\ run[a].calls < MaxCalls
      /\ EX!Linked(a) = "execute" \/ f \notin EX!Writes \cup EX!Stages
      /\ run' = [run EXCEPT ![a].gas = m.gas, ![a].calls = @ + 1,
                            ![a].staged = @ \/ (m.paid /\ f \in EX!Stages)]
      /\ wrote' = IF f \in EX!Writes /\ m.paid /\ open /\ a # "simulation"
                  THEN wrote \cup {run[a].job} ELSE wrote
      /\ UNCHANGED <<cache, host, cancelled, open, pool, ended, crashed>>
      /\ UNCHANGED <<block, height, queue, answers, outcomes>>
  BY <1>1 DEF EX!HostCall, EX!Calling, EX!blockVars
<1>3. m.gas \in Nat /\ m.gas =< EX!Limit(a)
  BY <1>1, SamePlaces, ExecBounds, ChargeBound
<1>4. PICK staged \in BOOLEAN : staged = (run[a].staged \/ (m.paid /\ f \in EX!Stages))
  <2> WITNESS (run[a].staged \/ (m.paid /\ f \in EX!Stages)) \in BOOLEAN
  <2> QED
    OBVIOUS
<1>5. PICK r : r = [run[a] EXCEPT !.gas = m.gas, !.calls = @ + 1, !.staged = staged]
  OBVIOUS
<1>6. /\ r \in Runs /\ r.at = "calling" /\ r.job = run[a].job /\ r.gas = m.gas
  <2>1. run[a].calls + 1 \in 0 .. MaxCalls
    BY <1>2, SamePlaces, ExecBounds
  <2> QED
    BY <1>2, <1>3, <1>5, <2>1, SamePlaces DEF Runs
<1>7. run' = [run EXCEPT ![a] = r]
  BY <1>2, <1>4, <1>5 DEF ExecInv, RunTypes
<1>8. wrote' \subseteq EX!Jobs
  <2>1. CASE wrote' = wrote
    BY <2>1, SamePlaces
  <2>2. CASE f \in EX!Writes /\ a # "simulation" /\ wrote' = wrote \cup {run[a].job}
    <3>1. host = "execute"
      BY <1>2, <2>2 DEF EX!Linked
    <3>2. EX!Mode(a) = "execute"
      BY <1>2, <2>2, <3>1, SamePlaces
    <3>3. a \notin Requests
      BY <2>2, <3>2, ExecBounds DEF EX!Mode
    <3>4. run[a].job \in EX!Jobs
      BY <1>2, <3>3 DEF ExecInv, OwnJobs
    <3> QED
      BY <2>2, <3>4, SamePlaces
  <2> QED
    BY <1>2, <2>1, <2>2
<1> QED
  BY <1>2, <1>3, <1>6, <1>7, <1>8, SamePlaces, WorkPreserves

LEMMA GasConsumePreserves ==
  ASSUME EX!ExecutionAssumption, ExecInv, NEW a \in EX!Actors, EX!GasConsume(a)
  PROVE  ExecInv'
<1>1. /\ run[a].at = "calling" /\ run[a].calls < MaxCalls
      /\ UNCHANGED <<cache, host, cancelled, open, pool, wrote, ended, crashed>>
      /\ UNCHANGED <<block, height, queue, answers, outcomes>>
  BY DEF EX!GasConsume, EX!Calling, EX!blockVars, EX!sharedVars
<1>2. PICK amount \in {GasLimit, GasModulus - 1} :
        run' = [run EXCEPT ![a].gas = EX!ConsumeGas(@, amount, EX!Limit(a)).gas, ![a].calls = @ + 1]
  BY DEF EX!GasConsume
<1>3. amount \in Nat
  BY ExecBounds
<1>4. PICK gas : gas = EX!ConsumeGas(run[a].gas, amount, EX!Limit(a)).gas
  OBVIOUS
<1>5. gas \in Nat /\ gas =< EX!Limit(a)
  BY <1>3, <1>4, SamePlaces, ExecBounds, ConsumeBound
<1>6. PICK r : r = [run[a] EXCEPT !.gas = gas, !.calls = @ + 1]
  OBVIOUS
<1>7. /\ r \in Runs /\ r.at = "calling" /\ r.job = run[a].job /\ r.gas = gas
  <2>1. run[a].calls + 1 \in 0 .. MaxCalls
    BY <1>1, SamePlaces, ExecBounds
  <2> QED
    BY <1>1, <1>5, <1>6, <2>1, SamePlaces DEF Runs
<1>8. run' = [run EXCEPT ![a] = r]
  BY <1>2, <1>4, <1>6 DEF ExecInv, RunTypes
<1> QED
  BY <1>1, <1>5, <1>7, <1>8, SamePlaces, WorkPreserves

LEMMA ExecStep ==
  ASSUME EX!ExecutionAssumption, ExecInv, [EX!Next]_(EX!vars)
  PROVE  ExecInv'
<1>1. CASE UNCHANGED EX!vars
  <2>1. UNCHANGED <<block, height, queue, answers, outcomes, run, cache, host, cancelled, open,
                    pool, wrote, ended, crashed>>
    BY <1>1 DEF EX!vars, EX!blockVars, EX!sharedVars
  <2>2. RunTypes'
    BY <2>1 DEF ExecInv, RunTypes, Runs, AllJobs, EX!Jobs, EX!RequestJobs, EX!Actors, EX!Limit
  <2>3. OwnJobs' /\ OwnHost'
    BY <2>1 DEF ExecInv, OwnJobs, OwnHost, EX!Actors, EX!Jobs, EX!Job, EX!RequestJob, EX!Mode
  <2>4. wrote' \subseteq EX!Jobs
    BY <2>1 DEF ExecInv, RunTypes
  <2> QED
    BY <2>1, <2>2, <2>3, <2>4, JobsStay DEF ExecInv
<1>2. ASSUME NEW a \in EX!Actors, EX!Refuse(a) \/ EX!Trap(a) \/ EX!Gate(a) PROVE ExecInv'
  BY <1>2, FailPreserves DEF EX!Refuse, EX!Trap, EX!Gate, EX!sharedVars
<1>3. ASSUME NEW a \in EX!Actors, EX!RunStep(a) PROVE ExecInv'
  BY <1>2, <1>3, LoadPreserves, PreparePreserves, InstantiatePreserves, ReturnPreserves
     DEF EX!RunStep
<1>4. ASSUME EX!BlockStep PROVE ExecInv'
  BY <1>4, SendPreserves, CollectPreserves, StartNextPreserves, EndBlockPreserves
     DEF EX!BlockStep
<1>5. CASE EX!Next
  BY <1>3, <1>4, <1>5, BeginBlockPreserves, TakePreserves, RequestPreserves, HostCallPreserves,
     GasConsumePreserves, OpenPreserves DEF EX!Next
<1> QED
  BY <1>1, <1>5

\* The invariant of the engine: a job is handed out once, and what was handed out, what
\* is answered and what is collected agree with the block (ExecuteTransactions,
\* executeParallel and the workers of exec.go).
THEOREM ExecutionInvariant ==
  ASSUME EX!ExecutionAssumption
  PROVE  EX!Spec => []ExecInv
<1>1. EX!Init => ExecInv
  BY ExecInit
<1>2. ExecInv /\ [EX!Next]_(EX!vars) => ExecInv'
  BY ExecStep
<1> QED
  BY <1>1, <1>2, PTL DEF EX!Spec

LEMMA EngineTypesHold ==
  ASSUME EX!ExecutionAssumption, ExecInv
  PROVE  EX!TypeOK
<1>1. /\ block.at \in {"idle", "sequential", "sending", "collecting"}
      /\ block.size \in 0 .. MaxBatch /\ block.next \in 1 .. MaxBatch + 1
      /\ height \in 0 .. MaxBlocks
      /\ queue \in Seq(EX!Jobs) /\ Len(queue) =< 2 * Cardinality(pool)
      /\ answers \subseteq EX!Jobs \X EX!ResultStatuses /\ outcomes \in Seq(EX!ResultStatuses)
  BY DEF ExecInv, BlockTypes, Blocks, EX!ResultStatuses
<1>2. ASSUME NEW a \in EX!Actors
      PROVE  /\ run[a].at \in {"idle", "load", "prepare", "host", "calling", "gate", "over"}
             /\ run[a].job \in EX!Jobs \cup EX!RequestJobs \cup {<<>>}
             /\ run[a].code \in Codes \cup {"none"}
             /\ run[a].gas \in 0 .. EX!Limit(a) /\ run[a].calls \in 0 .. MaxCalls
             /\ run[a].staged \in BOOLEAN
  <2>1. run[a] \in Runs /\ run[a].gas \in Nat /\ run[a].gas =< EX!Limit(a)
    BY SamePlaces
  <2>2. run[a].gas \in 0 .. EX!Limit(a)
    BY <2>1, ExecBounds
  <2> QED
    BY <2>1, <2>2 DEF Runs, AllJobs
<1>3. /\ cache \subseteq Codes /\ Cardinality(cache) =< CacheSize
      /\ host \in {"none", "execute", "query"} /\ {cancelled, open, crashed} \subseteq BOOLEAN
      /\ pool \subseteq Workers /\ wrote \cup ended \subseteq EX!Jobs \cup EX!RequestJobs
  BY DEF ExecInv, RunTypes, BlockTypes
<1> QED
  BY <1>1, <1>2, <1>3 DEF EX!TypeOK, EX!Cardinality, Cardinality

\* The types of the engine, with the gas of a run at most its limit and the cache at
\* most its size.
THEOREM EngineTypeOK ==
  ASSUME EX!ExecutionAssumption
  PROVE  EX!Spec => []EX!TypeOK
<1>1. ExecInv => EX!TypeOK
  BY EngineTypesHold
<1> QED
  BY <1>1, ExecutionInvariant, PTL

\* The results of a block are the last word on its transactions, for any number of workers,
\* transactions and blocks: one that succeeded has run to the end, one that was refused or
\* failed does not run again, and only a cancelled context leaves some that may still write.
THEOREM ExecutionResultsAreFinal ==
  ASSUME EX!ExecutionAssumption
  PROVE  EX!Spec => []EX!ResultsAreFinal
<1>1. ExecInv => EX!ResultsAreFinal
  BY DEF ExecInv
<1> QED
  BY <1>1, ExecutionInvariant, PTL

\* While a block is under way, what has been collected of it is not written again: not by
\* an answer that comes late, and not by the next turn of the loop.
ResultsStay ==
  block.at # "idle" => \A i \in DOMAIN outcomes : outcomes[i] # "none" => outcomes'[i] = outcomes[i]

LEMMA ResultStep ==
  ASSUME EX!ExecutionAssumption, ExecInv, EX!Next
  PROVE  ResultsStay
<1>1. CASE UNCHANGED outcomes
  BY <1>1 DEF ResultsStay
<1>2. CASE block.at = "idle"
  BY <1>2 DEF ResultsStay
<1>3. ASSUME block.at \in {"sequential", "collecting"}, block.next =< block.size, NEW status,
             outcomes' = [outcomes EXCEPT ![block.next] = status]
      PROVE  ResultsStay
  <2>1. /\ Len(outcomes) = block.size /\ outcomes \in Seq(EX!ResultStatuses)
        /\ block.next \in 1 .. MaxBatch /\ block.size \in 0 .. MaxBatch
    BY <1>3, BlockFacts
  <2>2. outcomes[block.next] = "none"
    BY <1>3, <2>1 DEF ExecInv, Collected
  <2> QED
    BY <1>3, <2>1, <2>2 DEF ResultsStay
<1>4. ASSUME EX!Collect PROVE ResultsStay
  BY <1>3, <1>4 DEF EX!Collect
<1>5. ASSUME NEW a \in EX!Actors, NEW status, run[a].at \notin {"idle", "over"}, EX!Finish(a, status)
      PROVE  ResultsStay
  <2>1. CASE a = "producer"
    <3>1. /\ outcomes' = [outcomes EXCEPT ![block.next] = status]
          /\ block.at = "sequential" /\ block.next =< block.size
      BY <1>5, <2>1 DEF ExecInv, OwnJobs, EX!Finish
    <3> QED
      BY <1>3, <3>1
  <2>2. CASE a # "producer"
    BY <1>1, <1>5, <2>2 DEF EX!Finish
  <2> QED
    BY <2>1, <2>2
<1>6. ASSUME NEW a \in EX!Actors, EX!RunStep(a) PROVE ResultsStay
  <2>1. ASSUME EX!Prepare(a) PROVE ResultsStay
    BY <1>1, <1>5, <2>1 DEF EX!Prepare, EX!blockVars
  <2>2. ASSUME EX!Instantiate(a) \/ EX!Return(a) PROVE ResultsStay
    BY <1>1, <1>5, <2>2 DEF EX!Instantiate, EX!Return, EX!blockVars
  <2>3. ASSUME EX!Refuse(a) \/ EX!Load(a) \/ EX!Trap(a) \/ EX!Gate(a) PROVE ResultsStay
    BY <1>1, <1>5, <2>3 DEF EX!Refuse, EX!Load, EX!Trap, EX!Gate, EX!blockVars
  <2> QED
    BY <1>6, <2>1, <2>2, <2>3 DEF EX!RunStep
<1>7. ASSUME NEW n \in 1 .. MaxBatch, EX!BeginBlock(n) PROVE ResultsStay
  BY <1>2, <1>7 DEF EX!BeginBlock, EX!Unlocked
<1>8. ASSUME EX!BlockStep PROVE ResultsStay
  BY <1>1, <1>4, <1>8 DEF EX!BlockStep, EX!Send, EX!StartNext, EX!EndBlock, EX!blockVars
<1>9. ASSUME NEW a \in EX!Actors, EX!GasConsume(a) \/ \E f \in EX!Functions : EX!HostCall(a, f)
      PROVE  UNCHANGED outcomes
  BY <1>9 DEF EX!GasConsume, EX!HostCall, EX!blockVars
<1>10. ASSUME \/ \E w \in pool : EX!Take(w)
              \/ \E q \in Requests : EX!Request(q)
              \/ EX!CancelContext \/ EX!Close
       PROVE  UNCHANGED outcomes
  BY <1>10 DEF EX!Take, EX!Request, EX!CancelContext, EX!Close, EX!blockVars
<1> QED
  BY <1>1, <1>6, <1>7, <1>8, <1>9, <1>10 DEF EX!Next

\* A result that executeParallel or executeSequential has recorded is final, however late
\* the worker of an earlier block answers.
THEOREM ExecutionResultsStay ==
  ASSUME EX!ExecutionAssumption
  PROVE  EX!Spec => [][ResultsStay]_(EX!vars)
<1>1. ExecInv /\ [EX!Next]_(EX!vars) => [ResultsStay]_(EX!vars)
  BY ResultStep
<1> QED
  BY <1>1, ExecutionInvariant, PTL DEF EX!Spec

----------------------------------------------------------------------------
(***************************************************************************)
(* The composition: each component keeps its invariant in the behaviours   *)
(* that are about it.                                                      *)
(***************************************************************************)
Engines == {"sequential", "single", "paired"}
Connections == {"connected", "redialled"}

LEMMA ScopeStep ==
  ASSUME ScopeGateAssumption, IInv, [ExecutionNext]_executionVars
  PROVE  IInv'
<1>1. [Next]_vars
  BY DEF ExecutionNext, executionVars
<1> QED
  BY <1>1, NextPreserves

LEMMA EnginesStep ==
  ASSUME EX!ExecutionAssumption, part \in Engines => ExecInv, [ExecutionNext]_executionVars
  PROVE  (part \in Engines => ExecInv)'
<1> SUFFICES ASSUME part' \in Engines PROVE ExecInv'
  BY DEF Engines
<1>1. part = part' /\ ([EX!Next]_(EX!vars) \/ UNCHANGED execution)
  BY DEF ExecutionNext, executionVars, Engines
<1>2. UNCHANGED execution => UNCHANGED EX!vars
  BY DEF execution, EX!vars, EX!blockVars, EX!sharedVars
<1> QED
  BY <1>1, <1>2, ExecStep

LEMMA ConnectionsStep ==
  ASSUME TE!TxEventsAssumption, part \in Connections => EventInv, [ExecutionNext]_executionVars
  PROVE  (part \in Connections => EventInv)'
<1> SUFFICES ASSUME part' \in Connections PROVE EventInv'
  BY DEF Connections
<1>1. part = part' /\ ([TE!Next]_(TE!vars) \/ UNCHANGED txEvents)
  BY DEF ExecutionNext, executionVars, Connections
<1>2. UNCHANGED txEvents => UNCHANGED TE!vars
  BY DEF txEvents, TE!vars, TE!mapVars, TE!connVars, TE!goVars, TE!l0Vars, TE!endVars
<1> QED
  BY <1>1, <1>2, EventStep

\* What the module says of the components holds together.
CInv == IInv /\ (part \in Engines => ExecInv) /\ (part \in Connections => EventInv)

THEOREM ContractsInvariant ==
  ASSUME ContractsAssumption
  PROVE  ExecutionSpec => []CInv
<1>1. ScopeGateAssumption /\ EX!ExecutionAssumption /\ TE!TxEventsAssumption
  BY DEF ContractsAssumption
<1>2. ExecutionInit => CInv
  BY <1>1, InitInvariant, ExecInit, EventInit DEF ExecutionInit, CInv
<1>3. CInv /\ [ExecutionNext]_executionVars => CInv'
  BY <1>1, ScopeStep, EnginesStep, ConnectionsStep DEF CInv
<1> QED
  BY <1>2, <1>3, PTL DEF ExecutionSpec

\* The variables of every component have their types, with the gas of a run at most its
\* limit, the cache at most its size, and each channel at most its capacity.
THEOREM ContractsTypes ==
  ASSUME ContractsAssumption
  PROVE  ExecutionSpec => []ExecutionTypeOK
<1>1. CInv => ExecutionTypeOK
  BY EngineTypesHold, EventTypesHold
     DEF ContractsAssumption, CInv, IInv, ExecutionTypeOK, Engines, Connections
<1> QED
  BY <1>1, ContractsInvariant, PTL

\* The results of a block are the last word on its transactions, with a pool of any size and
\* without, whatever requests, a cancelled context and Close come in between.
THEOREM ContractsResultsAreFinal ==
  ASSUME ContractsAssumption
  PROVE  ExecutionSpec => []ResultsAreFinal
<1>1. CInv => ResultsAreFinal
  BY DEF CInv, ExecInv, ResultsAreFinal, Engines
<1> QED
  BY <1>1, ContractsInvariant, PTL

\* The pause reaches every checker in time beside engine and events too.
THEOREM ContractsPauseHolds ==
  ASSUME ContractsAssumption
  PROVE  ExecutionSpec => []PauseHolds
<1>1. CInv => PauseHolds
  BY DEF CInv, IInv
<1> QED
  BY <1>1, ContractsInvariant, PTL

\* No channel is closed twice, and every subscription gets on a new connection, for any
\* number of transactions, calls and connections.
THEOREM ContractsSubscriptionsHold ==
  ASSUME ContractsAssumption
  PROVE  ExecutionSpec => []SubscriptionsHold
<1>1. CInv => SubscriptionsHold
  BY DEF CInv, EventInv, Sending, SubscriptionsHold, TE!SubscriptionsHold, TE!Connected, Connections
<1> QED
  BY <1>1, ContractsInvariant, PTL
=============================================================================
