------------------------------ MODULE Pricing ------------------------------
(***************************************************************************)
(* The cached gas schedule (ScheduleProvider in bridge/pricing/schedule.go)*)
(* and the top-ups of the sequencer's key page (credits_manager.go and     *)
(* creditsManagementLoop of sequencer/loop.go), which read the schedule.   *)
(*                                                                         *)
(* The write lock is held while the registry is asked for a schedule.  The *)
(* balance of the page is read before the schedule is, and the top-up goes *)
(* into the outbox, to be executed by L0 at some later time: the next      *)
(* check may still see the old balance.  L0 is external.                   *)
(***************************************************************************)
EXTENDS Integers, Sequences, SequencesExt

CONSTANTS
  Readers,        \* goroutines that use the schedule; "auto" is the refresher's
  Ttl,            \* ScheduleProvider.ttl, in ticks
  Target,         \* ensureCredits: up to 5000 credits
  MinBuffer,      \* ensureCredits: 1000 credits, which it does not look at
  MaxTopUps,      \* bound: top-ups in one behaviour
  MaxErrors       \* bound: calls of L0 that fail

PricingAssumption ==
  /\ {Ttl, Target} \subseteq Nat \ {0}
  /\ {MinBuffer, MaxTopUps, MaxErrors} \subseteq Nat
  /\ MinBuffer < Target
  /\ "nobody" \notin Readers

Loop == "loop"      \* creditsManagementLoop
Users == Readers \cup {Loop}

VARIABLES
  age,            \* ticks since lastRefresh, at most Ttl
  user,           \* where a user of the schedule stands
  refreshing,     \* the user that holds the write lock, or none
  autoStops,      \* stopCh is closed
  balance,        \* credits of the key page on L0
  read,           \* the balance that EnsureCredits has read
  topUps,         \* the amounts of the top-ups queued and not yet executed
  topUpsLeft, queryErrorsLeft

scheduleVars == <<age, user, refreshing, autoStops>>
creditVars == <<balance, read, topUps, topUpsLeft>>
vars == <<scheduleVars, creditVars, queryErrorsLeft>>

Nobody == "nobody"

\* NewScheduleProvider falls back on the default schedule and leaves
\* lastRefresh zero if the registry does not answer.
Init ==
  /\ age \in {0, Ttl}
  /\ user = [u \in Users |-> "out"]
  /\ refreshing = Nobody
  /\ autoStops = FALSE
  /\ balance \in 0 .. Target
  /\ read = 0 /\ topUps = <<>>
  /\ topUpsLeft = MaxTopUps /\ queryErrorsLeft = MaxErrors

----------------------------------------------------------------------------
\* The schedule.

Fresh == age < Ttl

\* Get, under the read lock: the schedule is fresh, or it has to be refreshed.
Get(u) ==
  /\ refreshing = Nobody
  /\ user' = [user EXCEPT ![u] = IF Fresh THEN "got" ELSE "refresh"]
  /\ UNCHANGED <<age, refreshing, autoStops>>

\* The refresher calls refresh without a look at the schedule.
AutoRefresh(u) ==
  /\ user[u] = "out" /\ ~autoStops
  /\ user' = [user EXCEPT ![u] = "refresh"]
  /\ UNCHANGED <<age, refreshing, autoStops, creditVars, queryErrorsLeft>>

\* refresh, with the lock held: another user may have been here before.
Refresh(u) ==
  /\ user[u] = "refresh" /\ refreshing = Nobody
  /\ IF Fresh
     THEN user' = [user EXCEPT ![u] = "got"] /\ UNCHANGED refreshing
     ELSE /\ refreshing' = u
          /\ user' = [user EXCEPT ![u] = "fetching"]
  /\ UNCHANGED <<age, autoStops, creditVars, queryErrorsLeft>>

\* The registry answers, or the call fails and the old schedule is used.
Fetch(u) ==
  /\ user[u] = "fetching"
  /\ refreshing' = Nobody
  /\ user' = [user EXCEPT ![u] = "got"]
  /\ \/ age' = 0 /\ UNCHANGED queryErrorsLeft
     \/ /\ queryErrorsLeft > 0
        /\ queryErrorsLeft' = queryErrorsLeft - 1
        /\ UNCHANGED age
  /\ UNCHANGED <<autoStops, creditVars>>

Use(u) ==
  /\ user[u] = "out" /\ u \in Readers \ {"auto"}
  /\ Get(u)
  /\ UNCHANGED <<creditVars, queryErrorsLeft>>

Leave(u) ==
  /\ u \in Readers /\ user[u] = "got"
  /\ user' = [user EXCEPT ![u] = "out"]
  /\ UNCHANGED <<age, refreshing, autoStops, creditVars, queryErrorsLeft>>

StopRefresh ==
  /\ ~autoStops /\ refreshing = Nobody
  /\ autoStops' = TRUE
  /\ UNCHANGED <<age, user, refreshing, creditVars, queryErrorsLeft>>

----------------------------------------------------------------------------
\* EnsureCredits.

Funded == balance >= Target

\* Mutant: the page is topped up when it is below the buffer.
QueryCreditsBelowBuffer ==
  /\ user[Loop] = "out"
  /\ balance < MinBuffer
  /\ read' = balance
  /\ user' = [user EXCEPT ![Loop] = "queried"]
  /\ UNCHANGED <<age, refreshing, autoStops, balance, topUps, topUpsLeft, queryErrorsLeft>>

\* The query of the balance; an error ends the check.
QueryCredits ==
  /\ user[Loop] = "out"
  /\ \/ /\ ~Funded
        /\ read' = balance
        /\ user' = [user EXCEPT ![Loop] = "queried"]
        /\ UNCHANGED queryErrorsLeft
     \/ /\ queryErrorsLeft > 0
        /\ queryErrorsLeft' = queryErrorsLeft - 1
        /\ UNCHANGED <<user, read>>
  /\ UNCHANGED <<age, refreshing, autoStops, balance, topUps, topUpsLeft>>

GetForTopUp ==
  /\ user[Loop] = "queried"
  /\ Get(Loop)
  /\ UNCHANGED <<creditVars, queryErrorsLeft>>

\* BuildAddCredits and EnqueueEnvelope: for what the page lacked when it was
\* read, whatever is on its way.
EnqueueTopUp ==
  /\ user[Loop] = "got" /\ topUpsLeft > 0
  /\ topUps' = Append(topUps, Target - read)
  /\ topUpsLeft' = topUpsLeft - 1
  /\ read' = 0
  /\ user' = [user EXCEPT ![Loop] = "out"]
  /\ UNCHANGED <<age, refreshing, autoStops, balance, queryErrorsLeft>>

CreditsLoop == QueryCredits \/ GetForTopUp \/ EnqueueTopUp

----------------------------------------------------------------------------
\* L0, and time.

ExecuteTopUp ==
  /\ topUps # <<>>
  /\ balance' = balance + Head(topUps)
  /\ topUps' = Tail(topUps)
  /\ UNCHANGED <<scheduleVars, read, topUpsLeft, queryErrorsLeft>>

\* A transaction of the sequencer; none comes once a single top-up is left.
Spend(n) ==
  /\ n =< balance /\ topUpsLeft > 1
  /\ balance' = balance - n
  /\ UNCHANGED <<scheduleVars, read, topUps, topUpsLeft, queryErrorsLeft>>

PricingTick ==
  /\ age < Ttl
  /\ age' = age + 1
  /\ UNCHANGED <<user, refreshing, autoStops, creditVars, queryErrorsLeft>>

UserStep(u) == Refresh(u) \/ Fetch(u) \/ Leave(u)

Next ==
  \/ \E u \in Readers : Use(u)
  \/ AutoRefresh("auto")
  \/ \E u \in Users : UserStep(u)
  \/ StopRefresh
  \/ CreditsLoop
  \/ ExecuteTopUp \/ \E n \in 1 .. Target : Spend(n)
  \/ PricingTick

Spec == Init /\ [][Next]_vars

\* The loop is a goroutine on a ticker and its queries end; the outbox delivers
\* its top-ups; whoever holds the lock lets go of it, and Go's lock is fair.
Fairness ==
  /\ SF_vars(CreditsLoop)
  /\ \A u \in Users : SF_vars(UserStep(u))
  /\ WF_vars(ExecuteTopUp)

LiveSpec == Spec /\ Fairness

----------------------------------------------------------------------------
\* The types of the variables, and one user at most asks the registry.
TypeOK ==
  /\ age \in 0 .. Ttl
  /\ user \in [Users -> {"out", "refresh", "fetching", "queried", "got"}]
  /\ \A u \in Users : user[u] = "fetching" <=> refreshing = u
  /\ autoStops \in BOOLEAN
  /\ balance \in Nat /\ read \in 0 .. Target - 1
  /\ topUps \in Seq(1 .. Target) /\ topUpsLeft \in 0 .. MaxTopUps
  /\ queryErrorsLeft \in 0 .. MaxErrors

\* A page that is short of the target is topped up to it, whatever fails on the
\* way and however stale the balance is from which a top-up is computed.
ToppedUp == []<>Funded
=============================================================================
