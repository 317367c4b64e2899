----------------------------- MODULE Endpoints -----------------------------
(***************************************************************************)
(* The L0 endpoints and their health (RoundRobin in                        *)
(* internal/l0/endpoints.go).  Next takes the read lock and yet moves      *)
(* `current`, so calls of Next race for it.  The health checker holds the  *)
(* lock neither when it looks at an endpoint nor while it probes it.       *)
(*                                                                         *)
(* A server that is up or down is external.                                *)
(***************************************************************************)
EXTENDS Naturals, FiniteSets

CONSTANTS
  NumEndpoints,     \* the endpoints are 0 .. NumEndpoints - 1
  Callers,          \* goroutines that call Next
  MaxFailures,      \* Config.MaxFailures
  Backoff,          \* Config.BackoffDuration, in ticks
  MaxCount,         \* bound: failures are counted up to here
  MaxReports,       \* bound: calls of ReportFailure
  MaxChanges        \* bound: times that a server goes up or down

EndpointsAssumption ==
  /\ {NumEndpoints, MaxFailures, Backoff, MaxCount} \subseteq Nat \ {0}
  /\ {MaxReports, MaxChanges} \subseteq Nat

Servers == 0 .. NumEndpoints - 1

VARIABLES
  endpoints,      \* the endpoints discovered: none, or all of them
  healthy, failures,
  retryIn,        \* ticks until NextRetry
  current,
  caller,         \* where a call of Next stands, in the read lock or "out" of it
  seen,           \* what the call last read in `current`
  looked,         \* endpoints the call has looked at
  picked,         \* what Next returns
  checker,        \* "off", "idle", "next", "probing", or waiting for the lock
                  \* to "copy" the endpoints or to "apply" an answer
  unchecked,      \* the endpoints that checkAllEndpoints has yet to check
  probed,         \* the endpoint it is at
  answer,         \* whether it answered
  up, reportsLeft, changesLeft

poolVars == <<endpoints, healthy, failures, retryIn>>
callVars == <<current, caller, seen, looked, picked>>
checkVars == <<checker, unchecked, probed, answer>>
worldVars == <<up, reportsLeft, changesLeft>>
vars == <<poolVars, callVars, checkVars, worldVars>>

Init ==
  /\ endpoints = {}
  /\ healthy = [e \in Servers |-> TRUE] /\ failures = [e \in Servers |-> 0]
  /\ retryIn = [e \in Servers |-> 0]
  /\ current = 0
  /\ caller = [c \in Callers |-> "out"]
  /\ seen = [c \in Callers |-> 0] /\ looked = [c \in Callers |-> 0]
  /\ picked = [c \in Callers |-> 0]
  /\ checker = "off" /\ unchecked = {} /\ probed = 0 /\ answer = FALSE
  /\ up = [e \in Servers |-> TRUE]
  /\ reportsLeft = MaxReports /\ changesLeft = MaxChanges

\* No call of Next is in the read lock.
Unlocked == \A c \in Callers : caller[c] = "out"
Counted(n) == IF n < MaxCount THEN n + 1 ELSE n

\* Start discovers the endpoints and starts the health checks.  A discovery
\* later on finds the same ones.
StartEndpoints ==
  /\ checker = "off" /\ endpoints = {}
  /\ endpoints' = Servers
  /\ checker' = "idle"
  /\ UNCHANGED <<healthy, failures, retryIn, callVars, unchecked, probed, answer, worldVars>>

----------------------------------------------------------------------------
\* Next.  A writer that waits for the lock keeps new readers out.

isEndpointHealthy(e) == healthy[e] \/ retryIn[e] = 0

BeginNext(c) ==
  /\ caller[c] = "out"
  /\ endpoints # {} /\ checker \notin {"copy", "apply"}
  /\ caller' = [caller EXCEPT ![c] = "look"]
  /\ UNCHANGED <<poolVars, current, seen, looked, picked, checkVars, worldVars>>

Look(c) ==
  /\ caller[c] = "look" /\ looked[c] < NumEndpoints
  /\ seen' = [seen EXCEPT ![c] = current]
  /\ caller' = [caller EXCEPT ![c] = "advance"]
  /\ UNCHANGED <<poolVars, current, looked, picked, checkVars, worldVars>>

\* `current` is read again and written; another call may move it in between.
Advance(c) ==
  /\ caller[c] = "advance"
  /\ \E now \in {current, seen[c]} : current' = (now + 1) % NumEndpoints
  /\ looked' = [looked EXCEPT ![c] = @ + 1]
  /\ IF isEndpointHealthy(seen[c])
     THEN /\ picked' = [picked EXCEPT ![c] = seen[c]]
          /\ caller' = [caller EXCEPT ![c] = "return"]
     ELSE /\ caller' = [caller EXCEPT ![c] = "look"]
          /\ UNCHANGED picked
  /\ UNCHANGED <<poolVars, seen, checkVars, worldVars>>

\* Mutant: the best of the endpoints is the one that failed most.
FallBackOnWorst(c) ==
  /\ caller[c] = "look" /\ looked[c] = NumEndpoints
  /\ \E e \in Servers :
       /\ \A f \in Servers : failures[e] >= failures[f]
       /\ picked' = [picked EXCEPT ![c] = e]
  /\ caller' = [caller EXCEPT ![c] = "return"]
  /\ UNCHANGED <<poolVars, current, seen, looked, checkVars, worldVars>>

\* As many looks as there are endpoints have found none: the first of those with
\* the fewest failures is taken.
FallBack(c) ==
  /\ caller[c] = "look" /\ looked[c] = NumEndpoints
  /\ \E e \in Servers :
       /\ \A f \in Servers : failures[e] < failures[f] \/ (failures[e] = failures[f] /\ e =< f)
       /\ picked' = [picked EXCEPT ![c] = e]
  /\ caller' = [caller EXCEPT ![c] = "return"]
  /\ UNCHANGED <<poolVars, current, seen, looked, checkVars, worldVars>>

ReturnNext(c) ==
  /\ caller[c] = "return"
  /\ caller' = [caller EXCEPT ![c] = "out"]
  /\ seen' = [seen EXCEPT ![c] = 0] /\ looked' = [looked EXCEPT ![c] = 0]
  /\ picked' = [picked EXCEPT ![c] = 0]
  /\ UNCHANGED <<poolVars, current, checkVars, worldVars>>

InNext(c) == Look(c) \/ Advance(c) \/ FallBack(c) \/ ReturnNext(c)

ReportFailure(e) ==
  /\ Unlocked
  /\ reportsLeft > 0
  /\ reportsLeft' = reportsLeft - 1
  /\ IF e \in endpoints
     THEN /\ failures' = [failures EXCEPT ![e] = Counted(@)]
          /\ healthy' = [healthy EXCEPT ![e] = FALSE]
          /\ retryIn' = [retryIn EXCEPT ![e] = Backoff]
     ELSE UNCHANGED <<failures, healthy, retryIn>>
  /\ UNCHANGED <<endpoints, callVars, checkVars, up, changesLeft>>

----------------------------------------------------------------------------
\* The health checker.

CheckerTick ==
  /\ checker = "idle"
  /\ checker' = "copy"
  /\ UNCHANGED <<poolVars, callVars, unchecked, probed, answer, worldVars>>

\* checkAllEndpoints copies the endpoints.
BeginChecks ==
  /\ checker = "copy" /\ Unlocked
  /\ checker' = "next"
  /\ unchecked' = endpoints
  /\ UNCHANGED <<poolVars, callVars, probed, answer, worldVars>>

\* The next endpoint of the copy, in its order; one in backoff is skipped.
NextCheck ==
  /\ checker = "next"
  /\ IF unchecked = {} THEN checker' = "idle" /\ probed' = 0 /\ UNCHANGED unchecked
     ELSE \E e \in unchecked :
            /\ \A f \in unchecked : e =< f
            /\ unchecked' = unchecked \ {e}
            /\ probed' = e
            /\ checker' = IF retryIn[e] > 0 THEN "next" ELSE "probing"
  /\ UNCHANGED <<poolVars, callVars, answer, worldVars>>

checkEndpointHealth ==
  /\ checker = "probing"
  /\ answer' = up[probed]
  /\ checker' = "apply"
  /\ UNCHANGED <<poolVars, callVars, unchecked, probed, worldVars>>

\* Mutant: an answer changes nothing.
ApplyFailedCheck ==
  /\ checker = "apply" /\ Unlocked
  /\ checker' = "next"
  /\ healthy' = [healthy EXCEPT ![probed] = @ /\ answer]
  /\ failures' = [failures EXCEPT ![probed] = IF answer THEN @ ELSE Counted(@)]
  /\ answer' = FALSE
  /\ UNCHANGED <<endpoints, retryIn, callVars, unchecked, probed, worldVars>>

\* What the probe found is applied over what has been reported meanwhile.
ApplyCheck ==
  /\ checker = "apply" /\ Unlocked
  /\ checker' = "next"
  /\ healthy' = [healthy EXCEPT ![probed] = answer]
  /\ failures' = [failures EXCEPT ![probed] = IF answer THEN 0 ELSE Counted(@)]
  /\ retryIn' = [retryIn EXCEPT ![probed] =
                   IF answer THEN 0 ELSE IF Counted(failures[probed]) >= MaxFailures THEN Backoff ELSE @]
  /\ answer' = FALSE
  /\ UNCHANGED <<endpoints, callVars, unchecked, probed, worldVars>>

HealthCheckLoop == CheckerTick \/ BeginChecks \/ NextCheck \/ checkEndpointHealth \/ ApplyCheck

\* Stop; a probe under way fails.
StopEndpoints ==
  /\ checker = "idle"
  /\ checker' = "off"
  /\ UNCHANGED <<poolVars, callVars, unchecked, probed, answer, worldVars>>

----------------------------------------------------------------------------
TickBackoff ==
  /\ \E e \in Servers : retryIn[e] > 0
  /\ retryIn' = [e \in Servers |-> IF retryIn[e] = 0 THEN 0 ELSE retryIn[e] - 1]
  /\ UNCHANGED <<endpoints, healthy, failures, callVars, checkVars, worldVars>>

Change(e) ==
  /\ changesLeft > 0
  /\ changesLeft' = changesLeft - 1
  /\ up' = [up EXCEPT ![e] = ~@]
  /\ UNCHANGED <<poolVars, callVars, checkVars, reportsLeft>>

Next ==
  \/ StartEndpoints \/ StopEndpoints
  \/ \E c \in Callers : BeginNext(c) \/ InNext(c)
  \/ \E e \in Servers : ReportFailure(e) \/ Change(e)
  \/ HealthCheckLoop
  \/ TickBackoff

Spec == Init /\ [][Next]_vars

\* The checker is a goroutine on a ticker whose probes have a timeout, a call in
\* the lock goes on, and time passes.
Fairness ==
  /\ WF_vars(HealthCheckLoop)
  /\ \A c \in Callers : WF_vars(InNext(c))
  /\ WF_vars(TickBackoff)

LiveSpec == Spec /\ Fairness

----------------------------------------------------------------------------
\* The types of the variables.
TypeOK ==
  /\ endpoints \in {{}, Servers}
  /\ healthy \in [Servers -> BOOLEAN] /\ failures \in [Servers -> 0 .. MaxCount]
  /\ retryIn \in [Servers -> 0 .. Backoff]
  /\ current \in Servers
  /\ caller \in [Callers -> {"out", "look", "advance", "return"}]
  /\ seen \in [Callers -> Servers] /\ looked \in [Callers -> 0 .. NumEndpoints]
  /\ picked \in [Callers -> Servers]
  /\ checker \in {"off", "idle", "copy", "next", "probing", "apply"}
  /\ unchecked \subseteq endpoints /\ probed \in Servers /\ answer \in BOOLEAN
  /\ up \in [Servers -> BOOLEAN]
  /\ reportsLeft \in 0 .. MaxReports /\ changesLeft \in 0 .. MaxChanges

\* Next returns an endpoint that is in backoff only when none is healthy.  The
\* races for `current` may make a call look at one endpoint twice and miss the
\* healthy one; it is the count of failures that finds it then.
NextPrefersHealthy ==
  \A c \in Callers :
    (caller[c] = "return" /\ ~isEndpointHealthy(picked[c]))
      => \A e \in endpoints : ~healthy[e]

\* An endpoint that stays up gets healthy again, whatever was reported of it,
\* as long as the checks go on.
RecoveredIsHealthy ==
  []<>(\A e \in Servers : healthy[e] \/ ~up[e] \/ checker = "off")
=============================================================================
