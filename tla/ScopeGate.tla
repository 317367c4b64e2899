----------------------------- MODULE ScopeGate -----------------------------
(***************************************************************************)
(* The pause switch of a contract: its authority scope on the directory    *)
(* network (bridge/outputs/scope.go), the cache of scopes in front of it   *)
(* and the checks of executeSingleTransaction (sequencer/exec.go).  One    *)
(* contract, since entries of the cache do not depend on each other, and   *)
(* time in ticks.  The directory network is external: it answers a query   *)
(* with the scope it has at some moment, and the answer is at most         *)
(* MaxDelay ticks old when it is stored.                                   *)
(***************************************************************************)
EXTENDS Integers

CONSTANTS
  Checkers,      \* goroutines in executeSingleTransaction
  Ttl,           \* of the ScopeCache, 30 s in the code
  MaxDelay,      \* assumed of the network
  Interval,      \* scopeRefreshInterval, 10 in the code
  MaxHeight,     \* bound: blocks
  MaxChanges     \* bound: changes of the scope

ScopeGateAssumption ==
  /\ {Ttl, Interval} \subseteq Nat \ {0}
  /\ {MaxDelay, MaxHeight, MaxChanges} \subseteq Nat

\* A pause that has lasted as long as this is as old as it can matter.
Long == Ttl + MaxDelay
Scopes == {"absent", "active", "paused", "expired", "invalid"}

VARIABLES
  scope,         \* the document on the directory network
  pausedFor,     \* ticks since it was paused; 0 if it is not
  changesLeft,
  cached,        \* the entry of the ScopeCache: [paused, age]; age = Ttl: expired or none
  checker,       \* of each goroutine: [at, why, paused, delay]
  blockHeight,   \* currentHeight
  letThrough     \* pausedFor when a check last let a transaction through

vars == <<scope, pausedFor, changesLeft, cached, checker, blockHeight, letThrough>>

Idle == [at |-> "idle", why |-> "pause", paused |-> FALSE, delay |-> 0]

Init ==
  /\ scope \in Scopes
  /\ pausedFor = 0 /\ changesLeft = MaxChanges
  /\ cached = [paused |-> FALSE, age |-> Ttl]
  /\ checker = [c \in Checkers |-> Idle]
  /\ blockHeight = 0
  /\ letThrough = 0

----------------------------------------------------------------------------
\* The document.

Become(s) ==
  /\ changesLeft > 0
  /\ changesLeft' = changesLeft - 1
  /\ scope' = s
  /\ pausedFor' = IF s = "paused" THEN pausedFor ELSE 0
  /\ UNCHANGED <<cached, checker, blockHeight, letThrough>>

\* accucli pauses or resumes the contract: SetPaused reads the scope, which fails
\* if it is not valid, and writes it back.  An absent or expired scope is
\* replaced by the default one.
SetPaused(paused) == scope # "invalid" /\ Become(IF paused THEN "paused" ELSE "active")

\* ExpiresAt has passed.
Expire == scope \in {"active", "paused"} /\ Become("expired")

----------------------------------------------------------------------------
\* ScopeCache.Get.

\* A check that goes by the scope's paused flag.
Decide(c, paused) ==
  /\ checker' = [checker EXCEPT ![c] = Idle]
  /\ letThrough' = IF ~paused /\ checker[c].why = "pause" THEN pausedFor ELSE letThrough

\* Mutant: a hit renews the entry.
GetRenewing(c) ==
  /\ checker[c].at = "get"
  /\ IF cached.age < Ttl
     THEN /\ Decide(c, cached.paused)
          /\ cached' = [cached EXCEPT !.age = 0]
     ELSE /\ checker' = [checker EXCEPT ![c].at = "asking"]
          /\ UNCHANGED <<cached, letThrough>>
  /\ UNCHANGED <<scope, pausedFor, changesLeft, blockHeight>>

Get(c) ==
  /\ checker[c].at = "get"
  /\ IF cached.age < Ttl THEN Decide(c, cached.paused)
     ELSE checker' = [checker EXCEPT ![c].at = "asking"] /\ UNCHANGED letThrough
  /\ UNCHANGED <<scope, pausedFor, changesLeft, cached, blockHeight>>

\* FetchFromDN: a scope that is absent or expired is the default one, which is
\* not paused.
Answer(c) ==
  /\ checker[c].at = "asking"
  /\ scope # "invalid"
  /\ checker' = [checker EXCEPT ![c].at = "answered", ![c].paused = (scope = "paused")]
  /\ UNCHANGED <<scope, pausedFor, changesLeft, cached, blockHeight, letThrough>>

\* The query fails or the scope is not valid: the transaction is refused.
FetchFails(c) ==
  /\ checker[c].at \in {"asking", "answered"}
  /\ checker' = [checker EXCEPT ![c] = Idle]
  /\ UNCHANGED <<scope, pausedFor, changesLeft, cached, blockHeight, letThrough>>

\* Whatever is in the cache by now is overwritten.
Store(c) ==
  /\ checker[c].at = "answered"
  /\ cached' = [paused |-> checker[c].paused, age |-> 0]
  /\ Decide(c, checker[c].paused)
  /\ UNCHANGED <<scope, pausedFor, changesLeft, blockHeight>>

----------------------------------------------------------------------------
\* executeSingleTransaction: the pause is looked at in one block of Interval; the
\* staged operations bring the scope into the cache at any height, and are
\* refused whatever it says.
Check(c, why) ==
  /\ checker[c].at = "idle"
  /\ why = "pause" => blockHeight % Interval = 0
  /\ checker' = [checker EXCEPT ![c].at = "get", ![c].why = why]
  /\ UNCHANGED <<scope, pausedFor, changesLeft, cached, blockHeight, letThrough>>

\* Workers of a block that has timed out go on in the next one.
EndBlock ==
  /\ blockHeight < MaxHeight
  /\ blockHeight' = blockHeight + 1
  /\ UNCHANGED <<scope, pausedFor, changesLeft, cached, checker, letThrough>>

Tick ==
  /\ \A c \in Checkers : checker[c].at = "answered" => checker[c].delay < MaxDelay
  /\ pausedFor' = IF scope = "paused" /\ pausedFor < Long THEN pausedFor + 1 ELSE pausedFor
  /\ cached' = IF cached.age < Ttl THEN [cached EXCEPT !.age = @ + 1] ELSE cached
  /\ checker' = [c \in Checkers |-> IF checker[c].at = "answered"
                                    THEN [checker[c] EXCEPT !.delay = @ + 1] ELSE checker[c]]
  /\ UNCHANGED <<scope, changesLeft, blockHeight, letThrough>>

Next ==
  \/ \E p \in BOOLEAN : SetPaused(p)
  \/ Expire
  \/ \E c \in Checkers :
       \/ Get(c) \/ Answer(c) \/ FetchFails(c) \/ Store(c)
       \/ \E why \in {"pause", "staged"} : Check(c, why)
  \/ EndBlock \/ Tick

Spec == Init /\ [][Next]_vars

----------------------------------------------------------------------------
\* The types of the variables.
TypeOK ==
  /\ scope \in Scopes /\ changesLeft \in 0 .. MaxChanges
  /\ {pausedFor, letThrough} \subseteq 0 .. Long
  /\ pausedFor > 0 => scope = "paused"
  /\ cached.paused \in BOOLEAN /\ cached.age \in 0 .. Ttl
  /\ checker \in [Checkers -> [at : {"idle", "get", "asking", "answered"},
                               why : {"pause", "staged"}, paused : BOOLEAN, delay : 0 .. MaxDelay]]
  /\ blockHeight \in 0 .. MaxHeight

\* A check lets a contract through only for so long after it was paused: the time
\* an entry lives and the time an answer takes, also when two fetches are stored
\* in the opposite order.
PauseHolds == letThrough < Long
=============================================================================
