------------------------------ MODULE Delivery ------------------------------
(***************************************************************************)
(* What a persistent queue of submissions promises, whatever happens to    *)
(* the process: an item it has accepted stays queued until it has been     *)
(* sent at least once, unless it is malformed or has been given up after   *)
(* more than GiveUpAfter failed attempts.                                  *)
(***************************************************************************)
EXTENDS Naturals

CONSTANTS Items, Malformed, GiveUpAfter

VARIABLES
  state,      \* of each item: "new", "queued" or "settled"
  attempts,   \* the failed attempts that were recorded
  sent        \* the items that have been sent at least once

vars == <<state, attempts, sent>>

Init ==
  /\ state = [i \in Items |-> "new"]
  /\ attempts = [i \in Items |-> 0]
  /\ sent = {}

Accept(i) ==
  /\ state[i] = "new"
  /\ state' = [state EXCEPT ![i] = "queued"]
  /\ UNCHANGED <<attempts, sent>>

\* At least once: an item may be sent again, and even after it has left.
Send(i) ==
  /\ state[i] # "new"
  /\ sent' = sent \cup {i}
  /\ UNCHANGED <<state, attempts>>

Fail(i) ==
  /\ state[i] = "queued"
  /\ attempts' = [attempts EXCEPT ![i] = @ + 1]
  /\ UNCHANGED <<state, sent>>

MaySettle(i) ==
  /\ state[i] = "queued"
  /\ i \in sent \cup Malformed \/ attempts[i] > GiveUpAfter

Settle(S) ==
  /\ \A i \in S : MaySettle(i)
  /\ state' = [i \in Items |-> IF i \in S THEN "settled" ELSE state[i]]
  /\ UNCHANGED <<attempts, sent>>

Next ==
  \/ \E i \in Items : Accept(i) \/ Send(i) \/ Fail(i)
  \/ \E S \in SUBSET Items : Settle(S)

Spec == Init /\ [][Next]_vars
=============================================================================
