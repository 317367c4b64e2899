------------------------------ MODULE Mempool ------------------------------
(***************************************************************************)
(* The in-memory transaction pool of the sequencer (sequencer/mempool.go). *)
(*                                                                         *)
(* A pending transaction is held three times: in the map `transactions`,   *)
(* in the list of its sender in `byAccount`, and in the list `byPriority`  *)
(* from which blocks are filled.  Every exported method holds the write    *)
(* lock `mu` from its first statement to its last, so one method is one    *)
(* step.  Time is counted in minutes, the unit of the priority boost and   *)
(* of the cleanup ticker; the age of a transaction is the time since its   *)
(* ReceivedAt, which the caller chooses.                                   *)
(***************************************************************************)
EXTENDS OrderedLists, Functions

CONSTANTS
  Txs,            \* the transactions callers may submit, named by Transaction.ID
  Accounts,       \* the senders
  From,           \* [Txs -> Accounts]
  GasPrice,       \* [Txs -> Nat], as GasLimit and TxSize
  GasLimit,
  TxSize,
  MaxSize,        \* MempoolConfig
  AccountLimit,
  GlobalLimit,
  MaxTxSize,
  PriceLimit,
  TTL,
  EnablePriority,
  Word,           \* uint64 arithmetic is modulo Word
  MaxAge,         \* bound: ages saturate here, above TTL
  MaxAdds         \* bound: additions in one behaviour

ASSUME TxAssumption ==
  /\ IsFiniteSet(Txs)
  /\ From \in [Txs -> Accounts]
  /\ GasPrice \in [Txs -> Nat]
  /\ GasLimit \in [Txs -> Nat]
  /\ TxSize \in [Txs -> Nat]

ASSUME ConfigAssumption ==
  /\ {MaxSize, AccountLimit, GlobalLimit, MaxTxSize, TTL, Word} \subseteq Nat \ {0}
  /\ {PriceLimit, MaxAge, MaxAdds} \subseteq Nat
  /\ MaxAge > TTL
  /\ EnablePriority \in BOOLEAN

VARIABLES
  transactions,   \* the keys of the map
  byAccount,      \* an absent key reads as the empty list
  byPriority,
  priority,       \* Transaction.Priority; 0 outside the pool
  age,            \* minutes since ReceivedAt; 0 outside the pool
  totalSize,
  totalAdded,
  totalRemoved,
  running,
  stopClosed,     \* stopChan has been closed
  cleaner         \* a cleanupRoutine goroutine is alive

indexVars == <<transactions, byAccount, byPriority, priority, age>>
metricVars == <<totalSize, totalAdded, totalRemoved>>
lifeVars == <<running, stopClosed, cleaner>>
poolVars == <<indexVars, metricVars, lifeVars>>

----------------------------------------------------------------------------
\* The bytes that the transactions of S, each within MaxTxSize, take.
SizeOf(S) == Weight(S, TxSize, MaxTxSize)

\* calculatePriority for a transaction received m minutes ago.
PriorityAt(t, m) ==
  IF EnablePriority
  THEN (((GasPrice[t] * GasLimit[t]) % Word) \div TxSize[t] + m) % Word
  ELSE GasPrice[t]

\* Mutant: the first position whose priority is not greater than p.
InsertBeforeEqual(p) ==
  CHOOSE i \in 1 .. Len(byPriority) + 1 :
    /\ \A k \in 1 .. i - 1 : priority[byPriority[k]] > p
    /\ i =< Len(byPriority) => priority[byPriority[i]] =< p

\* The first position whose priority is smaller than p: after the equal ones.
InsertPosition(p) ==
  CHOOSE i \in 1 .. Len(byPriority) + 1 :
    /\ \A k \in 1 .. i - 1 : priority[byPriority[k]] >= p
    /\ i =< Len(byPriority) => priority[byPriority[i]] < p

Valid(t) ==
  /\ TxSize[t] =< MaxTxSize
  /\ GasPrice[t] >= PriceLimit

\* Mutant: the account limit is compared with =<.
WithinLimitsOffByOne(t) ==
  /\ Cardinality(transactions) < MaxSize
  /\ Len(byAccount[From[t]]) =< AccountLimit
  /\ Cardinality(transactions) < GlobalLimit

WithinLimits(t) ==
  /\ Cardinality(transactions) < MaxSize
  /\ Len(byAccount[From[t]]) < AccountLimit
  /\ Cardinality(transactions) < GlobalLimit

\* A size of 0 panics in the division, before the pool is changed.
HasPriority(t) == EnablePriority => TxSize[t] > 0

GetTopTransactions(count) ==
  SubSeq(byPriority, 1, IF count < Len(byPriority) THEN count ELSE Len(byPriority))

----------------------------------------------------------------------------
NewMempool ==
  /\ transactions = {}
  /\ byAccount = [a \in Accounts |-> <<>>]
  /\ byPriority = <<>>
  /\ priority = [t \in Txs |-> 0]
  /\ age = [t \in Txs |-> 0]
  /\ totalSize = 0
  /\ totalAdded = 0
  /\ totalRemoved = 0
  /\ running = FALSE
  /\ stopClosed = FALSE
  /\ cleaner = FALSE

\* Start of the Mempool.
PoolStart ==
  /\ ~running
  /\ running' = TRUE
  /\ cleaner' = TRUE
  /\ UNCHANGED <<indexVars, metricVars, stopClosed>>

\* Stop of the Mempool.  The second Stop of one pool closes a closed channel and
\* panics: no step.
PoolStop ==
  /\ running
  /\ ~stopClosed
  /\ running' = FALSE
  /\ stopClosed' = TRUE
  /\ UNCHANGED <<indexVars, metricVars, cleaner>>

\* Mutant: a transaction that is already pooled is not refused.
AddTransactionAgain(t, m) ==
  /\ Valid(t)
  /\ WithinLimits(t)
  /\ HasPriority(t)
  /\ totalAdded < MaxAdds
  /\ LET p == PriorityAt(t, m)
     IN  /\ priority' = [priority EXCEPT ![t] = p]
         /\ byPriority' = Insert(byPriority, InsertPosition(p), t)
  /\ transactions' = transactions \cup {t}
  /\ byAccount' = [byAccount EXCEPT ![From[t]] = Append(@, t)]
  /\ age' = [age EXCEPT ![t] = m]
  /\ totalSize' = totalSize + TxSize[t]
  /\ totalAdded' = totalAdded + 1
  /\ UNCHANGED <<totalRemoved, lifeVars>>

\* AddTransaction of a transaction whose ReceivedAt is m minutes ago; its
\* error returns change nothing.
AddTransaction(t, m) ==
  /\ t \notin transactions
  /\ Valid(t)
  /\ WithinLimits(t)
  /\ HasPriority(t)
  /\ totalAdded < MaxAdds
  /\ LET p == PriorityAt(t, m)
     IN  /\ priority' = [priority EXCEPT ![t] = p]
         /\ byPriority' = Insert(byPriority, InsertPosition(p), t)
  /\ transactions' = transactions \cup {t}
  /\ byAccount' = [byAccount EXCEPT ![From[t]] = Append(@, t)]
  /\ age' = [age EXCEPT ![t] = m]
  /\ totalSize' = totalSize + TxSize[t]
  /\ totalAdded' = totalAdded + 1
  /\ UNCHANGED <<totalRemoved, lifeVars>>

\* The removal from all three stores that RemoveTransaction and cleanup spell
\* out: a transaction leaves the list of its own sender only.
Evict(S) ==
  /\ transactions' = transactions \ S
  /\ byAccount' = [a \in Accounts |-> Without(byAccount[a], {t \in S : From[t] = a})]
  /\ byPriority' = Without(byPriority, S)
  /\ priority' = [t \in Txs |-> IF t \in S THEN 0 ELSE priority[t]]
  /\ age' = [t \in Txs |-> IF t \in S THEN 0 ELSE age[t]]
  /\ totalSize' = totalSize - SizeOf(S)
  /\ totalRemoved' = totalRemoved + Cardinality(S)
  /\ UNCHANGED totalAdded

RemoveTransaction(t) ==
  /\ t \in transactions
  /\ Evict({t})
  /\ UNCHANGED lifeVars

Expired == {t \in transactions : age[t] > TTL}

\* Mutant: a tick cleans only a pool that is full.
CleanupWhenFull ==
  /\ cleaner
  /\ Cardinality(transactions) >= GlobalLimit
  /\ Expired # {}
  /\ Evict(Expired)
  /\ UNCHANGED lifeVars

\* One tick of cleanupRoutine.
Cleanup ==
  /\ cleaner
  /\ Expired # {}
  /\ Evict(Expired)
  /\ UNCHANGED lifeVars

\* cleanupRoutine takes its `<-mp.stopChan` case, or `<-ctx.Done()`: the caller of
\* Start may cancel the context at any time, and the pool reads it nowhere else.
CleanerExits ==
  /\ cleaner
  /\ cleaner' = FALSE
  /\ UNCHANGED <<indexVars, metricVars, running, stopClosed>>

\* Mutant: totalSize is not reset.
FlushKeepingSize ==
  /\ transactions' = {}
  /\ byAccount' = [a \in Accounts |-> <<>>]
  /\ byPriority' = <<>>
  /\ priority' = [t \in Txs |-> 0]
  /\ age' = [t \in Txs |-> 0]
  /\ UNCHANGED <<metricVars, lifeVars>>

\* Flush forgets the transactions without counting them as removed.
Flush ==
  /\ transactions' = {}
  /\ byAccount' = [a \in Accounts |-> <<>>]
  /\ byPriority' = <<>>
  /\ priority' = [t \in Txs |-> 0]
  /\ age' = [t \in Txs |-> 0]
  /\ totalSize' = 0
  /\ UNCHANGED <<totalAdded, totalRemoved, lifeVars>>

\* Mutant: the list is not sorted again.
UpdatePrioritiesUnsorted ==
  /\ priority' = [t \in Txs |->
                    IF t \in transactions THEN PriorityAt(t, age[t]) ELSE priority[t]]
  /\ UNCHANGED <<transactions, byAccount, byPriority, age, metricVars, lifeVars>>

\* sort.Slice is not stable: any order of the list sorted by the new priorities.
UpdatePriorities ==
  /\ priority' = [t \in Txs |->
                    IF t \in transactions THEN PriorityAt(t, age[t]) ELSE priority[t]]
  /\ \E p \in Bijection(DOMAIN byPriority, DOMAIN byPriority) :
       byPriority' = [i \in DOMAIN byPriority |-> byPriority[p[i]]]
  /\ \A i, j \in DOMAIN byPriority :
       i < j => priority'[byPriority'[i]] >= priority'[byPriority'[j]]
  /\ UNCHANGED <<transactions, byAccount, age, metricVars, lifeVars>>

\* A minute passes.
Tick ==
  /\ age' = [t \in Txs |->
               IF t \in transactions /\ age[t] < MaxAge THEN age[t] + 1 ELSE age[t]]
  /\ UNCHANGED <<transactions, byAccount, byPriority, priority, metricVars, lifeVars>>

PoolNext ==
  \/ PoolStart
  \/ PoolStop
  \/ \E t \in Txs, m \in {0, MaxAge} : AddTransaction(t, m)
  \/ \E t \in Txs : RemoveTransaction(t)
  \/ Cleanup
  \/ CleanerExits
  \/ Flush
  \/ UpdatePriorities
  \/ Tick

PoolSpec == NewMempool /\ [][PoolNext]_poolVars

\* The ticker fires every minute, and `select` serves it while the goroutine
\* lives.
PoolFairness == WF_poolVars(Cleanup)

----------------------------------------------------------------------------
\* The types of the variables.
PoolTypeOK ==
  /\ transactions \subseteq Txs
  /\ byAccount \in [Accounts -> Seq(Txs)]
  /\ byPriority \in Seq(Txs)
  /\ priority \in [Txs -> Nat]
  /\ age \in [Txs -> 0 .. MaxAge]
  /\ totalSize \in Nat /\ totalAdded \in Nat /\ totalRemoved \in Nat
  /\ running \in BOOLEAN /\ stopClosed \in BOOLEAN /\ cleaner \in BOOLEAN

\* The three stores of mempool.go:36-38 agree after every operation: the
\* priority list holds each pooled transaction once, and the list of an
\* account exactly the pooled transactions it sent.
IndexesAgree ==
  /\ Lists(byPriority, transactions)
  /\ \A a \in Accounts : Lists(byAccount[a], {t \in transactions : From[t] = a})

\* The list that blocks are filled from is in order of the stored priorities,
\* which is also what the binary search of insertByPriority relies on.
SortedByPriority ==
  \A i, j \in DOMAIN byPriority :
    i < j => priority[byPriority[i]] >= priority[byPriority[j]]

\* No mix of additions, removals, expiry and flushes takes the pool past
\* MaxSize or GlobalLimit, or one sender past AccountLimit: checkLimits counts
\* an account by its list, the pool by its map.
WithinCapacity ==
  /\ Cardinality(transactions) =< MaxSize
  /\ Cardinality(transactions) =< GlobalLimit
  /\ \A a \in Accounts :
       Cardinality({t \in transactions : From[t] = a}) =< AccountLimit

\* GetStats: totalSize is the size of what is pooled, and what is pooled was
\* added and not counted as removed (Flush leaves the counters apart).
MetricsAgree ==
  /\ totalSize = SizeOf(transactions)
  /\ totalRemoved + Cardinality(transactions) =< totalAdded

\* Except when UpdatePriorities re-sorts, transactions that stay in the pool
\* keep their order, and a newcomer goes behind every one of at least its
\* priority: arrival order breaks ties.
NoOvertaking ==
  [][UpdatePriorities \/
       /\ \A t, u \in transactions \cap transactions' :
            Ahead(byPriority, t, u) => Ahead(byPriority', t, u)
       /\ \A t \in transactions, u \in transactions' \ transactions :
            (t \in transactions' /\ priority[t] >= priority'[u])
               => Ahead(byPriority', t, u)]_poolVars

\* While the cleanup routine lives, no transaction past its TTL stays: one tick of
\* it takes them all.
ExpiredAreRemoved == (cleaner /\ Expired # {}) ~> (Expired = {} \/ ~cleaner)
=============================================================================
