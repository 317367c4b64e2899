--------------------------- MODULE MempoolProofs ---------------------------
(***************************************************************************)
(* Theorems about Mempool, for every set of transactions and every         *)
(* configuration: its types, the agreement of its three stores, the order  *)
(* of the priority list, the limits and the counters.                      *)
(***************************************************************************)
EXTENDS Mempool, OrderedListProofs

\* Only valid transactions are ever in the pool, so that SizeOf counts every
\* byte of theirs and UpdatePriorities divides by no size of 0.
PooledAreValid == \A t \in transactions : Valid(t) /\ HasPriority(t)

\* The inductive invariant.  The binary search of insertByPriority keeps the
\* order only of an ordered list, the account limit is tested on a list that
\* must agree with the map, and totalSize stays a natural number because it
\* is the sum of what is pooled: none of the parts is inductive alone.
PoolInv ==
  /\ PoolTypeOK
  /\ IndexesAgree
  /\ SortedByPriority
  /\ WithinCapacity
  /\ MetricsAgree
  /\ PooledAreValid

----------------------------------------------------------------------------
\* What SizeOf returns: a number that a subset and the rest share out.
LEMMA SizeOfFinite ==
  ASSUME NEW S \in SUBSET Txs
  PROVE  IsFiniteSet(S) /\ SizeOf(S) \in Nat
<1>1. IsFiniteSet(S) /\ MaxTxSize \in Nat
  BY FS_Subset, TxAssumption, ConfigAssumption
<1> QED
  BY <1>1, WeightType DEF SizeOf

LEMMA SizeOfSplit ==
  ASSUME NEW S \in SUBSET Txs, NEW E \in SUBSET S
  PROVE  SizeOf(S) = SizeOf(E) + SizeOf(S \ E)
<1>1. IsFiniteSet(S) /\ MaxTxSize \in Nat
  BY SizeOfFinite, ConfigAssumption
<1> QED
  BY <1>1, WeightSplit DEF SizeOf

\* One valid transaction counts for its own size.
LEMMA SizeOfOne ==
  ASSUME NEW t \in Txs, Valid(t)
  PROVE  SizeOf({t}) = TxSize[t]
<1>1. TxSize[t] \in Nat /\ MaxTxSize \in Nat /\ TxSize[t] =< MaxTxSize
  BY TxAssumption, ConfigAssumption DEF Valid
<1> QED
  BY <1>1, WeightOne DEF SizeOf

----------------------------------------------------------------------------
\* The priority is a natural number, whatever overflows on the way.
LEMMA PriorityIsNat ==
  ASSUME NEW t \in Txs, NEW m \in Nat, HasPriority(t)
  PROVE  PriorityAt(t, m) \in Nat
<1>1. /\ GasPrice[t] \in Nat /\ GasLimit[t] \in Nat /\ TxSize[t] \in Nat
      /\ Word \in Nat \ {0}
  BY TxAssumption, ConfigAssumption
<1>2. CASE ~EnablePriority
  BY <1>1, <1>2 DEF PriorityAt
<1>3. CASE EnablePriority
  <2>1. TxSize[t] \in Nat \ {0}
    BY <1>1, <1>3 DEF HasPriority
  <2> DEFINE x == GasPrice[t] * GasLimit[t]
             y == x % Word
             z == y \div TxSize[t]
  <2>2. x \in Nat
    BY <1>1
  <2> HIDE DEF x
  <2>3. y \in Nat
    BY <1>1, <2>2
  <2> HIDE DEF y
  <2>4. z \in Nat
    BY <2>1, <2>3
  <2> HIDE DEF z
  <2>5. (z + m) % Word \in Nat
    BY <1>1, <2>4
  <2> QED
    BY <1>3, <2>5 DEF PriorityAt, x, y, z
<1> QED
  BY <1>2, <1>3

\* In an ordered list the insertion point exists and splits the list.
LEMMA InsertPositionSplits ==
  ASSUME PoolTypeOK, SortedByPriority, NEW p \in Nat
  PROVE  /\ InsertPosition(p) \in 1 .. Len(byPriority) + 1
         /\ \A k \in DOMAIN byPriority :
              /\ k < InsertPosition(p) => priority[byPriority[k]] >= p
              /\ k >= InsertPosition(p) => priority[byPriority[k]] < p
<1> DEFINE n == Len(byPriority)
           T == {i \in 1 .. n + 1 : i =< n => priority[byPriority[i]] < p}
           i0 == InsertPosition(p)
<1>1. /\ n \in Nat /\ DOMAIN byPriority = 1 .. n
      /\ \A k \in 1 .. n : priority[byPriority[k]] \in Nat
  BY LenProperties DEF PoolTypeOK
<1>2. PICK i \in T : \A j \in T : i =< j
  <2>1. n + 1 \in T /\ T \in SUBSET Nat
    BY <1>1
  <2> HIDE DEF T
  <2> QED
    BY <2>1, LeastNat
<1>3. \A k \in 1 .. i - 1 : priority[byPriority[k]] >= p
  <2> TAKE k \in 1 .. i - 1
  <2>1. k \in 1 .. n /\ k \notin T
    BY <1>1, <1>2
  <2> QED
    BY <1>1, <2>1
<1>4. /\ i0 \in 1 .. n + 1
      /\ \A k \in 1 .. i0 - 1 : priority[byPriority[k]] >= p
      /\ i0 =< n => priority[byPriority[i0]] < p
  BY <1>2, <1>3 DEF InsertPosition
<1> HIDE DEF i0, n, T
<1>5. \A k \in 1 .. n : k >= i0 => priority[byPriority[k]] < p
  <2> TAKE k \in 1 .. n
  <2> HAVE k >= i0
  <2>1. i0 \in 1 .. n /\ priority[byPriority[i0]] < p
    BY <1>1, <1>4
  <2>2. priority[byPriority[k]] =< priority[byPriority[i0]]
    BY <1>1, <2>1 DEF SortedByPriority
  <2> QED
    BY <1>1, <2>1, <2>2
<1> QED
  BY <1>1, <1>4, <1>5 DEF i0, n

\* The lists are no longer than the sets they list: what the account limit is
\* tested on.
LEMMA AccountListLength ==
  ASSUME PoolTypeOK, IndexesAgree, NEW a \in Accounts
  PROVE  Cardinality({t \in transactions : From[t] = a}) = Len(byAccount[a])
<1>1. byAccount[a] \in Seq(Txs)
  BY DEF PoolTypeOK
<1>2. Lists(byAccount[a], {t \in transactions : From[t] = a})
  BY DEF IndexesAgree
<1> QED
  BY <1>1, <1>2, ListsCardinality

----------------------------------------------------------------------------
LEMMA NewMempoolInvariant == NewMempool => PoolInv
<1> SUFFICES ASSUME NewMempool PROVE PoolInv
  OBVIOUS
<1> USE DEF NewMempool
<1>1. PoolTypeOK
  <2>1. <<>> \in Seq(Txs)
    OBVIOUS
  <2>2. 0 \in 0 .. MaxAge
    BY ConfigAssumption
  <2> QED
    BY <2>1, <2>2 DEF PoolTypeOK
<1>2. IndexesAgree
  BY DEF IndexesAgree, Lists
<1>3. Cardinality({}) = 0
  BY FS_EmptySet
<1>4. SortedByPriority /\ PooledAreValid
  BY DEF SortedByPriority, PooledAreValid
<1>5. WithinCapacity
  <2>1. \A a \in Accounts : {t \in transactions : From[t] = a} = {}
    OBVIOUS
  <2>2. MaxSize \in Nat /\ GlobalLimit \in Nat /\ AccountLimit \in Nat
    BY ConfigAssumption
  <2> QED
    BY <1>3, <2>1, <2>2 DEF WithinCapacity
<1>6. MetricsAgree
  <2>1. SizeOf({}) = 0
    <3>1. MaxTxSize \in Nat
      BY ConfigAssumption
    <3> QED
      BY <3>1, WeightEmpty DEF SizeOf
  <2> QED
    BY <1>3, <2>1 DEF MetricsAgree
<1> QED
  BY <1>1, <1>2, <1>4, <1>5, <1>6 DEF PoolInv

\* The steps that leave the stores and counters alone.
LEMMA UnchangedInvariant ==
  ASSUME PoolInv, UNCHANGED <<indexVars, metricVars>>,
         running' \in BOOLEAN, stopClosed' \in BOOLEAN, cleaner' \in BOOLEAN
  PROVE  PoolInv'
BY DEF PoolInv, PoolTypeOK, IndexesAgree, SortedByPriority, WithinCapacity,
       MetricsAgree, PooledAreValid, Valid, HasPriority, indexVars, metricVars

\* AddTransaction: the limits were tested just before, and the insertion
\* splits the list at the new priority.
LEMMA AddInvariant ==
  ASSUME PoolInv, NEW t \in Txs, NEW m \in 0 .. MaxAge, AddTransaction(t, m)
  PROVE  PoolInv'
<1> USE DEF AddTransaction
<1> DEFINE p == PriorityAt(t, m)
           i0 == InsertPosition(p)
           n == Len(byPriority)
<1>1. /\ PoolTypeOK /\ IndexesAgree /\ SortedByPriority /\ WithinCapacity
      /\ MetricsAgree /\ PooledAreValid
  BY DEF PoolInv
<1>2. t \notin transactions /\ Valid(t) /\ WithinLimits(t) /\ From[t] \in Accounts
  BY TxAssumption
<1>3. p \in Nat /\ m \in Nat
  BY PriorityIsNat, ConfigAssumption
<1>4. /\ i0 \in 1 .. n + 1
      /\ \A k \in DOMAIN byPriority :
           /\ k < i0 => priority[byPriority[k]] >= p
           /\ k >= i0 => priority[byPriority[k]] < p
  BY <1>1, <1>3, InsertPositionSplits
<1> HIDE DEF p, i0
<1>5. priority' = [priority EXCEPT ![t] = p] /\ byPriority' = Insert(byPriority, i0, t)
  BY DEF p, i0
<1>6. /\ byPriority' \in Seq(Txs)
      /\ DOMAIN byPriority' = 1 .. n + 1
      /\ Lists(byPriority', transactions')
  <2>1. byPriority \in Seq(Txs) /\ Lists(byPriority, transactions)
    BY <1>1 DEF PoolTypeOK, IndexesAgree
  <2>2. t \in Txs /\ t \notin transactions /\ transactions' = transactions \cup {t}
        /\ i0 \in 1 .. Len(byPriority) + 1
    BY <1>2, <1>4
  <2> HIDE DEF AddTransaction
  <2>3. /\ Insert(byPriority, i0, t) \in Seq(Txs)
        /\ DOMAIN Insert(byPriority, i0, t) = 1 .. Len(byPriority) + 1
        /\ Lists(Insert(byPriority, i0, t), transactions \cup {t})
    BY <2>1, <2>2, InsertLists
  <2> QED
    BY <1>5, <2>2, <2>3
<1>7. \A a \in Accounts :
        /\ byAccount'[a] \in Seq(Txs)
        /\ Lists(byAccount'[a], {u \in transactions' : From[u] = a})
  <2> TAKE a \in Accounts
  <2>1. /\ byAccount[a] \in Seq(Txs)
        /\ Lists(byAccount[a], {u \in transactions : From[u] = a})
    BY <1>1 DEF PoolTypeOK, IndexesAgree
  <2>2. CASE a = From[t]
    <3>1. byAccount'[a] = Append(byAccount[a], t)
      BY <1>1, <1>2, <2>2 DEF PoolTypeOK
    <3>2. {u \in transactions' : From[u] = a}
            = {u \in transactions : From[u] = a} \cup {t}
      BY <2>2
    <3> QED
      BY <1>2, <2>1, <3>1, <3>2, AppendLists
  <2>3. CASE a # From[t]
    <3>1. byAccount'[a] = byAccount[a]
      BY <1>1, <1>2, <2>3 DEF PoolTypeOK
    <3>2. {u \in transactions' : From[u] = a} = {u \in transactions : From[u] = a}
      BY <2>3
    <3> QED
      BY <2>1, <3>1, <3>2
  <2> QED
    BY <2>2, <2>3
<1>8. PoolTypeOK'
  <2>1. transactions' \subseteq Txs
    BY <1>1 DEF PoolTypeOK
  <2>2. byAccount' \in [Accounts -> Seq(Txs)]
    <3>1. DOMAIN byAccount' = Accounts
      BY <1>1 DEF PoolTypeOK
    <3>2. byAccount' = [a \in Accounts |-> byAccount'[a]]
      BY <1>1, <3>1 DEF PoolTypeOK
    <3> QED
      BY <1>7, <3>2
  <2>3. priority' \in [Txs -> Nat] /\ age' \in [Txs -> 0 .. MaxAge]
    BY <1>1, <1>3, <1>5 DEF PoolTypeOK
  <2>4. totalSize' \in Nat /\ totalAdded' \in Nat /\ totalRemoved' \in Nat
    BY <1>1, TxAssumption DEF PoolTypeOK
  <2>5. running' \in BOOLEAN /\ stopClosed' \in BOOLEAN /\ cleaner' \in BOOLEAN
    BY <1>1 DEF PoolTypeOK, lifeVars
  <2> QED
    BY <1>6, <2>1, <2>2, <2>3, <2>4, <2>5 DEF PoolTypeOK
<1>9. IndexesAgree'
  BY <1>6, <1>7 DEF IndexesAgree
<1>10. SortedByPriority'
  <2>1. /\ n \in Nat /\ DOMAIN byPriority = 1 .. n
        /\ \A k \in 1 .. n : byPriority[k] \in transactions
                             /\ priority[byPriority[k]] \in Nat
    BY <1>1, LenProperties DEF PoolTypeOK, IndexesAgree, Lists
  <2>2. priority'[t] = p /\ \A u \in transactions : priority'[u] = priority[u]
    BY <1>1, <1>2, <1>5 DEF PoolTypeOK
  <2>3. \A j \in 1 .. n + 1 :
          /\ j < i0 => /\ j \in 1 .. n
                       /\ byPriority'[j] = byPriority[j]
                       /\ priority'[byPriority'[j]] = priority[byPriority[j]]
          /\ j = i0 => priority'[byPriority'[j]] = p
          /\ j > i0 => /\ j - 1 \in 1 .. n
                       /\ byPriority'[j] = byPriority[j - 1]
                       /\ priority'[byPriority'[j]] = priority[byPriority[j - 1]]
    BY <1>4, <1>5, <2>1, <2>2 DEF Insert
  <2>4. \A j, k \in 1 .. n + 1 :
          j < k => priority'[byPriority'[j]] >= priority'[byPriority'[k]]
    <3> TAKE j \in 1 .. n + 1, k \in 1 .. n + 1
    <3> HAVE j < k
    <3>1. \A i, l \in 1 .. n : i < l => priority[byPriority[i]] >= priority[byPriority[l]]
      BY <1>1, <2>1 DEF SortedByPriority
    <3>2. CASE k < i0
      BY <1>4, <2>1, <2>3, <3>1, <3>2
    <3>3. CASE k = i0
      BY <1>3, <1>4, <2>1, <2>3, <3>3
    <3>4. CASE k > i0 /\ j < i0
      BY <1>4, <2>1, <2>3, <3>1, <3>4
    <3>5. CASE j = i0
      <4>1. k > i0 /\ k - 1 \in 1 .. n /\ k - 1 >= i0
        BY <1>4, <2>1, <3>5
      <4>2. priority[byPriority[k - 1]] < p /\ priority[byPriority[k - 1]] \in Nat
        BY <1>4, <2>1, <4>1
      <4> QED
        BY <1>3, <2>3, <3>5, <4>1, <4>2
    <3>6. CASE j > i0
      <4>1. k > i0 /\ j - 1 \in 1 .. n /\ k - 1 \in 1 .. n /\ j - 1 < k - 1
        BY <1>4, <2>1, <3>6
      <4>2. priority[byPriority[j - 1]] >= priority[byPriority[k - 1]]
        BY <3>1, <4>1
      <4> QED
        BY <2>3, <3>6, <4>1, <4>2
    <3> QED
      BY <1>4, <2>1, <3>2, <3>3, <3>4, <3>5, <3>6
  <2> QED
    BY <1>6, <2>4 DEF SortedByPriority
<1>11. IsFiniteSet(transactions) /\ Cardinality(transactions) \in Nat
       /\ Cardinality(transactions') = Cardinality(transactions) + 1
  BY <1>1, <1>2, SizeOfFinite, FS_AddElement, FS_CardinalityType DEF PoolTypeOK
<1>12. WithinCapacity'
  <2>1. {MaxSize, GlobalLimit, AccountLimit} \subseteq Nat
    BY ConfigAssumption
  <2>2. Cardinality(transactions') =< MaxSize /\ Cardinality(transactions') =< GlobalLimit
    BY <1>2, <1>11, <2>1 DEF WithinLimits
  <2>3. ASSUME NEW a \in Accounts
        PROVE  Cardinality({u \in transactions' : From[u] = a}) =< AccountLimit
    <3>1. CASE a # From[t]
      <4>1. {u \in transactions' : From[u] = a} = {u \in transactions : From[u] = a}
        BY <3>1
      <4> QED
        BY <1>1, <4>1 DEF WithinCapacity
    <3>2. CASE a = From[t]
      <4> DEFINE mine == {u \in transactions : From[u] = a}
      <4>1. {u \in transactions' : From[u] = a} = mine \cup {t}
        BY <3>2
      <4>2. Cardinality(mine) < AccountLimit
        BY <1>1, <1>2, <3>2, AccountListLength DEF WithinLimits
      <4>3. IsFiniteSet(mine) /\ Cardinality(mine) \in Nat
        BY <1>11, FS_Subset, FS_CardinalityType
      <4>4. Cardinality(mine \cup {t}) = Cardinality(mine) + 1
        BY <1>2, <4>3, FS_AddElement
      <4> HIDE DEF mine
      <4>5. AccountLimit \in Nat
        BY <2>1
      <4>6. Cardinality(mine \cup {t}) =< AccountLimit
        BY <4>2, <4>3, <4>4, <4>5
      <4> QED
        BY <4>1, <4>6
    <3> QED
      BY <3>1, <3>2
  <2> QED
    BY <2>2, <2>3 DEF WithinCapacity
<1>13. MetricsAgree'
  <2>1. transactions' \in SUBSET Txs /\ {t} \in SUBSET transactions'
        /\ transactions' \ {t} = transactions
    BY <1>1, <1>2 DEF PoolTypeOK
  <2>2. SizeOf(transactions') = TxSize[t] + SizeOf(transactions)
    <3>1. SizeOf(transactions') = SizeOf({t}) + SizeOf(transactions' \ {t})
      BY <2>1, SizeOfSplit
    <3>2. SizeOf({t}) = TxSize[t]
      BY <1>2, SizeOfOne
    <3> QED
      BY <2>1, <3>1, <3>2
  <2>3. SizeOf(transactions) \in Nat /\ TxSize[t] \in Nat
    BY <1>1, SizeOfFinite, TxAssumption DEF PoolTypeOK
  <2> QED
    BY <1>1, <1>11, <2>2, <2>3 DEF MetricsAgree, PoolTypeOK
<1>14. PooledAreValid'
  BY <1>1, <1>2 DEF PooledAreValid, Valid, HasPriority
<1> QED
  BY <1>8, <1>9, <1>10, <1>12, <1>13, <1>14 DEF PoolInv

\* Removing S from the three stores: the list of each account loses those of
\* S that it sent, and what is left keeps its order.
LEMMA EvictInvariant ==
  ASSUME PoolInv, NEW S \in SUBSET transactions, Evict(S), UNCHANGED lifeVars
  PROVE  PoolInv'
<1> USE DEF Evict
<1>1. /\ PoolTypeOK /\ IndexesAgree /\ SortedByPriority /\ WithinCapacity
      /\ MetricsAgree /\ PooledAreValid
  BY DEF PoolInv
<1>2. transactions \in SUBSET Txs /\ S \in SUBSET Txs /\ transactions' \in SUBSET transactions
  BY <1>1 DEF PoolTypeOK
<1>3. /\ byPriority' \in Seq(Txs)
      /\ Lists(byPriority', transactions')
      /\ \A i, j \in DOMAIN byPriority' : i < j =>
           Ahead(byPriority, byPriority'[i], byPriority'[j])
  <2>1. byPriority \in Seq(Txs) /\ Lists(byPriority, transactions)
    BY <1>1 DEF PoolTypeOK, IndexesAgree
  <2> QED
    BY <2>1, WithoutProperties
<1>4. \A a \in Accounts :
        /\ byAccount'[a] \in Seq(Txs)
        /\ Lists(byAccount'[a], {u \in transactions' : From[u] = a})
  <2> TAKE a \in Accounts
  <2> DEFINE mine == {u \in transactions : From[u] = a}
             gone == {u \in S : From[u] = a}
  <2>1. byAccount[a] \in Seq(Txs) /\ Lists(byAccount[a], mine)
    BY <1>1 DEF PoolTypeOK, IndexesAgree
  <2>2. byAccount'[a] = Without(byAccount[a], gone)
    OBVIOUS
  <2>3. {u \in transactions' : From[u] = a} = mine \ gone
    OBVIOUS
  <2> HIDE DEF mine, gone
  <2>4. /\ Without(byAccount[a], gone) \in Seq(Txs)
        /\ Lists(Without(byAccount[a], gone), mine \ gone)
    BY <2>1, WithoutProperties
  <2> QED
    BY <2>2, <2>3, <2>4
<1>5. /\ IsFiniteSet(transactions) /\ IsFiniteSet(S) /\ Cardinality(S) \in Nat
      /\ Cardinality(transactions) \in Nat /\ Cardinality(transactions') \in Nat
      /\ Cardinality(transactions) = Cardinality(S) + Cardinality(transactions')
  <2>1. IsFiniteSet(transactions) /\ IsFiniteSet(S) /\ IsFiniteSet(transactions')
    BY <1>2, SizeOfFinite
  <2>2. transactions = S \cup transactions' /\ S \cap transactions' = {}
    OBVIOUS
  <2>3. Cardinality(S \cup transactions') = Cardinality(S) + Cardinality(transactions')
    BY <2>1, <2>2, DisjointCardinality
  <2> QED
    BY <2>1, <2>2, <2>3, FS_CardinalityType
<1>6. /\ SizeOf(transactions) \in Nat /\ SizeOf(S) \in Nat /\ SizeOf(transactions') \in Nat
      /\ SizeOf(transactions) = SizeOf(S) + SizeOf(transactions')
  <2>1. SizeOf(transactions) = SizeOf(S) + SizeOf(transactions \ S)
    BY <1>2, SizeOfSplit
  <2> QED
    BY <1>2, <2>1, SizeOfFinite
<1>7. MetricsAgree'
  <2>1. totalSize' = SizeOf(transactions')
    BY <1>1, <1>6 DEF MetricsAgree
  <2>2. totalRemoved' + Cardinality(transactions') =< totalAdded'
    BY <1>1, <1>5 DEF MetricsAgree, PoolTypeOK
  <2> QED
    BY <2>1, <2>2 DEF MetricsAgree
<1>8. PoolTypeOK'
  <2>1. byAccount' \in [Accounts -> Seq(Txs)]
    BY <1>4
  <2>2. priority' \in [Txs -> Nat]
    BY <1>1 DEF PoolTypeOK
  <2>3. age' \in [Txs -> 0 .. MaxAge]
    BY <1>1, ConfigAssumption DEF PoolTypeOK
  <2>4. totalSize' \in Nat /\ totalAdded' \in Nat /\ totalRemoved' \in Nat
    <3>1. totalSize' = SizeOf(transactions')
      BY <1>7 DEF MetricsAgree
    <3>2. totalRemoved \in Nat /\ totalAdded \in Nat
      BY <1>1 DEF PoolTypeOK
    <3>3. totalRemoved' = totalRemoved + Cardinality(S) /\ totalAdded' = totalAdded
      OBVIOUS
    <3> QED
      BY <1>5, <1>6, <3>1, <3>2, <3>3
  <2>5. running' \in BOOLEAN /\ stopClosed' \in BOOLEAN /\ cleaner' \in BOOLEAN
    BY <1>1 DEF PoolTypeOK, lifeVars
  <2>6. transactions' \subseteq Txs
    BY <1>2
  <2> QED
    BY <1>3, <2>1, <2>2, <2>3, <2>4, <2>5, <2>6 DEF PoolTypeOK
<1>9. IndexesAgree'
  BY <1>3, <1>4 DEF IndexesAgree
<1>10. SortedByPriority'
  <2> SUFFICES ASSUME NEW i \in DOMAIN byPriority', NEW j \in DOMAIN byPriority', i < j
               PROVE  priority'[byPriority'[i]] >= priority'[byPriority'[j]]
    BY DEF SortedByPriority
  <2> DEFINE t == byPriority'[i]
             u == byPriority'[j]
  <2>1. t \in transactions' /\ u \in transactions'
    BY <1>3 DEF Lists
  <2>2. Ahead(byPriority, t, u)
    BY <1>3
  <2> HIDE DEF t, u
  <2>3. priority[t] >= priority[u]
    BY <1>1, <2>2 DEF Ahead, SortedByPriority
  <2>4. priority'[t] = priority[t] /\ priority'[u] = priority[u]
    BY <1>2, <2>1
  <2> QED
    BY <2>3, <2>4 DEF t, u
<1>11. WithinCapacity'
  <2>1. {MaxSize, GlobalLimit, AccountLimit} \subseteq Nat
    BY ConfigAssumption
  <2>2. Cardinality(transactions') =< MaxSize /\ Cardinality(transactions') =< GlobalLimit
    BY <1>1, <1>5, <2>1 DEF WithinCapacity
  <2>3. ASSUME NEW a \in Accounts
        PROVE  Cardinality({u \in transactions' : From[u] = a}) =< AccountLimit
    <3> DEFINE new == {u \in transactions' : From[u] = a}
               old == {u \in transactions : From[u] = a}
    <3>1. new \in SUBSET old /\ old \in SUBSET transactions
      BY <1>2
    <3>2. Cardinality(old) =< AccountLimit
      BY <1>1 DEF WithinCapacity
    <3> HIDE DEF new, old
    <3>3. IsFiniteSet(old)
      BY <1>5, <3>1, FS_Subset
    <3>4. Cardinality(new) =< Cardinality(old)
      BY <3>1, <3>3, FS_Subset
    <3>5. Cardinality(new) \in Nat /\ Cardinality(old) \in Nat
      BY <3>1, <3>3, FS_Subset, FS_CardinalityType
    <3>6. AccountLimit \in Nat
      BY <2>1
    <3>7. Cardinality(new) =< AccountLimit
      BY <3>2, <3>4, <3>5, <3>6
    <3> QED
      BY <3>7 DEF new
  <2> QED
    BY <2>2, <2>3 DEF WithinCapacity
<1>12. PooledAreValid'
  BY <1>1 DEF PooledAreValid, Valid, HasPriority
<1> QED
  BY <1>7, <1>8, <1>9, <1>10, <1>11, <1>12 DEF PoolInv

\* Flush leaves the pool as NewMempool made it, but for the counters.
LEMMA FlushInvariant ==
  ASSUME PoolInv, Flush
  PROVE  PoolInv'
<1> USE DEF Flush
<1>1. PoolTypeOK'
  <2>1. <<>> \in Seq(Txs)
    OBVIOUS
  <2>2. 0 \in 0 .. MaxAge
    BY ConfigAssumption
  <2> QED
    BY <2>1, <2>2 DEF PoolInv, PoolTypeOK, lifeVars
<1>2. IndexesAgree' /\ SortedByPriority' /\ PooledAreValid'
  BY DEF IndexesAgree, Lists, SortedByPriority, PooledAreValid
<1>3. Cardinality({}) = 0
  BY FS_EmptySet
<1>4. WithinCapacity'
  <2>1. \A a \in Accounts : {t \in transactions' : From[t] = a} = {}
    OBVIOUS
  <2>2. MaxSize \in Nat /\ GlobalLimit \in Nat /\ AccountLimit \in Nat
    BY ConfigAssumption
  <2> QED
    BY <1>3, <2>1, <2>2 DEF WithinCapacity
<1>5. MetricsAgree'
  <2>1. SizeOf({}) = 0
    <3>1. MaxTxSize \in Nat
      BY ConfigAssumption
    <3> QED
      BY <3>1, WeightEmpty DEF SizeOf
  <2>2. totalRemoved =< totalAdded /\ totalRemoved \in Nat
    <3>1. Cardinality(transactions) \in Nat
      BY SizeOfFinite, FS_CardinalityType DEF PoolInv, PoolTypeOK
    <3> QED
      BY <3>1 DEF PoolInv, MetricsAgree, PoolTypeOK
  <2> QED
    BY <1>3, <2>1, <2>2 DEF MetricsAgree
<1> QED
  BY <1>1, <1>2, <1>4, <1>5 DEF PoolInv

\* UpdatePriorities permutes the list into the order of the new priorities.
LEMMA UpdateInvariant ==
  ASSUME PoolInv, UpdatePriorities
  PROVE  PoolInv'
<1> USE DEF UpdatePriorities
<1>1. /\ PoolTypeOK /\ IndexesAgree /\ WithinCapacity /\ MetricsAgree /\ PooledAreValid
  BY DEF PoolInv
<1>2. byPriority' \in Seq(Txs) /\ Lists(byPriority', transactions)
      /\ DOMAIN byPriority' = DOMAIN byPriority
  <2>1. byPriority \in Seq(Txs) /\ Lists(byPriority, transactions)
    BY <1>1 DEF PoolTypeOK, IndexesAgree
  <2>2. PICK p \in Bijection(DOMAIN byPriority, DOMAIN byPriority) :
          byPriority' = [i \in DOMAIN byPriority |-> byPriority[p[i]]]
    OBVIOUS
  <2> QED
    BY <2>1, <2>2, PermutationLists
<1>3. priority' \in [Txs -> Nat]
  <2> SUFFICES ASSUME NEW t \in Txs
               PROVE  (IF t \in transactions THEN PriorityAt(t, age[t]) ELSE priority[t]) \in Nat
    OBVIOUS
  <2>1. age[t] \in Nat /\ priority[t] \in Nat
    BY <1>1, ConfigAssumption DEF PoolTypeOK
  <2>2. CASE t \notin transactions
    BY <2>1, <2>2
  <2>3. CASE t \in transactions
    BY <2>1, <2>3, PriorityIsNat, <1>1 DEF PooledAreValid
  <2> QED
    BY <2>2, <2>3
<1> QED
  BY <1>1, <1>2, <1>3 DEF PoolInv, PoolTypeOK, IndexesAgree, SortedByPriority, WithinCapacity,
     MetricsAgree, PooledAreValid, Valid, HasPriority, metricVars, lifeVars

\* A minute more changes ages only.
LEMMA TickInvariant ==
  ASSUME PoolInv, Tick
  PROVE  PoolInv'
<1>1. age' \in [Txs -> 0 .. MaxAge]
  BY ConfigAssumption DEF PoolInv, PoolTypeOK, Tick
<1> QED
  BY <1>1 DEF Tick, PoolInv, PoolTypeOK, IndexesAgree, SortedByPriority, WithinCapacity,
     MetricsAgree, PooledAreValid, Valid, HasPriority, metricVars, lifeVars

\* Every step of the pool keeps the invariant.
LEMMA PoolNextInvariant == PoolInv /\ [PoolNext]_poolVars => PoolInv'
<1> SUFFICES ASSUME PoolInv, [PoolNext]_poolVars PROVE PoolInv'
  OBVIOUS
<1>1. CASE PoolStart
  BY <1>1, UnchangedInvariant DEF PoolStart, PoolInv, PoolTypeOK
<1>2. CASE PoolStop
  BY <1>2, UnchangedInvariant DEF PoolStop, PoolInv, PoolTypeOK
<1>3. ASSUME NEW t \in Txs, NEW m \in {0, MaxAge}, AddTransaction(t, m)
      PROVE  PoolInv'
  <2>1. m \in 0 .. MaxAge
    BY ConfigAssumption
  <2> QED
    BY <1>3, <2>1, AddInvariant
<1>4. ASSUME NEW t \in Txs, RemoveTransaction(t)
      PROVE  PoolInv'
  BY <1>4, EvictInvariant DEF RemoveTransaction
<1>5. CASE Cleanup
  <2>1. Expired \in SUBSET transactions
    BY DEF Expired
  <2> QED
    BY <1>5, <2>1, EvictInvariant DEF Cleanup
<1>6. CASE CleanerExits
  BY <1>6, UnchangedInvariant DEF CleanerExits, PoolInv, PoolTypeOK
<1>7. CASE Flush
  BY <1>7, FlushInvariant
<1>8. CASE UpdatePriorities
  BY <1>8, UpdateInvariant
<1>9. CASE Tick
  BY <1>9, TickInvariant
<1>10. CASE UNCHANGED poolVars
  BY <1>10, UnchangedInvariant DEF poolVars, lifeVars, PoolInv, PoolTypeOK
<1> QED
  BY <1>1, <1>2, <1>3, <1>4, <1>5, <1>6, <1>7, <1>8, <1>9, <1>10 DEF PoolNext

\* The inductive invariant holds in every reachable state of the pool.
THEOREM MempoolInvariant == PoolSpec => []PoolInv
<1> QED
  BY NewMempoolInvariant, PoolNextInvariant, PTL DEF PoolSpec

\* The variables of mempool.go:30-49 keep their types: in particular the
\* unsigned totalSize never goes below zero when sizes are subtracted.
THEOREM MempoolTypeOK == PoolSpec => []PoolTypeOK
<1>1. PoolInv => PoolTypeOK
  BY DEF PoolInv
<1> QED
  BY <1>1, MempoolInvariant, PTL

\* The map, the account lists and the priority list hold the same
\* transactions after every operation.
THEOREM MempoolIndexesAgree == PoolSpec => []IndexesAgree
<1>1. PoolInv => IndexesAgree
  BY DEF PoolInv
<1> QED
  BY <1>1, MempoolInvariant, PTL

\* The list from which blocks are filled is always in order of priority.
THEOREM MempoolSorted == PoolSpec => []SortedByPriority
<1>1. PoolInv => SortedByPriority
  BY DEF PoolInv
<1> QED
  BY <1>1, MempoolInvariant, PTL

\* The limits of checkLimits hold in every state, for the pool and for every
\* account.
THEOREM MempoolWithinCapacity == PoolSpec => []WithinCapacity
<1>1. PoolInv => WithinCapacity
  BY DEF PoolInv
<1> QED
  BY <1>1, MempoolInvariant, PTL

\* The counters of GetStats agree with the contents.
THEOREM MempoolMetricsAgree == PoolSpec => []MetricsAgree
<1>1. PoolInv => MetricsAgree
  BY DEF PoolInv
<1> QED
  BY <1>1, MempoolInvariant, PTL

----------------------------------------------------------------------------
\* What NoOvertaking says of one step.
KeepsOrder ==
  /\ \A t, u \in transactions \cap transactions' :
       Ahead(byPriority, t, u) => Ahead(byPriority', t, u)
  /\ \A t \in transactions, u \in transactions' \ transactions :
       (t \in transactions' /\ priority[t] >= priority'[u])
          => Ahead(byPriority', t, u)

\* An insertion moves nothing past anything, and goes behind its equals.
LEMMA AddKeepsOrder ==
  ASSUME PoolInv, NEW t \in Txs, NEW m \in 0 .. MaxAge, AddTransaction(t, m)
  PROVE  KeepsOrder
<1> USE DEF AddTransaction
<1> DEFINE p == PriorityAt(t, m)
           i0 == InsertPosition(p)
           n == Len(byPriority)
<1>1. /\ n \in Nat /\ DOMAIN byPriority = 1 .. n
      /\ \A u \in transactions : \E i \in 1 .. n : byPriority[i] = u
      /\ \A i \in 1 .. n : priority[byPriority[i]] \in Nat
  BY LenProperties DEF PoolInv, PoolTypeOK, IndexesAgree, Lists
<1>2. p \in Nat
  BY PriorityIsNat, ConfigAssumption
<1>3. /\ i0 \in 1 .. n + 1
      /\ \A k \in 1 .. n : k >= i0 => priority[byPriority[k]] < p
  BY <1>1, <1>2, InsertPositionSplits DEF PoolInv
<1> HIDE DEF p, i0
<1>4. byPriority' = Insert(byPriority, i0, t) /\ priority'[t] = p
  BY DEF p, i0, PoolInv, PoolTypeOK
<1>5. /\ DOMAIN byPriority' = 1 .. n + 1
      /\ byPriority'[i0] = t
      /\ \A i \in 1 .. n : byPriority'[IF i < i0 THEN i ELSE i + 1] = byPriority[i]
      /\ \A u, v \in transactions : Ahead(byPriority', u, v) <=> Ahead(byPriority, u, v)
  <2>1. byPriority \in Seq(Txs) /\ Lists(byPriority, transactions)
    BY DEF PoolInv, PoolTypeOK, IndexesAgree
  <2>2. t \in Txs /\ t \notin transactions /\ i0 \in 1 .. Len(byPriority) + 1
    BY <1>3
  <2> HIDE DEF AddTransaction
  <2> DEFINE r == Insert(byPriority, i0, t)
  <2>3. DOMAIN r = 1 .. Len(byPriority) + 1
    BY <2>1, <2>2, InsertLists
  <2>4. /\ r[i0] = t
        /\ \A i \in 1 .. Len(byPriority) : r[IF i < i0 THEN i ELSE i + 1] = byPriority[i]
    BY <2>1, <2>2, InsertPositions
  <2>5. \A u, v \in transactions : Ahead(r, u, v) <=> Ahead(byPriority, u, v)
    BY <2>1, <2>2, InsertKeepsOrder
  <2> QED
    BY <1>4, <2>3, <2>4, <2>5
<1>6. ASSUME NEW u \in transactions, priority[u] >= p
      PROVE  Ahead(byPriority', u, t)
  <2>1. PICK i \in 1 .. n : byPriority[i] = u
    BY <1>1
  <2>2. i < i0 /\ i \in 1 .. n + 1
    <3>1. ~ (i >= i0)
      BY <1>1, <1>2, <1>3, <1>6, <2>1
    <3> QED
      BY <1>1, <1>3, <3>1
  <2>3. byPriority'[i] = u
    BY <1>5, <2>1, <2>2
  <2> QED
    BY <1>3, <1>5, <2>2, <2>3 DEF Ahead
<1> QED
  BY <1>4, <1>5, <1>6 DEF KeepsOrder

\* What is left after a removal keeps its order, and nothing is new.
LEMMA EvictKeepsOrder ==
  ASSUME PoolInv, NEW S \in SUBSET transactions, Evict(S)
  PROVE  KeepsOrder
<1> USE DEF Evict
<1>1. /\ Lists(byPriority, transactions)
      /\ Lists(byPriority', transactions')
      /\ byPriority' \in Seq(Txs)
      /\ \A i, j \in DOMAIN byPriority' : i < j =>
           Ahead(byPriority, byPriority'[i], byPriority'[j])
  <2>1. byPriority \in Seq(Txs) /\ Lists(byPriority, transactions)
    BY DEF PoolInv, PoolTypeOK, IndexesAgree
  <2> QED
    BY <2>1, WithoutProperties
<1>2. DOMAIN byPriority \subseteq Int /\ DOMAIN byPriority' \subseteq Int
  BY <1>1, LenProperties DEF PoolInv, PoolTypeOK
<1>3. ASSUME NEW t \in transactions', NEW u \in transactions', Ahead(byPriority, t, u)
      PROVE  Ahead(byPriority', t, u)
  <2>1. PICK i \in DOMAIN byPriority', j \in DOMAIN byPriority' :
          byPriority'[i] = t /\ byPriority'[j] = u
    BY <1>1 DEF Lists
  <2>2. ~ Ahead(byPriority, u, t)
    BY <1>1, <1>2, <1>3 DEF Ahead, Lists
  <2>3. t # u
    BY <1>1, <1>2, <1>3 DEF Ahead, Lists
  <2>4. i < j
    BY <1>1, <1>2, <2>1, <2>2, <2>3
  <2> QED
    BY <2>1, <2>4 DEF Ahead
<1> QED
  BY <1>3 DEF KeepsOrder

\* What each operation of the pool does to the order.
LEMMA PoolKeepsOrder ==
  ASSUME PoolInv, PoolNext
  PROVE  UpdatePriorities \/ KeepsOrder
<1>1. ASSUME UNCHANGED <<transactions, byPriority>> PROVE KeepsOrder
  BY <1>1 DEF KeepsOrder
<1>2. CASE PoolStart \/ PoolStop \/ CleanerExits \/ Tick
  BY <1>1, <1>2 DEF PoolStart, PoolStop, CleanerExits, Tick, indexVars
<1>3. ASSUME NEW t \in Txs, NEW m \in {0, MaxAge}, AddTransaction(t, m)
      PROVE  KeepsOrder
  <2>1. m \in 0 .. MaxAge
    BY ConfigAssumption
  <2> QED
    BY <1>3, <2>1, AddKeepsOrder
<1>4. ASSUME NEW t \in Txs, RemoveTransaction(t) PROVE KeepsOrder
  BY <1>4, EvictKeepsOrder DEF RemoveTransaction
<1>5. CASE Cleanup
  <2>1. Expired \in SUBSET transactions
    BY DEF Expired
  <2> QED
    BY <1>5, <2>1, EvictKeepsOrder DEF Cleanup
<1>6. CASE Flush
  BY <1>6 DEF Flush, KeepsOrder
<1> QED
  BY <1>2, <1>3, <1>4, <1>5, <1>6 DEF PoolNext

\* No step but UpdatePriorities moves a transaction past another, and a
\* newcomer never goes ahead of one with at least its priority.
THEOREM MempoolNoOvertaking == PoolSpec => NoOvertaking
<1>1. PoolInv /\ [PoolNext]_poolVars => [UpdatePriorities \/ KeepsOrder]_poolVars
  BY PoolKeepsOrder
<1> QED
  BY <1>1, MempoolInvariant, PTL DEF PoolSpec, NoOvertaking, KeepsOrder
=============================================================================
