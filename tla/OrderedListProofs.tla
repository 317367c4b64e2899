------------------------- MODULE OrderedListProofs --------------------------
(***************************************************************************)
(* What the list operators of OrderedLists return, for every list.         *)
(***************************************************************************)
EXTENDS OrderedLists, FiniteSetTheorems, SequenceTheorems,
        WellFoundedInduction, TLAPS

\* Induction over the naturals, in the form the lemmas below use: a set of
\* naturals that is not empty has a least member.
LEMMA LeastNat ==
  ASSUME NEW T \in SUBSET Nat, T # {}
  PROVE  \E x \in T : \A y \in T : x =< y
<1> DEFINE R == OpToRel(<, Nat)
<1>1. IsWellFoundedOn(R, Nat)
  BY NatLessThanWellFounded
<1>2. \A x, y \in Nat : <<x, y>> \in R <=> x < y
  BY DEF OpToRel
<1> HIDE DEF R
<1>3. PICK x \in T : \A y \in T : ~ (<<y, x>> \in R)
  BY <1>1, WFMin
<1>4. \A y \in T : ~ (y < x)
  <2> TAKE y \in T
  <2>1. x \in Nat /\ y \in Nat
    OBVIOUS
  <2> QED
    BY <1>2, <1>3, <2>1
<1>5. \A y \in T : x \in Nat /\ y \in Nat
  OBVIOUS
<1> QED
  BY <1>4, <1>5

\* Every finite set of positions has an ascending list: Ascending is defined.
LEMMA AscendingExists ==
  ASSUME NEW n \in Nat, NEW K \in SUBSET (1 .. n)
  PROVE  \E pos \in [1 .. Cardinality(K) -> K] : IsAscending(pos, K)
<1> DEFINE Good(L) == \E pos \in [1 .. Cardinality(L) -> L] : IsAscending(pos, L)
           Bad == {m \in Nat : \E L \in SUBSET (1 .. m) : ~ Good(L)}
<1>1. SUFFICES ASSUME Bad # {} PROVE FALSE
  BY DEF Bad
<1>2. PICK m \in Bad : \A k \in Bad : m =< k
  <2> Bad \in SUBSET Nat
    OBVIOUS
  <2> HIDE DEF Bad
  <2> QED
    BY <1>1, LeastNat
<1>3. PICK L \in SUBSET (1 .. m) : ~ Good(L)
  BY <1>2 DEF Bad
<1>4. L # {}
  <2> SUFFICES ASSUME L = {} PROVE Good(L)
    BY <1>3
  <2>1. Cardinality(L) = 0
    BY FS_EmptySet
  <2>2. <<>> \in [1 .. Cardinality(L) -> L] /\ IsAscending(<<>>, L)
    BY <2>1 DEF IsAscending
  <2> QED
    BY <2>2
<1>5. m \in Nat /\ m # 0
  <2>1. m \in Nat
    OBVIOUS
  <2>2. PICK x \in L : x \in 1 .. m
    BY <1>4
  <2> QED
    BY <2>1, <2>2
<1>6. m - 1 \in Nat /\ m - 1 \notin Bad
  <2> HIDE DEF Bad
  <2>1. m - 1 \in Nat /\ ~ (m =< m - 1)
    BY <1>5
  <2> QED
    BY <1>2, <2>1
<1> HIDE DEF Bad
<1> DEFINE L0 == L \ {m}
<1>7. L0 \in SUBSET (1 .. m - 1)
  BY <1>5
<1>8. PICK pos0 \in [1 .. Cardinality(L0) -> L0] : IsAscending(pos0, L0)
  BY <1>6, <1>7 DEF Bad
<1> HIDE DEF Good
<1>9. IsFiniteSet(L) /\ IsFiniteSet(L0)
  <2>1. IsFiniteSet(1 .. m)
    BY <1>5, FS_Interval
  <2>2. IsFiniteSet(L)
    BY <2>1, FS_Subset
  <2> QED
    BY <2>2, FS_RemoveElement
<1>10. m \in L
  <2> SUFFICES ASSUME m \notin L PROVE FALSE
    OBVIOUS
  <2>1. L0 = L
    OBVIOUS
  <2> QED
    BY <1>3, <1>8, <2>1 DEF Good
<1>11. Cardinality(L0) \in Nat /\ Cardinality(L) = Cardinality(L0) + 1
  BY <1>9, <1>10, FS_RemoveElement, FS_CardinalityType
<1> DEFINE c == Cardinality(L0)
           pos == [i \in 1 .. c + 1 |-> IF i = c + 1 THEN m ELSE pos0[i]]
<1>12. c \in Nat /\ pos0 \in [1 .. c -> L0]
  BY <1>8, <1>11
<1> HIDE DEF c
<1>13. pos \in [1 .. c + 1 -> L]
  <2> SUFFICES ASSUME NEW i \in 1 .. c + 1
               PROVE  (IF i = c + 1 THEN m ELSE pos0[i]) \in L
    OBVIOUS
  <2>1. CASE i = c + 1
    BY <1>10, <2>1
  <2>2. CASE i # c + 1
    <3>1. i \in 1 .. c
      BY <1>12, <2>2
    <3> QED
      BY <1>12, <2>2, <3>1
  <2> QED
    BY <2>1, <2>2
<1>14. \A i, j \in 1 .. c + 1 : i < j => pos[i] < pos[j]
  <2> TAKE i \in 1 .. c + 1, j \in 1 .. c + 1
  <2> HAVE i < j
  <2>1. i \in 1 .. c /\ pos0[i] \in L0 /\ pos0[i] \in 1 .. m - 1
    <3>1. i \in 1 .. c
      BY <1>12
    <3> QED
      BY <1>7, <1>12, <3>1
  <2>2. CASE j = c + 1
    BY <1>5, <1>12, <2>1, <2>2
  <2>3. CASE j # c + 1
    <3>1. j \in 1 .. c
      BY <1>12, <2>3
    <3>2. pos0[i] < pos0[j]
      BY <1>8, <1>12, <2>1, <3>1 DEF IsAscending
    <3> QED
      BY <1>12, <2>1, <3>1, <3>2
  <2> QED
    BY <2>2, <2>3
<1>15. \A k \in L : \E i \in 1 .. c + 1 : pos[i] = k
  <2> TAKE k \in L
  <2>1. CASE k = m
    BY <1>12, <2>1
  <2>2. CASE k # m
    <3>1. PICK i \in 1 .. c : pos0[i] = k
      BY <1>8, <1>12, <2>2 DEF IsAscending
    <3> QED
      BY <1>12, <3>1
  <2> QED
    BY <2>1, <2>2
<1>16. Good(L)
  <2>1. pos \in [1 .. Cardinality(L) -> L]
    BY <1>11, <1>13 DEF c
  <2>2. IsAscending(pos, L)
    BY <1>14, <1>15 DEF IsAscending
  <2> HIDE DEF pos
  <2> QED
    BY <2>1, <2>2 DEF Good
<1> QED
  BY <1>3, <1>16

\* A list has as many positions as the set it lists has members.
LEMMA ListsCardinality ==
  ASSUME NEW S, NEW T, NEW seq \in Seq(T), Lists(seq, S)
  PROVE  IsFiniteSet(S) /\ Cardinality(S) = Len(seq)
<1>1. Len(seq) \in Nat /\ DOMAIN seq = 1 .. Len(seq) /\ seq \in [1 .. Len(seq) -> S]
  BY LenProperties DEF Lists
<1>2. seq \in Bijection(1 .. Len(seq), S)
  BY <1>1 DEF Lists, Bijection, Injection, IsInjective, Surjection
<1>3. ExistsBijection(1 .. Len(seq), S)
  BY <1>2 DEF ExistsBijection
<1> QED
  BY <1>1, <1>3, FS_NatBijection, FS_CountingElements

\* Every list without S is a list of members of the list.
LEMMA WithoutSome ==
  ASSUME NEW T, NEW seq \in Seq(T), NEW S
  PROVE  Without(seq, S) \in Seq(T)
<1> DEFINE K == Kept(seq, S)
           c == Cardinality(K)
<1>1. Len(seq) \in Nat /\ DOMAIN seq = 1 .. Len(seq) /\ seq \in [1 .. Len(seq) -> T]
  BY LenProperties
<1>2. K \in SUBSET (1 .. Len(seq))
  BY <1>1 DEF Kept
<1>3. c \in Nat
  <2>1. IsFiniteSet(1 .. Len(seq))
    BY <1>1, FS_Interval
  <2> HIDE DEF K
  <2>2. IsFiniteSet(K)
    BY <1>2, <2>1, FS_Subset
  <2> QED
    BY <2>2, FS_CardinalityType
<1>4. Ascending(K) \in [1 .. c -> K]
  BY <1>1, <1>2, AscendingExists DEF Ascending
<1>5. Without(seq, S) = [j \in 1 .. c |-> seq[Ascending(K)[j]]]
  BY DEF Without
<1> HIDE DEF K, c
<1>6. Without(seq, S) \in [1 .. c -> T]
  BY <1>1, <1>2, <1>4, <1>5
<1> QED
  BY <1>3, <1>6, SeqDef

\* What Without returns for a list without repetition: the members that are
\* not in S, each once, in the order they had.
LEMMA WithoutProperties ==
  ASSUME NEW T, NEW seq \in Seq(T), NEW S, NEW X, Lists(seq, X)
  PROVE  /\ Without(seq, S) \in Seq(T)
         /\ Lists(Without(seq, S), X \ S)
         /\ \A i, j \in DOMAIN Without(seq, S) : i < j =>
              Ahead(seq, Without(seq, S)[i], Without(seq, S)[j])
<1> DEFINE n == Len(seq)
           K == Kept(seq, S)
           pos == Ascending(K)
           c == Cardinality(K)
           r == [j \in 1 .. c |-> seq[pos[j]]]
<1>1. n \in Nat /\ DOMAIN seq = 1 .. n /\ seq \in [1 .. n -> T]
  BY LenProperties
<1>2. K = {i \in 1 .. n : seq[i] \notin S}
  BY <1>1 DEF Kept, Lists
<1>3. pos \in [1 .. c -> K] /\ IsAscending(pos, K)
  BY <1>1, <1>2, AscendingExists DEF Ascending
<1>4. c \in Nat
  <2>1. IsFiniteSet(1 .. n) /\ K \in SUBSET (1 .. n)
    BY <1>1, <1>2, FS_Interval
  <2>2. IsFiniteSet(K)
    BY <2>1, FS_Subset
  <2> QED
    BY <2>2, FS_CardinalityType
<1>5. Without(seq, S) = r
  BY DEF Without
<1> HIDE DEF n, K, pos, c
<1>6. r \in Seq(T) /\ DOMAIN r = 1 .. c
  <2>1. \A j \in 1 .. c : seq[pos[j]] \in T
    BY <1>1, <1>2, <1>3
  <2>2. r \in [1 .. c -> T]
    BY <2>1
  <2> QED
    BY <1>4, <2>2, SeqDef
<1>7. \A i, j \in 1 .. c : i < j => Ahead(seq, r[i], r[j])
  <2> TAKE i \in 1 .. c, j \in 1 .. c
  <2> HAVE i < j
  <2>1. pos[i] \in 1 .. n /\ pos[j] \in 1 .. n /\ pos[i] < pos[j]
    BY <1>2, <1>3 DEF IsAscending
  <2> QED
    BY <1>1, <2>1 DEF Ahead
<1>8. \A i, j \in 1 .. c : r[i] = r[j] => i = j
  <2> TAKE i \in 1 .. c, j \in 1 .. c
  <2> HAVE r[i] = r[j]
  <2>1. pos[i] = pos[j] /\ pos[i] \in 1 .. n /\ pos[j] \in 1 .. n
    BY <1>1, <1>2, <1>3 DEF Lists
  <2>2. ~ (i < j) /\ ~ (j < i)
    BY <1>3, <2>1 DEF IsAscending
  <2> QED
    BY <1>4, <2>2
<1>9. \A i \in 1 .. c : r[i] \in X \ S
  BY <1>1, <1>2, <1>3 DEF Lists
<1>10. \A t \in X \ S : \E i \in 1 .. c : r[i] = t
  <2> TAKE t \in X \ S
  <2>1. PICK k \in 1 .. n : seq[k] = t
    BY <1>1 DEF Lists
  <2>2. k \in K
    BY <1>2, <2>1
  <2>3. PICK i \in 1 .. c : pos[i] = k
    BY <1>3, <2>2 DEF IsAscending
  <2> QED
    BY <2>1, <2>3
<1> HIDE DEF r
<1>11. Lists(r, X \ S)
  BY <1>6, <1>8, <1>9, <1>10 DEF Lists
<1> QED
  BY <1>5, <1>6, <1>7, <1>11

\* What Insert returns, for a list of X and a t that is not in it.  It lists X
\* and t.
LEMMA InsertLists ==
  ASSUME NEW T, NEW seq \in Seq(T), NEW X, Lists(seq, X),
         NEW t \in T, t \notin X, NEW p \in 1 .. Len(seq) + 1
  PROVE  /\ Insert(seq, p, t) \in Seq(T)
         /\ DOMAIN Insert(seq, p, t) = 1 .. Len(seq) + 1
         /\ Lists(Insert(seq, p, t), X \cup {t})
<1> DEFINE n == Len(seq)
           r == Insert(seq, p, t)
<1>1. n \in Nat /\ DOMAIN seq = 1 .. n /\ seq \in [1 .. n -> T]
  BY LenProperties
<1>2. r = [j \in 1 .. n + 1 |->
             IF j < p THEN seq[j] ELSE IF j = p THEN t ELSE seq[j - 1]]
  BY DEF Insert
<1> HIDE DEF n, r
<1>3. \A j \in 1 .. n + 1 : /\ j < p => j \in 1 .. n /\ r[j] = seq[j]
                            /\ j = p => r[j] = t
                            /\ j > p => j - 1 \in 1 .. n /\ r[j] = seq[j - 1]
  BY <1>1, <1>2 DEF n
<1>4. \A j \in 1 .. n + 1 : r[j] \in T
  BY <1>1, <1>3
<1>5. r \in Seq(T) /\ DOMAIN r = 1 .. n + 1
  <2>1. r \in [1 .. n + 1 -> T]
    BY <1>2, <1>4
  <2> QED
    BY <1>1, <2>1, SeqDef
<1>6. \A i, j \in 1 .. n + 1 : r[i] = r[j] => i = j
  <2> TAKE i \in 1 .. n + 1, j \in 1 .. n + 1
  <2> HAVE r[i] = r[j]
  <2>1. \A k \in 1 .. n : seq[k] # t
    BY <1>1 DEF Lists
  <2>2. \A k, l \in 1 .. n : seq[k] = seq[l] => k = l
    BY <1>1 DEF Lists
  <2> QED
    BY <1>1, <1>3, <2>1, <2>2
<1>7. \A i \in 1 .. n + 1 : r[i] \in X \cup {t}
  <2>1. \A k \in 1 .. n : seq[k] \in X
    BY <1>1 DEF Lists
  <2> QED
    BY <1>1, <1>3, <2>1
<1>8. \A u \in X \cup {t} : \E i \in 1 .. n + 1 : r[i] = u
  <2> TAKE u \in X \cup {t}
  <2>1. CASE u = t
    BY <1>3, <2>1 DEF n
  <2>2. CASE u \in X
    <3>1. PICK k \in 1 .. n : seq[k] = u
      BY <1>1, <2>2 DEF Lists
    <3>2. CASE k < p
      BY <1>1, <1>2, <3>1, <3>2
    <3>3. CASE k >= p
      <4>1. k + 1 \in 1 .. n + 1 /\ k + 1 > p /\ (k + 1) - 1 = k
        BY <1>1, <3>3
      <4> QED
        BY <1>3, <3>1, <4>1
    <3> QED
      BY <1>1, <3>2, <3>3
  <2> QED
    BY <2>1, <2>2
<1> QED
  BY <1>5, <1>6, <1>7, <1>8 DEF Lists, n, r

\* t is at position p; those from p on have moved up by one place, and the others
\* are where they were.
LEMMA InsertPositions ==
  ASSUME NEW T, NEW seq \in Seq(T), NEW t, NEW p \in 1 .. Len(seq) + 1
  PROVE  /\ Insert(seq, p, t)[p] = t
         /\ \A i \in 1 .. Len(seq) :
              Insert(seq, p, t)[IF i < p THEN i ELSE i + 1] = seq[i]
<1> DEFINE n == Len(seq)
           r == Insert(seq, p, t)
<1>1. n \in Nat /\ DOMAIN seq = 1 .. n /\ seq \in [1 .. n -> T]
  BY LenProperties
<1>2. r = [j \in 1 .. n + 1 |->
             IF j < p THEN seq[j] ELSE IF j = p THEN t ELSE seq[j - 1]]
  BY DEF Insert
<1> HIDE DEF n, r
<1>3. \A j \in 1 .. n + 1 : /\ j < p => j \in 1 .. n /\ r[j] = seq[j]
                            /\ j = p => r[j] = t
                            /\ j > p => j - 1 \in 1 .. n /\ r[j] = seq[j - 1]
  BY <1>1, <1>2 DEF n
<1>4. r[p] = t
  BY <1>3 DEF n
<1>5. \A i \in 1 .. n : r[IF i < p THEN i ELSE i + 1] = seq[i]
  <2> TAKE i \in 1 .. n
  <2>1. CASE i < p
    BY <1>1, <1>3, <2>1
  <2>2. CASE i >= p
    <3>1. i + 1 \in 1 .. n + 1 /\ i + 1 > p /\ (i + 1) - 1 = i /\ ~ (i < p)
      BY <1>1, <2>2 DEF n
    <3> QED
      BY <1>3, <3>1
  <2> QED
    BY <1>1, <2>1, <2>2 DEF n
<1> QED
  BY <1>4, <1>5 DEF n, r

\* Any two members of X are in the order they had.
LEMMA InsertKeepsOrder ==
  ASSUME NEW T, NEW seq \in Seq(T), NEW X, Lists(seq, X),
         NEW t \in T, t \notin X, NEW p \in 1 .. Len(seq) + 1
  PROVE  \A u, v \in X : Ahead(Insert(seq, p, t), u, v) <=> Ahead(seq, u, v)
<1> DEFINE n == Len(seq)
           r == Insert(seq, p, t)
<1>1. n \in Nat /\ DOMAIN seq = 1 .. n /\ seq \in [1 .. n -> T]
  BY LenProperties
<1>2. r = [j \in 1 .. n + 1 |->
             IF j < p THEN seq[j] ELSE IF j = p THEN t ELSE seq[j - 1]]
  BY DEF Insert
<1> HIDE DEF n, r
<1>3. \A j \in 1 .. n + 1 : /\ j < p => j \in 1 .. n /\ r[j] = seq[j]
                            /\ j = p => r[j] = t
                            /\ j > p => j - 1 \in 1 .. n /\ r[j] = seq[j - 1]
  BY <1>1, <1>2 DEF n
<1>4. DOMAIN r = 1 .. n + 1 /\ r[p] = t
  BY <1>2, <1>3 DEF n
<1>5. \A i \in 1 .. n : r[IF i < p THEN i ELSE i + 1] = seq[i]
  BY InsertPositions DEF n, r
<1>6. ASSUME NEW u \in X, NEW v \in X, Ahead(seq, u, v)
       PROVE  Ahead(r, u, v)
  <2>1. PICK i \in 1 .. n, j \in 1 .. n : i < j /\ seq[i] = u /\ seq[j] = v
    BY <1>1, <1>6 DEF Ahead
  <2> DEFINE i1 == IF i < p THEN i ELSE i + 1
             j1 == IF j < p THEN j ELSE j + 1
  <2>2. r[i1] = u /\ r[j1] = v
    BY <1>5, <2>1
  <2>3. i1 \in 1 .. n + 1 /\ j1 \in 1 .. n + 1 /\ i1 < j1
    BY <1>1, <2>1 DEF n
  <2> HIDE DEF i1, j1
  <2> QED
    BY <1>4, <2>2, <2>3 DEF Ahead
<1>7. ASSUME NEW u \in X, NEW v \in X, Ahead(r, u, v)
       PROVE  Ahead(seq, u, v)
  <2>1. PICK i \in 1 .. n + 1, j \in 1 .. n + 1 : i < j /\ r[i] = u /\ r[j] = v
    BY <1>4, <1>7 DEF Ahead
  <2>2. i # p /\ j # p
    BY <1>4, <2>1
  <2> DEFINE i0 == IF i < p THEN i ELSE i - 1
             j0 == IF j < p THEN j ELSE j - 1
  <2>3. seq[i0] = u /\ seq[j0] = v
    <3>1. (i < p \/ i > p) /\ (j < p \/ j > p)
      BY <1>1, <2>1, <2>2 DEF n
    <3> QED
      BY <1>1, <1>3, <2>1, <3>1 DEF n
  <2>4. i0 \in 1 .. n /\ j0 \in 1 .. n /\ i0 < j0
    BY <1>1, <2>1, <2>2 DEF n
  <2> HIDE DEF i0, j0
  <2> QED
    BY <1>1, <2>3, <2>4 DEF Ahead
<1> QED
  BY <1>6, <1>7 DEF r

\* The three together: an insertion adds t at position p and disturbs nothing.
THEOREM InsertProperties ==
  ASSUME NEW T, NEW seq \in Seq(T), NEW X, Lists(seq, X),
         NEW t \in T, t \notin X, NEW p \in 1 .. Len(seq) + 1
  PROVE  /\ Insert(seq, p, t) \in Seq(T)
         /\ DOMAIN Insert(seq, p, t) = 1 .. Len(seq) + 1
         /\ Lists(Insert(seq, p, t), X \cup {t})
         /\ Insert(seq, p, t)[p] = t
         /\ \A i \in 1 .. Len(seq) :
              Insert(seq, p, t)[IF i < p THEN i ELSE i + 1] = seq[i]
         /\ \A u, v \in X : Ahead(Insert(seq, p, t), u, v) <=> Ahead(seq, u, v)
BY InsertLists, InsertPositions, InsertKeepsOrder

\* Appending a new member keeps the list of the set.
LEMMA AppendLists ==
  ASSUME NEW T, NEW seq \in Seq(T), NEW X, Lists(seq, X), NEW t \in T, t \notin X
  PROVE  /\ Append(seq, t) \in Seq(T)
         /\ Lists(Append(seq, t), X \cup {t})
<1> DEFINE n == Len(seq)
           r == Append(seq, t)
<1>1. n \in Nat /\ DOMAIN seq = 1 .. n
  BY LenProperties
<1>2. /\ r \in Seq(T) /\ DOMAIN r = 1 .. n + 1
      /\ \A i \in 1 .. n : r[i] = seq[i]
      /\ r[n + 1] = t
  BY AppendProperties, LenProperties
<1> HIDE DEF n, r
<1>3. \A i, j \in 1 .. n + 1 : r[i] = r[j] => i = j
  BY <1>1, <1>2 DEF Lists
<1>4. \A i \in 1 .. n + 1 : r[i] \in X \cup {t}
  BY <1>1, <1>2 DEF Lists
<1>5. \A u \in X \cup {t} : \E i \in 1 .. n + 1 : r[i] = u
  BY <1>1, <1>2 DEF Lists
<1> QED
  BY <1>2, <1>3, <1>4, <1>5 DEF Lists, r

\* A permutation of a list lists the same set.
LEMMA PermutationLists ==
  ASSUME NEW T, NEW seq \in Seq(T), NEW X, Lists(seq, X),
         NEW p \in Bijection(DOMAIN seq, DOMAIN seq)
  PROVE  LET r == [i \in DOMAIN seq |-> seq[p[i]]]
         IN  r \in Seq(T) /\ Lists(r, X)
<1> DEFINE n == Len(seq)
           r == [i \in DOMAIN seq |-> seq[p[i]]]
<1>1. n \in Nat /\ DOMAIN seq = 1 .. n /\ seq \in [1 .. n -> T]
  BY LenProperties
<1>2. /\ p \in [1 .. n -> 1 .. n]
      /\ \A i, j \in 1 .. n : p[i] = p[j] => i = j
      /\ \A k \in 1 .. n : \E i \in 1 .. n : p[i] = k
  BY <1>1 DEF Bijection, Injection, IsInjective, Surjection
<1> HIDE DEF n
<1>3. r \in [1 .. n -> T]
  BY <1>1, <1>2
<1>4. r \in Seq(T)
  BY <1>1, <1>3, SeqDef
<1>5. DOMAIN r = 1 .. n /\ \A i \in 1 .. n : r[i] = seq[p[i]]
  BY <1>1
<1> HIDE DEF r
<1>6. \A i, j \in 1 .. n : r[i] = r[j] => i = j
  BY <1>1, <1>2, <1>5 DEF Lists
<1>7. \A i \in 1 .. n : r[i] \in X
  BY <1>1, <1>2, <1>5 DEF Lists
<1>8. \A t \in X : \E i \in 1 .. n : r[i] = t
  <2> TAKE t \in X
  <2>1. PICK k \in 1 .. n : seq[k] = t
    BY <1>1 DEF Lists
  <2>2. PICK i \in 1 .. n : p[i] = k
    BY <1>2
  <2> QED
    BY <1>5, <2>1, <2>2
<1>9. Lists(r, X)
  BY <1>5, <1>6, <1>7, <1>8 DEF Lists
<1> QED
  BY <1>4, <1>9 DEF r

----------------------------------------------------------------------------
LEMMA DisjointCardinality ==
  ASSUME NEW U, NEW V, IsFiniteSet(U), IsFiniteSet(V), U \cap V = {}
  PROVE  Cardinality(U \cup V) = Cardinality(U) + Cardinality(V)
<1>1. Cardinality(U \cap V) = 0
  BY FS_EmptySet
<1>2. Cardinality(U) \in Nat /\ Cardinality(V) \in Nat
  BY FS_CardinalityType
<1>3. Cardinality(U \cup V) = Cardinality(U) + Cardinality(V) - Cardinality(U \cap V)
  BY FS_Union
<1> QED
  BY <1>1, <1>2, <1>3

\* The set that Weight counts is finite.
LEMMA WeightType ==
  ASSUME NEW S, IsFiniteSet(S), NEW size, NEW max \in Nat
  PROVE  /\ IsFiniteSet({b \in S \X (1 .. max) : b[2] =< size[b[1]]})
         /\ Weight(S, size, max) \in Nat
<1>1. IsFiniteSet(1 .. max)
  BY FS_Interval
<1>2. IsFiniteSet(S \X (1 .. max))
  BY <1>1, FS_Product
<1>3. IsFiniteSet({b \in S \X (1 .. max) : b[2] =< size[b[1]]})
  BY <1>2, FS_Subset
<1> QED
  BY <1>3, FS_CardinalityType DEF Weight

LEMMA WeightEmpty ==
  ASSUME NEW size, NEW max \in Nat
  PROVE  Weight({}, size, max) = 0
<1>1. {b \in {} \X (1 .. max) : b[2] =< size[b[1]]} = {}
  OBVIOUS
<1> QED
  BY <1>1, FS_EmptySet DEF Weight

\* A subset and the rest of a set share out its weight.
LEMMA WeightSplit ==
  ASSUME NEW S, IsFiniteSet(S), NEW size, NEW max \in Nat, NEW E \in SUBSET S
  PROVE  Weight(S, size, max) = Weight(E, size, max) + Weight(S \ E, size, max)
<1> DEFINE B(X) == {b \in X \X (1 .. max) : b[2] =< size[b[1]]}
<1>1. IsFiniteSet(B(E)) /\ IsFiniteSet(B(S \ E))
  <2>1. IsFiniteSet(E) /\ IsFiniteSet(S \ E)
    BY FS_Subset
  <2> QED
    BY <2>1, WeightType
<1>2. B(S) = B(E) \cup B(S \ E) /\ B(E) \cap B(S \ E) = {}
  OBVIOUS
<1>3. Cardinality(B(S)) = Cardinality(B(E)) + Cardinality(B(S \ E))
  <2> HIDE DEF B
  <2> QED
    BY <1>1, <1>2, DisjointCardinality
<1> QED
  BY <1>3 DEF Weight

\* One member within the limit counts for its own size.
LEMMA WeightOne ==
  ASSUME NEW t, NEW size, NEW max \in Nat, size[t] \in Nat, size[t] =< max
  PROVE  Weight({t}, size, max) = size[t]
<1> DEFINE B == {b \in {t} \X (1 .. max) : b[2] =< size[b[1]]}
           f == [k \in 1 .. size[t] |-> <<t, k>>]
<1>1. f \in Bijection(1 .. size[t], B)
  <2>1. \A k \in 1 .. size[t] : <<t, k>> \in B
    OBVIOUS
  <2>2. f \in [1 .. size[t] -> B]
    BY <2>1
  <2>3. \A j, k \in 1 .. size[t] : f[j] = f[k] => j = k
    OBVIOUS
  <2>4. \A b \in B : b[2] \in 1 .. size[t] /\ f[b[2]] = b
    OBVIOUS
  <2> QED
    BY <2>2, <2>3, <2>4 DEF Bijection, Injection, IsInjective, Surjection
<1>2. ExistsBijection(1 .. size[t], B)
  BY <1>1 DEF ExistsBijection
<1>3. Cardinality(B) = size[t]
  BY <1>2, FS_CountingElements
<1> QED
  BY <1>3 DEF Weight
=============================================================================
