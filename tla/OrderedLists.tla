---------------------------- MODULE OrderedLists ----------------------------
(***************************************************************************)
(* Lists without repetition that index a set, as the Go code keeps slices  *)
(* of pointers beside a map: removal by first match, order, agreement with *)
(* the set; and the sum of the sizes of a set.  No definition here is      *)
(* recursive, so that theorems can use it.                                 *)
(***************************************************************************)
EXTENDS Integers, Sequences, FiniteSets

\* The strictly increasing list of the members of a finite set of positions.
IsAscending(pos, K) ==
  /\ \A i, j \in DOMAIN pos : i < j => pos[i] < pos[j]
  /\ \A k \in K : \E i \in DOMAIN pos : pos[i] = k

Ascending(K) == CHOOSE pos \in [1 .. Cardinality(K) -> K] : IsAscending(pos, K)

\* The positions of seq that are not the first occurrence of a member of S.
Kept(seq, S) ==
  {i \in DOMAIN seq : seq[i] \notin S \/ \E k \in 1 .. i - 1 : seq[k] = seq[i]}

\* seq after removing, for each member of S, its first occurrence.
Without(seq, S) ==
  LET pos == Ascending(Kept(seq, S))
  IN  [j \in 1 .. Cardinality(Kept(seq, S)) |-> seq[pos[j]]]

\* seq with e at position i, what was there and after it moved up by one.
Insert(seq, i, e) ==
  [j \in 1 .. Len(seq) + 1 |->
     IF j < i THEN seq[j] ELSE IF j = i THEN e ELSE seq[j - 1]]

\* seq lists every member of S once and nothing else.
Lists(seq, S) ==
  /\ \A i, j \in DOMAIN seq : seq[i] = seq[j] => i = j
  /\ \A i \in DOMAIN seq : seq[i] \in S
  /\ \A t \in S : \E i \in DOMAIN seq : seq[i] = t

\* What the members of S, each of a size within max, sum up to.
Weight(S, size, max) == Cardinality({b \in S \X (1 .. max) : b[2] =< size[b[1]]})

\* t is ahead of u in seq.
Ahead(seq, t, u) == \E i, j \in DOMAIN seq : i < j /\ seq[i] = t /\ seq[j] = u
=============================================================================
