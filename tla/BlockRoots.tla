----------------------------- MODULE BlockRoots -----------------------------
(***************************************************************************)
(* The Merkle roots of a block (engine/state/receipt.go): the results of a *)
(* block arrive in some order, are sorted by hash, and are hashed in pairs *)
(* level by level.                                                         *)
(*                                                                         *)
(* A hash of two nodes is the pair of them, which tells any two inputs     *)
(* apart; a leaf is <<n>>, in the order of its bytes.                      *)
(***************************************************************************)
EXTENDS OrderedLists

CONSTANT MaxResults      \* bound: results of a block

BlockRootsAssumption == MaxResults \in Nat

Hashes == {<<n>> : n \in 1 .. MaxResults}

VARIABLE results         \* the hashes of the results of a block, as they come

vars == <<results>>

Init == results = <<>>

\* executeSequential and executeParallel list the results in the order of the
\* transactions, which is by priority: any order of the hashes.
AddResult(h) ==
  /\ \A i \in DOMAIN results : results[i] # h
  /\ results' = Append(results, h)

Next == \E h \in Hashes : AddResult(h)

Spec == Init /\ [][Next]_vars

----------------------------------------------------------------------------
SortTxResults(list) ==
  LET order == Ascending({list[i][1] : i \in DOMAIN list})
  IN  [i \in DOMAIN list |-> <<order[i]>>]

HashPair(left, right) == <<left, right>>

\* The parents of a level: a last node without a partner is promoted.
Parents(nodes) ==
  [i \in 1 .. (Len(nodes) + 1) \div 2 |->
     IF 2 * i =< Len(nodes) THEN HashPair(nodes[2 * i - 1], nodes[2 * i])
     ELSE nodes[2 * i - 1]]

\* The levels of the tree over a list, from the leaves up.  A level of one node is
\* its own parent, so that the level Len(list) is the root, wherever the loop ends.
Levels(list) ==
  LET level[d \in Nat] == IF d = 0 THEN list ELSE Parents(level[d - 1])
  IN  level

MerkleRoot(list) == IF list = <<>> THEN <<0>> ELSE Levels(list)[Len(list)][1]

ComputeTxsRoot(list) == MerkleRoot(SortTxResults(list))

\* The partner of the node at position k, counted from 0, and whether there is none.
Partner(k) == IF k % 2 = 0 THEN k + 1 ELSE k - 1
Alone(k, nodes) == Partner(k) >= Len(nodes)

\* One level of generateMerkleProof: a level that promotes the path adds nothing.
Collect(at, nodes) ==
  [index |-> at.index \div 2,
   proof |-> IF Alone(at.index, nodes) THEN at.proof
             ELSE Append(at.proof, nodes[Partner(at.index) + 1])]

\* The path of leaf i, counted from 0, from level to level, and the partners along it.
Path(list, i) ==
  LET path[d \in Nat] ==
        IF d = 0 THEN [index |-> i, proof |-> <<>>]
        ELSE Collect(path[d - 1], Levels(list)[d - 1])
  IN  path

GenerateMerkleProof(list, i) == Path(list, i)[Len(list)].proof

\* Mutant: the index is not halved.
CombineFlat(at, partner) ==
  [hash  |-> IF at.index % 2 = 0 THEN HashPair(at.hash, partner)
             ELSE HashPair(partner, at.hash),
   index |-> at.index]

\* One turn of verifyMerkleProof: the index is halved once for every partner, not for
\* every level.
Combine(at, partner) ==
  [hash  |-> IF at.index % 2 = 0 THEN HashPair(at.hash, partner)
             ELSE HashPair(partner, at.hash),
   index |-> at.index \div 2]

Climb(leaf, proof, i) ==
  LET at[k \in Nat] ==
        IF k = 0 THEN [hash |-> leaf, index |-> i] ELSE Combine(at[k - 1], proof[k])
  IN  at

VerifyMerkleProof(leaf, proof, i) == Climb(leaf, proof, i)[Len(proof)].hash

\* The first match is the leaf.
VerifyTxInclusion(h, root, list) ==
  \E i \in DOMAIN list :
    /\ list[i] = h /\ \A j \in 1 .. i - 1 : list[j] # h
    /\ VerifyMerkleProof(h, GenerateMerkleProof(list, i - 1), i - 1) = root

----------------------------------------------------------------------------
\* A block lists each result once.
TypeOK ==
  /\ results \in Seq(Hashes)
  /\ \A i, j \in DOMAIN results : results[i] = results[j] => i = j

\* Leaf i is promoted at a level of several nodes.
Promoted(list, i) ==
  \E d \in 0 .. Len(list) :
    Len(Levels(list)[d]) > 1 /\ Alone(Path(list, i)[d].index, Levels(list)[d])

\* VerifyTxInclusion accepts nothing but results of the block, whatever the order
\* they came in, and of those each whose path has a partner at every level; and no
\* result can be left out of a block without changing its root.
PairedAreAccepted ==
  LET list == SortTxResults(results)
      root == ComputeTxsRoot(results)
  IN  /\ \A h \in Hashes : VerifyTxInclusion(h, root, list) => \E i \in DOMAIN list : list[i] = h
      /\ \A i \in DOMAIN list : ~Promoted(list, i - 1) => VerifyTxInclusion(list[i], root, list)
      /\ \A i \in DOMAIN list : MerkleRoot(Without(list, {list[i]})) # root

----------------------------------------------------------------------------
\* What a comment says and the code does not keep.

\* "VerifyTxInclusion verifies that a transaction is included in a block"
\* (receipt.go:393): it accepts every result of the block.
IncludedAreAccepted ==
  \A i \in DOMAIN results :
    VerifyTxInclusion(results[i], ComputeTxsRoot(results), SortTxResults(results))
=============================================================================
