----------------------------- MODULE MerkleTree -----------------------------
(***************************************************************************)
(* The Merkle tree over the hashes of a file's chunks, the audit path a    *)
(* provider answers a challenge with, and the check of that path.  A hash  *)
(* is an uninterpreted value; that of a pair is the pair itself, so that   *)
(* two different inputs never collide.                                     *)
(***************************************************************************)
EXTENDS Integers, Sequences, SequencesExt

HashPair(left, right) == <<left, right>>

\* A level of odd length ends with its last node twice.
Padded(level) == IF Len(level) % 2 = 0 THEN level ELSE Append(level, Last(level))

Parents(level) ==
    LET padded == Padded(level)
    IN  [i \in 1 .. Len(padded) \div 2 |-> HashPair(padded[2 * i - 1], padded[2 * i])]

\* How many times n nodes have to be paired until one is left.
Height(n) == CHOOSE h \in 0 .. n : 2 ^ h >= n /\ \A k \in 0 .. h - 1 : 2 ^ k < n

\* The levels of the tree, the leaves being level 0.
NewMerkleTree(leaves) ==
    LET level[k \in 0 .. Height(Len(leaves))] ==
            IF k = 0 THEN leaves ELSE Parents(level[k - 1])
    IN  level

Root(leaves) == NewMerkleTree(leaves)[Height(Len(leaves))][1]


\* The siblings on the way from a leaf to the root; indexes count from 0.
GenerateProof(leaves, index) ==
    LET tree == NewMerkleTree(leaves)
        Node(k) == index \div 2 ^ k
        Sibling(k) == IF Node(k) % 2 = 0 THEN Node(k) + 1 ELSE Node(k) - 1
    IN  [i \in 1 .. Height(Len(leaves)) |-> Padded(tree[i - 1])[Sibling(i - 1) + 1]]

\* The node reached from a leaf along a path, with its index on each level.
Climb(leaf, index, proof) ==
    FoldLeft(LAMBDA at, sibling :
                 [node |-> IF at.idx % 2 = 0 THEN HashPair(at.node, sibling)
                                             ELSE HashPair(sibling, at.node),
                  idx |-> at.idx \div 2],
             [node |-> leaf, idx |-> index], proof)

VerifyMerkleProof(leafHash, leafIndex, proof, expectedRoot) ==
    leafIndex >= 0 /\ Climb(leafHash, leafIndex, proof).node = expectedRoot
=============================================================================
