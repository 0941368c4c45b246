------------------------------ MODULE MerkleTree ------------------------------
(***************************************************************************)
(* The Merkle tree over the leaves of the anchoring log                    *)
(* (src/app/services/anchoring/merkle.py), as an algorithm on values.      *)
(* keccak256 is a constructor: equal hashes have equal arguments, and the  *)
(* prefixes keep leaves and inner nodes apart.  Indexes start at 0.        *)
(***************************************************************************)
EXTENDS Integers, Sequences, SequencesExt

LeafHash(payload)     == <<"leaf", payload>>
NodeHash(left, right) == <<"node", left, right>>

BitLength(n) == CHOOSE b \in 0..n : n < 2 ^ b /\ (b > 0 => 2 ^ (b - 1) <= n)

\* The largest power of two smaller than size, for two leaves and more.
SplitPoint(size) == 2 ^ (BitLength(size - 1) - 1)

\* The root of the leaves from start up to end.
SubtreeRoot(leaves) ==
    LET root[start \in Nat, end \in Nat] ==
            LET mid == start + SplitPoint(end - start)
            IN  IF end - start = 1 THEN leaves[start + 1]
                ELSE NodeHash(root[start, mid], root[mid, end])
    IN  root

Root(leaves) == SubtreeRoot(leaves)[0, Len(leaves)]

\* The way from the root to a leaf, read from the leaf upwards: at each inner
\* node the side of the sibling and the leaves under it.
Path(index, size) ==
    LET up[start \in Nat, end \in Nat] ==
            LET mid == start + SplitPoint(end - start)
            IN  IF end - start = 1 THEN <<>>
                ELSE IF index < mid
                THEN Append(up[start, mid], [side |-> "right", under |-> <<mid, end>>])
                ELSE Append(up[mid, end], [side |-> "left", under |-> <<start, mid>>])
    IN  up[0, size]

Proof(leaves, index) ==
    LET path == Path(index, Len(leaves))
    IN  [i \in 1..Len(path) |-> [side    |-> path[i].side,
                                 sibling |-> SubtreeRoot(leaves)[path[i].under]]]

ProofSides(index, size) ==
    LET path == Path(index, size) IN [i \in 1..Len(path) |-> path[i].side]

RootFromProof(leaf, proof) ==
    FoldLeft(LAMBDA running, step : IF step.side = "left" THEN NodeHash(step.sibling, running)
                                    ELSE NodeHash(running, step.sibling),
             leaf, proof)

VerifyAnywhere(leaf, proof, root, index, size) ==
    index \in 0..(size - 1) /\ RootFromProof(leaf, proof) = root

VerifyInclusion(leaf, proof, root, index, size) ==
    /\ index \in 0..(size - 1)
    /\ [i \in 1..Len(proof) |-> proof[i].side] = ProofSides(index, size)
    /\ RootFromProof(leaf, proof) = root

-----------------------------------------------------------------------------
(* In a tree of distinct leaves, a leaf's proof takes it to the root at its   *)
(* own position and at no other one, so it cannot be replayed                *)
(* (merkle.py: MerkleTree.proof, verify_inclusion).                          *)
Provable(leaves) ==
    LET root  == Root(leaves)
        index == 0..(Len(leaves) - 1)
    IN  \A j \in index :
            LET proof == Proof(leaves, j)
            IN  \A k \in index :
                    VerifyInclusion(leaves[j + 1], proof, root, k, Len(leaves)) <=> j = k
=============================================================================
