------------------------------ MODULE MerkleTree ------------------------------
(***************************************************************************)
(* The Merkle tree of MerkleWarrantChain: computeMerkleRoot,               *)
(* _buildMerkleProofPath and verifyMerkleProof.  A hash is the term it is  *)
(* the hash of, so that equal hashes come from equal data only.            *)
(***************************************************************************)
EXTENDS Naturals, Sequences

HashPair(left, right) == <<"pair", left, right>>

\* The number of levels above the leaves, and the leaves padded with the last of them.
Height(n) == CHOOSE k \in 0 .. n : 2^k >= n /\ \A j \in 0 .. n : 2^j >= n => k <= j

Padded(leaves) ==
    [i \in 1 .. 2^Height(Len(leaves)) |-> leaves[IF i <= Len(leaves) THEN i ELSE Len(leaves)]]

\* One turn of the loop of computeMerkleRoot, and of the one of _buildMerkleProofPath.
LevelAbove(level) == [i \in 1 .. Len(level) \div 2 |-> HashPair(level[2 * i - 1], level[2 * i])]

Levels(leaves) ==
    LET level[k \in 0 .. Height(Len(leaves))] ==
            IF k = 0 THEN Padded(leaves) ELSE LevelAbove(level[k - 1])
    IN  level

ComputeMerkleRoot(leaves) == Levels(leaves)[Height(Len(leaves))][1]

\* Mutant: the sibling is taken on the right at every level.
RightSibling(index) == index + 1

Sibling(index) == IF index % 2 = 0 THEN index + 1 ELSE index - 1

\* The target is the place of a leaf, from 0, halved at every level.  Its sibling is in the
\* level, which the code tests before it adds it to the path; the remainder is for a place
\* that is not.
BuildMerkleProofPath(leaves, target) ==
    [k \in 1 .. Height(Len(leaves)) |->
        LET level == Levels(leaves)[k - 1]
            index == target \div 2^(k - 1)
        IN  [hash |-> level[(Sibling(index) % Len(level)) + 1],
             position |-> IF index % 2 = 0 THEN "right" ELSE "left"]]

\* The hashes of verifyMerkleProof on its way up the path.
Climb(content, path) ==
    LET hash[k \in 0 .. Len(path)] ==
            IF k = 0 THEN content
            ELSE IF path[k].position = "left" THEN HashPair(path[k].hash, hash[k - 1])
            ELSE HashPair(hash[k - 1], path[k].hash)
    IN  hash

VerifyMerkleProof(content, path, root) == Climb(content, path)[Len(path)] = root
=============================================================================
