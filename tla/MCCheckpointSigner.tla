------------------------- MODULE MCCheckpointSigner -------------------------
(* Instances of CheckpointSigner for TLC.                                  *)
EXTENDS CheckpointSigner

CONSTANTS s1, s2

(* Some leaves; the tree of every size up to 9 is the one RFC 6962 defines. *)
SomeLeaves(n) == [i \in 1 .. n |-> leafHash([seq |-> i])]

ASSUME TreeIsRFC6962 ==
  \A n \in 0 .. 9 : merkleRoot(SomeLeaves(n)) = TreeHash(SomeLeaves(n))

ASSUME ProofsOfLargerTrees ==
  \A n \in 1 .. 9 : \A i, j \in 1 .. n :
    verifyInclusion(SomeLeaves(n)[j], inclusionProof(SomeLeaves(n), i),
                    merkleRoot(SomeLeaves(n))) <=> i = j
=============================================================================
