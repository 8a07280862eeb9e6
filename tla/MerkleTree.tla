----------------------------- MODULE MerkleTree -----------------------------
(***************************************************************************)
(* The Merkle tree over audit events and its inclusion proofs:             *)
(* apps/checkpoint/src/merkle.ts.                                          *)
(*                                                                         *)
(* A hash is its preimage: a leaf, an interior node, or the empty tree,    *)
(* told apart by the prefix the code hashes in front.  The code counts     *)
(* leaves from 0, this module from 1.                                      *)
(***************************************************************************)
EXTENDS Naturals, Sequences

leafHash(entry) == <<"leaf", entry>>
nodeHash(left, right) == <<"node", left, right>>
EmptyRoot == <<"empty">>

(* One level up: pairs are hashed, an odd last node is promoted unchanged. *)
Above(level) ==
  [i \in 1 .. (Len(level) + 1) \div 2 |->
     IF 2 * i <= Len(level) THEN nodeHash(level[2 * i - 1], level[2 * i])
                            ELSE level[2 * i - 1]]

(* The levels of the tree; as many as there are leaves is always enough.   *)
Levels(leaves) ==
  LET at[k \in 0 .. Len(leaves)] == IF k = 0 THEN leaves ELSE Above(at[k - 1])
  IN at

merkleRoot(leaves) ==
  IF leaves = << >> THEN EmptyRoot ELSE Levels(leaves)[Len(leaves)][1]

Sibling(i) == IF i % 2 = 0 THEN i - 1 ELSE i + 1

(* What a level adds to the proof: the sibling, and the side it sits on.   *)
Step(level, i) ==
  IF Sibling(i) \notin DOMAIN level THEN << >>
  ELSE <<[side |-> IF i % 2 = 0 THEN "left" ELSE "right", hash |-> level[Sibling(i)]]>>

Parent(i) == (i + 1) \div 2

(* From leaf to root: the level, where the leaf's ancestor is in it, and   *)
(* the path so far.                                                        *)
Rise(w) == [level |-> Above(w.level), at |-> Parent(w.at),
            path |-> w.path \o Step(w.level, w.at)]

Walk(leaves, i) ==
  LET walk[k \in 0 .. Len(leaves)] ==
        IF k = 0 THEN [level |-> leaves, at |-> i, path |-> << >>] ELSE Rise(walk[k - 1])
  IN walk

inclusionProof(leaves, i) == Walk(leaves, i)[Len(leaves)].path

(* One step of a proof, and all of them.                                   *)
Join(step, acc) ==
  IF step.side = "left" THEN nodeHash(step.hash, acc) ELSE nodeHash(acc, step.hash)

Climb(leaf, path) ==
  LET acc[k \in 0 .. Len(path)] == IF k = 0 THEN leaf ELSE Join(path[k], acc[k - 1])
  IN acc

verifyInclusion(leaf, proof, root) == Climb(leaf, proof)[Len(proof)] = root

-----------------------------------------------------------------------------
(* RFC 6962, which the source names: split at the largest power of two     *)
(* below the size.                                                         *)

SplitAt(n) == CHOOSE p \in 1 .. n - 1 :
  /\ \E e \in 0 .. n : p = 2 ^ e
  /\ 2 * p >= n

TreeHash(leaves) ==
  LET mth[lo \in 1 .. Len(leaves), n \in 1 .. Len(leaves)] ==
        IF n = 1 THEN leaves[lo]
        ELSE nodeHash(mth[lo, SplitAt(n)], mth[lo + SplitAt(n), n - SplitAt(n)])
  IN IF leaves = << >> THEN EmptyRoot ELSE mth[1, Len(leaves)]
=============================================================================
