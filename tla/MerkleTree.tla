----------------------------- MODULE MerkleTree -----------------------------
(***************************************************************************)
(* The Merkle root, computed once by the publisher                         *)
(* (build-merkle-manifest.py, build_merkle_root) and once by the agent     *)
(* (agent/strategies.py, _build_merkle_root).  SHA-256 is taken to be      *)
(* injective: the hash of a block is a 1-tuple, the hash of two hashes a   *)
(* pair.  Recursive functions instead of RECURSIVE operators, so that      *)
(* modules with proofs may use the module.                                 *)
(***************************************************************************)
EXTENDS Integers, Sequences

BlockHash(block) == <<block>>
NodeHash(left, right) == <<left, right>>

\* The last node is dropped instead.
NextLevelMutant(level) ==
  [i \in 1 .. Len(level) \div 2 |-> NodeHash(level[2 * i - 1], level[2 * i])]

\* One round of the loop: the last of an odd number of nodes is duplicated.
NextLevel(level) ==
  LET even == IF Len(level) % 2 = 1 THEN Append(level, level[Len(level)])
              ELSE level
  IN  [i \in 1 .. Len(even) \div 2 |-> NodeHash(even[2 * i - 1], even[2 * i])]

\* The loop's condition and its body.
Round(level) == IF Len(level) > 1 THEN NextLevel(level) ELSE level

\* The last node is carried to the next level unpaired.
CarryRound(level) ==
  LET pairs == [i \in 1 .. Len(level) \div 2 |->
                  NodeHash(level[2 * i - 1], level[2 * i])]
  IN  IF Len(level) > 1 /\ Len(level) % 2 = 1
        THEN Append(pairs, level[Len(level)])
      ELSE IF Len(level) > 1 THEN pairs ELSE level

AgentRootMutant(leaves) ==
  LET level[k \in 0 .. Len(leaves)] ==
        IF k = 0 THEN leaves ELSE CarryRound(level[k - 1])
  IN  level[Len(leaves)][1]

\* _build_merkle_root, for a non-empty list of leaves.
AgentRoot(leaves) ==
  LET level[k \in 0 .. Len(leaves)] ==
        IF k = 0 THEN leaves ELSE Round(level[k - 1])
  IN  level[Len(leaves)][1]

\* build_merkle_root: the publisher's copy of the same loop.
BuilderRoot(leaves) ==
  LET level[k \in 0 .. Len(leaves)] ==
        IF k = 0 THEN leaves ELSE Round(level[k - 1])
  IN  level[Len(leaves)][1]

(***************************************************************************)
(* What both are to compute.  Node k of level h stands for the leaves from *)
(* k * span[h] on, where there are any; a right child that is missing is   *)
(* replaced by the left one; the root is node 0 of the least level that    *)
(* has no other.                                                           *)
(***************************************************************************)
ReferenceRoot(leaves) ==
  LET n == Len(leaves)
      span[h \in 0 .. n] == IF h = 0 THEN 1 ELSE 2 * span[h - 1]
      Nodes(h) == {k \in 0 .. n - 1 : k * span[h] < n}
      node[h \in 0 .. n] ==
        [k \in Nodes(h) |->
           IF h = 0 THEN leaves[k + 1]
           ELSE NodeHash(node[h - 1][2 * k],
                         node[h - 1][IF 2 * k + 1 \in Nodes(h - 1)
                                       THEN 2 * k + 1 ELSE 2 * k])]
      height == CHOOSE h \in 0 .. n :
                  span[h] >= n /\ \A g \in 0 .. h - 1 : span[g] < n
  IN  node[height][0]
=============================================================================
