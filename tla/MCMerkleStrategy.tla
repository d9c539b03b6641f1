-------------------------- MODULE MCMerkleStrategy --------------------------
(***************************************************************************)
(* Instances of MerkleStrategy for TLC: blocks of two words, images of one *)
(* to six blocks that share blocks.                                        *)
(***************************************************************************)
EXTENDS MerkleStrategy

MCWords == 0 .. 1

\* The place of the first block and one behind the third, and sizes that are
\* too small and too large.
MCNumbers == {0, 3}

\* Multiples of the block size, with an odd number of nodes at the lowest
\* level of the tree (3), at the one above (6) or at both (5).  Five and six
\* blocks do not fit the device.
AlignedImages == {<<1, 0>>, <<1, 0, 1, 1>>, <<0, 1, 1, 1>>,
                  <<1, 0, 1, 1, 0, 1>>,
                  <<1, 0, 1, 1, 0, 1, 1, 0, 0, 0>>,
                  <<1, 0, 1, 1, 0, 1, 1, 0, 0, 0, 0, 1>>}

\* The last block of one of them is short.
UnalignedImages == {<<1, 0>>, <<1, 0, 1>>}

=============================================================================
