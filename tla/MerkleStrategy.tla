--------------------------- MODULE MerkleStrategy ---------------------------
(***************************************************************************)
(* agent/strategies.py, MerkleStrategy.execute, with the manifest that     *)
(* build-merkle-manifest.py computes and the HTTP server between them.     *)
(* The image and the manifest are two files in one directory of the        *)
(* server, and the agent fetches the manifest once and the image block by  *)
(* block, so the publisher may replace either between two requests.        *)
(*                                                                         *)
(* An image is a sequence of words (small integers) and a block BlockSize  *)
(* of them; the device is an array of words.                               *)
(***************************************************************************)
EXTENDS MerkleTree

CONSTANTS
  BlockSize,   \* words in a block
  Images,      \* the images the publisher may upload
  Words,       \* the values of a word
  DeviceSize,  \* words of the inactive partition
  Numbers      \* what a damaged manifest may say for an index or a block size

ASSUME ImageAssumption ==
  /\ BlockSize \in Nat \ {0}
  /\ DeviceSize \in Nat
  /\ Words \subseteq Int /\ Numbers \subseteq Nat
  /\ 0 \in Words
  /\ Images \subseteq Seq(Words) \ {<<>>}

VARIABLES
  file,        \* server: the image
  described,   \* server: the image manifest.json was computed from
  phase,       \* agent: where execute() is
  held,        \* agent: the manifest it fetched
  next,        \* agent: how many blocks it has written
  dev,         \* the inactive partition
  reason,      \* why the last call failed
  disturbed    \* ghost: this call met a republished or a damaged file

agentVars == <<phase, held, next, dev, reason>>
vars == <<file, described, agentVars, disturbed>>

-----------------------------------------------------------------------------
(* build-merkle-manifest.py.                                               *)

BlockCount(image) == (Len(image) + BlockSize - 1) \div BlockSize

\* size words from offset on, as far as the file goes.
Slice(image, offset, size) ==
  SubSeq(image, offset + 1,
         IF offset + size > Len(image) THEN Len(image) ELSE offset + size)

PaddedMutant(block) == block

\* hash_blocks pads the last block with zeros.
Padded(block) ==
  block \o [i \in 1 .. BlockSize - Len(block) |-> 0]

\* hash_blocks, build_merkle_root and sign_root_hash: the signature is good
\* for the root it was computed from.  index and size are neither signed nor
\* under the root.
Manifest(image) ==
  LET leaves == [i \in 1 .. BlockCount(image) |->
                   BlockHash(Padded(Slice(image, (i - 1) * BlockSize, BlockSize)))]
      root == BuilderRoot(leaves)
  IN  [leaves |-> leaves, index |-> [i \in 1 .. BlockCount(image) |-> i - 1],
       size |-> BlockSize, root |-> root, signedRoot |-> root]

\* The publisher uploads a new image, and its manifest.
PublishImage ==
  /\ file' \in Images
  /\ disturbed' = TRUE
  /\ UNCHANGED <<described, agentVars>>

PublishManifest ==
  /\ described' \in Images
  /\ UNCHANGED <<file, agentVars, disturbed>>

-----------------------------------------------------------------------------
(* MerkleStrategy.execute.                                                 *)

Running == phase \in {"checking", "writing"}

\* A StrategyError: what is on the partition stays there.
Raise(why) ==
  /\ phase' = "failed"
  /\ reason' = why
  /\ UNCHANGED <<held, next, dev>>

\* What a request may return for the manifest of image: that, or one with a
\* leaf, an index, the block size or the root damaged on the way that is still
\* JSON.  A block size that is missing is a number too, MERKLE_BLOCK_SIZE.
FetchedManifests(image) ==
  LET good == Manifest(image)
      blocks == 1 .. BlockCount(image)
  IN  {good} \cup {[good EXCEPT !.leaves[i] = BlockHash(<<>>)] : i \in blocks}
             \cup {[good EXCEPT !.index[i] = n] : i \in blocks, n \in Numbers}
             \cup {[good EXCEPT !.size = n] : n \in Numbers}
             \cup {[good EXCEPT !.root = BlockHash(<<>>)]}

\* The next block is not reset.
BeginMutant ==
  /\ ~Running
  /\ \E m \in FetchedManifests(described) :
       /\ phase' = "checking"
       /\ held' = m
       /\ reason' = "none"
       /\ disturbed' = (file # described \/ m # Manifest(described))
  /\ UNCHANGED <<file, described, next, dev>>

\* A call, and _fetch_manifest, which raises for a request that fails, a
\* status other than 200, or what is not JSON.
Begin ==
  /\ ~Running
  /\ \/ \E m \in FetchedManifests(described) :
          /\ phase' = "checking"
          /\ held' = m
          /\ next' = 0
          /\ reason' = "none"
          /\ disturbed' = (file # described \/ m # Manifest(described))
          /\ UNCHANGED dev
     \/ Raise("io") /\ UNCHANGED disturbed
  /\ UNCHANGED <<file, described>>

VerifyMutant ==
  /\ phase = "checking"
  /\ IF held.signedRoot # held.root THEN Raise("signature")
     ELSE /\ phase' = "writing"
          /\ UNCHANGED <<held, next, dev, reason>>
  /\ UNCHANGED <<file, described, disturbed>>

\* _verify_root_sig, then the root of the leaves against the signed one.
Verify ==
  /\ phase = "checking"
  /\ IF held.signedRoot # held.root THEN Raise("signature")
     ELSE IF AgentRoot(held.leaves) # held.root THEN Raise("root")
     ELSE /\ phase' = "writing"
          /\ UNCHANGED <<held, next, dev, reason>>
  /\ UNCHANGED <<file, described, disturbed>>

\* What the server has for a Range request: the range, the whole file when
\* it does not do ranges or makes nothing of this one (200), and nothing past
\* the end (416).
Served(offset, size) ==
  {file} \cup (IF size > 0 /\ offset < Len(file)
                 THEN {Slice(file, offset, size)} ELSE {})

\* What may arrive of it: requests does not notice a body cut short.
Received(body) == {body} \cup {SubSeq(body, 1, n) : n \in 0 .. Len(body) - 1}

Written(data, offset) ==
  [i \in DOMAIN dev |-> IF i > offset /\ i <= offset + Len(data)
                          THEN data[i - offset] ELSE dev[i]]

\* dev.seek and dev.write: writing past the end of the partition is an OSError.
WriteBlock(data, offset) ==
  IF offset + Len(data) <= DeviceSize
    THEN /\ dev' = Written(data, offset)
         /\ next' = next + 1
         /\ UNCHANGED <<phase, held, reason>>
    ELSE Raise("io")

\* Where the next block begins, as the manifest has it.
Offset == held.index[next + 1] * held.size

BlockMutant ==
  /\ phase = "writing"
  /\ next < Len(held.leaves)
  /\ \E body \in Served(Offset, held.size) : \E data \in Received(body) :
       /\ WriteBlock(data, Offset)
       /\ disturbed' = (disturbed \/ data # Slice(file, Offset, held.size))
  /\ UNCHANGED <<file, described>>

\* The Range request, the check of the leaf, and the write.
Block ==
  /\ phase = "writing"
  /\ next < Len(held.leaves)
  /\ \/ Raise("io") /\ UNCHANGED disturbed
     \/ \E body \in Served(Offset, held.size) : \E data \in Received(body) :
          /\ IF BlockHash(data) = held.leaves[next + 1]
               THEN WriteBlock(data, Offset)
               ELSE Raise("mismatch")
          /\ disturbed' = (disturbed \/ data # Slice(file, Offset, held.size))
  /\ UNCHANGED <<file, described>>

Return ==
  /\ phase = "writing"
  /\ next = Len(held.leaves)
  /\ phase' = "ok"
  /\ UNCHANGED <<file, described, held, next, dev, reason, disturbed>>

Init ==
  /\ file \in Images
  /\ described = file
  /\ phase = "idle"
  /\ held = Manifest(file)
  /\ next = 0
  /\ dev = [i \in 1 .. DeviceSize |-> 0]
  /\ reason = "none"
  /\ disturbed = FALSE

Next == PublishImage \/ PublishManifest \/ Begin \/ Verify \/ Block \/ Return

Spec == Init /\ [][Next]_vars

-----------------------------------------------------------------------------
TypeOK ==
  /\ {file, described} \subseteq Images
  /\ phase \in {"idle", "checking", "writing", "ok", "failed"}
  /\ next \in 0 .. Len(held.leaves)
  /\ dev \in [1 .. DeviceSize -> Words]
  /\ reason \in {"none", "io", "signature", "root", "mismatch"}
  /\ disturbed \in BOOLEAN

\* The first n blocks of device d are those leaves stands for.
HoldsBlocks(d, leaves, n) ==
  \A i \in 1 .. n : BlockHash(Slice(d, (i - 1) * BlockSize, BlockSize)) = leaves[i]

\* The blocks of m are where the manifest builder counts them to be.
Placed(m) ==
  /\ m.size = BlockSize
  /\ \A i \in DOMAIN m.leaves : m.index[i] = i - 1

(***************************************************************************)
(* The blocks written are those of one published image, whatever the       *)
(* publisher and the network did meanwhile, and the blocks of two images   *)
(* are never mixed (strategies.py:344-348).  They are at their places if   *)
(* the manifest has the places right, which nothing checks                 *)
(* (strategies.py:375, 414-416).                                           *)
(***************************************************************************)
NeverMixed ==
  phase \in {"writing", "ok"} =>
    \E image \in Images :
      /\ held.leaves = Manifest(image).leaves
      /\ held.root = Manifest(image).root
      /\ Placed(held) => HoldsBlocks(dev, held.leaves, next)

(***************************************************************************)
(* A package is refused only if the publisher replaced a file or the       *)
(* network damaged one: the publisher's hashes and the agent's agree on    *)
(* every block and on the root (build-merkle-manifest.py:79-80, 99-101).   *)
(***************************************************************************)
RefusedMeansDisturbed ==
  phase = "failed" /\ reason \in {"signature", "root", "mismatch"}
    => disturbed

(***************************************************************************)
(* The agent and the publisher compute the root of the definition, for     *)
(* every manifest that may arrive, damaged ones too: "any deviation will   *)
(* cause root hash mismatches" (build-merkle-manifest.py:99-101,           *)
(* strategies.py:544-545).                                                 *)
(***************************************************************************)
RootsAgree == /\ AgentRoot(held.leaves) = ReferenceRoot(held.leaves)
              /\ BuilderRoot(held.leaves) = ReferenceRoot(held.leaves)

(***************************************************************************)
(* Putting another block in the place of one changes the root, so a        *)
(* signature of the root is one of every block (strategies.py:346-348).    *)
(***************************************************************************)
EveryLeafCounts ==
  \A i, j \in 1 .. Len(held.leaves) :
    held.leaves[i] # held.leaves[j] =>
      AgentRoot([held.leaves EXCEPT ![i] = held.leaves[j]])
        # AgentRoot(held.leaves)

\* The images are of whole blocks: what RefusedMeansDisturbed takes.
Aligned == \A image \in Images : Len(image) = BlockCount(image) * BlockSize

(***************************************************************************)
(* execute() writes only what was checked, and with the places right in    *)
(* the manifest it returns only when the whole image of the signed root is *)
(* on the partition.                                                       *)
(***************************************************************************)
HoldsImage(d, root) ==
  \E image \in Images :
    LET m == Manifest(image)
    IN  m.root = root /\ HoldsBlocks(d, m.leaves, Len(m.leaves))

Writer == INSTANCE ImageWriter
            WITH Holds <- HoldsImage, image <- held.root, proper <- Placed(held)
WriterSpec == Writer!Spec
=============================================================================
