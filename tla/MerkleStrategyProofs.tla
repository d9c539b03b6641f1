------------------------ MODULE MerkleStrategyProofs ------------------------
(***************************************************************************)
(* Theorems about MerkleStrategy, for all images, block sizes and devices: *)
(* files replaced on the server at any moment, manifests and blocks damaged *)
(* on their way.  That the signed root is the root of one list of leaves    *)
(* is RootOfOneList of MerkleTreeProofs.                                    *)
(***************************************************************************)
EXTENDS MerkleStrategy, MerkleTreeProofs

\* An image has at least one block.
LEMMA BlocksAreCounted ==
  ASSUME NEW image \in Images
  PROVE  BlockCount(image) \in Nat /\ BlockCount(image) # 0
<1>1. Len(image) \in Nat /\ BlockSize \in Nat /\ BlockSize > 0 /\ Len(image) > 0
  BY ImageAssumption, EmptySeq
<1>2. Len(image) + BlockSize - 1 \in Nat /\ Len(image) + BlockSize - 1 >= BlockSize
  BY <1>1
<1>3. \A a, b \in Nat : b > 0 /\ a >= b => a \div b \in Nat /\ a \div b # 0
  OBVIOUS
<1> QED
  BY <1>1, <1>2, <1>3 DEF BlockCount

\* What a slice holds: the words from the offset on, fewer than asked for where
\* the list ends.
LEMMA SliceFacts ==
  ASSUME NEW s \in Seq(Words), NEW offset \in Nat, NEW size \in Nat
  PROVE  /\ Slice(s, offset, size) \in Seq(Words)
         /\ Len(Slice(s, offset, size)) \in 0 .. size
         /\ \A i \in 1 .. Len(Slice(s, offset, size)) :
              Slice(s, offset, size)[i] = s[offset + i]
         /\ offset + size <= Len(s) => Len(Slice(s, offset, size)) = size
         /\ size # 0 /\ Len(Slice(s, offset, size)) = size
              => offset + size <= Len(s)
<1> DEFINE end == IF offset + size > Len(s) THEN Len(s) ELSE offset + size
<1>1. Len(s) \in Nat /\ offset + 1 \in Int /\ end \in Int
  OBVIOUS
<1>2. \A i \in offset + 1 .. end : s[i] \in Words
  BY <1>1, ElementOfSeq
<1>3. Slice(s, offset, size) = SubSeq(s, offset + 1, end)
  BY DEF Slice
<1>4. /\ Slice(s, offset, size) \in Seq(Words)
      /\ Len(Slice(s, offset, size))
           = IF offset + 1 <= end THEN end - (offset + 1) + 1 ELSE 0
      /\ \A i \in 1 .. end - (offset + 1) + 1 :
           Slice(s, offset, size)[i] = s[offset + 1 + i - 1]
  <2> HIDE DEF end
  <2> QED
    BY <1>1, <1>2, <1>3, SubSeqProperties
<1> QED
  BY <1>1, <1>4

\* The same for a block.
LEMMA BlockFacts ==
  ASSUME NEW s \in Seq(Words), NEW offset \in Nat
  PROVE  /\ Slice(s, offset, BlockSize) \in Seq(Words)
         /\ Len(Slice(s, offset, BlockSize)) \in 0 .. BlockSize
         /\ \A i \in 1 .. Len(Slice(s, offset, BlockSize)) :
              Slice(s, offset, BlockSize)[i] = s[offset + i]
         /\ offset + BlockSize <= Len(s) <=> Len(Slice(s, offset, BlockSize)) = BlockSize
<1>1. BlockSize \in Nat /\ BlockSize # 0
  BY ImageAssumption
<1> QED
  BY <1>1, SliceFacts

\* A block that ends in the list is a whole one.
LEMMA WholeSlice ==
  ASSUME NEW s \in Seq(Words), NEW offset \in Nat, offset + BlockSize <= Len(s)
  PROVE  /\ Slice(s, offset, BlockSize) \in Seq(Words)
         /\ Len(Slice(s, offset, BlockSize)) = BlockSize
         /\ \A i \in 1 .. BlockSize : Slice(s, offset, BlockSize)[i] = s[offset + i]
<1>1. Len(Slice(s, offset, BlockSize)) = BlockSize
  BY BlockFacts
<1> QED
  BY <1>1, BlockFacts

\* build-merkle-manifest.py fills a block up with zeros; a whole one stays.
LEMMA PaddedFacts ==
  ASSUME NEW b \in Seq(Words), Len(b) <= BlockSize
  PROVE  /\ Padded(b) \in Seq(Words)
         /\ Len(Padded(b)) = BlockSize
         /\ Len(b) = BlockSize => Padded(b) = b
<1> DEFINE zeros == [i \in 1 .. BlockSize - Len(b) |-> 0]
<1>1. BlockSize - Len(b) \in Nat /\ BlockSize \in Nat /\ Len(b) \in Nat
  BY ImageAssumption
<1>2. zeros \in Seq(Words) /\ Len(zeros) = BlockSize - Len(b)
  BY <1>1, ImageAssumption
<1>3. Padded(b) = b \o zeros
  BY DEF Padded
<1> HIDE DEF zeros
<1>4. /\ Padded(b) \in Seq(Words) /\ Len(Padded(b)) = BlockSize
      /\ \A i \in 1 .. BlockSize :
           Padded(b)[i] = IF i <= Len(b) THEN b[i] ELSE zeros[i - Len(b)]
  BY <1>1, <1>2, <1>3, ConcatProperties
<1>5. Len(b) = BlockSize => Padded(b) = b
  BY <1>1, <1>4, SeqEqual
<1> QED
  BY <1>4, <1>5

\* A published manifest has one leaf per block, and its signed root is that of
\* its leaves.
LEMMA ManifestFacts ==
  ASSUME NEW image \in Images
  PROVE  /\ Len(Manifest(image).leaves) = BlockCount(image)
         /\ \A i \in 1 .. BlockCount(image) :
              Manifest(image).leaves[i]
                = BlockHash(Padded(Slice(image, (i - 1) * BlockSize, BlockSize)))
         /\ DOMAIN Manifest(image).leaves = 1 .. BlockCount(image)
         /\ Manifest(image).signedRoot = Manifest(image).root
         /\ Manifest(image).root = BuilderRoot(Manifest(image).leaves)
         /\ IsList(Manifest(image).leaves) /\ Len(Manifest(image).leaves) # 0
<1>1. BlockCount(image) \in Nat /\ BlockCount(image) # 0
  BY BlocksAreCounted
<1>2. Manifest(image).leaves
        = [i \in 1 .. BlockCount(image) |->
             BlockHash(Padded(Slice(image, (i - 1) * BlockSize, BlockSize)))]
  BY DEF Manifest
<1>3. Manifest(image).signedRoot = Manifest(image).root
      /\ Manifest(image).root = BuilderRoot(Manifest(image).leaves)
  BY DEF Manifest
<1>4. Len(Manifest(image).leaves) = BlockCount(image)
  BY <1>1, <1>2
<1> QED
  BY <1>1, <1>2, <1>3, <1>4 DEF IsList

\* It has the place of every block right.
LEMMA ManifestPlaces ==
  ASSUME NEW image \in Images
  PROVE  /\ Manifest(image).index = [i \in 1 .. BlockCount(image) |-> i - 1]
         /\ Manifest(image).size = BlockSize
  BY DEF Manifest

\* The manifests a request may return, one kind of damage at a time.
LEMMA ArrivedKinds ==
  ASSUME NEW image \in Images, NEW m \in FetchedManifests(image)
  PROVE  LET good == Manifest(image)
             blocks == 1 .. BlockCount(image)
         IN  \/ m = good
             \/ \E i \in blocks : m = [good EXCEPT !.leaves[i] = BlockHash(<<>>)]
             \/ \E i \in blocks, n \in Numbers : m = [good EXCEPT !.index[i] = n]
             \/ \E n \in Numbers : m = [good EXCEPT !.size = n]
             \/ m = [good EXCEPT !.root = BlockHash(<<>>)]
  BY DEF FetchedManifests

\* Damage to a manifest leaves it a list of as many leaves, with a place for
\* each.
LEMMA ArrivedFacts ==
  ASSUME NEW image \in Images, NEW m \in FetchedManifests(image)
  PROVE  /\ IsList(m.leaves) /\ Len(m.leaves) = BlockCount(image)
         /\ Len(m.leaves) \in Nat /\ Len(m.leaves) # 0
         /\ m.size \in Nat /\ \A i \in 1 .. Len(m.leaves) : m.index[i] \in Nat
<1> DEFINE good == Manifest(image)
           blocks == 1 .. BlockCount(image)
<1>1. /\ IsList(good.leaves) /\ Len(good.leaves) = BlockCount(image)
      /\ BlockCount(image) \in Nat /\ BlockCount(image) # 0
      /\ DOMAIN good.leaves = blocks
      /\ good.size \in Nat
      /\ DOMAIN good.index = blocks /\ \A i \in blocks : good.index[i] \in Nat
  <2>1. /\ IsList(good.leaves) /\ Len(good.leaves) = BlockCount(image)
        /\ BlockCount(image) \in Nat /\ BlockCount(image) # 0
        /\ DOMAIN good.leaves = blocks
    BY ManifestFacts, BlocksAreCounted
  <2>2. good.size \in Nat /\ good.index = [i \in blocks |-> i - 1]
    BY ManifestPlaces, ImageAssumption
  <2> QED
    BY <2>1, <2>2
<1>2. good = [leaves |-> good.leaves, index |-> good.index, size |-> good.size,
              root |-> good.root, signedRoot |-> good.signedRoot]
  BY DEF Manifest
<1> HIDE DEF good
<1>3. CASE m = good \/ m = [good EXCEPT !.root = BlockHash(<<>>)]
  <2>1. m.leaves = good.leaves /\ m.index = good.index /\ m.size = good.size
    BY <1>2, <1>3
  <2> QED
    BY <1>1, <2>1
<1>4. ASSUME NEW i \in blocks, m = [good EXCEPT !.leaves[i] = BlockHash(<<>>)]
      PROVE  /\ IsList(m.leaves) /\ Len(m.leaves) = Len(good.leaves)
             /\ m.index = good.index /\ m.size = good.size
  <2>1. /\ m.leaves = [good.leaves EXCEPT ![i] = BlockHash(<<>>)]
        /\ m.index = good.index /\ m.size = good.size
    BY <1>2, <1>4
  <2>2. m.leaves = [j \in 1 .. Len(good.leaves) |-> m.leaves[j]]
    BY <1>1, <2>1
  <2>3. Len(m.leaves) = Len(good.leaves)
    BY <1>1, <2>2
  <2> QED
    BY <1>1, <2>1, <2>2, <2>3 DEF IsList
<1>5. ASSUME NEW i \in blocks, NEW n \in Numbers, m = [good EXCEPT !.index[i] = n]
      PROVE  /\ m.leaves = good.leaves /\ m.size = good.size
             /\ \A j \in blocks : m.index[j] \in Nat
  <2>1. /\ m.leaves = good.leaves /\ m.size = good.size
        /\ m.index = [good.index EXCEPT ![i] = n]
    BY <1>2, <1>5
  <2> QED
    BY <1>1, <2>1, ImageAssumption
<1>6. ASSUME NEW n \in Numbers, m = [good EXCEPT !.size = n]
      PROVE  m.leaves = good.leaves /\ m.index = good.index /\ m.size \in Nat
  BY <1>2, <1>6, ImageAssumption
<1> QED
  BY <1>1, <1>3, <1>4, <1>5, <1>6, ArrivedKinds DEF good

\* The publisher's copy of the computation of the root is the agent's.
LEMMA SameRoot == \A leaves : AgentRoot(leaves) = BuilderRoot(leaves)
  BY DEF AgentRoot, BuilderRoot

\* A manifest that passes the two checks of execute() has the leaves and the
\* root of a published one: its leaves have the root of the published ones, and
\* so are the published ones.  Nothing is known of its places.
LEMMA TrustedManifest ==
  ASSUME NEW image \in Images, NEW m \in FetchedManifests(image),
         m.signedRoot = m.root, AgentRoot(m.leaves) = m.root
  PROVE  m.leaves = Manifest(image).leaves /\ m.root = Manifest(image).root
<1> DEFINE good == Manifest(image)
<1>1. /\ IsList(good.leaves) /\ Len(good.leaves) = BlockCount(image)
      /\ good.root = AgentRoot(good.leaves) /\ good.signedRoot = good.root
  BY ManifestFacts, SameRoot
<1>2. good = [leaves |-> good.leaves, index |-> good.index, size |-> good.size,
              root |-> good.root, signedRoot |-> good.signedRoot]
  BY DEF Manifest
<1> HIDE DEF good
<1>3. m.root = good.root
  <2>1. m.signedRoot = good.signedRoot
    BY <1>2, ArrivedKinds DEF good
  <2> QED
    BY <1>1, <2>1
<1>4. m.leaves = good.leaves
  <2>1. IsList(m.leaves) /\ Len(m.leaves) = Len(good.leaves) /\ Len(m.leaves) # 0
    BY <1>1, ArrivedFacts
  <2>2. AgentRoot(m.leaves) = AgentRoot(good.leaves)
    BY <1>1, <1>3
  <2> QED
    BY <1>1, <2>1, <2>2, RootOfOneList
<1> QED
  BY <1>3, <1>4 DEF good

\* What a range request delivers is a list of words.
LEMMA ReceivedFacts ==
  ASSUME file \in Images, NEW offset \in Nat, NEW size \in Nat,
         NEW body \in Served(offset, size), NEW data \in Received(body)
  PROVE  data \in Seq(Words)
<1>1. file \in Seq(Words)
  BY ImageAssumption
<1>2. body \in Seq(Words)
  <2>1. Slice(file, offset, size) \in Seq(Words)
    BY <1>1, SliceFacts
  <2> QED
    BY <1>1, <2>1 DEF Served
<1>3. ASSUME NEW n \in 0 .. Len(body) - 1
      PROVE  SubSeq(body, 1, n) \in Seq(Words)
  <2>1. \A i \in 1 .. n : body[i] \in Words
    BY <1>2, ElementOfSeq, LenProperties
  <2> QED
    BY <2>1, SubSeqProperties
<1> QED
  BY <1>2, <1>3 DEF Received

\* A block that fits is where it was written, and the ones before it are as
\* they were.
LEMMA WrittenFacts ==
  ASSUME dev \in [1 .. DeviceSize -> Words], NEW data \in Seq(Words),
         NEW offset \in Nat, offset + Len(data) <= DeviceSize
  PROVE  /\ Written(data, offset) \in [1 .. DeviceSize -> Words]
         /\ Len(data) = BlockSize => Slice(Written(data, offset), offset, BlockSize) = data
         /\ \A o \in Nat : o + BlockSize <= offset =>
              Slice(Written(data, offset), o, BlockSize) = Slice(dev, o, BlockSize)
<1> DEFINE d == Written(data, offset)
<1>1. DeviceSize \in Nat /\ BlockSize \in Nat /\ Len(data) \in Nat
  BY ImageAssumption
<1>2. /\ DOMAIN d = 1 .. DeviceSize
      /\ \A i \in 1 .. DeviceSize :
           d[i] = IF i > offset /\ i <= offset + Len(data)
                    THEN data[i - offset] ELSE dev[i]
      /\ d = [i \in 1 .. DeviceSize |-> d[i]]
  BY DEF Written
<1>3. d \in [1 .. DeviceSize -> Words]
  <2>1. \A i \in 1 .. DeviceSize : d[i] \in Words
    <3> TAKE i \in 1 .. DeviceSize
    <3>1. CASE i > offset /\ i <= offset + Len(data)
      <4>1. i - offset \in 1 .. Len(data)
        BY <1>1, <3>1
      <4> QED
        BY <1>2, <3>1, <4>1, ElementOfSeq
    <3>2. CASE ~(i > offset /\ i <= offset + Len(data))
      BY <1>2, <3>2
    <3> QED
      BY <3>1, <3>2
  <2> QED
    BY <1>2, <2>1
<1>4. d \in Seq(Words) /\ Len(d) = DeviceSize /\ dev \in Seq(Words)
      /\ Len(dev) = DeviceSize
  BY <1>1, <1>3
<1> HIDE DEF d
<1>5. ASSUME Len(data) = BlockSize PROVE Slice(d, offset, BlockSize) = data
  <2>1. /\ Slice(d, offset, BlockSize) \in Seq(Words) /\ Len(Slice(d, offset, BlockSize)) = BlockSize
        /\ \A i \in 1 .. BlockSize : Slice(d, offset, BlockSize)[i] = d[offset + i]
    <3>1. offset + BlockSize <= Len(d)
      BY <1>4, <1>5
    <3> QED
      BY <1>4, <3>1, WholeSlice
  <2>2. \A i \in 1 .. BlockSize : d[offset + i] = data[i]
    BY <1>1, <1>2, <1>5
  <2> QED
    BY <1>5, <2>1, <2>2, SeqEqual
<1>6. ASSUME NEW o \in Nat, o + BlockSize <= offset
      PROVE  Slice(d, o, BlockSize) = Slice(dev, o, BlockSize)
  <2>1. o + BlockSize <= Len(d) /\ o + BlockSize <= Len(dev)
    BY <1>1, <1>4, <1>6
  <2>2. /\ Slice(d, o, BlockSize) \in Seq(Words) /\ Len(Slice(d, o, BlockSize)) = BlockSize
        /\ \A i \in 1 .. BlockSize : Slice(d, o, BlockSize)[i] = d[o + i]
    BY <1>4, <2>1, WholeSlice
  <2>3. /\ Slice(dev, o, BlockSize) \in Seq(Words) /\ Len(Slice(dev, o, BlockSize)) = BlockSize
        /\ \A i \in 1 .. BlockSize : Slice(dev, o, BlockSize)[i] = dev[o + i]
    BY <1>4, <2>1, WholeSlice
  <2>4. ASSUME NEW i \in 1 .. BlockSize PROVE d[o + i] = dev[o + i]
    <3>1. o + i \in 1 .. DeviceSize /\ ~(o + i > offset)
      BY <1>1, <1>4, <1>6, <2>1
    <3> QED
      BY <1>2, <3>1
  <2> QED
    BY <2>2, <2>3, <2>4, SeqEqual
<1> QED
  BY <1>3, <1>5, <1>6 DEF d

-----------------------------------------------------------------------------
\* TypeOK, and that the manifest in hand is one a request may return.
Types ==
  /\ TypeOK
  /\ Len(held.leaves) \in Nat
  /\ \E image \in Images : held \in FetchedManifests(image)

\* The types, with what the manifest in hand may be, are inductive.
LEMMA TypesNext ==
  ASSUME Types, [Next]_vars
  PROVE  Types'
<1> USE DEF Types, TypeOK
<1>1. CASE PublishImage \/ PublishManifest
  BY <1>1 DEF PublishImage, PublishManifest, agentVars
<1>2. CASE Begin
  <2>1. CASE Raise("io")
    BY <1>2, <2>1 DEF Begin, Raise
  <2>2. CASE ~Raise("io")
    <3>1. PICK m \in FetchedManifests(described) :
            /\ phase' = "checking" /\ held' = m /\ next' = 0 /\ reason' = "none"
            /\ disturbed' \in BOOLEAN
            /\ UNCHANGED <<dev, file, described>>
      BY <1>2, <2>2 DEF Begin
    <3> QED
      BY <3>1, ArrivedFacts
  <2> QED
    BY <2>1, <2>2
<1>3. CASE Verify
  BY <1>3 DEF Verify, Raise
<1>4. CASE Block
  <2>1. CASE \E why \in {"io", "mismatch"} : Raise(why)
    BY <1>4, <2>1 DEF Block, Raise
  <2>2. CASE ~\E why \in {"io", "mismatch"} : Raise(why)
    <3>0. PICK body \in Served(Offset, held.size) : \E data \in Received(body) :
            /\ WriteBlock(data, Offset)
            /\ disturbed' = (disturbed \/ data # Slice(file, Offset, held.size))
            /\ UNCHANGED <<file, described>>
      BY <1>4, <2>2 DEF Block
    <3>1. PICK data \in Received(body) :
            /\ WriteBlock(data, Offset)
            /\ disturbed' = (disturbed \/ data # Slice(file, Offset, held.size))
            /\ UNCHANGED <<file, described>>
      BY <3>0
    <3>2. /\ next < Len(held.leaves) /\ next + 1 \in 0 .. Len(held.leaves)
          /\ held.size \in Nat /\ Offset \in Nat
      <4>1. next < Len(held.leaves) /\ next + 1 \in 1 .. Len(held.leaves)
        BY <1>4 DEF Block
      <4>2. held.size \in Nat /\ held.index[next + 1] \in Nat
        BY <4>1, ArrivedFacts
      <4> QED
        BY <4>1, <4>2 DEF Offset
    <3> DEFINE offset == Offset
    <3> HIDE DEF offset
    <3>a. /\ WriteBlock(data, offset) /\ offset \in Nat
          /\ body \in Served(offset, held.size)
      BY <3>0, <3>1, <3>2 DEF offset
    <3>3. /\ offset + Len(data) <= DeviceSize
          /\ dev' = Written(data, offset) /\ next' = next + 1
          /\ UNCHANGED <<phase, held, reason>>
      BY <3>a, <2>2 DEF WriteBlock
    <3>4. dev' \in [1 .. DeviceSize -> Words]
      BY <3>1, <3>2, <3>3, <3>a, ReceivedFacts, WrittenFacts
    <3> QED
      BY <3>1, <3>2, <3>3, <3>4
  <2> QED
    BY <2>1, <2>2
<1>5. CASE Return
  BY <1>5 DEF Return
<1>6. CASE UNCHANGED vars
  BY <1>6 DEF vars, agentVars
<1> QED
  BY <1>1, <1>2, <1>3, <1>4, <1>5, <1>6 DEF Next

\* It holds in every state.
LEMMA TypesHold == Spec => []Types
<1>1. Init => Types
  <2> SUFFICES ASSUME Init PROVE Types
    OBVIOUS
  <2>1. file \in Images /\ held \in FetchedManifests(file)
    BY DEF Init, FetchedManifests
  <2>2. Len(held.leaves) \in Nat
    BY <2>1, ArrivedFacts
  <2>3. dev \in [1 .. DeviceSize -> Words]
    BY ImageAssumption DEF Init
  <2>4. next \in 0 .. Len(held.leaves)
    BY <2>2 DEF Init
  <2>5. TypeOK
    BY <2>1, <2>3, <2>4 DEF Init, TypeOK
  <2> QED
    BY <2>1, <2>2, <2>5 DEF Types
<1>2. Types /\ [Next]_vars => Types'
  BY TypesNext
<1> QED
  BY <1>1, <1>2, PTL DEF Spec

(***************************************************************************)
(* TypeOK; among it that the loop never goes past the last leaf of the     *)
(* manifest it holds, and writes within the partition, wherever a damaged  *)
(* index or block size puts a block.                                       *)
(***************************************************************************)
THEOREM TypeCorrect == Spec => []TypeOK
<1>1. Types => TypeOK
  BY DEF Types
<1> QED
  BY <1>1, TypesHold, PTL

(***************************************************************************)
(* RootsAgree: of whatever manifest is in hand, with any number of leaves, *)
(* the agent and the publisher compute the root of the definition.         *)
(***************************************************************************)
THEOREM BothComputeTheRoot == Spec => []RootsAgree
<1>1. Types => RootsAgree
  <2> SUFFICES ASSUME Types PROVE RootsAgree
    OBVIOUS
  <2>1. PICK image \in Images : held \in FetchedManifests(image)
    BY DEF Types
  <2>2. IsList(held.leaves) /\ Len(held.leaves) # 0
    BY <2>1, ArrivedFacts
  <2> QED
    BY <2>2, RootIsReference DEF RootsAgree
<1> QED
  BY <1>1, TypesHold, PTL

(***************************************************************************)
(* EveryLeafCounts: no leaf of a manifest of any size can stand for another *)
(* one under the same root.                                                *)
(***************************************************************************)
THEOREM RootBindsEveryLeaf == Spec => []EveryLeafCounts
<1>1. Types => EveryLeafCounts
  <2> SUFFICES ASSUME Types,
                      NEW i \in 1 .. Len(held.leaves),
                      NEW j \in 1 .. Len(held.leaves),
                      held.leaves[i] # held.leaves[j],
                      AgentRoot([held.leaves EXCEPT ![i] = held.leaves[j]])
                        = AgentRoot(held.leaves)
               PROVE  FALSE
    BY DEF EveryLeafCounts
  <2> DEFINE old == held.leaves
             new == [old EXCEPT ![i] = old[j]]
  <2>1. PICK image \in Images : held \in FetchedManifests(image)
    BY DEF Types
  <2>2. IsList(old) /\ Len(old) # 0 /\ Len(old) \in Nat
    BY <2>1, ArrivedFacts
  <2>3. DOMAIN old = 1 .. Len(old)
    BY <2>2 DEF IsList
  <2>4. new = [k \in 1 .. Len(old) |-> new[k]] /\ new[i] = old[j]
    BY <2>3
  <2>5. Len(new) = Len(old)
    BY <2>2, <2>4
  <2>6. IsList(new)
    BY <2>2, <2>4, <2>5 DEF IsList
  <2>7. new = old
    BY <2>2, <2>5, <2>6, RootOfOneList
  <2> QED
    BY <2>4, <2>7
<1> QED
  BY <1>1, TypesHold, PTL

-----------------------------------------------------------------------------
\* Writing the next block of the image keeps the ones before it.
LEMMA NextBlockHeld ==
  ASSUME TypeOK, NEW image \in Images, held.leaves = Manifest(image).leaves,
         next < Len(held.leaves), HoldsBlocks(dev, held.leaves, next),
         NEW data, BlockHash(data) = held.leaves[next + 1],
         next * BlockSize + Len(data) <= DeviceSize
  PROVE  HoldsBlocks(Written(data, next * BlockSize), held.leaves, next + 1)
<1> DEFINE offset == next * BlockSize
           d == Written(data, offset)
<1>1. /\ next \in Nat /\ BlockSize \in Nat /\ offset \in Nat
      /\ next + 1 \in 1 .. BlockCount(image)
  <2>1. Len(held.leaves) = BlockCount(image) /\ BlockCount(image) \in Nat
    BY ManifestFacts, BlocksAreCounted
  <2>2. next \in Nat
    BY <2>1 DEF TypeOK
  <2> QED
    BY <2>1, <2>2, ImageAssumption
<1>2. data = Padded(Slice(image, offset, BlockSize))
  <2>1. (next + 1 - 1) * BlockSize = offset
    BY <1>1
  <2>2. held.leaves[next + 1] = BlockHash(Padded(Slice(image, offset, BlockSize)))
    BY <1>1, <2>1, ManifestFacts
  <2> QED
    BY <2>2 DEF BlockHash
<1>3. data \in Seq(Words) /\ Len(data) = BlockSize
  <2>1. image \in Seq(Words)
    BY ImageAssumption
  <2>2. /\ Slice(image, offset, BlockSize) \in Seq(Words)
        /\ Len(Slice(image, offset, BlockSize)) \in 0 .. BlockSize
    BY <1>1, <2>1, BlockFacts
  <2> QED
    BY <1>2, <2>2, PaddedFacts
<1>4. /\ Slice(d, offset, BlockSize) = data
      /\ \A o \in Nat : o + BlockSize <= offset => Slice(d, o, BlockSize) = Slice(dev, o, BlockSize)
  BY <1>1, <1>3, WrittenFacts DEF TypeOK
<1>5. ASSUME NEW i \in 1 .. next + 1
      PROVE  BlockHash(Slice(d, (i - 1) * BlockSize, BlockSize)) = held.leaves[i]
  <2>1. CASE i = next + 1
    <3>1. (i - 1) * BlockSize = offset
      BY <1>1, <2>1
    <3> QED
      BY <1>4, <2>1, <3>1
  <2>2. CASE i # next + 1
    <3>1. i \in 1 .. next /\ i - 1 \in Nat
      BY <1>1, <2>2
    <3>2. (i - 1) * BlockSize \in Nat /\ (i - 1) * BlockSize + BlockSize <= offset
      <4>1. (i - 1) * BlockSize + BlockSize = i * BlockSize
        BY <1>1, <3>1
      <4>2. i * BlockSize <= next * BlockSize
        BY <1>1, <3>1
      <4> QED
        BY <1>1, <3>1, <4>1, <4>2
    <3>3. Slice(d, (i - 1) * BlockSize, BlockSize) = Slice(dev, (i - 1) * BlockSize, BlockSize)
      BY <1>4, <3>2
    <3> QED
      BY <3>1, <3>3 DEF HoldsBlocks
  <2> QED
    BY <2>1, <2>2
<1> QED
  BY <1>5 DEF HoldsBlocks

\* With the places right the next block goes behind those written.
LEMMA PlacedOffset ==
  ASSUME Types, next < Len(held.leaves), Placed(held)
  PROVE  Offset = next * BlockSize
<1>1. PICK image \in Images : held \in FetchedManifests(image)
  BY DEF Types
<1>2. IsList(held.leaves) /\ Len(held.leaves) \in Nat
  BY <1>1, ArrivedFacts
<1>3. next \in Nat /\ next + 1 \in DOMAIN held.leaves
  BY <1>2 DEF Types, TypeOK, IsList
<1>4. held.index[next + 1] = next + 1 - 1 /\ held.size = BlockSize
  BY <1>3 DEF Placed
<1> QED
  BY <1>3, <1>4 DEF Offset

\* Before the first block there is nothing to hold.
LEMMA NothingHeldYet ==
  ASSUME NEW d, NEW leaves
  PROVE  HoldsBlocks(d, leaves, 0)
  BY DEF HoldsBlocks

\* From the check of the signature on, the leaves are published ones; while they
\* are checked, nothing of them is written.
TrustInv ==
  /\ phase = "checking" => next = 0
  /\ NeverMixed

\* Every step preserves it.
LEMMA TrustNext ==
  ASSUME Types, TrustInv, [Next]_vars
  PROVE  TrustInv'
<1> USE DEF TrustInv, NeverMixed
<1>1. CASE PublishImage \/ PublishManifest
  BY <1>1 DEF PublishImage, PublishManifest, agentVars
<1>2. CASE Begin
  BY <1>2 DEF Begin, Raise
<1>3. CASE Verify
  <2>1. CASE phase' = "failed"
    BY <2>1
  <2>2. CASE phase' # "failed"
    <3>1. /\ phase = "checking" /\ phase' = "writing"
          /\ held.signedRoot = held.root /\ AgentRoot(held.leaves) = held.root
          /\ UNCHANGED <<held, next, dev>>
      BY <1>3, <2>2 DEF Verify, Raise
    <3>2. PICK image \in Images : held \in FetchedManifests(image)
      BY DEF Types
    <3>3. held.leaves = Manifest(image).leaves /\ held.root = Manifest(image).root
      BY <3>1, <3>2, TrustedManifest
    <3> QED
      BY <3>1, <3>3, NothingHeldYet
  <2> QED
    BY <2>1, <2>2
<1>4. CASE Block
  <2>1. CASE phase' = "failed"
    BY <2>1
  <2>2. CASE phase' # "failed"
    <3>1. PICK data :
            /\ BlockHash(data) = held.leaves[next + 1]
            /\ WriteBlock(data, Offset)
      BY <1>4, <2>2 DEF Block, Raise
    <3>2. /\ Offset + Len(data) <= DeviceSize
          /\ dev' = Written(data, Offset) /\ next' = next + 1
          /\ UNCHANGED <<phase, held>>
      BY <3>1, <2>2 DEF WriteBlock, Raise
    <3>3. phase = "writing" /\ next < Len(held.leaves)
      BY <1>4 DEF Block
    <3>4. PICK image \in Images :
            /\ held.leaves = Manifest(image).leaves
            /\ held.root = Manifest(image).root
            /\ Placed(held) => HoldsBlocks(dev, held.leaves, next)
      BY <3>3
    <3>5. Placed(held) => HoldsBlocks(dev', held.leaves, next + 1)
      <4> SUFFICES ASSUME Placed(held)
                   PROVE  HoldsBlocks(dev', held.leaves, next + 1)
        OBVIOUS
      <4>1. Offset = next * BlockSize
        BY <3>3, PlacedOffset
      <4> QED
        BY <3>1, <3>2, <3>3, <3>4, <4>1, NextBlockHeld DEF Types
    <3> QED
      BY <3>2, <3>3, <3>4, <3>5
  <2> QED
    BY <2>1, <2>2
<1>5. CASE Return
  BY <1>5 DEF Return
<1>6. CASE UNCHANGED vars
  BY <1>6 DEF vars, agentVars
<1> QED
  BY <1>1, <1>2, <1>3, <1>4, <1>5, <1>6 DEF Next

(***************************************************************************)
(* NeverMixed: every block written is one of one published image, for any  *)
(* images, replaced at any moment, and any damage to the manifest; and it  *)
(* is at its place, if the places are right in the manifest.               *)
(***************************************************************************)
THEOREM NothingMixed == Spec => []NeverMixed
<1>1. Init => TrustInv
  BY DEF Init, TrustInv, NeverMixed
<1>2. Types /\ TrustInv /\ [Next]_vars => TrustInv'
  BY TrustNext
<1>3. TrustInv => NeverMixed
  BY DEF TrustInv
<1> QED
  BY <1>1, <1>2, <1>3, TypesHold, PTL DEF Spec

(***************************************************************************)
(* WriterSpec: execute() implements ImageWriter, for images of any size;   *)
(* with the places right in the manifest, a call that returns has written  *)
(* the whole image of the signed root.                                     *)
(***************************************************************************)
THEOREM ImplementsWriter == Spec => WriterSpec
<1>1. Init => Writer!Init /\ TrustInv
  BY DEF Init, Writer!Init, TrustInv, NeverMixed
<1>2. Types /\ TrustInv /\ [Next]_vars => TrustInv'
  BY TrustNext
<1>3. Types /\ TrustInv /\ [Next]_vars
        => [Writer!Next]_Writer!vars
  <2> SUFFICES ASSUME Types, TrustInv, [Next]_vars
               PROVE  Writer!Next \/ UNCHANGED <<phase, held, dev>>
    BY DEF Writer!vars
  <2> USE DEF Writer!Next
  <2>1. CASE PublishImage \/ PublishManifest \/ UNCHANGED vars
    BY <2>1 DEF PublishImage, PublishManifest, vars, agentVars
  <2>2. CASE Begin
    BY <2>2 DEF Begin, Raise, Running, Writer!Begin, Types, TypeOK
  <2>3. CASE Verify
    BY <2>3 DEF Verify, Raise, Writer!Trust, Writer!Refuse
  <2>4. CASE Block
    <3>1. phase = "writing" /\ UNCHANGED held /\ phase' \in {phase, "failed"}
      BY <2>4 DEF Block, WriteBlock, Raise
    <3> QED
      BY <3>1 DEF Writer!Write, Writer!Raise
  <2>5. CASE Return
    <3>1. /\ phase = "writing" /\ next = Len(held.leaves) /\ phase' = "ok"
          /\ UNCHANGED <<held, dev>>
      BY <2>5 DEF Return
    <3>2. PICK image \in Images :
            /\ held.leaves = Manifest(image).leaves
            /\ held.root = Manifest(image).root
            /\ Placed(held) => HoldsBlocks(dev, held.leaves, next)
      BY <3>1 DEF TrustInv, NeverMixed
    <3>3. Placed(held) => HoldsImage(dev, held.root)
      BY <3>1, <3>2 DEF HoldsImage
    <3> QED
      BY <3>1, <3>3 DEF Writer!Return
  <2> QED
    BY <2>1, <2>2, <2>3, <2>4, <2>5 DEF Next
<1> QED
  BY <1>1, <1>2, <1>3, TypesHold, PTL DEF Spec, WriterSpec, Writer!Spec

-----------------------------------------------------------------------------
\* A block of an image of whole blocks needs no padding.
LEMMA WholeBlock ==
  ASSUME Aligned, NEW image \in Images, NEW n \in Nat, n < BlockCount(image)
  PROVE  Padded(Slice(image, n * BlockSize, BlockSize)) = Slice(image, n * BlockSize, BlockSize)
<1>1. /\ BlockSize \in Nat /\ BlockCount(image) \in Nat /\ n * BlockSize \in Nat
      /\ image \in Seq(Words)
  BY BlocksAreCounted, ImageAssumption
<1>2. n * BlockSize + BlockSize <= Len(image)
  <2>1. n * BlockSize + BlockSize = (n + 1) * BlockSize
    BY <1>1
  <2>2. (n + 1) * BlockSize <= BlockCount(image) * BlockSize
    BY <1>1
  <2> QED
    BY <2>1, <2>2 DEF Aligned
<1> QED
  BY <1>1, <1>2, BlockFacts, PaddedFacts

\* The manifest builder has the places right.
LEMMA ManifestPlaced ==
  ASSUME NEW image \in Images
  PROVE  Placed(Manifest(image))
<1>1. DOMAIN Manifest(image).leaves = 1 .. BlockCount(image)
  BY ManifestFacts
<1> QED
  BY <1>1, ManifestPlaces DEF Placed

\* An undisturbed call holds the manifest of the file on the server.
DisturbedInv ==
  /\ ~disturbed /\ Running => held = Manifest(file)
  /\ RefusedMeansDisturbed

\* Every step preserves it.
LEMMA DisturbedNext ==
  ASSUME Aligned, Types, DisturbedInv, [Next]_vars
  PROVE  DisturbedInv'
<1> USE DEF DisturbedInv, RefusedMeansDisturbed, Running
<1>1. CASE PublishImage \/ PublishManifest
  BY <1>1 DEF PublishImage, PublishManifest, agentVars
<1>2. CASE Begin
  BY <1>2 DEF Begin, Raise
<1>3. CASE Verify
  <2>1. CASE disturbed
    BY <1>3, <2>1 DEF Verify
  <2>2. CASE ~disturbed
    <3>1. phase = "checking" /\ held = Manifest(file) /\ file \in Images
      BY <1>3, <2>2 DEF Verify, Types, TypeOK
    <3>2. held.signedRoot = held.root /\ AgentRoot(held.leaves) = held.root
      BY <3>1, ManifestFacts, SameRoot
    <3> QED
      BY <1>3, <2>2, <3>1, <3>2 DEF Verify
  <2> QED
    BY <2>1, <2>2
<1>4. CASE Block
  <2>1. CASE Raise("io") /\ UNCHANGED <<file, disturbed>>
    BY <2>1 DEF Raise
  <2>2. CASE ~(Raise("io") /\ UNCHANGED <<file, disturbed>>)
    <3>1. PICK data :
            /\ IF BlockHash(data) = held.leaves[next + 1]
                 THEN WriteBlock(data, Offset)
                 ELSE Raise("mismatch")
            /\ disturbed' = (disturbed \/ data # Slice(file, Offset, held.size))
            /\ UNCHANGED file
      BY <1>4, <2>2 DEF Block
    <3>2. phase = "writing" /\ next < Len(held.leaves)
      BY <1>4 DEF Block
    <3>3. CASE disturbed'
      BY <3>1, <3>3
    <3>4. CASE ~disturbed'
      <4>1. data = Slice(file, next * BlockSize, BlockSize) /\ held = Manifest(file)
        <5>1. /\ data = Slice(file, Offset, held.size) /\ held = Manifest(file)
              /\ file \in Images
          BY <3>1, <3>2, <3>4 DEF Types, TypeOK
        <5>2. Offset = next * BlockSize /\ held.size = BlockSize
          BY <3>2, <5>1, ManifestPlaced, PlacedOffset DEF Placed
        <5> QED
          BY <5>1, <5>2
      <4>2. /\ file \in Images /\ next \in Nat /\ next < BlockCount(file)
            /\ next + 1 \in 1 .. BlockCount(file)
        BY <3>2, <4>1, ManifestFacts, BlocksAreCounted DEF Types, TypeOK
      <4>3. held.leaves[next + 1] = BlockHash(data)
        <5>1. (next + 1 - 1) * BlockSize = next * BlockSize
          BY <4>2
        <5>2. held.leaves[next + 1]
                = BlockHash(Padded(Slice(file, next * BlockSize, BlockSize)))
          BY <4>1, <4>2, <5>1, ManifestFacts
        <5> QED
          BY <4>1, <4>2, <5>2, WholeBlock
      <4>4. \/ UNCHANGED <<phase, held, reason>>
            \/ phase' = "failed" /\ reason' = "io"
        BY <3>1, <4>3 DEF WriteBlock, Raise
      <4> QED
        BY <3>1, <3>2, <4>1, <4>4
    <3> QED
      BY <3>3, <3>4
  <2> QED
    BY <2>1, <2>2
<1>5. CASE Return
  BY <1>5 DEF Return
<1>6. CASE UNCHANGED vars
  BY <1>6 DEF vars, agentVars
<1> QED
  BY <1>1, <1>2, <1>3, <1>4, <1>5, <1>6 DEF Next

(***************************************************************************)
(* RefusedMeansDisturbed: images of whole blocks, of any number and size,  *)
(* install unless a file was replaced or damaged, or the device refuses.   *)
(***************************************************************************)
THEOREM RefusedOnlyDisturbed == Aligned /\ Spec => []RefusedMeansDisturbed
<1> SUFFICES ASSUME Aligned PROVE Spec => []RefusedMeansDisturbed
  OBVIOUS
<1>1. Init => DisturbedInv
  BY DEF Init, DisturbedInv, RefusedMeansDisturbed, Running
<1>2. Types /\ DisturbedInv /\ [Next]_vars => DisturbedInv'
  BY DisturbedNext
<1>3. DisturbedInv => RefusedMeansDisturbed
  BY DEF DisturbedInv
<1> QED
  BY <1>1, <1>2, <1>3, TypesHold, PTL DEF Spec

-----------------------------------------------------------------------------
\* Images that are not of whole blocks: their last block is short.
Ragged == \A image \in Images : Len(image) # BlockCount(image) * BlockSize

\* The blocks of an image cover it.
LEMMA BlocksCover ==
  ASSUME NEW image \in Images
  PROVE  Len(image) <= BlockCount(image) * BlockSize
<1>1. Len(image) \in Nat /\ BlockSize \in Nat /\ BlockSize > 0
  BY ImageAssumption
<1>2. \A a, b \in Nat : b > 0 => a \div b \in Nat /\ a < (a \div b) * b + b
  OBVIOUS
<1>3. Len(image) + BlockSize - 1 \in Nat
  BY <1>1
<1>4. Len(image) + BlockSize - 1 < BlockCount(image) * BlockSize + BlockSize
  BY <1>1, <1>2, <1>3 DEF BlockCount
<1>5. BlockCount(image) \in Nat /\ BlockCount(image) * BlockSize \in Nat
  BY <1>1, BlocksAreCounted
<1>6. \A l, b, c \in Nat : l + b - 1 < c + b => l <= c
  OBVIOUS
<1> QED
  BY <1>1, <1>4, <1>5, <1>6

\* A block that passes the check as it is on the server is not the last one.
LEMMA LastBlockDiffers ==
  ASSUME Ragged, NEW image \in Images, NEW n \in Nat, n < BlockCount(image),
         BlockHash(Slice(image, n * BlockSize, BlockSize)) = Manifest(image).leaves[n + 1]
  PROVE  n + 1 < BlockCount(image)
<1>1. /\ BlockSize \in Nat /\ BlockCount(image) \in Nat /\ n * BlockSize \in Nat
      /\ image \in Seq(Words) /\ Len(image) \in Nat
  BY BlocksAreCounted, ImageAssumption
<1>2. Slice(image, n * BlockSize, BlockSize) = Padded(Slice(image, n * BlockSize, BlockSize))
  <2>1. n + 1 \in 1 .. BlockCount(image) /\ (n + 1 - 1) * BlockSize = n * BlockSize
    BY <1>1
  <2>2. Manifest(image).leaves[n + 1] = BlockHash(Padded(Slice(image, n * BlockSize, BlockSize)))
    BY <2>1, ManifestFacts
  <2> QED
    BY <2>2 DEF BlockHash
<1>3. Len(Slice(image, n * BlockSize, BlockSize)) = BlockSize
  BY <1>1, <1>2, BlockFacts, PaddedFacts
<1>4. n * BlockSize + BlockSize <= Len(image)
  BY <1>1, <1>3, BlockFacts
<1>5. ASSUME n + 1 = BlockCount(image) PROVE FALSE
  <2>1. BlockCount(image) * BlockSize = n * BlockSize + BlockSize
    BY <1>1, <1>5
  <2> QED
    BY <1>1, <1>4, <2>1, BlocksCover DEF Ragged
<1> QED
  BY <1>1, <1>5

\* An undisturbed call holds the manifest of the file and never gets past its
\* last block.
RaggedInv ==
  /\ ~disturbed /\ Running => held = Manifest(file) /\ next < BlockCount(file)
  /\ phase = "ok" => disturbed

\* Every step preserves it.
LEMMA RaggedNext ==
  ASSUME Ragged, Types, RaggedInv, [Next]_vars
  PROVE  RaggedInv'
<1> USE DEF RaggedInv, Running
<1>1. CASE PublishImage \/ PublishManifest
  BY <1>1 DEF PublishImage, PublishManifest, agentVars
<1>2. CASE Begin
  <2>1. BlockCount(described) # 0 /\ BlockCount(described) \in Nat
    BY BlocksAreCounted DEF Types, TypeOK
  <2>2. 0 < BlockCount(described)
    BY <2>1
  <2> QED
    BY <1>2, <2>2 DEF Begin, Raise
<1>3. CASE Verify
  BY <1>3 DEF Verify, Raise
<1>4. CASE Block
  <2>1. CASE phase' = "failed"
    BY <2>1
  <2>2. CASE phase' # "failed"
    <3>1. PICK data :
            /\ BlockHash(data) = held.leaves[next + 1]
            /\ WriteBlock(data, Offset)
            /\ disturbed' = (disturbed \/ data # Slice(file, Offset, held.size))
            /\ UNCHANGED file
      BY <1>4, <2>2 DEF Block, Raise
    <3>2. phase = "writing" /\ phase' = phase /\ held' = held /\ next' = next + 1
      BY <1>4, <2>2, <3>1 DEF Block, WriteBlock, Raise
    <3>3. CASE ~disturbed'
      <4>1. /\ data = Slice(file, next * BlockSize, BlockSize) /\ held = Manifest(file)
            /\ next < BlockCount(file) /\ file \in Images /\ next \in Nat
        <5>1. ~disturbed /\ data = Slice(file, Offset, held.size)
          BY <3>1, <3>3
        <5>2. held = Manifest(file) /\ next < BlockCount(file)
          BY <3>2, <5>1
        <5>3. file \in Images /\ next \in Nat
          BY DEF Types, TypeOK
        <5>4. Offset = next * BlockSize /\ held.size = BlockSize
          BY <5>2, <5>3, ManifestFacts, ManifestPlaced, PlacedOffset DEF Placed
        <5> QED
          BY <5>1, <5>2, <5>3, <5>4
      <4>2. next + 1 < BlockCount(file)
        BY <3>1, <4>1, LastBlockDiffers
      <4>3. file' = file /\ phase' = "writing"
        BY <3>1, <3>2
      <4>4. held' = Manifest(file')
        BY <3>2, <4>1, <4>3
      <4>5. next' < BlockCount(file')
        BY <3>2, <4>2, <4>3
      <4> QED
        BY <4>3, <4>4, <4>5
    <3>4. CASE disturbed'
      BY <3>2, <3>4
    <3> QED
      BY <3>3, <3>4
  <2> QED
    BY <2>1, <2>2
<1>5. CASE Return
  <2>1. /\ phase = "writing" /\ next = Len(held.leaves)
        /\ UNCHANGED <<file, held, next, disturbed>> /\ phase' = "ok"
    BY <1>5 DEF Return
  <2>2. disturbed
    <3> SUFFICES ASSUME ~disturbed PROVE FALSE
      OBVIOUS
    <3>1. /\ held = Manifest(file) /\ next < BlockCount(file)
          /\ file \in Images /\ next \in Nat
      BY <2>1 DEF Types, TypeOK
    <3>2. next = BlockCount(file)
      BY <2>1, <3>1, ManifestFacts
    <3> QED
      BY <3>1, <3>2
  <2> QED
    BY <2>1, <2>2
<1>6. CASE UNCHANGED vars
  BY <1>6 DEF vars, agentVars
<1> QED
  BY <1>1, <1>2, <1>3, <1>4, <1>5, <1>6 DEF Next

(***************************************************************************)
(* The other half of RefusedMeansDisturbed: where no image is of whole     *)
(* blocks, an undisturbed call never returns, for any images, for the      *)
(* publisher pads the last block before it hashes it and the agent does    *)
(* not (build-merkle-manifest.py:79-80, strategies.py:418-421).            *)
(***************************************************************************)
THEOREM RaggedNeverInstalls == Ragged /\ Spec => [](phase = "ok" => disturbed)
<1> SUFFICES ASSUME Ragged PROVE Spec => [](phase = "ok" => disturbed)
  OBVIOUS
<1>1. Init => RaggedInv
  BY DEF Init, RaggedInv, Running
<1>2. Types /\ RaggedInv /\ [Next]_vars => RaggedInv'
  BY RaggedNext
<1>3. RaggedInv => (phase = "ok" => disturbed)
  BY DEF RaggedInv
<1> QED
  BY <1>1, <1>2, <1>3, TypesHold, PTL DEF Spec
=============================================================================
