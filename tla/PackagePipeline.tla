--------------------------- MODULE PackagePipeline ---------------------------
(***************************************************************************)
(* How a package is made: build-image-package.sh puts a description and    *)
(* the image into a CPIO archive, and sign-package.sh unpacks it, signs    *)
(* the description and packs everything again.  An archive is a sequence   *)
(* of files: the name of each, and the image it is part of, describes or   *)
(* signs the description of; Junk for data of no image.                    *)
(***************************************************************************)
EXTENDS Naturals, FiniteSets, Sequences, SequencesExt

CONSTANTS
  Images,      \* the images there are packages of
  Small,       \* those below CHUNK_SIZE_BYTES
  Parts,       \* the names of image files in packages, one per range of the
               \* partition
  PartsOf,     \* the files sw-description of each image lists
  Files,       \* all names of files in archives
  Junk

Desc == "sw-description"
Sig == "sw-description.sig"

ASSUME PipelineAssumption ==
  /\ Small \subseteq Images
  /\ PartsOf \in [Images -> SUBSET Parts]
  /\ Parts \cup {Desc, Sig} \subseteq Files
  /\ {Desc, Sig} \cap Parts = {}
  /\ Junk \notin Images

Entries == [name : Files, of : Images \cup {Junk}]

\* build-image-package.sh: the files of the archive, which cpio packs as they
\* are in the build directory.
Build(image) == {Desc} \cup PartsOf[image]

\* split writes files; an image that fits in one entry is a symbolic link.
IsLink(image, name) == image \in Small /\ name \in PartsOf[image]

\* The file of that name in a package of the image.
Entry(name, image) == [name |-> name, of |-> image]

Pack(names, image) == [k \in DOMAIN names |-> Entry(names[k], image)]

\* The order of find for all files.
SignMutant(image) ==
  {Pack(names, image) : names \in
     SetToSeqs({name \in Build(image) \cup {Sig} : ~IsLink(image, name)})}

\* sign-package.sh: description and signature first, then the other files
\* that are regular files, as find comes across them.
Sign(image) ==
  {Pack(<<Desc, Sig>> \o rest, image) : rest \in
     SetToSeqs({name \in Build(image) \ {Desc} : ~IsLink(image, name)})}

\* The signature of the one is the publisher's, of the other's bytes.
Signs(signature, description) ==
  signature.of = description.of /\ signature.of # Junk
=============================================================================
