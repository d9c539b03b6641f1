--------------------------- MODULE StreamStrategy ---------------------------
(***************************************************************************)
(* agent/strategies.py, StreamToPartitionStrategy.execute: one pass over   *)
(* the CPIO archive as it arrives, writing each chunk of the image at its  *)
(* offset while hashing it.  The packages PackagePipeline makes are among  *)
(* its archives; others have their files in other places, lack some, or    *)
(* have one twice, of another image or of none.                            *)
(*                                                                         *)
(* A part of the partition is the range of one chunk; it holds the data of *)
(* that chunk of an image, or Junk: half-written or damaged data.          *)
(***************************************************************************)
EXTENDS PackageVerifier

CONSTANT Archives   \* the packages there may be

None == "none"

ASSUME StreamAssumption ==
  /\ Archives \subseteq Seq(Entries)
  /\ None \notin Images \cup Parts

VARIABLES
  archive,    \* the package
  pos,        \* how many of its files were read
  phase,      \* where execute() is
  described,  \* sw_desc_bytes: the image the last description is of
  verified,   \* sw_sig_bytes is set
  left,       \* chunks_remaining
  open,       \* the chunk being written, while it is half written
  dev,        \* the inactive partition
  reason      \* why the last call failed: "io" for a stream that broke or
              \* damaged data, else "refused"

vars == <<archive, pos, phase, described, verified, left, open, dev, reason>>

Running == phase \in {"checking", "writing"}

\* _parse_image_entries: the files the description of an image lists.
ImageEntries(image) == IF image \in Images THEN PartsOf[image] ELSE {}

\* chunk_map, parsed from the last description.
Listed == ImageEntries(described)

\* The file whose header comes next.
Coming == archive[pos + 1]

Raise(why) ==
  /\ phase' = "failed"
  /\ reason' = why
  /\ open' = None
  /\ UNCHANGED <<archive, pos, described, verified, left, dev>>

(***************************************************************************)
(* A call, with any package; the request may fail.  A block device keeps   *)
(* its content when it is opened "wb".                                     *)
(***************************************************************************)
Begin ==
  /\ ~Running
  /\ \/ archive' \in Archives /\ phase' = "checking"
     \/ UNCHANGED archive /\ phase' = "failed"
  /\ reason' = "io"
  /\ pos' = 0
  /\ described' = None
  /\ verified' = FALSE
  /\ left' = {}
  /\ open' = None
  /\ UNCHANGED dev

\* Where a chunk that is longer than its range ends: the parts it spoils.
Spoiled(parts) == [p \in Parts |-> IF p \in parts THEN Junk ELSE dev[p]]

\* The stream ends or the connection breaks: every read may raise.
Break ==
  /\ Running
  /\ phase' = "failed"
  /\ reason' = "io"
  /\ open' = None
  /\ \E parts \in SUBSET Parts :
       /\ open = None => parts = {}
       /\ dev' = Spoiled(parts)
  /\ UNCHANGED <<archive, pos, described, verified, left>>

\* The trailer, or the last chunk that was missing, ends the loop.
LoopEnded == \/ Listed # {} /\ left = {}
             \/ open = None /\ pos = Len(archive)

\* The header of the next file, with a name in set.
Reads(set) ==
  /\ Running
  /\ ~LoopEnded
  /\ open = None
  /\ Coming.name \in set

\* A second description adds to the chunks that are missing.
ReadDescriptionMutant ==
  /\ Reads({Desc})
  /\ IF ImageEntries(Coming.of) = {} THEN Raise("refused")
     ELSE /\ pos' = pos + 1
          /\ described' = Coming.of
          /\ left' = left \cup ImageEntries(Coming.of)
          /\ UNCHANGED <<archive, phase, verified, open, dev, reason>>

\* An empty list of entries is refused.  A second description replaces the
\* first, and leaves sw_sig_bytes as it is.
ReadDescription ==
  /\ Reads({Desc})
  /\ IF ImageEntries(Coming.of) = {} THEN Raise("refused")
     ELSE /\ pos' = pos + 1
          /\ described' = Coming.of
          /\ left' = ImageEntries(Coming.of)
          /\ UNCHANGED <<archive, phase, verified, open, dev, reason>>

\* _verify_sig is not called.
ReadSignatureMutant ==
  /\ Reads({Sig})
  /\ IF Listed = {} THEN Raise("refused")
     ELSE /\ pos' = pos + 1
          /\ verified' = TRUE
          /\ phase' = "writing"
          /\ UNCHANGED <<archive, described, left, open, dev, reason>>

\* _verify_sig; a signature ahead of the description is refused.
ReadSignature ==
  /\ Reads({Sig})
  /\ IF Listed = {} \/ ~Signs(Coming, Entry(Desc, described))
       THEN Raise("refused")
       ELSE /\ pos' = pos + 1
            /\ verified' = TRUE
            /\ phase' = "writing"
            /\ UNCHANGED <<archive, described, left, open, dev, reason>>

\* Chunks are written before the signature was read.
OpenChunkMutant ==
  /\ Reads(Listed)
  /\ open' = Coming.name
  /\ dev' = Spoiled({Coming.name})
  /\ UNCHANGED <<archive, pos, phase, described, verified, left, reason>>

\* The first part of a chunk is on the partition before its hash is known;
\* also of one that was written before.
OpenChunk ==
  /\ Reads(Listed)
  /\ IF ~verified THEN Raise("refused")
     ELSE /\ open' = Coming.name
          /\ dev' = Spoiled({Coming.name})
          /\ UNCHANGED <<archive, pos, phase, described, verified, left, reason>>

\* The hash is not compared.
CloseChunkMutant ==
  /\ open # None
  /\ \E data \in {Coming.of, Junk} : dev' = [dev EXCEPT ![open] = data]
  /\ pos' = pos + 1
  /\ left' = left \ {open}
  /\ open' = None
  /\ UNCHANGED <<archive, phase, described, verified, reason>>

(***************************************************************************)
(* stream_to_dev ends, with the file's data or damaged data; the SHA-256   *)
(* tells which, after the write.  A chunk's hasher goes on where its last  *)
(* file left it: what comes again does not have the hash.                  *)
(***************************************************************************)
CloseChunk ==
  /\ open # None
  /\ \E data \in {Coming.of, Junk} :
       IF data = described /\ open \in left
         THEN /\ dev' = [dev EXCEPT ![open] = data]
              /\ pos' = pos + 1
              /\ left' = left \ {open}
              /\ UNCHANGED <<phase, reason>>
         ELSE /\ \E parts \in SUBSET (Parts \ {open}) :
                   dev' = [Spoiled(parts) EXCEPT ![open] = data]
              /\ phase' = "failed"
              /\ reason' = IF data = Coming.of THEN "refused" ELSE "io"
              /\ UNCHANGED <<pos, left>>
  /\ open' = None
  /\ UNCHANGED <<archive, described, verified>>

\* Any other file is skipped: also a chunk, before sw-description was read.
\* An empty file of a chunk that was written changes neither it nor its hash.
SkipFile ==
  /\ Reads(Files \ (left \cup {Desc, Sig}))
  /\ Coming.name \in Listed => Coming.of = Junk
  /\ pos' = pos + 1
  /\ UNCHANGED <<archive, phase, described, verified, left, open, dev, reason>>

\* Also a loop that ended at the trailer counts as complete.
ReturnMutant ==
  /\ Running
  /\ LoopEnded
  /\ phase' = IF verified THEN "ok" ELSE "failed"
  /\ reason' = IF phase' = "ok" THEN reason ELSE "refused"
  /\ UNCHANGED <<archive, pos, described, verified, left, open, dev>>

\* A chunk that did not come is an error.
Return ==
  /\ Running
  /\ LoopEnded
  /\ phase' = IF left = {} THEN "ok" ELSE "failed"
  /\ reason' = IF phase' = "ok" THEN reason ELSE "refused"
  /\ UNCHANGED <<archive, pos, described, verified, left, open, dev>>

Init ==
  /\ archive \in Archives
  /\ pos = 0
  /\ phase = "idle"
  /\ described = None
  /\ verified = FALSE
  /\ left = {}
  /\ open = None
  /\ dev = [p \in Parts |-> Junk]
  /\ reason = "io"

Next == \/ Begin \/ Break \/ ReadDescription \/ ReadSignature \/ OpenChunk
        \/ CloseChunk \/ SkipFile \/ Return

Spec == Init /\ [][Next]_vars

-----------------------------------------------------------------------------
TypeOK ==
  /\ archive \in Archives
  /\ pos \in 0 .. Len(archive)
  /\ phase \in {"idle", "checking", "writing", "ok", "failed"}
  /\ described \in Images \cup {None}
  /\ verified \in BOOLEAN
  /\ left \subseteq Listed
  /\ open \in {None} \cup Listed
  /\ dev \in [Parts -> Images \cup {Junk}]
  /\ reason \in {"io", "refused"}

(***************************************************************************)
(* What sign-package.sh sees to and execute() takes on trust: the archive  *)
(* has a description, and none behind a signature.                         *)
(***************************************************************************)
Proper(a) ==
  /\ \E d \in DOMAIN a : a[d].name = Desc
  /\ \A s, d \in DOMAIN a : a[s].name = Sig /\ a[d].name = Desc => d < s

(***************************************************************************)
(* The partition is touched only after a description and the publisher's   *)
(* signature of it were read (strategies.py:10-12, 162-163), and within    *)
(* the listed parts, unless the file is too long, for which the call       *)
(* fails.  That it is the description the chunks are taken from holds if   *)
(* none comes behind the signature.                                        *)
(***************************************************************************)
SignedBeforeWritten ==
  [][\A p \in Parts : dev'[p] # dev[p] =>
       /\ p \in Listed \/ phase' = "failed"
       /\ \E d, s \in 1 .. pos :
            /\ d < s /\ archive[d].name = Desc /\ archive[s].name = Sig
            /\ Signs(archive[s], archive[d])
            /\ Proper(archive) => archive[d].of = described]_vars

(***************************************************************************)
(* Between two files, each chunk that was struck off the list is on the    *)
(* partition: one that comes again, in whatever place, is not taken for    *)
(* the chunk (strategies.py:281-293).                                      *)
(***************************************************************************)
StruckOffIsWritten ==
  Running /\ open = None => \A p \in Listed \ left : dev[p] = described

(***************************************************************************)
(* What the two scripts make installs: sign-package.sh packs "all other    *)
(* files" (sign-package.sh:82) behind the description and its signature,   *)
(* in whatever order, and the agent refuses no such package unless the     *)
(* stream broke or damaged it.                                             *)
(***************************************************************************)
SignedInstalls ==
  phase = "failed" /\ reason = "refused" =>
    \A image \in Images : archive \notin Sign(image)

(***************************************************************************)
(* The strategy writes no package that PackageVerifier would refuse, were  *)
(* it a file: of two descriptions or signatures the two parsers take the   *)
(* same pair (strategies.py:10-12, verifier.py:45-61), and unless another  *)
(* description comes behind it, it is the one the chunks are taken from.   *)
(***************************************************************************)
VerifierAgrees ==
  phase = "writing" \/ (phase = "ok" /\ Proper(archive)) =>
    \E d \in DOMAIN archive :
      /\ Verifies(archive, d)
      /\ Proper(archive) => archive[d].of = described

(***************************************************************************)
(* execute() writes nothing before it checked, and for a proper archive it *)
(* returns only when the whole image that was signed is on the partition.  *)
(***************************************************************************)
HoldsImage(d, i) == \A p \in PartsOf[i] : d[p] = i

Writer == INSTANCE ImageWriter
            WITH image <- described, proper <- Proper(archive),
                 Holds <- HoldsImage
WriterSpec == Writer!Spec
=============================================================================
