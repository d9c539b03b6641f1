------------------------ MODULE StreamStrategyProofs ------------------------
(***************************************************************************)
(* Theorems about StreamStrategy, for all packages, images and archives:   *)
(* their files in any order, missing or coming again, read any number of   *)
(* times from streams that break or deliver damaged data.                  *)
(***************************************************************************)
EXTENDS StreamStrategy, FiniteSetTheorems, SequenceTheorems, TLAPS

\* The chunk that is open is the one whose header was read last.
ReadInOrder ==
  open # None =>
    /\ Running /\ verified /\ left # {}
    /\ pos < Len(archive) /\ Coming.name = open

\* What sw_desc_bytes holds: the last description read.
LastRead ==
  /\ described = None => Lacks(archive, Desc, 1 .. pos)
  /\ described # None =>
       /\ Listed # {}
       /\ \E d \in 1 .. pos :
            /\ archive[d].name = Desc /\ archive[d].of = described
            /\ Lacks(archive, Desc, d + 1 .. pos)

\* The first signature of the archive, which is at s, is good for the last
\* description before it, which is at d.
FirstPair(d, s) ==
  /\ d < s /\ archive[d].name = Desc /\ archive[s].name = Sig
  /\ Signs(archive[s], archive[d])
  /\ Lacks(archive, Sig, 1 .. s - 1)
  /\ Lacks(archive, Desc, d + 1 .. s)
  /\ Proper(archive) => archive[d].of = described

\* What is known of the signature is due to the files read.
Evidence ==
  /\ Running => LastRead
  /\ Running /\ ~verified => Lacks(archive, Sig, 1 .. pos)
  /\ verified => \E d, s \in 1 .. pos : FirstPair(d, s)
  /\ Running => (verified <=> phase = "writing")
  /\ left # Listed => verified

\* StruckOffIsWritten, also while another chunk is half written.
StruckOffKept ==
  Running => \A p \in Listed \ left : p # open => dev[p] = described

\* Of a proper archive, nothing installs unverified.
OkIsVerified == phase = "ok" /\ Proper(archive) => verified

Inv == TypeOK /\ ReadInOrder /\ Evidence /\ StruckOffKept /\ OkIsVerified

LEMMA ArchiveFacts ==
  ASSUME NEW a \in Archives
  PROVE  /\ Len(a) \in Nat
         /\ DOMAIN a = 1 .. Len(a)
         /\ \A i \in 1 .. Len(a) :
              a[i].name \in Files /\ a[i].of \in Images \cup {Junk}
<1>1. a \in Seq(Entries)
  BY StreamAssumption
<1>2. DOMAIN a = 1 .. Len(a) /\ Len(a) \in Nat
  BY <1>1
<1>3. \A i \in 1 .. Len(a) : a[i] \in Entries
  BY <1>1, <1>2
<1> QED
  BY <1>2, <1>3 DEF Entries

\* The file whose header is read is one of the archive's.
LEMMA ReadsFacts ==
  ASSUME TypeOK, NEW set, Reads(set)
  PROVE  /\ Running /\ open = None
         /\ pos \in Nat /\ pos + 1 \in 1 .. Len(archive)
         /\ Coming = archive[pos + 1] /\ Coming.name \in set
         /\ Coming.of \in Images \cup {Junk}
<1>1. Len(archive) \in Nat
  BY ArchiveFacts DEF TypeOK
<1>2. pos \in Nat /\ pos < Len(archive)
  BY <1>1 DEF TypeOK, Reads, LoopEnded
<1>3. pos + 1 \in 1 .. Len(archive)
  BY <1>1, <1>2
<1> QED
  BY <1>2, <1>3, ArchiveFacts DEF TypeOK, Reads, Coming

LEMMA PartsFacts ==
  ASSUME TypeOK
  PROVE  /\ Listed \subseteq Parts
         /\ Desc \notin Listed /\ Sig \notin Listed /\ None \notin Listed
         /\ described \in Images => Listed = PartsOf[described]
  BY PipelineAssumption, StreamAssumption DEF TypeOK, Listed, ImageEntries

LEMMA NamesDiffer == Desc # Sig
  BY DEF Desc, Sig

\* One more file that is none of that name.
LEMMA LacksOneMore ==
  ASSUME NEW a, NEW name, NEW j \in Nat, NEW k \in Nat,
         Lacks(a, name, j .. k), a[k + 1].name # name
  PROVE  Lacks(a, name, j .. k + 1)
  BY DEF Lacks

LEMMA TypeNext ==
  ASSUME TypeOK, ReadInOrder, [Next]_vars
  PROVE  TypeOK'
<1> USE DEF TypeOK
<1>0. Len(archive) \in Nat
  BY ArchiveFacts
<1>a. \A parts : Spoiled(parts) \in [Parts -> Images \cup {Junk}]
  BY DEF Spoiled
<1>b. ASSUME NEW why \in {"io", "refused"}, Raise(why) PROVE TypeOK'
  BY <1>b DEF Raise, Listed
<1>1. CASE Begin
  <2>1. archive' \in Archives /\ Len(archive') \in Nat
    BY <1>1, ArchiveFacts DEF Begin
  <2>2. pos' \in 0 .. Len(archive')
    BY <1>1, <2>1 DEF Begin
  <2>3. /\ described' = None /\ verified' = FALSE /\ left' = {} /\ open' = None
        /\ UNCHANGED dev /\ phase' \in {"checking", "failed"} /\ reason' = "io"
    BY <1>1 DEF Begin
  <2> QED
    BY <2>1, <2>2, <2>3
<1>2. CASE Break
  BY <1>a, <1>2 DEF Break, Listed
<1>3. CASE ReadDescription
  <2>1. pos + 1 \in 0 .. Len(archive) /\ Coming.of \in Images \cup {Junk}
        /\ open = None
    BY <1>0, <1>3, ReadsFacts DEF ReadDescription
  <2>2. CASE ImageEntries(Coming.of) = {}
    BY <1>b, <1>3, <2>2 DEF ReadDescription
  <2>3. CASE ImageEntries(Coming.of) # {}
    <3>1. /\ pos' = pos + 1 /\ described' = Coming.of
          /\ left' = ImageEntries(Coming.of)
          /\ UNCHANGED <<archive, phase, verified, open, dev, reason>>
      BY <1>3, <2>3 DEF ReadDescription
    <3>2. Coming.of \in Images /\ Listed' = left'
      BY <2>1, <2>3, <3>1 DEF ImageEntries, Listed
    <3> QED
      BY <2>1, <3>1, <3>2
  <2> QED
    BY <2>2, <2>3
<1>4. CASE ReadSignature
  <2>1. pos + 1 \in 0 .. Len(archive)
    BY <1>0, <1>4, ReadsFacts DEF ReadSignature
  <2> QED
    BY <1>b, <1>4, <2>1 DEF ReadSignature, Listed
<1>5. CASE OpenChunk
  <2>1. Coming.name \in Listed
    BY <1>5, ReadsFacts DEF OpenChunk
  <2> QED
    BY <1>a, <1>b, <1>5, <2>1 DEF OpenChunk, Listed
<1>6. CASE CloseChunk
  <2>1. pos + 1 \in 0 .. Len(archive)
        /\ Coming.of \in Images \cup {Junk} /\ open \in Parts
    <3>1. pos + 1 \in 1 .. Len(archive)
      BY <1>0, <1>6 DEF CloseChunk, ReadInOrder
    <3> QED
      BY <1>0, <1>6, <3>1, ArchiveFacts, PartsFacts DEF CloseChunk, Coming
  <2>2. PICK data \in {Coming.of, Junk} :
          IF data = described /\ open \in left
            THEN /\ dev' = [dev EXCEPT ![open] = data]
                 /\ pos' = pos + 1
                 /\ left' = left \ {open}
                 /\ UNCHANGED <<phase, reason>>
            ELSE /\ \E parts \in SUBSET (Parts \ {open}) :
                      dev' = [Spoiled(parts) EXCEPT ![open] = data]
                 /\ phase' = "failed"
                 /\ reason' = IF data = Coming.of THEN "refused" ELSE "io"
                 /\ UNCHANGED <<pos, left>>
    BY <1>6 DEF CloseChunk
  <2>3. dev' \in [Parts -> Images \cup {Junk}]
    BY <1>a, <2>1, <2>2
  <2>4. /\ pos' \in 0 .. Len(archive) /\ left' \subseteq left
        /\ phase' \in {phase, "failed"} /\ reason' \in {"io", "refused"}
    BY <2>1, <2>2
  <2> QED
    BY <1>6, <2>3, <2>4 DEF CloseChunk, Listed
<1>7. CASE SkipFile
  <2>1. pos + 1 \in 0 .. Len(archive)
    BY <1>0, <1>7, ReadsFacts DEF SkipFile
  <2> QED
    BY <1>7, <2>1 DEF SkipFile, Listed
<1>8. CASE Return
  BY <1>8 DEF Return, Listed
<1>9. CASE UNCHANGED vars
  BY <1>9 DEF vars, Listed
<1> QED
  BY <1>1, <1>2, <1>3, <1>4, <1>5, <1>6, <1>7, <1>8, <1>9 DEF Next

LEMMA OrderNext ==
  ASSUME TypeOK, ReadInOrder, Evidence, [Next]_vars
  PROVE  ReadInOrder'
<1> USE DEF ReadInOrder, Coming
<1>1. CASE Begin \/ Break
  BY <1>1 DEF Begin, Break
<1>2. CASE ReadDescription
  BY <1>2, ReadsFacts DEF ReadDescription, Raise
<1>3. CASE ReadSignature
  BY <1>3, ReadsFacts DEF ReadSignature, Raise
<1>4. CASE OpenChunk
  <2>1. Running /\ ~LoopEnded /\ Coming.name \in Listed
        /\ pos \in Nat /\ pos + 1 \in 1 .. Len(archive)
    BY <1>4, ReadsFacts DEF OpenChunk, Reads
  <2>2. left # {} /\ pos < Len(archive)
    BY <2>1, ArchiveFacts DEF LoopEnded, TypeOK
  <2> QED
    BY <1>4, <2>1, <2>2 DEF OpenChunk, Raise, Running
<1>5. CASE CloseChunk
  BY <1>5 DEF CloseChunk
<1>6. CASE SkipFile
  BY <1>6, ReadsFacts DEF SkipFile
<1>7. CASE Return
  <2>1. open = None
    BY <1>7, ArchiveFacts DEF Return, LoopEnded, TypeOK
  <2> QED
    BY <1>7, <2>1 DEF Return
<1>8. CASE UNCHANGED vars
  BY <1>8 DEF vars, Running
<1> QED
  BY <1>1, <1>2, <1>3, <1>4, <1>5, <1>6, <1>7, <1>8 DEF Next

\* A file that is read and is neither description nor signature.
LEMMA OtherFile ==
  ASSUME TypeOK, Evidence, Running, Running',
         pos + 1 \in 1 .. Len(archive), Coming.name \notin {Desc, Sig},
         pos' = pos + 1, UNCHANGED <<archive, phase, described, verified>>,
         left' # Listed => verified
  PROVE  Evidence'
<1> USE DEF Evidence
<1>0. pos \in Nat
  BY ArchiveFacts DEF TypeOK
<1>1. archive[pos + 1].name # Desc /\ archive[pos + 1].name # Sig
  BY DEF Coming
<1>2. LastRead'
  <2>1. CASE described = None
    BY <1>0, <1>1, <2>1, LacksOneMore DEF LastRead
  <2>2. CASE described # None
    <3>1. PICK d \in 1 .. pos :
            /\ archive[d].name = Desc /\ archive[d].of = described
            /\ Lacks(archive, Desc, d + 1 .. pos)
      BY <2>2 DEF LastRead
    <3>2. Lacks(archive, Desc, d + 1 .. pos + 1)
      BY <1>0, <1>1, <3>1, LacksOneMore
    <3>3. d \in 1 .. pos'
      BY <1>0
    <3> QED
      BY <2>2, <3>1, <3>2, <3>3 DEF LastRead, Listed
  <2> QED
    BY <2>1, <2>2
<1>3. ~verified => Lacks(archive, Sig, 1 .. pos + 1)
  BY <1>0, <1>1, LacksOneMore
<1>4. verified => \E d, s \in 1 .. pos + 1 : FirstPair(d, s)
  BY <1>0
<1> QED
  BY <1>2, <1>3, <1>4 DEF FirstPair, Running, Listed

LEMMA EvidenceNext ==
  ASSUME TypeOK, ReadInOrder, Evidence, [Next]_vars
  PROVE  Evidence'
<1> USE DEF Evidence
<1>0. pos \in Nat
  BY ArchiveFacts DEF TypeOK
\* The call ends, with what it knows of the archive.
<1>a. ASSUME ~Running', UNCHANGED <<archive, pos, described, verified, left>>
      PROVE  Evidence'
  BY <1>a DEF FirstPair, Listed
<1>b. ASSUME NEW why, Raise(why) PROVE Evidence'
  BY <1>a, <1>b DEF Raise, Running
<1>1. CASE Begin
  BY <1>1, StreamAssumption DEF Begin, LastRead, Lacks, Listed, ImageEntries,
                                Running
<1>2. CASE Break
  BY <1>a, <1>2 DEF Break, Running
<1>3. CASE ReadDescription
  <2>1. CASE ImageEntries(Coming.of) = {}
    BY <1>b, <1>3, <2>1 DEF ReadDescription
  <2>2. CASE ImageEntries(Coming.of) # {}
    <3>1. /\ pos' = pos + 1 /\ described' = Coming.of
          /\ left' = ImageEntries(Coming.of)
          /\ UNCHANGED <<archive, phase, verified, open, dev, reason>>
      BY <1>3, <2>2 DEF ReadDescription
    <3>2. /\ Running /\ pos + 1 \in 1 .. Len(archive)
          /\ archive[pos + 1].name = Desc /\ archive[pos + 1] = Coming
      BY <1>3, ReadsFacts DEF ReadDescription
    <3>3. described' # None /\ Listed' = left' /\ Listed' # {}
      BY <2>2, <3>1, StreamAssumption DEF Listed, ImageEntries
    <3>4. Lacks(archive, Desc, pos + 2 .. pos + 1)
      BY <1>0 DEF Lacks
    <3>5. LastRead'
      BY <1>0, <3>1, <3>2, <3>3, <3>4 DEF LastRead
    <3>6. ~verified => Lacks(archive, Sig, 1 .. pos + 1)
      BY <1>0, <3>2, NamesDiffer, LacksOneMore
    <3>7. ASSUME verified PROVE \E d, s \in 1 .. pos + 1 : FirstPair(d, s)'
      <4>1. PICK d, s \in 1 .. pos : FirstPair(d, s)
        BY <3>7
      <4>2. ~Proper(archive)
        <5>1. s \in DOMAIN archive /\ pos + 1 \in DOMAIN archive /\ ~(pos + 1 < s)
          BY <1>0, <3>2, ArchiveFacts DEF TypeOK
        <5> QED
          BY <3>2, <4>1, <5>1 DEF Proper, FirstPair
      <4>3. FirstPair(d, s)'
        BY <3>1, <4>1, <4>2 DEF FirstPair
      <4> QED
        BY <1>0, <4>3
    <3> QED
      BY <3>1, <3>2, <3>3, <3>5, <3>6, <3>7 DEF Running
  <2> QED
    BY <2>1, <2>2
<1>4. CASE ReadSignature
  <2>1. CASE Listed = {} \/ ~Signs(Coming, Entry(Desc, described))
    BY <1>b, <1>4, <2>1 DEF ReadSignature
  <2>2. CASE ~(Listed = {} \/ ~Signs(Coming, Entry(Desc, described)))
    <3>1. /\ pos' = pos + 1 /\ verified' = TRUE /\ phase' = "writing"
          /\ UNCHANGED <<archive, described, left, open, dev, reason>>
      BY <1>4, <2>2 DEF ReadSignature
    <3>2. /\ Running /\ pos + 1 \in 1 .. Len(archive)
          /\ archive[pos + 1].name = Sig /\ archive[pos + 1] = Coming
      BY <1>4, ReadsFacts DEF ReadSignature
    <3>3. described # None
      BY <2>2, StreamAssumption DEF Listed, ImageEntries
    <3>4. PICK d \in 1 .. pos :
            /\ archive[d].name = Desc /\ archive[d].of = described
            /\ Lacks(archive, Desc, d + 1 .. pos)
      BY <3>2, <3>3 DEF LastRead
    <3>5. Lacks(archive, Desc, d + 1 .. pos + 1)
      BY <1>0, <3>2, <3>4, NamesDiffer, LacksOneMore
    <3>6. LastRead'
      <4>1. d \in 1 .. pos + 1
        BY <1>0
      <4> QED
        BY <2>2, <3>1, <3>3, <3>4, <3>5, <4>1 DEF LastRead, Listed
    <3>7. \E e, s \in 1 .. pos + 1 : FirstPair(e, s)
      <4>1. CASE verified
        BY <1>0, <4>1
      <4>2. CASE ~verified
        <5>1. Lacks(archive, Sig, 1 .. pos)
          BY <3>2, <4>2
        <5>2. Signs(archive[pos + 1], archive[d])
          BY <2>2, <3>2, <3>4 DEF Signs, Entry
        <5>3. (pos + 1) - 1 = pos /\ d < pos + 1
              /\ d \in 1 .. pos + 1 /\ pos + 1 \in 1 .. pos + 1
          BY <1>0
        <5>4. FirstPair(d, pos + 1)
          BY <3>2, <3>4, <3>5, <5>1, <5>2, <5>3 DEF FirstPair
        <5> QED
          BY <5>3, <5>4
      <4> QED
        BY <4>1, <4>2
    <3> QED
      BY <3>1, <3>6, <3>7 DEF Running, FirstPair
  <2> QED
    BY <2>1, <2>2
<1>5. CASE OpenChunk
  <2>1. CASE ~verified
    BY <1>b, <1>5, <2>1 DEF OpenChunk
  <2>2. CASE verified
    BY <1>5, <2>2 DEF OpenChunk, LastRead, FirstPair, Running, Listed
  <2> QED
    BY <2>1, <2>2
<1>6. CASE CloseChunk
  <2>1. /\ Running /\ verified /\ pos + 1 \in 1 .. Len(archive)
        /\ Coming.name \in Listed
    BY <1>0, <1>6, ArchiveFacts DEF CloseChunk, ReadInOrder, TypeOK
  <2>2. Coming.name \notin {Desc, Sig}
    BY <2>1, PartsFacts
  <2>3. UNCHANGED <<archive, described, verified>>
    BY <1>6 DEF CloseChunk
  <2>4. CASE pos' = pos + 1 /\ phase' = phase
    BY <2>1, <2>2, <2>3, <2>4, OtherFile DEF Running
  <2>5. CASE phase' = "failed" /\ UNCHANGED <<pos, left>>
    BY <1>a, <2>3, <2>5 DEF Running
  <2> QED
    BY <1>6, <2>4, <2>5 DEF CloseChunk
<1>7. CASE SkipFile
  <2>1. /\ Running /\ pos + 1 \in 1 .. Len(archive)
        /\ Coming.name \notin {Desc, Sig}
    BY <1>7, ReadsFacts DEF SkipFile
  <2> QED
    BY <1>7, <2>1, OtherFile DEF SkipFile, Running
<1>8. CASE Return
  BY <1>a, <1>8 DEF Return, Running
<1>9. CASE UNCHANGED vars
  BY <1>9 DEF vars, LastRead, FirstPair, Running, Listed
<1> QED
  BY <1>1, <1>2, <1>3, <1>4, <1>5, <1>6, <1>7, <1>8, <1>9 DEF Next

LEMMA StruckNext ==
  ASSUME TypeOK, ReadInOrder, StruckOffKept, [Next]_vars
  PROVE  StruckOffKept'
<1> USE DEF StruckOffKept
<1>1. CASE Begin
  BY <1>1, StreamAssumption DEF Begin, Listed, ImageEntries
<1>2. ASSUME ~Running' PROVE StruckOffKept'
  BY <1>2
<1>3. CASE ReadDescription
  <2>1. CASE ImageEntries(Coming.of) = {}
    BY <1>2, <1>3, <2>1 DEF ReadDescription, Raise, Running
  <2>2. CASE ImageEntries(Coming.of) # {}
    BY <1>3, <2>2 DEF ReadDescription, Listed
  <2> QED
    BY <2>1, <2>2
<1>4. CASE ReadSignature
  BY <1>4, ReadsFacts DEF ReadSignature, Raise, Running, Listed
<1>5. CASE OpenChunk
  <2>1. open = None /\ Running
    BY <1>5, ReadsFacts DEF OpenChunk
  <2>2. CASE Raise("refused")
    BY <1>2, <2>2 DEF Raise, Running
  <2>3. CASE ~Raise("refused")
    <3>1. /\ open' = Coming.name /\ dev' = Spoiled({Coming.name})
          /\ UNCHANGED <<phase, described, left>>
      BY <1>5, <2>3 DEF OpenChunk
    <3>2. ASSUME NEW p \in Listed \ left, p # open'
          PROVE  dev'[p] = described
      <4>1. p \in Parts /\ p # None
        BY PartsFacts
      <4>2. dev'[p] = dev[p]
        BY <3>1, <3>2, <4>1 DEF Spoiled
      <4> QED
        BY <2>1, <4>1, <4>2
    <3> QED
      BY <3>1, <3>2 DEF Listed
  <2> QED
    BY <2>2, <2>3
<1>6. CASE CloseChunk
  <2>1. CASE phase' = "failed"
    BY <1>2, <2>1 DEF Running
  <2>2. CASE phase' # "failed"
    <3>1. /\ dev' = [dev EXCEPT ![open] = described]
          /\ left' = left \ {open} /\ open \in left
          /\ UNCHANGED <<phase, described>> /\ open' = None /\ Running
      BY <1>6, <2>2 DEF CloseChunk, ReadInOrder
    <3>2. ASSUME NEW p \in Listed \ left' PROVE dev'[p] = described
      <4>1. p \in Parts
        BY PartsFacts
      <4>2. CASE p = open
        BY <3>1, <4>1, <4>2 DEF TypeOK
      <4>3. CASE p # open
        BY <3>1, <4>1, <4>3 DEF TypeOK
      <4> QED
        BY <4>2, <4>3
    <3> QED
      BY <3>1, <3>2 DEF Listed
  <2> QED
    BY <2>1, <2>2
<1>7. CASE SkipFile
  BY <1>7 DEF SkipFile, Running, Listed
<1>8. CASE Break \/ Return
  BY <1>2, <1>8 DEF Break, Return, Running
<1>9. CASE UNCHANGED vars
  BY <1>9 DEF vars, Running, Listed
<1> QED
  BY <1>1, <1>3, <1>4, <1>5, <1>6, <1>7, <1>8, <1>9 DEF Next

\* Of a proper archive, a loop that ended with nothing missing had the
\* signature and every chunk.
LEMMA NothingMissing ==
  ASSUME Inv, Running, LoopEnded, left = {}, Proper(archive)
  PROVE  /\ verified /\ phase = "writing" /\ open = None
         /\ described \in Images /\ Listed = PartsOf[described]
<1> USE DEF Inv
<1>1. open = None
  BY DEF ReadInOrder
<1>2. described # None
  <2> SUFFICES ASSUME described = None PROVE FALSE
    OBVIOUS
  <2>1. Listed = {}
    BY StreamAssumption DEF Listed, ImageEntries
  <2>2. pos = Len(archive) /\ Lacks(archive, Desc, 1 .. pos)
    BY <2>1 DEF LoopEnded, Evidence, LastRead
  <2>3. DOMAIN archive = 1 .. pos
    BY <2>2, ArchiveFacts DEF TypeOK
  <2> QED
    BY <2>2, <2>3 DEF Proper, Lacks
<1>3. described \in Images /\ Listed = PartsOf[described]
  BY <1>2, PartsFacts DEF TypeOK
<1>4. verified
  BY <1>2 DEF Evidence, LastRead
<1> QED
  BY <1>1, <1>3, <1>4 DEF Evidence

LEMMA OkNext ==
  ASSUME Inv, [Next]_vars
  PROVE  OkIsVerified'
<1> USE DEF Inv, OkIsVerified
<1>1. CASE Return
  BY <1>1, NothingMissing DEF Return
<1>2. CASE Begin \/ Break
  BY <1>2 DEF Begin, Break
<1>3. ASSUME Running, phase' # "ok" PROVE OkIsVerified'
  BY <1>3
<1>4. CASE CloseChunk
  BY <1>4 DEF CloseChunk, ReadInOrder, Running
<1>5. CASE ReadDescription \/ ReadSignature \/ OpenChunk \/ SkipFile
  BY <1>5 DEF ReadDescription, ReadSignature, OpenChunk, SkipFile, Reads,
              Raise, Running
<1>6. CASE UNCHANGED vars
  BY <1>6 DEF vars
<1> QED
  BY <1>1, <1>2, <1>4, <1>5, <1>6 DEF Next

LEMMA InvHolds == Spec => []Inv
<1>1. Init => Inv
  <2> SUFFICES ASSUME Init PROVE Inv
    OBVIOUS
  <2>1. Len(archive) \in Nat
    BY ArchiveFacts DEF Init
  <2>2. dev \in [Parts -> Images \cup {Junk}]
    BY DEF Init
  <2>3. /\ left = {} /\ Listed = {} /\ open = None /\ verified = FALSE
        /\ phase = "idle" /\ ~Running /\ described = None
    BY StreamAssumption DEF Init, Running, Listed, ImageEntries
  <2>4. TypeOK
    <3>1. archive \in Archives
      BY DEF Init
    <3>2. pos \in 0 .. Len(archive) /\ reason \in {"io", "refused"}
      BY <2>1 DEF Init
    <3> QED
      BY <2>2, <2>3, <3>1, <3>2 DEF TypeOK
  <2>5. ReadInOrder /\ StruckOffKept /\ OkIsVerified
    BY <2>3 DEF ReadInOrder, StruckOffKept, OkIsVerified
  <2>6. Evidence
    BY <2>3 DEF Evidence
  <2> QED
    BY <2>4, <2>5, <2>6 DEF Inv
<1>2. Inv /\ [Next]_vars => Inv'
  BY TypeNext, OrderNext, EvidenceNext, StruckNext, OkNext DEF Inv
<1> QED
  BY <1>1, <1>2, PTL DEF Spec

-----------------------------------------------------------------------------
(***************************************************************************)
(* TypeOK; among it that what is missing, and the chunk being written, are *)
(* listed by the last description, whatever the archive has twice.         *)
(***************************************************************************)
THEOREM TypeCorrect == Spec => []TypeOK
<1>1. Inv => TypeOK
  BY DEF Inv
<1> QED
  BY <1>1, InvHolds, PTL

(***************************************************************************)
(* StruckOffIsWritten: what counts as written is on the partition, also if *)
(* the archive has the chunk, or the description, again.                   *)
(***************************************************************************)
THEOREM StruckOffStays == Spec => []StruckOffIsWritten
<1>1. Inv => StruckOffIsWritten
  <2> SUFFICES ASSUME Inv, Running, open = None, NEW p \in Listed \ left
               PROVE  dev[p] = described
    BY DEF StruckOffIsWritten
  <2>1. p # None
    BY PartsFacts DEF Inv
  <2> QED
    BY <2>1 DEF Inv, StruckOffKept
<1> QED
  BY <1>1, InvHolds, PTL

(***************************************************************************)
(* SignedBeforeWritten: the partition is touched only behind a description *)
(* and its signature; within the parts that the last description lists,    *)
(* unless the call fails; and that is the signed one if none came behind.  *)
(***************************************************************************)
THEOREM WritesAreSigned == Spec => SignedBeforeWritten
<1> DEFINE Signed(p) ==
      dev'[p] # dev[p] =>
       /\ p \in Listed \/ phase' = "failed"
       /\ \E d, s \in 1 .. pos :
            /\ d < s /\ archive[d].name = Desc /\ archive[s].name = Sig
            /\ Signs(archive[s], archive[d])
            /\ Proper(archive) => archive[d].of = described
<1>1. ASSUME Inv, [Next]_vars, NEW p \in Parts, dev'[p] # dev[p]
      PROVE  verified /\ (p \in Listed \/ phase' = "failed")
  <2> USE DEF Inv
  <2>1. dev \in [Parts -> Images \cup {Junk}]
    BY <1>1 DEF TypeOK
  <2>2. CASE OpenChunk
    <3>1. verified /\ Coming.name \in Listed
      BY <1>1, <2>2 DEF OpenChunk, Raise, Reads
    <3>2. p = Coming.name
      BY <1>1, <2>1, <2>2 DEF OpenChunk, Raise, Spoiled
    <3> QED
      BY <3>1, <3>2
  <2>3. CASE CloseChunk
    <3>1. verified /\ open \in Listed
      BY <1>1, <2>3 DEF CloseChunk, ReadInOrder, TypeOK
    <3>2. CASE phase' # "failed"
      BY <1>1, <2>1, <2>3, <3>1, <3>2 DEF CloseChunk
    <3> QED
      BY <3>1, <3>2
  <2>4. CASE Break
    <3>1. open # None
      BY <1>1, <2>1, <2>4 DEF Break, Spoiled
    <3> QED
      BY <1>1, <2>4, <3>1 DEF Break, ReadInOrder
  <2>5. OpenChunk \/ CloseChunk \/ Break
    BY <1>1 DEF Next, vars, Begin, Raise, ReadDescription, ReadSignature,
                SkipFile, Return
  <2> QED
    BY <2>2, <2>3, <2>4, <2>5
<1>2. ASSUME Inv, [Next]_vars, NEW p \in Parts PROVE Signed(p)
  BY <1>1, <1>2 DEF Inv, Evidence, FirstPair
<1>3. Inv /\ [Next]_vars => [\A p \in Parts : Signed(p)]_vars
  BY <1>2
<1> QED
  BY <1>3, InvHolds, PTL DEF Spec, SignedBeforeWritten

(***************************************************************************)
(* VerifierAgrees: whatever is written, PackageVerifier would accept, by   *)
(* the same description.                                                   *)
(***************************************************************************)
THEOREM AgreesWithVerifier == Spec => []VerifierAgrees
<1>1. Inv => VerifierAgrees
  <2> SUFFICES ASSUME Inv,
                      phase = "writing" \/ (phase = "ok" /\ Proper(archive))
               PROVE  \E d \in DOMAIN archive :
                        /\ Verifies(archive, d)
                        /\ Proper(archive) => archive[d].of = described
    BY DEF VerifierAgrees
  <2>1. verified
    BY DEF Inv, Evidence, OkIsVerified, Running
  <2>2. /\ pos \in 0 .. Len(archive) /\ Len(archive) \in Nat
        /\ DOMAIN archive = 1 .. Len(archive)
    BY ArchiveFacts DEF Inv, TypeOK
  <2>3. PICK d, s \in 1 .. pos : FirstPair(d, s)
    BY <2>1 DEF Inv, Evidence
  <2>4. d \in DOMAIN archive /\ s \in DOMAIN archive
    BY <2>2
  <2>5. Extracted(archive, d, s)
    BY <2>2, <2>3 DEF FirstPair, Extracted
  <2> QED
    BY <2>3, <2>4, <2>5 DEF FirstPair, Verifies
<1> QED
  BY <1>1, InvHolds, PTL

(***************************************************************************)
(* WriterSpec: execute() implements ImageWriter, for any archives.         *)
(***************************************************************************)
THEOREM ImplementsWriter == Spec => WriterSpec
<1>1. Init => Writer!Init
  BY DEF Init, Writer!Init
<1>2. ASSUME Inv, [Next]_vars
      PROVE  [Writer!Next]_<<phase, described, Proper(archive), dev>>
  <2> USE DEF Writer!Next
  <2>1. phase \in {"idle", "checking", "writing", "ok", "failed"}
    BY <1>2 DEF Inv, TypeOK
  <2>2. ASSUME Running, phase' = "failed", UNCHANGED <<archive, described>>,
               phase = "writing" \/ UNCHANGED dev
        PROVE  Writer!Next
    BY <2>2 DEF Running, Writer!Refuse, Writer!Raise
  <2>3. ASSUME Running, NEW why, Raise(why)
        PROVE  Writer!Next
    BY <2>2, <2>3 DEF Raise
  <2>4. CASE Begin
    BY <2>1, <2>4 DEF Begin, Running, Writer!Begin
  <2>5. CASE Break
    <3>1. CASE open = None
      <4>1. UNCHANGED dev
        BY <1>2, <2>5, <3>1 DEF Break, Spoiled, Inv, TypeOK
      <4> QED
        BY <2>2, <2>5, <4>1 DEF Break
    <3>2. CASE open # None
      <4>1. phase = "writing"
        BY <1>2, <3>2 DEF Inv, ReadInOrder, Evidence
      <4> QED
        BY <2>2, <2>5, <4>1 DEF Break
    <3> QED
      BY <3>1, <3>2
  <2>6. CASE ReadDescription
    <3>1. CASE Raise("refused")
      BY <2>3, <2>6, <3>1 DEF ReadDescription, Reads
    <3>2. CASE ~Raise("refused")
      <4>1. UNCHANGED <<archive, phase, dev>> /\ Running
        BY <2>6, <3>2 DEF ReadDescription, Reads
      <4>2. CASE phase = "checking"
        BY <4>1, <4>2 DEF Writer!Learn
      <4>3. CASE phase = "writing"
        <5>1. PICK d, s \in 1 .. pos : FirstPair(d, s)
          BY <1>2, <4>1, <4>3 DEF Inv, Evidence
        <5>2. pos + 1 \in 1 .. Len(archive) /\ archive[pos + 1].name = Desc
              /\ pos \in Nat /\ DOMAIN archive = 1 .. Len(archive)
          BY <1>2, <2>6, ReadsFacts, ArchiveFacts DEF ReadDescription, Inv,
                                                      TypeOK
        <5>3. s \in DOMAIN archive /\ pos + 1 \in DOMAIN archive /\ ~(pos + 1 < s)
          BY <1>2, <5>2, ArchiveFacts DEF Inv, TypeOK
        <5>4. ~Proper(archive)
          BY <5>1, <5>2, <5>3 DEF Proper, FirstPair
        <5> QED
          BY <4>1, <4>3, <5>4 DEF Writer!Write
      <4> QED
        BY <4>1, <4>2, <4>3 DEF Running
    <3> QED
      BY <3>1, <3>2
  <2>7. CASE ReadSignature
    <3>1. CASE Raise("refused")
      BY <2>3, <2>7, <3>1 DEF ReadSignature, Reads
    <3>2. CASE ~Raise("refused")
      BY <2>7, <3>2 DEF ReadSignature, Reads, Running, Writer!Trust
    <3> QED
      BY <3>1, <3>2
  <2>8. CASE OpenChunk
    <3>1. CASE Raise("refused")
      BY <2>3, <2>8, <3>1 DEF OpenChunk, Reads
    <3>2. CASE ~Raise("refused")
      BY <1>2, <2>8, <3>2 DEF OpenChunk, Reads, Inv, Evidence, Writer!Write
    <3> QED
      BY <3>1, <3>2
  <2>9. CASE CloseChunk
    <3>1. Running /\ phase = "writing" /\ UNCHANGED <<archive, described>>
      BY <1>2, <2>9 DEF CloseChunk, Inv, ReadInOrder, Evidence
    <3>2. phase' = phase \/ phase' = "failed"
      BY <2>9 DEF CloseChunk
    <3> QED
      BY <2>2, <3>1, <3>2 DEF Writer!Write
  <2>10. CASE SkipFile
    BY <2>10 DEF SkipFile
  <2>11. CASE Return
    <3>1. CASE left = {}
      <4>1. phase' = "ok" /\ UNCHANGED <<archive, described, dev>>
            /\ phase \in {"checking", "writing"}
        BY <2>11, <3>1 DEF Return, Running
      <4>2. ASSUME Proper(archive)
            PROVE  phase = "writing" /\ HoldsImage(dev, described)
        <5>1. /\ phase = "writing" /\ open = None /\ Running
              /\ Listed = PartsOf[described]
          BY <1>2, <2>11, <3>1, <4>2, NothingMissing DEF Return
        <5>2. \A p \in Listed : p # None
          BY <1>2, PartsFacts DEF Inv
        <5> QED
          BY <1>2, <3>1, <5>1, <5>2 DEF HoldsImage, Inv, StruckOffKept
      <4> QED
        BY <4>1, <4>2 DEF Writer!Return
    <3>2. CASE left # {}
      BY <2>2, <2>11, <3>2 DEF Return
    <3> QED
      BY <3>1, <3>2
  <2>12. CASE UNCHANGED vars
    BY <2>12 DEF vars
  <2> QED
    BY <1>2, <2>4, <2>5, <2>6, <2>7, <2>8, <2>9, <2>10, <2>11, <2>12 DEF Next
<1> QED
  BY <1>1, <1>2, InvHolds, PTL DEF Spec, WriterSpec, Writer!Spec, Writer!vars

-----------------------------------------------------------------------------
(***************************************************************************)
(* The packages of the scripts, for images that are split.                 *)
(***************************************************************************)
Split ==
  /\ Small = {}
  /\ \A i \in Images : PartsOf[i] # {} /\ IsFiniteSet(PartsOf[i])

\* A list of the members of a finite set has each once.
LEMMA ListHasAll ==
  ASSUME NEW S, IsFiniteSet(S), NEW rest \in SetToSeqs(S)
  PROVE  /\ rest \in Seq(S) /\ Len(rest) \in Nat
         /\ \A i \in 1 .. Len(rest) : rest[i] \in S
         /\ \A i, j \in 1 .. Len(rest) : i # j => rest[i] # rest[j]
         /\ \A x \in S : \E i \in 1 .. Len(rest) : rest[i] = x
<1> DEFINE n == Cardinality(S)
<1>1. n \in Nat
  BY FS_CardinalityType
<1>2. rest \in [1 .. n -> S] /\ \A i, j \in 1 .. n : i # j => rest[i] # rest[j]
  BY DEF SetToSeqs
<1>3. rest \in Seq(S) /\ Len(rest) = n
  BY <1>1, <1>2
<1>4. rest \in Injection(1 .. n, S)
  BY <1>2 DEF Injection, IsInjective
<1>5. Cardinality(1 .. n) = n
  BY <1>1, FS_Interval
<1>6. rest \in Surjection(1 .. n, S)
  BY <1>4, <1>5, FS_Injection
<1> QED
  BY <1>1, <1>2, <1>3, <1>6 DEF Surjection

\* Description and signature come first, each file of the image once.
LEMMA SignedArchive ==
  ASSUME Split, TypeOK, NEW i \in Images, archive \in Sign(i)
  PROVE  /\ 2 <= Len(archive)
         /\ archive[1].name = Desc /\ archive[2].name = Sig
         /\ \A k \in 1 .. Len(archive) : archive[k].of = i
         /\ \A k \in 3 .. Len(archive) : archive[k].name \in PartsOf[i]
         /\ \A j, k \in 3 .. Len(archive) :
              j # k => archive[j].name # archive[k].name
         /\ \A p \in PartsOf[i] : \E k \in 3 .. Len(archive) : archive[k].name = p
<1> DEFINE S == PartsOf[i]
<1>1. {name \in Build(i) \ {Desc} : ~IsLink(i, name)} = S
  BY PipelineAssumption DEF Build, IsLink, Split
<1>2. PICK rest \in SetToSeqs(S) : archive = Pack(<<Desc, Sig>> \o rest, i)
  BY <1>1 DEF Sign
<1>3. /\ rest \in Seq(S) /\ Len(rest) \in Nat
      /\ \A k \in 1 .. Len(rest) : rest[k] \in S
      /\ \A j, k \in 1 .. Len(rest) : j # k => rest[j] # rest[k]
      /\ \A p \in S : \E k \in 1 .. Len(rest) : rest[k] = p
  BY <1>2, ListHasAll DEF Split
<1>4. rest \in Seq(S \cup {Desc, Sig}) /\ <<Desc, Sig>> \in Seq(S \cup {Desc, Sig})
  <2>1. S \subseteq S \cup {Desc, Sig}
    OBVIOUS
  <2> QED
    BY <1>3, <2>1, SeqMonotonic
<1>5. Len(<<Desc, Sig>>) = 2 /\ <<Desc, Sig>>[1] = Desc /\ <<Desc, Sig>>[2] = Sig
  OBVIOUS
<1> HIDE DEF S
<1> DEFINE names == <<Desc, Sig>> \o rest
<1>6. /\ Len(names) = 2 + Len(rest) /\ DOMAIN names = 1 .. 2 + Len(rest)
      /\ \A k \in 1 .. 2 + Len(rest) :
           names[k] = IF k <= 2 THEN <<Desc, Sig>>[k] ELSE rest[k - 2]
  BY <1>4, <1>5, ConcatProperties
<1> HIDE DEF names
<1>7. /\ DOMAIN archive = 1 .. 2 + Len(rest)
      /\ \A k \in 1 .. 2 + Len(rest) :
           archive[k].of = i /\ archive[k].name = names[k]
  BY <1>2, <1>6 DEF Pack, Entry, names
<1>8. Len(archive) = 2 + Len(rest)
  <2>1. DOMAIN archive = 1 .. Len(archive) /\ Len(archive) \in Nat
    BY ArchiveFacts DEF TypeOK
  <2> QED
    BY <1>3, <1>7, <2>1
<1>9. \A k \in 3 .. Len(archive) :
        archive[k].name = rest[k - 2] /\ k - 2 \in 1 .. Len(rest)
  <2> TAKE k \in 3 .. Len(archive)
  <2>1. k \in 1 .. 2 + Len(rest) /\ ~(k <= 2) /\ k - 2 \in 1 .. Len(rest)
    BY <1>3, <1>8
  <2>2. names[k] = rest[k - 2]
    BY <1>6, <2>1
  <2> QED
    BY <1>7, <2>1, <2>2
<1>10. archive[1].name = Desc /\ archive[2].name = Sig
  BY <1>3, <1>5, <1>6, <1>7
<1>11. \A k \in 3 .. Len(archive) : archive[k].name \in S
  BY <1>3, <1>9
<1>12. ASSUME NEW p \in S PROVE \E k \in 3 .. Len(archive) : archive[k].name = p
  <2>1. PICK k \in 1 .. Len(rest) : rest[k] = p
    BY <1>3, <1>12
  <2>2. k + 2 \in 3 .. Len(archive) /\ (k + 2) - 2 = k
    BY <1>3, <1>8, <2>1
  <2> QED
    BY <1>9, <2>1, <2>2
<1>13. ASSUME NEW j \in 3 .. Len(archive), NEW k \in 3 .. Len(archive), j # k
       PROVE  archive[j].name # archive[k].name
  <2>1. j - 2 # k - 2 /\ j - 2 \in 1 .. Len(rest) /\ k - 2 \in 1 .. Len(rest)
    BY <1>3, <1>8, <1>13
  <2>2. archive[j].name = rest[j - 2] /\ archive[k].name = rest[k - 2]
    BY <1>9
  <2>3. rest[j - 2] # rest[k - 2]
    BY <1>3, <2>1
  <2> QED
    BY <2>2, <2>3
<1>14. 2 <= Len(archive) /\ \A k \in 1 .. Len(archive) : archive[k].of = i
  BY <1>3, <1>7, <1>8
<1> QED
  BY <1>10, <1>11, <1>12, <1>13, <1>14 DEF S

\* How far execute() is with such a package of image i: what is missing is
\* what it will come across.
Underway(i) ==
  Running /\ archive \in Sign(i) =>
    /\ pos = 0 => left = {}
    /\ pos >= 1 => /\ described = i
                   /\ \A k \in pos + 1 .. Len(archive) :
                        k >= 3 => archive[k].name \in left
    /\ pos >= 2 => verified
    /\ \A p \in left :
         \E k \in pos + 1 .. Len(archive) : k >= 3 /\ archive[k].name = p

InstallInv == SignedInstalls /\ \A i \in Images : Underway(i)

LEMMA InstallNext ==
  ASSUME Split, Inv, InstallInv, [Next]_vars
  PROVE  InstallInv'
<1>0. /\ TypeOK /\ pos \in Nat /\ Len(archive) \in Nat /\ pos <= Len(archive)
      /\ \A i \in Images : /\ PartsOf[i] # {} /\ Desc \notin PartsOf[i]
                           /\ Sig \notin PartsOf[i]
  BY ArchiveFacts, PipelineAssumption DEF Inv, TypeOK, Split
<1>1. CASE Begin \/ Break
  BY <1>1 DEF Begin, Break, InstallInv, Underway, SignedInstalls, Running
<1>2. CASE UNCHANGED vars
  BY <1>2 DEF vars, InstallInv, Underway, SignedInstalls, Running
<1>3. CASE ~(Begin \/ Break \/ UNCHANGED vars)
  <2>1. Running /\ UNCHANGED archive
    BY <1>3 DEF Next, ReadDescription, ReadSignature, OpenChunk, CloseChunk,
                SkipFile, Return, Raise, Reads, Inv, ReadInOrder
  <2>2. ASSUME NEW i \in Images, archive \in Sign(i)
        PROVE  Underway(i)' /\ ~(phase' = "failed" /\ reason' = "refused")
    <3> USE DEF Underway
    <3>1. /\ 2 <= Len(archive)
          /\ archive[1].name = Desc /\ archive[2].name = Sig
          /\ \A k \in 1 .. Len(archive) : archive[k].of = i
          /\ \A k \in 3 .. Len(archive) : archive[k].name \in PartsOf[i]
          /\ \A j, k \in 3 .. Len(archive) :
               j # k => archive[j].name # archive[k].name
          /\ \A p \in PartsOf[i] :
               \E k \in 3 .. Len(archive) : archive[k].name = p
      BY <1>0, <2>2, SignedArchive
    <3>2. Underway(i) /\ ~(phase = "failed" /\ reason = "refused")
          /\ i \in Images /\ i # Junk /\ i # None
      BY <2>1, <2>2, PipelineAssumption, StreamAssumption DEF InstallInv, Running
    <3>3. /\ pos = 0 => left = {}
          /\ pos >= 1 => /\ described = i /\ Listed = PartsOf[i]
                         /\ \A k \in pos + 1 .. Len(archive) :
                              k >= 3 => archive[k].name \in left
          /\ pos >= 2 => verified
          /\ \A p \in left :
               \E k \in pos + 1 .. Len(archive) : k >= 3 /\ archive[k].name = p
      BY <1>0, <2>1, <2>2, <3>2 DEF Listed, ImageEntries
    <3>4. CASE ReadDescription
      <4>1. pos + 1 \in 1 .. Len(archive) /\ archive[pos + 1].name = Desc
            /\ Coming = archive[pos + 1]
        BY <1>0, <3>4, ReadsFacts DEF ReadDescription
      <4>2. pos = 0
        BY <1>0, <3>1, <4>1, NamesDiffer
      <4>3. Coming.of = i /\ ImageEntries(Coming.of) = PartsOf[i] /\ PartsOf[i] # {}
        BY <1>0, <3>1, <4>1 DEF ImageEntries
      <4>4. /\ pos' = 1 /\ described' = i /\ left' = PartsOf[i]
            /\ UNCHANGED <<phase, verified, reason>>
        BY <3>4, <4>2, <4>3 DEF ReadDescription
      <4>5. \A k \in 2 .. Len(archive) : k >= 3 => archive[k].name \in PartsOf[i]
        BY <1>0, <3>1
      <4>6. \A p \in PartsOf[i] :
              \E k \in 2 .. Len(archive) : k >= 3 /\ archive[k].name = p
        BY <1>0, <3>1
      <4> QED
        BY <2>1, <3>2, <4>4, <4>5, <4>6 DEF Running
    <3>5. CASE ReadSignature
      <4>1. pos + 1 \in 1 .. Len(archive) /\ archive[pos + 1].name = Sig
            /\ Coming = archive[pos + 1]
        BY <1>0, <3>5, ReadsFacts DEF ReadSignature
      <4>2. pos = 1
        BY <1>0, <3>1, <4>1, NamesDiffer
      <4>3. Listed # {} /\ Signs(Coming, Entry(Desc, described))
        BY <1>0, <3>1, <3>2, <3>3, <4>1, <4>2 DEF Signs, Entry
      <4>4. /\ pos' = 2 /\ verified' = TRUE /\ phase' = "writing"
            /\ UNCHANGED <<described, left, reason>>
        BY <3>5, <4>2, <4>3 DEF ReadSignature
      <4>5. \A k \in 3 .. Len(archive) : archive[k].name \in left
        BY <1>0, <3>3, <4>2
      <4>6. \A p \in left : \E k \in 3 .. Len(archive) : archive[k].name = p
        BY <1>0, <3>3, <4>2
      <4> QED
        BY <2>1, <3>2, <3>3, <4>2, <4>4, <4>5, <4>6
    <3>6. CASE OpenChunk
      <4>1. Coming.name \in Listed /\ pos + 1 \in 1 .. Len(archive)
            /\ Coming = archive[pos + 1]
        BY <1>0, <3>6, ReadsFacts DEF OpenChunk
      <4>2. pos + 1 # 1 /\ pos + 1 # 2
        BY <1>0, <3>1, <4>1, PartsFacts
      <4>3. verified
        BY <1>0, <3>3, <4>2
      <4>4. UNCHANGED <<pos, phase, described, verified, left, reason>>
        BY <3>6, <4>3 DEF OpenChunk
      <4> QED
        BY <2>1, <3>2, <3>3, <4>4 DEF Running
    <3>7. CASE CloseChunk
      <4>1. /\ open \in Listed /\ Coming.name = open /\ Coming = archive[pos + 1]
            /\ pos + 1 \in 1 .. Len(archive)
        BY <1>0, <3>7 DEF CloseChunk, Inv, ReadInOrder, TypeOK, Coming
      <4>2. pos + 1 # 1 /\ pos + 1 # 2
        BY <1>0, <3>1, <4>1, PartsFacts
      <4>3. pos + 1 >= 3 /\ pos + 1 \in pos + 1 .. Len(archive)
        BY <1>0, <4>1, <4>2
      <4>4. Coming.of = i /\ described = i /\ open \in left /\ verified
        BY <1>0, <3>1, <3>3, <4>1, <4>3
      <4>5. CASE phase' = "failed"
        BY <3>2, <3>7, <4>4, <4>5 DEF CloseChunk, Running, Inv, ReadInOrder
      <4>6. CASE phase' # "failed"
        <5>1. /\ pos' = pos + 1 /\ left' = left \ {open}
              /\ UNCHANGED <<phase, reason, described, verified>>
          BY <3>7, <4>6 DEF CloseChunk
        <5>2. ASSUME NEW k \in pos + 2 .. Len(archive), k >= 3
              PROVE  archive[k].name \in left \ {open}
          <6>1. k \in pos + 1 .. Len(archive) /\ k \in 3 .. Len(archive)
                /\ pos + 1 \in 3 .. Len(archive) /\ k # pos + 1
            BY <1>0, <4>1, <4>3, <5>2
          <6>2. archive[k].name \in left
            BY <3>3, <4>4, <5>2, <6>1, <1>0, <4>1, <4>3
          <6>3. archive[k].name # archive[pos + 1].name
            BY <3>1, <6>1
          <6> QED
            BY <4>1, <6>2, <6>3
        <5>3. ASSUME NEW p \in left \ {open}
              PROVE  \E k \in pos + 2 .. Len(archive) :
                       k >= 3 /\ archive[k].name = p
          <6>1. PICK k \in pos + 1 .. Len(archive) :
                  k >= 3 /\ archive[k].name = p
            BY <3>3
          <6>2. k # pos + 1
            BY <4>1, <6>1
          <6>3. k \in pos + 2 .. Len(archive)
            BY <1>0, <6>1, <6>2
          <6> QED
            BY <6>1, <6>3
        <5>4. pos' + 1 = pos + 2 /\ pos' # 0
          BY <1>0, <5>1
        <5> QED
          BY <2>1, <3>2, <4>4, <5>1, <5>2, <5>3, <5>4
      <4> QED
        BY <4>5, <4>6
    <3>8. CASE SkipFile
      <4>1. /\ Coming.name \notin left \cup {Desc, Sig}
            /\ Coming = archive[pos + 1] /\ pos + 1 \in 1 .. Len(archive)
        BY <1>0, <3>8, ReadsFacts DEF SkipFile
      <4>2. pos + 1 # 1 /\ pos + 1 # 2
        BY <3>1, <4>1
      <4>3. pos >= 1 /\ pos + 1 >= 3 /\ pos + 1 \in pos + 1 .. Len(archive)
        BY <1>0, <4>1, <4>2
      <4> QED
        BY <3>3, <4>1, <4>3
    <3>9. CASE Return
      <4>1. left = {}
        <5>1. CASE pos = Len(archive)
          BY <1>0, <3>3, <5>1
        <5> QED
          BY <3>9, <5>1 DEF Return, LoopEnded
      <4> QED
        BY <3>9, <4>1 DEF Return, Running
    <3> QED
      BY <1>3, <3>4, <3>5, <3>6, <3>7, <3>8, <3>9 DEF Next
  <2>3. ASSUME NEW i \in Images PROVE Underway(i)'
    BY <2>1, <2>2 DEF Underway
  <2> QED
    BY <2>1, <2>2, <2>3 DEF InstallInv, SignedInstalls
<1> QED
  BY <1>1, <1>2, <1>3

(***************************************************************************)
(* SignedInstalls: for images that are split, what sign-package.sh makes   *)
(* of what build-image-package.sh makes is never refused, with any number  *)
(* of chunks, packed in any order.                                         *)
(***************************************************************************)
THEOREM SplitPackagesInstall == Split /\ Spec => []SignedInstalls
<1> SUFFICES ASSUME Split PROVE Spec => []SignedInstalls
  OBVIOUS
<1>1. Init => InstallInv
  BY DEF Init, InstallInv, Underway, SignedInstalls, Running
<1>2. Inv /\ InstallInv /\ [Next]_vars => InstallInv'
  BY InstallNext
<1>3. InstallInv => SignedInstalls
  BY DEF InstallInv
<1> QED
  BY <1>1, <1>2, <1>3, InvHolds, PTL DEF Spec
=============================================================================
