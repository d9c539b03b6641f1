-------------------------- MODULE MCStreamStrategy --------------------------
(***************************************************************************)
(* Instances of StreamStrategy for TLC: an image of two chunks and one of  *)
(* one chunk, for which the other file is one to skip.                     *)
(***************************************************************************)
EXTENDS StreamStrategy, TLC

CONSTANTS i1, i2

MCImages == {i1, i2}
MCParts == {"part-000", "part-001"}
MCPartsOf == (i1 :> MCParts) @@ (i2 :> {"part-000"})
MCFiles == MCParts \cup {Desc, Sig}

\* A package with its files in any order, some missing, and perhaps a
\* signature of something else.
Shuffled ==
  UNION {{Pack(names, i),
          [k \in DOMAIN names |->
             Entry(names[k], IF names[k] = Sig THEN Junk ELSE i)]} :
           i \in MCImages,
           names \in UNION {SetToSeqs(files) : files \in SUBSET MCFiles}}

\* A complete package with one more file, of any image or of none.
Extended ==
  {SubSeq(a, 1, k) \o <<extra>> \o SubSeq(a, k + 1, Len(a)) :
     a \in {Pack(<<Desc, Sig, "part-000", "part-001">>, i) : i \in MCImages},
     k \in 0 .. 4, extra \in Entries}

\* A package whose description comes again behind the signature, of any
\* image, with the chunks it lists.
Replaced ==
  {Pack(<<Desc, Sig>>, i) \o Pack(<<Desc, "part-000", "part-001">>, j) :
     i, j \in MCImages}

AnyArchives == Shuffled \cup Extended \cup Replaced

\* Those the scripts make.
SignedArchives == UNION {Sign(i) : i \in MCImages}
=============================================================================
