--------------------------- MODULE PackageVerifier ---------------------------
(***************************************************************************)
(* agent/verifier.py, PackageVerifier: the check of a package that was     *)
(* downloaded as a file.  The agent makes a verifier for its public key    *)
(* alone; the strategies check the package themselves.                     *)
(***************************************************************************)
EXTENDS PackagePipeline

\* No file of that name at the places in set.
Lacks(archive, name, set) == \A k \in set : archive[k].name # name

(***************************************************************************)
(* _extract_from_cpio returns the files at d and s: a later file replaces  *)
(* an earlier one of its name, and the loop ends with the first that makes *)
(* the pair complete, whichever of the two it is.                          *)
(***************************************************************************)
Extracted(archive, d, s) ==
  /\ archive[d].name = Desc
  /\ archive[s].name = Sig
  /\ d < s => /\ Lacks(archive, Sig, 1 .. s - 1)
              /\ Lacks(archive, Desc, d + 1 .. s)
  /\ s < d => /\ Lacks(archive, Desc, 1 .. d - 1)
              /\ Lacks(archive, Sig, s + 1 .. d)

\* verify accepts the description at d.
Verifies(archive, d) ==
  \E s \in DOMAIN archive :
    Extracted(archive, d, s) /\ Signs(archive[s], archive[d])
=============================================================================
