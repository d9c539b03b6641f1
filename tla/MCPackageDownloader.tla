------------------------- MODULE MCPackageDownloader -------------------------
(***************************************************************************)
(* Instances of PackageDownloader for TLC: packages that are each other's  *)
(* beginning or end, two of one length.                                    *)
(***************************************************************************)
EXTENDS PackageDownloader

MCWords == {1, 2}
MCPackages == {<<1>>, <<2, 1>>, <<1, 2>>, <<2, 1, 2>>}
=============================================================================
