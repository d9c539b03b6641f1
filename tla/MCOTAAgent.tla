----------------------------- MODULE MCOTAAgent -----------------------------
(***************************************************************************)
(* Instances of OTAAgent for TLC: two versions, and one notification of    *)
(* each kind the handler and the thread tell apart.                        *)
(***************************************************************************)
EXTENDS OTAAgent, TLC

CONSTANTS v1, v2,
          m1, m2,       \* complete and compatible, for v1 and v2
          wrongModel    \* for other hardware

MCVersions == {v1, v2}
MCNotifications == {m1, m2, wrongModel}
MCVersionOf == (m1 :> v1) @@ (m2 :> v2) @@ (wrongModel :> v2)
MCCompatible == {m1, m2}

\* The two good notifications only.
GoodNotifications == {m1, m2}
GoodVersionOf == (m1 :> v1) @@ (m2 :> v2)

Symmetry == Permutations(Threads)
=============================================================================
