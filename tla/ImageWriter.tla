----------------------------- MODULE ImageWriter -----------------------------
(***************************************************************************)
(* What OTAAgent._run_update relies on when it calls strategy.execute():   *)
(* nothing is written while the package is being checked, and if what the  *)
(* call fetches is laid out as the publisher does it, a call that returns  *)
(* leaves the whole image that was checked on the partition.               *)
(* MerkleStrategy and StreamStrategy are shown to implement this module,   *)
(* each with the layout its code takes on trust.                           *)
(***************************************************************************)
CONSTANT Holds(_, _)   \* Holds(dev, image): dev has all the parts of image

VARIABLES
  phase,   \* "idle", "checking", "writing", "ok" or "failed"
  image,   \* what this call is to install
  proper,  \* what this call fetches is laid out as the publisher does it
  dev      \* the partition

vars == <<phase, image, proper, dev>>

Init == phase = "idle"

Begin ==
  /\ phase \in {"idle", "ok", "failed"}
  /\ phase' \in {"checking", "failed"}
  /\ UNCHANGED dev

\* Something of the package was read, and nothing checked yet.
Learn ==
  /\ phase = "checking"
  /\ UNCHANGED <<phase, proper, dev>>

\* The signature checked out.
Trust ==
  /\ phase = "checking"
  /\ phase' = "writing"
  /\ UNCHANGED <<image, proper, dev>>

\* From then on it is the image that was checked that is written.
Write ==
  /\ phase = "writing"
  /\ proper => UNCHANGED image
  /\ UNCHANGED <<phase, proper>>

Return ==
  /\ phase \in {"checking", "writing"}
  /\ proper => phase = "writing" /\ Holds(dev, image)
  /\ phase' = "ok"
  /\ UNCHANGED <<image, proper, dev>>

Refuse ==
  /\ phase = "checking"
  /\ phase' = "failed"
  /\ UNCHANGED <<image, proper, dev>>

\* A write that fails may leave part of its data.
Raise ==
  /\ phase = "writing"
  /\ phase' = "failed"
  /\ UNCHANGED <<image, proper>>

Next == Begin \/ Learn \/ Trust \/ Write \/ Return \/ Refuse \/ Raise

Spec == Init /\ [][Next]_vars
=============================================================================
