---------------------------- MODULE UpdateService ----------------------------
(***************************************************************************)
(* What the agent promises to the fleet's backend: it runs one update at a *)
(* time, never installs the version the device already runs, and changes   *)
(* its version only to the one of the update under way.  OTAAgent is shown  *)
(* to implement this module (OTAAgent!Service).                            *)
(***************************************************************************)
CONSTANTS Notifications, VersionOf, Versions, None

VARIABLES
  update,    \* the notification of the update under way, or None
  version    \* the version the device runs

Init == update = None /\ version \in Versions

Begin(m) ==
  /\ update = None
  /\ VersionOf[m] # version
  /\ update' = m
  /\ UNCHANGED version

Install ==
  /\ update # None
  /\ version' = VersionOf[update]
  /\ UNCHANGED update

\* With or without Install before it: an update may fail.
End ==
  /\ update # None
  /\ update' = None
  /\ UNCHANGED version

\* A restart forgets the update and takes the version it is configured with.
Restart == update' = None /\ version' \in Versions

Next == (\E m \in Notifications : Begin(m)) \/ Install \/ End \/ Restart

Spec == Init /\ [][Next]_<<update, version>>

\* No update lasts for ever.
FairSpec == Spec /\ WF_<<update, version>>(End)
=============================================================================
