----------------------------- MODULE ABInstaller -----------------------------
(***************************************************************************)
(* The A/B partition switch: agent/installer.py, whose RealInstaller.run   *)
(* unpacks a package onto the inactive partition, and the strategies that   *)
(* stream an image onto it instead and then call the same                  *)
(* _switch_boot_partition and _reboot.  Beside the calls, the module has   *)
(* what they work on: the page cache, which a power loss discards, and the *)
(* boot firmware, which follows cmdline.txt.                               *)
(*                                                                         *)
(* An action is a call that may fail or be cut by a power loss; a failure  *)
(* is the exception the call raises, after whatever it had already done.   *)
(***************************************************************************)
CONSTANTS
  Methods,   \* the ways to install: a subset of {"unpack", "stream"}
  Versions,  \* the versions packages carry
  Partial    \* what an unfinished write leaves on a partition

ASSUME MethodsAssumption == Methods \subseteq {"unpack", "stream"}
ASSUME PartialAssumption == Partial \notin Versions

Partitions == {"A", "B"}

\* Not a partition: an empty cmdline.txt, no mount, no boot.
Nothing == "nothing"

VARIABLES
  pc,        \* the step of the installation, "idle" between two
  package,   \* the version being installed
  running,   \* the partition the kernel was booted from (/proc/cmdline)
  image,     \* what each partition holds, as the running system sees it:
             \* the complete image of a version, or Partial
  dirty,     \* partitions with writes that may not be on the disk yet
  cmdline,   \* the partition cmdline.txt names, as the system sees it
  onDisk,    \* what a reader of the disk may find in cmdline.txt
  mounted,   \* the partition mounted at the mount point
  orderly    \* ghost: since the boot every package was unpacked, and none
             \* while cmdline.txt already named the other partition

system == <<running, image, dirty, cmdline, onDisk, mounted, orderly>>
vars == <<pc, package, system>>

Other(p) == IF p = "A" THEN "B" ELSE "A"

\* The boot file decides.
TargetMutant == IF cmdline = "A" THEN "B" ELSE "A"

\* The PARTUUID without its partition suffix.
UnsuffixedMutant == "partuuid"

\* detect_inactive_partition: /proc/cmdline decides, whatever cmdline.txt says.
Target == Other(running)

-----------------------------------------------------------------------------
(* Steps *)

Goto(at, next) == pc = at /\ pc' = next

Fail(at) ==
  /\ Goto(at, "idle")
  /\ UNCHANGED <<package, system>>

(***************************************************************************)
(* RealInstaller.run or _run_update, up to the detection of the target,    *)
(* which raises when the layout is not the expected one.  Nothing looks at *)
(* cmdline.txt, which names the other partition after a switch whose sync  *)
(* or reboot failed.                                                       *)
(***************************************************************************)
Start ==
  /\ running # Nothing
  /\ package' \in Versions
  /\ \E method \in Methods :
       /\ Goto("idle", IF method = "unpack" THEN "mount" ELSE "open")
       /\ orderly' = (orderly /\ method = "unpack" /\ cmdline = running)
  /\ UNCHANGED <<running, image, dirty, cmdline, onDisk, mounted>>

(***************************************************************************)
(* _mount_inactive: what an earlier attempt left mounted is unmounted      *)
(* first.  A full partition raises after the mount, and outside the try    *)
(* block whose finally unmounts.                                           *)
(***************************************************************************)
Mount ==
  \/ Fail("mount")
  \/ /\ Goto("mount", "idle")
     /\ mounted' \in {Nothing, Target}
     /\ UNCHANGED <<package, running, image, dirty, cmdline, onDisk, orderly>>
  \/ /\ Goto("mount", "unpack")
     /\ mounted' = Target
     /\ UNCHANGED <<package, running, image, dirty, cmdline, onDisk, orderly>>

\* A write to partition p that leaves it holding `what'.
Put(p, what) ==
  /\ image' = [image EXCEPT ![p] = what]
  /\ dirty' = dirty \cup {p}
  /\ UNCHANGED <<package, running, cmdline, onDisk, mounted, orderly>>

\* _list_cpio_files and _extract_from_cpio: the tarball, or its parts in
\* order, are found or not; the partition may fill up.
ExtractFromCpio == {"wipe", "releaseFailed"}

\* The tarball is copied next to what the partition holds.
CopyTarball ==
  /\ \E next \in ExtractFromCpio : Goto("unpack", next)
  /\ UNCHANGED <<package, system>>

\* find ... -delete, of everything but the tarball.
Wipe ==
  /\ \E next \in {"untar", "releaseFailed"} : Goto("wipe", next)
  /\ Put(mounted, Partial)

\* tar -xzf, which fails on a truncated tarball.
Untar ==
  /\ \E next \in {"marker", "releaseFailed"} : Goto("untar", next)
  /\ Put(mounted, Partial)

\* The version marker completes the image.
WriteMarker ==
  \/ Goto("marker", "release") /\ Put(mounted, package)
  \/ Goto("marker", "releaseFailed") /\ Put(mounted, Partial)

\* The sync command: everything written so far is on the disk.
Synced == dirty' = {} /\ onDisk' = {cmdline}

\* The finally clause without the exception it ends with.
ReleaseMutant ==
  \/ /\ \E at \in {"release", "releaseFailed"} : Goto(at, "read")
     /\ mounted' = Nothing
     /\ Synced
     /\ UNCHANGED <<package, running, image, cmdline, orderly>>
  \/ Fail("release") \/ Fail("releaseFailed")

\* umount without the sync before it, on a system where it does not wait.
UnsyncedMutant ==
  \/ Fail("release") \/ Fail("releaseFailed")
  \/ /\ Goto("release", "read") \/ Goto("releaseFailed", "idle")
     /\ mounted' = Nothing
     /\ UNCHANGED <<package, running, image, dirty, cmdline, onDisk, orderly>>

(***************************************************************************)
(* The finally clause of run: _unmount (sync, then umount, each of which   *)
(* may fail).  An exception of the try block goes on to the caller.        *)
(***************************************************************************)
Release ==
  \/ Fail("release") \/ Fail("releaseFailed")
  \/ /\ \E at \in {"release", "releaseFailed"} : Goto(at, "idle")
     /\ Synced
     /\ UNCHANGED <<package, running, image, cmdline, mounted, orderly>>
  \/ /\ Goto("release", "read") \/ Goto("releaseFailed", "idle")
     /\ mounted' = Nothing
     /\ Synced
     /\ UNCHANGED <<package, running, image, cmdline, orderly>>

(***************************************************************************)
(* strategy.execute writes the block device as the bytes arrive and leaves *)
(* them to the page cache: it calls neither sync nor fsync.                *)
(***************************************************************************)
Stream ==
  \/ Fail("open")
  \/ Goto("open", "stream") /\ Put(Target, Partial)
  \/ Fail("stream")
  \/ Goto("stream", "read") /\ Put(Target, package)

-----------------------------------------------------------------------------
(* _switch_boot_partition and _reboot *)

(***************************************************************************)
(* cmdline.txt must exist and name the running partition; its backup is    *)
(* written, and read by nothing in the agent.                              *)
(***************************************************************************)
ReadCmdline ==
  \/ Fail("read")
  \/ /\ cmdline = running
     /\ Goto("read", "truncate")
     /\ UNCHANGED <<package, system>>

\* write_text opens the file for writing, which empties it ...
TruncateCmdline ==
  /\ Goto("truncate", "fill")
  /\ cmdline' = Nothing
  /\ onDisk' = onDisk \cup {Nothing}
  /\ UNCHANGED <<package, running, image, dirty, mounted, orderly>>

\* ... and then writes the new text, which may fail.
FillCmdline ==
  \/ Fail("fill")
  \/ /\ Goto("fill", "sync")
     /\ cmdline' = Target
     /\ onDisk' = onDisk \cup {Target}
     /\ UNCHANGED <<package, running, image, dirty, mounted, orderly>>

SyncCmdline ==
  \/ Fail("sync")
  \/ /\ Goto("sync", "reboot")
     /\ Synced
     /\ UNCHANGED <<package, running, image, cmdline, mounted, orderly>>

\* The machine starts with c in cmdline.txt: a root file system that is not
\* complete does not come up, and nothing falls back to the other one.
Boot(c) ==
  /\ pc' = "idle" /\ mounted' = Nothing /\ dirty' = {}
  /\ cmdline' = c /\ onDisk' = {c}
  /\ UNCHANGED package
  /\ running' = IF c \in Partitions /\ image'[c] # Partial THEN c ELSE Nothing
  /\ orderly' = (orderly \/ running' # Nothing)

\* The reboot command fails, or shuts the machine down in order.
Reboot == Fail("reboot") \/ (pc = "reboot" /\ image' = image /\ Boot(cmdline))

\* A write that had not reached the disk is lost, or half done.
PowerLoss ==
  /\ running # Nothing
  /\ \E lost \in SUBSET dirty :
       image' = [p \in Partitions |-> IF p \in lost THEN Partial ELSE image[p]]
  /\ \E c \in onDisk : Boot(c)

-----------------------------------------------------------------------------
(***************************************************************************)
(* The device runs from one partition; what an earlier life left on the    *)
(* other one is anything.                                                  *)
(***************************************************************************)
Init ==
  /\ pc = "idle"
  /\ running \in Partitions
  /\ package \in Versions
  /\ image \in [Partitions -> Versions \cup {Partial}]
  /\ image[running] # Partial
  /\ dirty = {}
  /\ cmdline = running
  /\ onDisk = {running}
  /\ mounted = Nothing
  /\ orderly = TRUE

Install ==
  \/ Mount \/ CopyTarball \/ Wipe \/ Untar \/ WriteMarker \/ Release \/ Stream
  \/ ReadCmdline \/ TruncateCmdline \/ FillCmdline \/ SyncCmdline \/ Reboot

Next == Start \/ Install \/ PowerLoss

Spec == Init /\ [][Next]_vars

-----------------------------------------------------------------------------
Steps == {"idle", "mount", "unpack", "wipe", "untar", "marker", "release",
          "releaseFailed", "open", "stream", "read", "truncate", "fill",
          "sync", "reboot"}

\* The steps between the mount and the end of the try block.
InTry == {"unpack", "wipe", "untar", "marker", "release", "releaseFailed"}

(***************************************************************************)
(* The types; and a device that does not boot installs nothing.            *)
(***************************************************************************)
TypeOK ==
  /\ pc \in Steps
  /\ running \in Partitions \cup {Nothing}
  /\ package \in Versions
  /\ image \in [Partitions -> Versions \cup {Partial}]
  /\ dirty \subseteq Partitions
  /\ cmdline \in Partitions \cup {Nothing}
  /\ onDisk \subseteq Partitions \cup {Nothing}
  /\ cmdline \in onDisk
  /\ mounted \in Partitions \cup {Nothing}
  /\ orderly \in BOOLEAN
  /\ running = Nothing => pc = "idle"

(***************************************************************************)
(* The partition the device runs from is never written, whatever failed,   *)
(* was retried or was cut by a power loss before: it stays complete, is    *)
(* never mounted as the target, and the destructive steps have the target  *)
(* mounted, for without a mount find -delete and tar would work on the     *)
(* running system's own directory (installer.py:82-91, 159-164, 227-238).  *)
(***************************************************************************)
RunningUntouched ==
  running # Nothing =>
    /\ image[running] # Partial
    /\ running \notin dirty
    /\ mounted # running
    /\ pc \in InTry => mounted = Other(running)

(***************************************************************************)
(* The commit comes last: cmdline.txt is changed to name the other         *)
(* partition only when that partition holds the image of this update       *)
(* (installer.py:130-138, agent.py:205-219).                               *)
(***************************************************************************)
CommitAfterImage ==
  [][running' = running /\ cmdline' # cmdline /\ cmdline' = Other(running)
       => image[cmdline'] = package]_vars

(***************************************************************************)
(* "Updates either complete fully or rollback automatically"               *)
(* (ARCHITECTURE.md:11): the partition the device would boot next is       *)
(* complete, whatever step of an update failed.                            *)
(***************************************************************************)
BootTargetComplete == cmdline \in Partitions => image[cmdline] # Partial

(***************************************************************************)
(* A power loss at any moment finds in cmdline.txt no partition whose      *)
(* image is partial, unwritten or mounted (installer.py:134-138, 361-366:  *)
(* sync and umount come before the switch), if packages were unpacked and  *)
(* none was retried after a half-done switch.                              *)
(***************************************************************************)
SwitchDurable ==
  orderly => \A c \in onDisk \cap Partitions :
               image[c] # Partial /\ c \notin dirty /\ c # mounted

(***************************************************************************)
(* "Dual-partition scheme ensures system always has a bootable backup"     *)
(* (ARCHITECTURE.md:10), for the same updates and with one exception: the  *)
(* only way to lose the device is a cmdline.txt cut between its truncation *)
(* and its new text (installer.py:394).                                    *)
(***************************************************************************)
LostOnlyByTornFile == orderly /\ running = Nothing => cmdline = Nothing
=============================================================================
