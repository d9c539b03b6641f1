-------------------------- MODULE ABInstallerProofs --------------------------
(***************************************************************************)
(* Theorems about ABInstaller: what every installation leaves alone, and   *)
(* what a power loss may find when each switch is followed by its reboot.  *)
(***************************************************************************)
EXTENDS ABInstaller, TLAPS

LEMMA OtherPartition ==
  \A p \in Partitions : Other(p) \in Partitions /\ Other(p) # p
  BY DEF Partitions, Other

\* The machine starts on a complete partition or not at all.
LEMMA BootSafe ==
  ASSUME TypeOK, NEW c \in onDisk, Boot(c),
         image' \in [Partitions -> Versions \cup {Partial}]
  PROVE  TypeOK' /\ RunningUntouched'
<1>1. c \in Partitions \cup {Nothing}
  BY DEF TypeOK
<1>2. /\ pc' = "idle" /\ mounted' = Nothing /\ dirty' = {}
      /\ cmdline' = c /\ onDisk' = {c} /\ package' = package
      /\ running' = IF c \in Partitions /\ image'[c] # Partial THEN c ELSE Nothing
      /\ orderly' = (orderly \/ running' # Nothing)
  BY DEF Boot
<1>3. TypeOK'
  BY <1>1, <1>2 DEF TypeOK, Steps
<1>4. running' # Nothing => running' \in Partitions /\ image'[running'] # Partial
  BY <1>2
<1>5. Nothing \notin Partitions
  BY DEF Nothing, Partitions
<1>6. RunningUntouched'
  BY <1>2, <1>4, <1>5 DEF RunningUntouched, InTry
<1> QED
  BY <1>3, <1>6

\* The installer writes what is mounted, or what it detected: never the
\* partition the device runs from.
LEMMA PutSafe ==
  ASSUME TypeOK, RunningUntouched, running \in Partitions, NEW p, p = Other(running),
         NEW what \in Versions \cup {Partial}, Put(p, what),
         pc' \in Steps, pc' \in InTry => mounted = p
  PROVE  TypeOK' /\ RunningUntouched'
<1>1. p \in Partitions /\ p # running
  BY OtherPartition
<1>2. /\ image' = [image EXCEPT ![p] = what] /\ dirty' = dirty \cup {p}
      /\ UNCHANGED <<package, running, cmdline, onDisk, mounted, orderly>>
  BY DEF Put
<1>3. TypeOK'
  BY <1>1, <1>2 DEF TypeOK, Nothing, Partitions
<1>4. RunningUntouched'
  BY <1>1, <1>2 DEF TypeOK, RunningUntouched
<1> QED
  BY <1>3, <1>4

LEMMA UntouchedNext ==
  ASSUME TypeOK, RunningUntouched, [Next]_vars
  PROVE  TypeOK' /\ RunningUntouched'
<1> USE DEF Goto
<1>a. pc # "idle" => running \in Partitions
  BY DEF TypeOK
<1>b. pc # "idle" => Target \in Partitions /\ Target # running /\ Target = Other(running)
  BY <1>a, OtherPartition DEF Target
\* A step that leaves the partitions, the mount and the device alone.
<1>c. ASSUME UNCHANGED <<package, running, image, mounted, orderly>>,
             dirty' \subseteq dirty,
             cmdline' \in onDisk', onDisk' \subseteq Partitions \cup {Nothing},
             pc' \in Steps, running = Nothing => pc' = "idle",
             pc' \in InTry => pc \in InTry
      PROVE  TypeOK' /\ RunningUntouched'
  <2>1. TypeOK'
    BY <1>c DEF TypeOK
  <2>2. RunningUntouched'
    BY <1>c DEF RunningUntouched
  <2> QED
    BY <2>1, <2>2
<1>d. ASSUME NEW at, Fail(at) PROVE TypeOK' /\ RunningUntouched'
  BY <1>c, <1>d DEF Fail, system, TypeOK, Steps, InTry
<1>e. ASSUME Synced PROVE /\ dirty' \subseteq dirty
                          /\ UNCHANGED cmdline => cmdline' \in onDisk'
                               /\ onDisk' \subseteq Partitions \cup {Nothing}
  BY <1>e DEF Synced, TypeOK
<1>1. CASE Start
  <2>1. PICK next \in {"mount", "open"} : pc' = next
    BY <1>1 DEF Start
  <2>2. /\ running # Nothing /\ package' \in Versions
        /\ UNCHANGED <<running, image, dirty, cmdline, onDisk, mounted>>
        /\ orderly' \in BOOLEAN
    BY <1>1 DEF Start
  <2>3. TypeOK'
    BY <2>1, <2>2 DEF TypeOK, Steps
  <2>4. RunningUntouched'
    BY <2>1, <2>2 DEF RunningUntouched, InTry
  <2> QED
    BY <2>3, <2>4
<1>2. CASE Mount
  <2>1. CASE Fail("mount")
    BY <2>1, <1>d
  <2>2. CASE ~Fail("mount")
    <3>1. /\ pc = "mount" /\ pc' \in {"idle", "unpack"}
          /\ mounted' \in {Nothing, Target}
          /\ pc' = "unpack" => mounted' = Target
          /\ UNCHANGED <<package, running, image, dirty, cmdline, onDisk, orderly>>
      BY <1>2, <2>2 DEF Mount
    <3>2. TypeOK'
      BY <3>1, <1>b DEF TypeOK, Steps
    <3>3. RunningUntouched'
      BY <3>1, <1>a, <1>b DEF RunningUntouched, InTry, Nothing, Partitions
    <3> QED
      BY <3>2, <3>3
  <2> QED
    BY <2>1, <2>2
<1>3. CASE CopyTarball
  <2>1. /\ pc = "unpack" /\ pc' \in {"wipe", "releaseFailed"}
        /\ UNCHANGED <<package, running, image, dirty, cmdline, onDisk, mounted, orderly>>
    BY <1>3 DEF CopyTarball, ExtractFromCpio, system
  <2> QED
    BY <2>1, <1>c DEF TypeOK, Steps, InTry
<1>4. CASE Wipe \/ Untar \/ WriteMarker
  <2>1. PICK what \in {Partial, package} : Put(mounted, what)
    BY <1>4 DEF Wipe, Untar, WriteMarker
  <2>2. pc \in InTry /\ pc' \in InTry /\ pc' \in Steps /\ pc # "idle"
    BY <1>4 DEF Wipe, Untar, WriteMarker, InTry, Steps
  <2>3. mounted = Other(running)
    BY <2>2, <1>a DEF RunningUntouched, Nothing, Partitions
  <2>4. what \in Versions \cup {Partial}
    BY <2>1 DEF TypeOK
  <2> QED
    BY <2>1, <2>2, <2>3, <2>4, <1>a, PutSafe
<1>5. CASE Release
  <2>1. CASE Fail("release") \/ Fail("releaseFailed")
    BY <2>1, <1>d
  <2>2. CASE ~(Fail("release") \/ Fail("releaseFailed"))
    <3>1. /\ pc \in {"release", "releaseFailed"} /\ pc' \in {"idle", "read"}
          /\ Synced /\ mounted' \in {mounted, Nothing}
          /\ UNCHANGED <<package, running, image, cmdline, orderly>>
      BY <1>5, <2>2 DEF Release
    <3>2. /\ dirty' \subseteq dirty /\ cmdline' \in onDisk'
          /\ onDisk' \subseteq Partitions \cup {Nothing}
      BY <3>1, <1>e
    <3>3. TypeOK'
      BY <3>1, <3>2, <1>a DEF TypeOK, Steps
    <3>4. RunningUntouched'
      BY <3>1, <3>2, <1>a DEF RunningUntouched, InTry, Nothing, Partitions
    <3> QED
      BY <3>3, <3>4
  <2> QED
    BY <2>1, <2>2
<1>6. CASE Stream
  <2>1. CASE Fail("open") \/ Fail("stream")
    BY <2>1, <1>d
  <2>2. CASE ~(Fail("open") \/ Fail("stream"))
    <3>1. PICK what \in {Partial, package} : Put(Target, what)
      BY <1>6, <2>2 DEF Stream
    <3>2. pc # "idle" /\ pc' \in {"stream", "read"}
      BY <1>6, <2>2 DEF Stream
    <3>3. what \in Versions \cup {Partial}
      BY <3>1 DEF TypeOK
    <3>4. pc' \in Steps /\ pc' \notin InTry
      BY <3>2 DEF Steps, InTry
    <3> QED
      BY <3>1, <3>2, <3>3, <3>4, <1>a, <1>b, PutSafe
  <2> QED
    BY <2>1, <2>2
<1>7. CASE ReadCmdline
  <2>1. CASE Fail("read")
    BY <2>1, <1>d
  <2>2. CASE ~Fail("read")
    BY <1>7, <2>2, <1>c DEF ReadCmdline, system, TypeOK, Steps, InTry
  <2> QED
    BY <2>1, <2>2
<1>8. CASE TruncateCmdline
  BY <1>8, <1>a, <1>c DEF TruncateCmdline, TypeOK, Steps, InTry, Nothing, Partitions
<1>9. CASE FillCmdline
  <2>1. CASE Fail("fill")
    BY <2>1, <1>d
  <2>2. CASE ~Fail("fill")
    <3>1. /\ pc = "fill" /\ pc' = "sync"
          /\ cmdline' = Target /\ onDisk' = onDisk \cup {Target}
          /\ UNCHANGED <<package, running, image, dirty, mounted, orderly>>
      BY <1>9, <2>2 DEF FillCmdline
    <3> QED
      BY <3>1, <1>a, <1>b, <1>c DEF TypeOK, Steps, InTry, Nothing, Partitions
  <2> QED
    BY <2>1, <2>2
<1>10. CASE SyncCmdline
  <2>1. CASE Fail("sync")
    BY <2>1, <1>d
  <2>2. CASE ~Fail("sync")
    <3>1. /\ pc = "sync" /\ pc' = "reboot" /\ Synced
          /\ UNCHANGED <<package, running, image, cmdline, mounted, orderly>>
      BY <1>10, <2>2 DEF SyncCmdline
    <3> QED
      BY <3>1, <1>a, <1>c, <1>e DEF Steps, InTry, Nothing, Partitions
  <2> QED
    BY <2>1, <2>2
<1>11. CASE Reboot
  <2>1. CASE Fail("reboot")
    BY <2>1, <1>d
  <2>2. CASE ~Fail("reboot")
    <3>1. image' = image /\ Boot(cmdline) /\ cmdline \in onDisk
      BY <1>11, <2>2 DEF Reboot, TypeOK
    <3> QED
      BY <3>1, BootSafe DEF TypeOK
  <2> QED
    BY <2>1, <2>2
<1>12. CASE PowerLoss
  <2>1. image' \in [Partitions -> Versions \cup {Partial}]
    BY <1>12 DEF PowerLoss, TypeOK
  <2>2. PICK c \in onDisk : Boot(c)
    BY <1>12 DEF PowerLoss
  <2> QED
    BY <2>1, <2>2, BootSafe
<1>13. CASE UNCHANGED vars
  BY <1>13, <1>c DEF vars, system, TypeOK
<1> QED
  BY <1>1, <1>2, <1>3, <1>4, <1>5, <1>6, <1>7, <1>8, <1>9, <1>10, <1>11, <1>12,
     <1>13 DEF Next, Install

LEMMA UntouchedInit == Init => TypeOK /\ RunningUntouched
  BY DEF Init, TypeOK, RunningUntouched, Steps, InTry, Nothing, Partitions

\* The two hold together in every state: each needs the other.
LEMMA UntouchedHolds == Spec => [](TypeOK /\ RunningUntouched)
<1>1. TypeOK /\ RunningUntouched /\ [Next]_vars => TypeOK' /\ RunningUntouched'
  BY UntouchedNext
<1> QED
  BY <1>1, UntouchedInit, PTL DEF Spec

(***************************************************************************)
(* TypeOK; among it that only a device that came up installs, and that     *)
(* what the system sees in cmdline.txt is among what the disk may have.    *)
(***************************************************************************)
THEOREM TypeCorrect == Spec => []TypeOK
<1>1. TypeOK /\ RunningUntouched => TypeOK
  OBVIOUS
<1> QED
  BY <1>1, UntouchedHolds, PTL

(***************************************************************************)
(* RunningUntouched: with either way to install, any order of failures,    *)
(* retries and power losses, and a boot file in any state, the partition   *)
(* the device runs from is never written.                                  *)
(***************************************************************************)
THEOREM NeverTouchesRunning == Spec => []RunningUntouched
<1>1. TypeOK /\ RunningUntouched => RunningUntouched
  OBVIOUS
<1> QED
  BY <1>1, UntouchedHolds, PTL

-----------------------------------------------------------------------------
\* The image of the other partition is on the disk, and nothing uses it.
Settled(p) == image[p] # Partial /\ p \notin dirty /\ mounted # p

Before == {"mount", "read", "truncate"} \cup InTry
After == {"read", "truncate", "fill", "sync", "reboot"}

(***************************************************************************)
(* What holds while packages are unpacked and none is retried after a      *)
(* half-done switch.  Until the switch cmdline.txt names the running       *)
(* partition; from the release of the mount on, the other partition is     *)
(* settled; and the disk may name the other partition only once the system *)
(* sees it named there.                                                    *)
(***************************************************************************)
SwitchInv ==
  /\ pc \notin {"open", "stream"}
  /\ pc \in Before => cmdline = running
  /\ pc = "fill" => cmdline = Nothing
  /\ pc = "release" => image[Other(running)] # Partial
  /\ running # Nothing /\ pc \in After => Settled(Other(running))
  /\ running # Nothing /\ Other(running) \in onDisk =>
       cmdline = Other(running) /\ Settled(Other(running))
  /\ running = Nothing => onDisk = {Nothing}

LEMMA BootSwitch ==
  ASSUME TypeOK, RunningUntouched, SwitchInv, NEW c \in onDisk, Boot(c),
         NEW lost \in SUBSET dirty, running # Nothing,
         image' = [p \in Partitions |-> IF p \in lost THEN Partial ELSE image[p]]
  PROVE  SwitchInv'
<1>1. /\ pc' = "idle" /\ cmdline' = c /\ onDisk' = {c}
      /\ running' = IF c \in Partitions /\ image'[c] # Partial THEN c ELSE Nothing
  BY DEF Boot
<1>2. running \in Partitions /\ (c \in Partitions => c = running \/ c = Other(running))
  BY DEF TypeOK, Partitions, Other
<1>3. c \in Partitions => image[c] # Partial /\ c \notin dirty
  BY <1>2 DEF RunningUntouched, SwitchInv, Settled
<1>4. c \in Partitions => image'[c] # Partial
  BY <1>3
<1>5. c \in Partitions => running' = c
  BY <1>1, <1>4
<1>6. c \notin Partitions => c = Nothing /\ running' = Nothing
  BY <1>1 DEF TypeOK
<1>7. running' # Nothing => Other(running') # c
  BY <1>5, <1>6, OtherPartition
<1> QED
  BY <1>1, <1>5, <1>6, <1>7 DEF SwitchInv, Before, After, InTry, Nothing, Partitions

\* A machine that comes up runs what cmdline.txt names, with nothing unwritten.
LEMMA BootSettles ==
  ASSUME TypeOK, NEW c \in onDisk, Boot(c), running' # Nothing
  PROVE  SwitchInv'
<1>1. /\ pc' = "idle" /\ cmdline' = c /\ onDisk' = {c} /\ running' = c
      /\ c \in Partitions
  BY DEF Boot
<1>2. Other(running') # c
  BY <1>1, OtherPartition
<1> QED
  BY <1>1, <1>2 DEF SwitchInv, Before, After, InTry

LEMMA SwitchNext ==
  ASSUME TypeOK, RunningUntouched, orderly => SwitchInv, [Next]_vars, orderly'
  PROVE  SwitchInv'
<1> USE DEF Goto
<1>0. CASE ~orderly
  <2>1. PICK c \in onDisk : Boot(c) /\ running' # Nothing
    BY <1>0 DEF Next, Install, Start, Mount, CopyTarball, Wipe, Untar, WriteMarker,
         Release, Stream, ReadCmdline, TruncateCmdline, FillCmdline, SyncCmdline,
         Reboot, PowerLoss, Boot, Fail, Put, system, vars, TypeOK
  <2> QED
    BY <2>1, BootSettles
<1> SUFFICES ASSUME orderly, SwitchInv PROVE SwitchInv'
  BY <1>0
<1>a. pc # "idle" => /\ running \in Partitions /\ running # Nothing
                     /\ Target = Other(running) /\ Other(running) # running
                     /\ Other(running) # Nothing
  BY OtherPartition DEF TypeOK, Target, Nothing, Partitions
\* A step that ends the installation and writes nothing.
<1>c. ASSUME UNCHANGED <<running, image, cmdline, onDisk>>, dirty' \subseteq dirty,
             mounted' \in {mounted, Nothing}, pc' = "idle"
      PROVE  SwitchInv'
  BY <1>c, OtherPartition
     DEF SwitchInv, Settled, Before, After, InTry, Nothing, Partitions, TypeOK
<1>d. ASSUME NEW at, Fail(at) PROVE SwitchInv'
  BY <1>d, <1>c DEF Fail, system
<1>1. CASE Start
  <2>1. /\ pc' = "mount" /\ running # Nothing /\ cmdline = running
        /\ UNCHANGED <<running, image, dirty, cmdline, onDisk, mounted>>
    BY <1>1 DEF Start
  <2> QED
    BY <2>1 DEF SwitchInv, Settled, Before, After, InTry
<1>2. CASE Mount
  <2>1. CASE Fail("mount")
    BY <2>1, <1>d
  <2>2. CASE ~Fail("mount")
    <3>1. /\ pc = "mount" /\ pc' \in {"idle", "unpack"}
          /\ UNCHANGED <<running, image, dirty, cmdline, onDisk>>
      BY <1>2, <2>2 DEF Mount
    <3>2. cmdline = running /\ Other(running) \notin onDisk
      BY <3>1, <1>a DEF SwitchInv, Before
    <3> QED
      BY <3>1, <3>2, <1>a DEF SwitchInv, Before, After, InTry
  <2> QED
    BY <2>1, <2>2
<1>3. ASSUME pc \in InTry, pc' \in InTry, UNCHANGED <<running, cmdline, onDisk>>,
             pc' = "release" => image'[Other(running)] # Partial
      PROVE  SwitchInv'
  <2>1. cmdline = running /\ Other(running) \notin onDisk
    BY <1>3, <1>a DEF SwitchInv, Before, InTry
  <2> QED
    BY <1>3, <2>1, <1>a DEF SwitchInv, Before, After, InTry
<1>4. CASE CopyTarball
  BY <1>4, <1>3 DEF CopyTarball, ExtractFromCpio, system, InTry
<1>5. CASE Wipe \/ Untar
  BY <1>5, <1>3 DEF Wipe, Untar, Put, InTry
<1>6. CASE WriteMarker
  <2>1. mounted = Other(running) /\ mounted \in Partitions
    BY <1>6, <1>a, OtherPartition DEF WriteMarker, RunningUntouched, InTry
  <2>2. pc' = "release" => image'[mounted] = package
    BY <1>6, <2>1 DEF WriteMarker, Put, TypeOK
  <2>3. package # Partial
    BY PartialAssumption DEF TypeOK
  <2> QED
    BY <1>6, <1>3, <2>1, <2>2, <2>3 DEF WriteMarker, Put, InTry
<1>7. CASE Release
  <2>1. CASE pc' = "idle"
    <3>1. \/ Fail("release") \/ Fail("releaseFailed")
          \/ /\ Synced /\ mounted' \in {mounted, Nothing}
             /\ pc # "idle" /\ pc \in Before
             /\ UNCHANGED <<running, image, cmdline>>
      BY <1>7 DEF Release, Before, InTry
    <3>2. ASSUME Synced, mounted' \in {mounted, Nothing}, pc # "idle", pc \in Before,
                 UNCHANGED <<running, image, cmdline>>
          PROVE  SwitchInv'
      <4>1. cmdline = running /\ onDisk' = {running}
        BY <3>2 DEF SwitchInv, Synced
      <4> QED
        BY <2>1, <3>2, <4>1, <1>a DEF SwitchInv, Before, After, InTry
    <3> QED
      BY <3>1, <3>2, <1>d
  <2>2. CASE pc' # "idle"
    <3>1. /\ pc = "release" /\ pc' = "read" /\ mounted' = Nothing /\ Synced
          /\ UNCHANGED <<running, image, cmdline>>
      BY <1>7, <2>2 DEF Release, Fail
    <3>2. cmdline = running /\ onDisk' = {running} /\ dirty' = {}
      BY <3>1 DEF SwitchInv, Synced, Before, InTry
    <3>3. Settled(Other(running))'
      BY <3>1, <3>2, <1>a DEF SwitchInv, Settled
    <3> QED
      BY <3>1, <3>2, <3>3, <1>a DEF SwitchInv, Before, After, InTry
  <2> QED
    BY <2>1, <2>2
<1>8. CASE Stream
  BY <1>8 DEF Stream, Fail, SwitchInv
<1>9. CASE ReadCmdline
  <2>1. CASE Fail("read")
    BY <2>1, <1>d
  <2>2. CASE ~Fail("read")
    BY <1>9, <2>2 DEF ReadCmdline, system, SwitchInv, Settled, Before, After, InTry
  <2> QED
    BY <2>1, <2>2
<1>10. CASE TruncateCmdline
  <2>1. /\ pc = "truncate" /\ pc' = "fill" /\ cmdline' = Nothing
        /\ onDisk' = onDisk \cup {Nothing}
        /\ UNCHANGED <<running, image, dirty, mounted>>
    BY <1>10 DEF TruncateCmdline
  <2>2. Other(running) \notin onDisk'
    BY <2>1, <1>a DEF SwitchInv, Before
  <2> QED
    BY <2>1, <2>2, <1>a DEF SwitchInv, Settled, Before, After, InTry
<1>11. CASE FillCmdline
  <2>1. CASE Fail("fill")
    BY <2>1, <1>d
  <2>2. CASE ~Fail("fill")
    <3>1. /\ pc = "fill" /\ pc' = "sync"
          /\ cmdline' = Target /\ onDisk' = onDisk \cup {Target}
          /\ UNCHANGED <<running, image, dirty, mounted>>
      BY <1>11, <2>2 DEF FillCmdline
    <3> QED
      BY <3>1, <1>a DEF SwitchInv, Settled, Before, After, InTry
  <2> QED
    BY <2>1, <2>2
<1>12. CASE SyncCmdline
  <2>1. CASE Fail("sync")
    BY <2>1, <1>d
  <2>2. CASE ~Fail("sync")
    <3>1. /\ pc = "sync" /\ pc' = "reboot" /\ dirty' = {} /\ onDisk' = {cmdline}
          /\ UNCHANGED <<running, image, cmdline, mounted>>
      BY <1>12, <2>2 DEF SyncCmdline, Synced
    <3> QED
      BY <3>1, <1>a DEF SwitchInv, Settled, Before, After, InTry
  <2> QED
    BY <2>1, <2>2
<1>13. CASE Reboot
  <2>1. CASE Fail("reboot")
    BY <2>1, <1>d
  <2>2. CASE ~Fail("reboot")
    <3>1. image' = image /\ Boot(cmdline) /\ cmdline \in onDisk /\ running # Nothing
      BY <1>13, <2>2, <1>a DEF Reboot, TypeOK
    <3>2. image' = [p \in Partitions |-> IF p \in {} THEN Partial ELSE image[p]]
      BY <3>1 DEF TypeOK
    <3>3. {} \in SUBSET dirty
      OBVIOUS
    <3> QED
      BY <3>1, <3>2, <3>3, BootSwitch
  <2> QED
    BY <2>1, <2>2
<1>14. CASE PowerLoss
  <2>1. PICK lost \in SUBSET dirty :
               image' = [p \in Partitions |-> IF p \in lost THEN Partial ELSE image[p]]
    BY <1>14 DEF PowerLoss
  <2>2. PICK c \in onDisk : Boot(c)
    BY <1>14 DEF PowerLoss
  <2>3. running # Nothing
    BY <1>14 DEF PowerLoss
  <2> QED
    BY <2>1, <2>2, <2>3, BootSwitch
<1>15. CASE UNCHANGED vars
  BY <1>15 DEF vars, system, SwitchInv, Settled
<1> QED
  BY <1>1, <1>2, <1>4, <1>5, <1>6, <1>7, <1>8, <1>9, <1>10, <1>11, <1>12, <1>13,
     <1>14, <1>15 DEF Next, Install

LEMMA SwitchHolds == Spec => [](TypeOK /\ RunningUntouched /\ (orderly => SwitchInv))
<1>1. Init => (orderly => SwitchInv)
  BY OtherPartition DEF Init, SwitchInv, Before, After, InTry, Nothing, Partitions
<1>2. ASSUME TypeOK /\ RunningUntouched /\ (orderly => SwitchInv) /\ [Next]_vars
      PROVE  (orderly => SwitchInv)'
  BY <1>2, SwitchNext
<1> QED
  BY <1>1, <1>2, UntouchedHolds, PTL DEF Spec

(***************************************************************************)
(* SwitchDurable: while packages are unpacked and none is retried after a  *)
(* half-done switch, a power loss at any moment finds no partition named   *)
(* in cmdline.txt that is partial, unwritten or mounted.                   *)
(***************************************************************************)
THEOREM SwitchIsDurable == Spec => []SwitchDurable
<1>1. TypeOK /\ RunningUntouched /\ (orderly => SwitchInv) => SwitchDurable
  <2> SUFFICES ASSUME TypeOK, RunningUntouched, SwitchInv,
                      NEW c \in onDisk \cap Partitions
               PROVE  Settled(c)
    BY DEF SwitchDurable, Settled
  <2>1. running \in Partitions /\ (c = running \/ c = Other(running))
    BY DEF TypeOK, SwitchInv, Partitions, Other, Nothing
  <2> QED
    BY <2>1 DEF RunningUntouched, SwitchInv, Settled, Nothing, Partitions
<1> QED
  BY <1>1, SwitchHolds, PTL

(***************************************************************************)
(* LostOnlyByTornFile: for the same updates the device is lost only by a   *)
(* cmdline.txt cut between its truncation and its new text.                *)
(***************************************************************************)
THEOREM LostByTornFile == Spec => []LostOnlyByTornFile
<1>1. TypeOK /\ RunningUntouched /\ (orderly => SwitchInv) => LostOnlyByTornFile
  BY DEF TypeOK, SwitchInv, LostOnlyByTornFile
<1> QED
  BY <1>1, SwitchHolds, PTL

-----------------------------------------------------------------------------
\* The steps at which the other partition has the whole image of this update.
Complete == {"release", "read", "truncate", "fill", "sync", "reboot"}

ImageInv == pc \in Complete => image[Other(running)] = package

LEMMA ImageNext ==
  ASSUME TypeOK, RunningUntouched, ImageInv, [Next]_vars
  PROVE  ImageInv'
<1> USE DEF ImageInv, Complete, Goto
<1>a. pc # "idle" => /\ running \in Partitions
                     /\ Other(running) \in Partitions
                     /\ Target = Other(running)
  BY OtherPartition DEF TypeOK, Target
\* No step to Complete but from it, and nothing written.
<1>b. ASSUME UNCHANGED <<running, image, package>>, pc' \in Complete => pc \in Complete
      PROVE  ImageInv'
  BY <1>b
<1>c. ASSUME pc' \notin Complete PROVE ImageInv'
  BY <1>c
<1>1. CASE Start \/ Mount \/ CopyTarball \/ Wipe \/ Untar
  BY <1>1, <1>c DEF Start, Mount, CopyTarball, Wipe, Untar, Fail, ExtractFromCpio
<1>2. CASE WriteMarker
  <2>1. CASE pc' = "releaseFailed"
    BY <2>1, <1>c
  <2>2. CASE pc' # "releaseFailed"
    <3>1. pc = "marker" /\ Put(mounted, package)
      BY <1>2, <2>2 DEF WriteMarker
    <3>2. mounted = Other(running)
      BY <3>1, <1>a DEF RunningUntouched, InTry, Nothing, Partitions
    <3> QED
      BY <3>1, <3>2, <1>a DEF Put, TypeOK
  <2> QED
    BY <2>1, <2>2
<1>3. CASE Stream
  <2>1. CASE pc' \in {"idle", "stream"}
    BY <2>1, <1>c
  <2>2. CASE pc' \notin {"idle", "stream"}
    <3>1. pc = "stream" /\ Put(Target, package)
      BY <1>3, <2>2 DEF Stream, Fail
    <3> QED
      BY <3>1, <1>a DEF Put, TypeOK
  <2> QED
    BY <2>1, <2>2
<1>4. CASE Release \/ ReadCmdline \/ TruncateCmdline \/ FillCmdline \/ SyncCmdline
  <2>1. UNCHANGED <<running, image, package>> /\ (pc' \in Complete => pc \in Complete)
    BY <1>4 DEF Release, ReadCmdline, TruncateCmdline, FillCmdline, SyncCmdline,
         Fail, system
  <2> QED
    BY <2>1, <1>b
<1>5. CASE Reboot \/ PowerLoss
  BY <1>5, <1>c DEF Reboot, PowerLoss, Boot, Fail
<1>6. CASE UNCHANGED vars
  BY <1>6, <1>b DEF vars, system
<1> QED
  BY <1>1, <1>2, <1>3, <1>4, <1>5, <1>6 DEF Next, Install

(***************************************************************************)
(* CommitAfterImage: with either way to install, after any failures,       *)
(* retries and power losses, cmdline.txt is changed to name the other      *)
(* partition only when that has the whole image of this update.            *)
(***************************************************************************)
THEOREM CommitComesLast == Spec => CommitAfterImage
<1> DEFINE Step == running' = running /\ cmdline' # cmdline
                     /\ cmdline' = Other(running) => image[cmdline'] = package
<1>1. Init => ImageInv
  BY DEF Init, ImageInv, Complete
<1>2. TypeOK /\ RunningUntouched /\ ImageInv /\ [Next]_vars => ImageInv'
  BY ImageNext
<1>3. TypeOK /\ ImageInv /\ [Next]_vars => [Step]_vars
  <2> SUFFICES ASSUME TypeOK, ImageInv, [Next]_vars, running' = running,
                      cmdline' # cmdline, cmdline' = Other(running)
               PROVE  image[cmdline'] = package
    OBVIOUS
  <2>0. cmdline' \in Partitions /\ cmdline' # running
    <3>1. cmdline' \in Partitions
      BY DEF Other, Partitions
    <3>2. running \in Partitions => Other(running) # running
      BY OtherPartition
    <3> QED
      BY <3>1, <3>2 DEF TypeOK, Nothing, Partitions
  <2>1. ASSUME NEW c, Boot(c), running # Nothing PROVE FALSE
    <3>1. running' \in {cmdline', Nothing}
      BY <2>1 DEF Boot
    <3> QED
      BY <3>1, <2>0, <2>1
  <2>2. FillCmdline
    <3>1. ~PowerLoss
      BY <2>1 DEF PowerLoss
    <3>2. ~Reboot
      BY <2>1 DEF Reboot, Fail, system, TypeOK
    <3>3. ~TruncateCmdline
      BY <2>0 DEF TruncateCmdline, Nothing, Partitions
    <3>4. ~(Start \/ Mount \/ CopyTarball \/ Wipe \/ Untar \/ WriteMarker
            \/ Release \/ Stream \/ ReadCmdline \/ SyncCmdline)
      BY DEF Start, Mount, CopyTarball, Wipe, Untar, WriteMarker, Release,
             Stream, ReadCmdline, SyncCmdline, Put, Fail, Goto, system
    <3>5. ~UNCHANGED vars
      BY DEF vars, system
    <3> QED
      BY <3>1, <3>2, <3>3, <3>4, <3>5 DEF Next, Install
  <2>3. pc = "fill"
    BY <2>2 DEF FillCmdline, Fail, Goto
  <2> QED
    BY <2>3 DEF ImageInv, Complete
<1> QED
  BY <1>1, <1>2, <1>3, UntouchedHolds, PTL DEF Spec, CommitAfterImage
=============================================================================
