------------------------ MODULE OTAAgentRestProofs ------------------------
(***************************************************************************)
(* Theorems about OTAAgent at the switch and between updates, for the same *)
(* sets and tables as those of OTAAgentProofs.                             *)
(***************************************************************************)
EXTENDS OTAAgentProofs

\* From the moment the partition is opened to the switch.
Near == {"write", "written", "tellInstalling", "switch"}

Versioned == <<configVersion, reporterVersion>>

\* The threads under a step of the paho thread: one may start.
LEMMA PahoPath ==
  ASSUME TypeOK, Paho
  PROVE  /\ \A u \in Threads : pc'[u] \in {pc[u], "started"}
         /\ \A u \in Threads : pc[u] # "none" => pc'[u] = pc[u] /\ job'[u] = job[u]
         /\ UNCHANGED <<Versioned, cmdline, status, writer>>
<1> USE DEF TypeOK, threadVars, otherVars, Versioned
<1>1. CASE (\E m \in Notifications : Receive(m)) \/ CheckPackage
  BY <1>1 DEF Receive, CheckPackage
<1>2. CASE StartThread
  BY <1>2 DEF StartThread, Alive
<1> QED
  BY <1>1, <1>2 DEF Paho

\* How the partition goes from thread to thread.
WriterPath(t) ==
  /\ \A u \in Threads \ {t} : pc'[u] = pc[u]
  /\ pc'[t] \in Near =>
       \/ /\ pc[t] = "detect"
          /\ writer' = IF \E u \in Threads : pc[u] = "write" THEN None ELSE t
       \/ pc[t] \in Near /\ writer' = writer
  /\ writer' = writer \/ writer = t \/ pc'[t] \in Near
  /\ cmdline' # cmdline => pc[t] = "switch"

LEMMA ThreadWriter ==
  ASSUME TypeOK, NEW t \in Threads, Update(t) \/ Progress(t)
  PROVE  WriterPath(t)
<1> USE DEF TypeOK, otherVars, Advance, Write, Near, WriterPath
<1>1. CASE BeginDownload(t)
  BY <1>1 DEF BeginDownload, Transition, Publish
<1>2. CASE Detect(t)
  BY <1>2 DEF Detect, Go
<1>3. CASE Execute(t)
  BY <1>3 DEF Execute, Go
<1>4. CASE Progress(t)
  BY <1>4 DEF Progress, Publish
<1>5. CASE BeginInstall(t)
  BY <1>5 DEF BeginInstall, Transition, Publish
<1>6. CASE SwitchBoot(t)
  BY <1>6 DEF SwitchBoot, Go
<1>7. CASE Reboot(t)
  BY <1>7 DEF Reboot, Go
<1>8. CASE BeginSuccess(t)
  BY <1>8 DEF BeginSuccess, Transition, Publish
<1>9. CASE AdoptReporter(t) \/ AdoptConfig(t)
  BY <1>9 DEF AdoptReporter, AdoptConfig
<1>10. CASE Fail(t)
  BY <1>10 DEF Fail, Transition, Publish
<1>11. CASE Finish(t)
  BY <1>11 DEF Finish, Transition, Publish
<1>12. CASE Clear(t)
  BY <1>12 DEF Clear
<1> QED
  BY <1>1, <1>2, <1>3, <1>4, <1>5, <1>6, <1>7, <1>8, <1>9, <1>10, <1>11, <1>12
     DEF Update

-----------------------------------------------------------------------------
(* The switch.                                                             *)

\* Whoever is near the partition has had it alone.
WriterInv == \A t \in Threads : pc[t] \in Near => writer = t

LEMMA WriterNext ==
  ASSUME SettledInv, WriterInv, [Next]_vars
  PROVE  WriterInv'
<1> USE DEF WriterInv
<1>0. /\ TypeOK
      /\ \A t, u \in Threads : Owning(t) /\ Owning(u) => t = u
      /\ \A t \in Threads : pc[t] \in Near \cup {"detect"} => Owning(t)
  BY DEF SettledInv, OneOwner, Owning, OwningSteps, Steps, Near
<1>1. CASE Paho
  BY <1>0, <1>1, PahoPath DEF Near
<1>2. ASSUME NEW t \in Threads, Update(t) \/ Progress(t)
      PROVE  WriterInv'
  <2>1. WriterPath(t)
    BY <1>0, <1>2, ThreadWriter
  <2>2. CASE pc'[t] \in Near
    <3>1. \A u \in Threads \ {t} : pc[u] \notin Near
      BY <1>0, <2>1, <2>2 DEF WriterPath
    <3>2. writer' = t
      BY <2>1, <2>2, <3>1 DEF WriterPath, Near
    <3> QED
      BY <2>1, <3>1, <3>2 DEF WriterPath
  <2>3. CASE pc'[t] \notin Near
    BY <2>1, <2>3 DEF WriterPath
  <2> QED
    BY <2>2, <2>3
<1>3. CASE Restart
  BY <1>3 DEF Restart, Near
<1>4. CASE UNCHANGED vars
  BY <1>4 DEF vars, threadVars
<1> QED
  BY <1>1, <1>2, <1>3, <1>4 DEF Next

(***************************************************************************)
(* SwitchesOwnImage: if no notification arrives in one of the two windows, *)
(* a thread switches to what it wrote itself, undisturbed.                 *)
(***************************************************************************)
THEOREM SwitchIsOwn == AvoidWindows /\ Spec => SwitchesOwnImage
<1>1. Init => WriterInv
  BY DEF Init, WriterInv, Near
<1>2. SettledInv /\ WriterInv /\ [Next]_vars => WriterInv'
  BY WriterNext
<1>3. ASSUME SettledInv, WriterInv, [Next]_vars
      PROVE  [cmdline' # cmdline =>
                \E t \in Threads : pc[t] = "switch" /\ writer = t]_vars
  <2> SUFFICES ASSUME cmdline' # cmdline
               PROVE  \E t \in Threads : pc[t] = "switch" /\ writer = t
    OBVIOUS
  <2>1. TypeOK
    BY <1>3 DEF SettledInv
  <2>2. ~Paho /\ ~Restart /\ ~UNCHANGED vars
    BY <2>1, PahoPath DEF Restart, vars, otherVars
  <2>3. PICK t \in Threads : Update(t) \/ Progress(t)
    BY <1>3, <2>2 DEF Next
  <2>4. pc[t] = "switch"
    BY <2>1, <2>3, ThreadWriter DEF WriterPath
  <2> QED
    BY <1>3, <2>4 DEF WriterInv, Near
<1> QED
  BY <1>1, <1>2, <1>3, Settles, PTL DEF Spec, SwitchesOwnImage

(***************************************************************************)
(* NotTurnedAway: if no notification arrives in one of the two windows, an *)
(* accepted update finds the state machine free.                           *)
(***************************************************************************)
THEOREM AcceptedBegins == AvoidWindows /\ Spec => NotTurnedAway
<1>1. ASSUME SettledInv, [Next]_vars
      PROVE  [\A t \in Threads : pc[t] = "started" => pc'[t] # "raise"]_vars
  <2> SUFFICES ASSUME NEW t \in Threads, pc[t] = "started", pc'[t] = "raise"
               PROVE  FALSE
    OBVIOUS
  <2>1. TypeOK /\ state = "IDLE"
    BY <1>1 DEF SettledInv, EntryFree, Pending
  <2>2. ~Paho /\ ~Restart /\ ~UNCHANGED vars
    BY <2>1 DEF Paho, Receive, CheckPackage, Refuse, Accept, StartThread, Restart,
       vars, threadVars, stateVars, TypeOK
  <2>3. PICK u \in Threads : Update(u) \/ Progress(u)
    BY <1>1, <2>2 DEF Next
  <2>4. u = t
    BY <2>1, <2>3 DEF Update, Progress, BeginDownload, Detect, Execute,
         BeginInstall, SwitchBoot, Reboot, BeginSuccess, AdoptReporter,
         AdoptConfig, Fail, Finish, Clear, Transition, Publish, Go, Advance, TypeOK
  <2>5. BeginDownload(t)
    BY <2>3, <2>4 DEF Update, Progress, BeginDownload, Detect, Execute,
         BeginInstall, SwitchBoot, Reboot, BeginSuccess, AdoptReporter,
         AdoptConfig, Fail, Finish, Clear, Transition, Publish, Go
  <2>6. <<state, "DOWNLOADING">> \in Edges
    BY <2>1, EdgesAssumption
  <2> QED
    BY <2>1, <2>5, <2>6 DEF BeginDownload, Transition, Publish, Advance, TypeOK
<1> QED
  BY <1>1, Settles, PTL DEF Spec, NotTurnedAway

-----------------------------------------------------------------------------
(* The version.                                                            *)

\* Between the two assignments, and otherwise.
RecordInv ==
  /\ \A t \in Threads : pc[t] = "record" => reporterVersion = VersionOf[job[t]]
  /\ (\A t \in Threads : pc[t] # "record") => reporterVersion = configVersion

LEMMA ThreadVersions ==
  ASSUME TypeOK, NEW t \in Threads, Update(t) \/ Progress(t)
  PROVE  \/ AdoptReporter(t)
         \/ AdoptConfig(t)
         \/ UNCHANGED Versioned /\ pc[t] # "record" /\ pc'[t] # "record"
<1> USE DEF TypeOK, otherVars, Advance, Versioned
<1>1. CASE BeginDownload(t)
  BY <1>1 DEF BeginDownload, Transition, Publish
<1>2. CASE Detect(t) \/ Execute(t) \/ Reboot(t)
  BY <1>2 DEF Detect, Execute, Reboot, Go
<1>3. CASE Progress(t)
  BY <1>3 DEF Progress, Publish
<1>4. CASE BeginInstall(t)
  BY <1>4 DEF BeginInstall, Transition, Publish
<1>5. CASE SwitchBoot(t)
  BY <1>5 DEF SwitchBoot, Go
<1>6. CASE BeginSuccess(t)
  BY <1>6 DEF BeginSuccess, Transition, Publish
<1>7. CASE Fail(t)
  BY <1>7 DEF Fail, Transition, Publish
<1>8. CASE Finish(t)
  BY <1>8 DEF Finish, Transition, Publish
<1>9. CASE Clear(t)
  BY <1>9 DEF Clear
<1> QED
  BY <1>1, <1>2, <1>3, <1>4, <1>5, <1>6, <1>7, <1>8, <1>9 DEF Update

LEMMA RecordNext ==
  ASSUME SettledInv, RecordInv, [Next]_vars
  PROVE  RecordInv'
<1> USE DEF RecordInv
<1>0. /\ TypeOK
      /\ \A t, u \in Threads : Owning(t) /\ Owning(u) => t = u
      /\ \A t \in Threads : pc[t] \in {"adopt", "record"} => Owning(t)
  BY DEF SettledInv, OneOwner, Owning, OwningSteps, Steps
<1>1. CASE Paho
  <2>1. \A u \in Threads : pc'[u] = "record" <=> pc[u] = "record"
    BY <1>0, <1>1, PahoPath
  <2>2. \A u \in Threads : pc'[u] = "record" => job'[u] = job[u]
    BY <1>0, <1>1, <2>1, PahoPath
  <2>3. UNCHANGED <<configVersion, reporterVersion>>
    BY <1>0, <1>1, PahoPath DEF Versioned
  <2> QED
    BY <2>1, <2>2, <2>3
<1>2. ASSUME NEW t \in Threads, Update(t) \/ Progress(t)
      PROVE  RecordInv'
  <2>0. \A u \in Threads \ {t} : pc'[u] = pc[u] /\ job'[u] = job[u]
    <3>1. Clear(t) \/ UNCHANGED job
      BY <1>2 DEF Update, Progress, BeginDownload, Detect, Execute,
           BeginInstall, SwitchBoot, Reboot, BeginSuccess, AdoptReporter,
           AdoptConfig, Fail, Finish, Transition, Publish, Go
    <3> QED
      BY <1>0, <1>2, <3>1, ThreadWriter DEF WriterPath, Clear, TypeOK
  <2>1. CASE AdoptReporter(t)
    <3>1. \A u \in Threads \ {t} : pc[u] # "record"
      BY <1>0, <2>1 DEF AdoptReporter
    <3>2. pc'[t] = "record" /\ reporterVersion' = VersionOf[job'[t]]
      BY <1>0, <2>1 DEF AdoptReporter, Advance, TypeOK
    <3> QED
      BY <2>0, <3>1, <3>2
  <2>2. CASE AdoptConfig(t)
    <3>1. \A u \in Threads \ {t} : pc[u] # "record"
      BY <1>0, <2>2 DEF AdoptConfig
    <3>2. /\ pc'[t] # "record"
          /\ configVersion' = VersionOf[job[t]] /\ UNCHANGED reporterVersion
      BY <1>0, <2>2 DEF AdoptConfig, Advance, TypeOK
    <3> QED
      BY <2>0, <2>2, <3>1, <3>2 DEF AdoptConfig
  <2>3. CASE UNCHANGED Versioned /\ pc[t] # "record" /\ pc'[t] # "record"
    BY <2>0, <2>3 DEF Versioned
  <2> QED
    BY <1>0, <1>2, <2>1, <2>2, <2>3, ThreadVersions
<1>3. CASE Restart
  BY <1>3 DEF Restart
<1>4. CASE UNCHANGED vars
  BY <1>4 DEF vars, threadVars, otherVars
<1> QED
  BY <1>1, <1>2, <1>3, <1>4 DEF Next

(***************************************************************************)
(* VersionsAgree: if no notification arrives in one of the two windows,    *)
(* the two copies of the version differ only inside an update.             *)
(***************************************************************************)
THEOREM VersionsKept == AvoidWindows /\ Spec => []VersionsAgree
<1>1. Init => RecordInv
  BY DEF Init, RecordInv
<1>2. SettledInv /\ RecordInv /\ [Next]_vars => RecordInv'
  BY RecordNext
<1>3. SettledInv /\ RecordInv => VersionsAgree
  <2> SUFFICES ASSUME SettledInv, RecordInv, state = "IDLE"
               PROVE  reporterVersion = configVersion
    BY DEF VersionsAgree
  <2>1. \A t \in Threads : pc[t] # "record"
    BY DEF SettledInv, OwnersKeep, Keeps, Owning, OwningSteps, Steps
  <2> QED
    BY <2>1 DEF RecordInv
<1> QED
  BY <1>1, <1>2, <1>3, Settles, PTL DEF Spec

-----------------------------------------------------------------------------
(* The status.                                                             *)

Tells(t) == Owning(t) \/ pc[t] = "tellIdle"

\* A status of an update is followed by that of its end.
StatusInv == status \notin {"IDLE", "none"} => \E t \in Threads : Tells(t)

LEMMA ThreadStatus ==
  ASSUME TypeOK, NEW t \in Threads, Update(t) \/ Progress(t)
  PROVE  /\ pc[t] = "tellIdle" => status' = "IDLE"
         /\ pc[t] \in {"started", "clear"} => UNCHANGED status
<1>1. CASE BeginDownload(t) \/ Finish(t)
  BY <1>1 DEF BeginDownload, Finish, Transition, Publish
<1>2. CASE Clear(t)
  BY <1>2 DEF Clear
<1>3. CASE ~BeginDownload(t) /\ ~Finish(t) /\ ~Clear(t)
  BY <1>3 DEF Update, Progress, Detect, Execute, BeginInstall, SwitchBoot,
       Reboot, BeginSuccess, AdoptReporter, AdoptConfig, Fail, Transition,
       Publish, Go
<1> QED
  BY <1>1, <1>2, <1>3

LEMMA StatusNext ==
  ASSUME SettledInv, StatusInv, [Next]_vars
  PROVE  StatusInv'
<1> USE DEF StatusInv
<1>0. TypeOK
  BY DEF SettledInv
<1>1. CASE Paho
  <2>1. \A u \in Threads : Tells(u) => Tells(u)'
    BY <1>0, <1>1, PahoPath DEF Tells, Owning, OwningSteps, Steps
  <2> QED
    BY <1>0, <1>1, <2>1, PahoPath
<1>2. ASSUME NEW t \in Threads, Update(t) \/ Progress(t)
      PROVE  StatusInv'
  <2>1. /\ \A u \in Threads \ {t} : pc'[u] = pc[u]
        /\ GoesOn(t) \/ Releases(t) \/ Acquires(t) \/ Winds(t)
    BY <1>2, ThreadStep
  <2>2. CASE GoesOn(t) \/ Releases(t) \/ Acquires(t)
    BY <2>2 DEF GoesOn, Releases, Acquires, Tells, Owning, OwningSteps, Steps
  <2>3. CASE Winds(t)
    <3>1. pc[t] = "tellIdle" \/ ~Tells(t)
      BY <2>3 DEF Winds, Tells
    <3>2. CASE pc[t] = "tellIdle"
      BY <1>0, <1>2, <3>2, ThreadStatus
    <3>3. CASE ~Tells(t)
      <4>1. pc[t] \in {"none", "started", "clear"}
        BY <1>0, <3>3 DEF Tells, Owning, OwningSteps, TypeOK
      <4>2. pc[t] # "none"
        BY <1>2 DEF Update, Progress, BeginDownload, Detect, Execute,
             BeginInstall, SwitchBoot, Reboot, BeginSuccess, AdoptReporter,
             AdoptConfig, Fail, Finish, Clear, Transition, Publish, Go
      <4>3. UNCHANGED status
        BY <1>0, <1>2, <4>1, <4>2, ThreadStatus
      <4>4. \A u \in Threads : Tells(u) => Tells(u)'
        BY <2>1, <3>3 DEF Tells, Owning
      <4> QED
        BY <4>3, <4>4
    <3> QED
      BY <3>1, <3>2, <3>3
  <2> QED
    BY <2>1, <2>2, <2>3
<1>3. CASE Restart
  BY <1>3 DEF Restart
<1>4. CASE UNCHANGED vars
  BY <1>4 DEF vars, threadVars, Tells, Owning
<1> QED
  BY <1>1, <1>2, <1>3, <1>4 DEF Next

(***************************************************************************)
(* QuiescentStatus: if no notification arrives in one of the two windows,  *)
(* the last the backend hears of an agent at rest is IDLE.                 *)
(***************************************************************************)
THEOREM StatusSettles == AvoidWindows /\ Spec => []QuiescentStatus
<1>1. Init => StatusInv
  BY DEF Init, StatusInv
<1>2. SettledInv /\ StatusInv /\ [Next]_vars => StatusInv'
  BY StatusNext
<1>3. StatusInv => QuiescentStatus
  BY DEF StatusInv, QuiescentStatus, NoThread, Alive, Tells, Owning,
         OwningSteps, Steps
<1> QED
  BY <1>1, <1>2, <1>3, Settles, PTL DEF Spec

-----------------------------------------------------------------------------
(***************************************************************************)
(* QuiescentClean, with notifications at any moment: the record of the     *)
(* active update is empty at rest.                                         *)
(***************************************************************************)
THEOREM RecordCleared == Spec => []QuiescentClean
<1> USE DEF QuiescentClean, NoThread, Alive
<1>1. Init => QuiescentClean
  BY DEF Init
<1>2. TypeOK /\ QuiescentClean /\ [Next]_vars => QuiescentClean'
  <2> SUFFICES ASSUME TypeOK, QuiescentClean, [Next]_vars
               PROVE  QuiescentClean'
    OBVIOUS
  <2>1. ASSUME NEW m \in Notifications, Receive(m)
        PROVE  QuiescentClean'
    BY <2>1 DEF Receive, stateVars, threadVars, TypeOK
  <2>2. CASE CheckPackage
    BY <2>2 DEF CheckPackage, Refuse, Accept, stateVars, threadVars
  <2>3. CASE StartThread
    BY <2>3 DEF StartThread, TypeOK
  <2>4. ASSUME NEW t \in Threads, Update(t) \/ Progress(t)
        PROVE  QuiescentClean'
    <3>1. CASE Clear(t)
      BY <3>1 DEF Clear
    <3>2. CASE ~Clear(t)
      <4>1. \E step \in Steps \ {"none"} : Advance(t, step)
        BY <2>4, <3>2 DEF Update, Progress, BeginDownload, Detect, Execute,
             BeginInstall, SwitchBoot, Reboot, BeginSuccess, AdoptReporter,
             AdoptConfig, Fail, Finish, Transition, Publish, Go, Steps
      <4>2. pc'[t] # "none"
        BY <4>1 DEF Advance, TypeOK
      <4> QED
        BY <4>2
    <3> QED
      BY <3>1, <3>2
  <2>5. CASE Restart
    BY <2>5 DEF Restart
  <2>6. CASE UNCHANGED vars
    BY <2>6 DEF vars, stateVars, notifyVars, threadVars
  <2> QED
    BY <2>1, <2>2, <2>3, <2>4, <2>5, <2>6 DEF Next, Paho
<1> QED
  BY <1>1, <1>2, TypeCorrect, PTL DEF Spec

-----------------------------------------------------------------------------
(* The table as it is coded.                                               *)

\* From the state INSTALLING on.
InstallSteps == {"tellInstalling", "switch", "reboot", "succeed", "tellSuccess",
                 "adopt", "record"}

NothingInstalled == \A t \in Threads : pc[t] \notin InstallSteps

SamePartition == [][UNCHANGED <<running, cmdline>>]_vars

\* The only way to INSTALLING is from VERIFYING, and none leads there.
CodedInv ==
  /\ state \in {"IDLE", "DOWNLOADING", "ERROR"}
  /\ NothingInstalled
  /\ cmdline = running

LEMMA CodedNext ==
  ASSUME Edges = CodeEdges, TypeOK, CodedInv, [Next]_vars
  PROVE  CodedInv' /\ UNCHANGED <<running, cmdline>>
<1> USE DEF CodedInv, NothingInstalled, InstallSteps, TypeOK, otherVars, stateVars
<1>1. CASE Paho
  <2>1. UNCHANGED <<state, running, cmdline>>
    BY <1>1 DEF Paho, Receive, CheckPackage, Refuse, Accept, StartThread
  <2>2. \A u \in Threads : pc'[u] \in {pc[u], "started"}
    BY <1>1, PahoPath
  <2> QED
    BY <2>1, <2>2
<1>2. ASSUME NEW t \in Threads, Update(t) \/ Progress(t)
      PROVE  CodedInv' /\ UNCHANGED <<running, cmdline>>
  <2>0. pc[t] \notin InstallSteps
    OBVIOUS
  <2>1. ASSUME NEW next, next \notin InstallSteps, Advance(t, next),
               state' \in {"IDLE", "DOWNLOADING", "ERROR"},
               UNCHANGED <<running, cmdline>>
        PROVE  CodedInv' /\ UNCHANGED <<running, cmdline>>
    BY <2>1 DEF Advance
  <2>2. CASE BeginDownload(t)
    BY <2>1, <2>2 DEF BeginDownload, Transition, Publish
  <2>3. CASE Detect(t) \/ Execute(t) \/ Progress(t)
    BY <2>1, <2>3 DEF Detect, Execute, Progress, Publish, Go
  <2>4. CASE BeginInstall(t)
    <3>1. Transition(t, "written", "INSTALLING", "tellInstalling", "raise")
      BY <2>0, <2>4 DEF BeginInstall, Publish
    <3>2. <<state, "INSTALLING">> \notin Edges
      BY DEF CodeEdges
    <3>3. Advance(t, "raise") /\ UNCHANGED <<state, running, cmdline>>
      BY <3>1, <3>2 DEF Transition
    <3> QED
      BY <2>1, <3>3
  <2>5. ~(SwitchBoot(t) \/ Reboot(t) \/ BeginSuccess(t) \/ AdoptReporter(t)
          \/ AdoptConfig(t))
    BY <2>0 DEF SwitchBoot, Reboot, BeginSuccess, AdoptReporter, AdoptConfig,
       Transition, Publish, Go
  <2>6. CASE Fail(t)
    BY <2>1, <2>6 DEF Fail, Transition, Publish
  <2>7. CASE Finish(t)
    BY <2>1, <2>7 DEF Finish, Transition, Publish
  <2>8. CASE Clear(t)
    BY <2>1, <2>8 DEF Clear
  <2> QED
    BY <1>2, <2>2, <2>3, <2>4, <2>5, <2>6, <2>7, <2>8 DEF Update
<1>3. CASE Restart
  BY <1>3 DEF Restart
<1>4. CASE UNCHANGED vars
  BY <1>4 DEF vars, threadVars
<1> QED
  BY <1>1, <1>2, <1>3, <1>4 DEF Next

(***************************************************************************)
(* With the table of state_machine.py as it is, no update of any number of *)
(* threads, interleaved in any way and with any restarts, comes as far as  *)
(* INSTALLING: no version is adopted, cmdline.txt is never changed, and    *)
(* the machine goes on to boot the partition it was booted from, whatever  *)
(* was written to the other (agent.py:212-216, state_machine.py:28-36).    *)
(***************************************************************************)
THEOREM AsCodedNothingInstalls ==
  Edges = CodeEdges /\ Spec => []NothingInstalled /\ SamePartition
<1> SUFFICES ASSUME Edges = CodeEdges PROVE Spec => []NothingInstalled /\ SamePartition
  OBVIOUS
<1>1. Init => CodedInv
  BY DEF Init, CodedInv, NothingInstalled, InstallSteps
<1>2. TypeOK /\ CodedInv /\ [Next]_vars
        => CodedInv' /\ [UNCHANGED <<running, cmdline>>]_vars
  BY CodedNext
<1>3. CodedInv => NothingInstalled
  BY DEF CodedInv
<1> QED
  BY <1>1, <1>2, <1>3, TypeCorrect, PTL DEF Spec, SamePartition
=============================================================================
