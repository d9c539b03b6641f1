--------------------------- MODULE OTAAgentProofs ---------------------------
(***************************************************************************)
(* Theorems about OTAAgent, for every set of notifications, versions and   *)
(* threads, every transition table that satisfies EdgesAssumption (the     *)
(* code's and the repaired one do), in simulation and on a real device.    *)
(***************************************************************************)
EXTENDS OTAAgent, TLAPS

LEMMA InitTypeOK == Init => TypeOK
  BY ConstantsAssumption DEF Init, TypeOK, UpdateState, Steps, Partitions

\* No step of the paho thread, of an update thread or of the environment
\* breaks the types.
LEMMA NextTypeOK == TypeOK /\ [Next]_vars => TypeOK'
<1> SUFFICES ASSUME TypeOK, [Next]_vars PROVE TypeOK'
  OBVIOUS
<1> USE ConstantsAssumption
<1>1. ASSUME NEW m \in Notifications, Receive(m) PROVE TypeOK'
  BY <1>1 DEF TypeOK, Receive, Acks, stateVars, threadVars, otherVars
<1>2. CASE CheckPackage
  BY <1>2 DEF TypeOK, CheckPackage, Refuse, Accept, Acks, stateVars,
              threadVars, otherVars
<1>3. CASE StartThread
  <2> PICK t \in Threads : /\ ~Alive(t)
                           /\ pc' = [pc EXCEPT ![t] = "started"]
                           /\ job' = [job EXCEPT ![t] = notify]
    BY <1>3 DEF StartThread
  <2>1. notify \in Notifications /\ notify # None
    BY <1>3 DEF StartThread, TypeOK
  <2>2. pc' \in [Threads -> Steps] /\ job' \in [Threads -> Notifications \cup {None}]
    BY <2>1 DEF TypeOK, Steps
  <2>3. ASSUME NEW u \in Threads PROVE job'[u] = None <=> pc'[u] = "none"
    BY <2>1 DEF TypeOK
  <2> QED
    BY <1>3, <2>2, <2>3 DEF TypeOK, StartThread, stateVars, otherVars
<1>4. ASSUME NEW t \in Threads, Update(t) \/ Progress(t) PROVE TypeOK'
  <2> DEFINE Live == Steps \ {"none"}
  <2>a. /\ {"started", "tellDownloading", "detect", "write", "written",
            "tellInstalling", "switch", "reboot", "succeed"} \subseteq Live
        /\ {"tellSuccess", "adopt", "record", "raise", "tellError", "finally",
            "tellIdle", "clear"} \subseteq Live
        /\ {"IDLE", "DOWNLOADING", "INSTALLING", "SUCCESS", "ERROR"}
             \subseteq UpdateState
    BY DEF Steps, UpdateState
  <2>b. \A x \in Live : x \in Steps /\ x # "none"
    OBVIOUS
  <2> HIDE DEF Live
  <2>w. ASSUME NEW next, Advance(t, next)
        PROVE writer' \in Threads \cup {None}
    BY <2>w DEF TypeOK, Advance, Write
  <2>1. ASSUME NEW at \in Live, NEW next \in Live,
               pc[t] = at, Advance(t, next)
        PROVE /\ pc' \in [Threads -> Steps]
              /\ UNCHANGED job =>
                   \A u \in Threads : job'[u] = None <=> pc'[u] = "none"
    BY <2>1, <2>b DEF TypeOK, Advance
  <2>2. ASSUME NEW at \in Live, NEW next \in Live,
               Go(t, at, next)
        PROVE TypeOK'
    BY <2>2, <2>1, <2>w DEF Go, TypeOK, stateVars, notifyVars, otherVars
  <2>3. ASSUME NEW at \in Live, NEW next \in Live,
               NEW s \in UpdateState, Publish(t, at, s, next)
        PROVE TypeOK'
    BY <2>3, <2>1, <2>w DEF Publish, TypeOK, stateVars, notifyVars, otherVars
  <2>4. ASSUME NEW at \in Live, NEW ok \in Live, NEW illegal \in Live,
               NEW s \in UpdateState, Transition(t, at, s, ok, illegal)
        PROVE TypeOK'
    <3>1. pc[t] = at /\ (Advance(t, ok) \/ Advance(t, illegal))
          /\ state' \in UpdateState /\ UNCHANGED job
      BY <2>4 DEF Transition, TypeOK
    <3>2. /\ pc' \in [Threads -> Steps]
          /\ \A u \in Threads : job'[u] = None <=> pc'[u] = "none"
          /\ writer' \in Threads \cup {None}
      BY <2>4, <3>1, <2>1, <2>w
    <3> QED
      BY <2>4, <3>1, <3>2 DEF Transition, TypeOK, notifyVars, otherVars
  <2>5. CASE Clear(t)
    <3>1. /\ pc' \in [Threads -> Steps]
          /\ job' \in [Threads -> Notifications \cup {None}]
          /\ \A u \in Threads : job'[u] = None <=> pc'[u] = "none"
      BY <2>5 DEF Clear, Advance, TypeOK, Steps
    <3>2. writer' \in Threads \cup {None}
      BY <2>5, <2>w DEF Clear
    <3> QED
      BY <2>5, <3>1, <3>2 DEF Clear, TypeOK, stateVars, notifyVars, otherVars
  <2>6. CASE BeginDownload(t)
    BY <2>6, <2>3, <2>4, <2>a DEF BeginDownload
  <2>7. CASE Detect(t) \/ Execute(t) \/ Reboot(t)
    BY <2>7, <2>2, <2>a DEF Detect, Execute, Reboot
  <2>8. CASE Progress(t)
    BY <2>8, <2>3, <2>a DEF Progress
  <2>9. CASE BeginInstall(t)
    BY <2>9, <2>3, <2>4, <2>a DEF BeginInstall
  <2>10. CASE SwitchBoot(t)
    <3>1. CASE Go(t, "switch", "raise")
      BY <3>1, <2>2, <2>a
    <3>2. CASE ~Go(t, "switch", "raise")
      <4>1. PICK next \in {"reboot", "raise"} : Advance(t, next)
        BY <2>10, <3>2 DEF SwitchBoot
      <4>2. pc[t] = "switch" /\ UNCHANGED job /\ cmdline' \in Partitions
        BY <2>10, <3>2 DEF SwitchBoot, Other, Partitions, threadVars
      <4>3. /\ pc' \in [Threads -> Steps]
            /\ \A u \in Threads : job'[u] = None <=> pc'[u] = "none"
            /\ writer' \in Threads \cup {None}
        BY <4>1, <4>2, <2>1, <2>w, <2>a
      <4> QED
        BY <2>10, <3>2, <4>2, <4>3 DEF SwitchBoot, TypeOK, stateVars, notifyVars
    <3> QED
      BY <3>1, <3>2
  <2>11. CASE BeginSuccess(t)
    BY <2>11, <2>3, <2>4, <2>a DEF BeginSuccess
  <2>12. CASE AdoptReporter(t)
    <3>1. VersionOf[job[t]] \in Versions
      BY <2>12 DEF AdoptReporter, TypeOK
    <3>2. /\ pc' \in [Threads -> Steps]
          /\ \A u \in Threads : job'[u] = None <=> pc'[u] = "none"
          /\ writer' \in Threads \cup {None}
      BY <2>12, <2>1, <2>w, <2>a DEF AdoptReporter
    <3> QED
      BY <2>12, <3>1, <3>2 DEF AdoptReporter, TypeOK, stateVars, notifyVars
  <2>13. CASE AdoptConfig(t)
    <3>1. VersionOf[job[t]] \in Versions
      BY <2>13 DEF AdoptConfig, TypeOK
    <3>2. /\ pc' \in [Threads -> Steps]
          /\ \A u \in Threads : job'[u] = None <=> pc'[u] = "none"
          /\ writer' \in Threads \cup {None}
      BY <2>13, <2>1, <2>w, <2>a DEF AdoptConfig
    <3> QED
      BY <2>13, <3>1, <3>2 DEF AdoptConfig, TypeOK, stateVars, notifyVars
  <2>14. CASE Fail(t)
    BY <2>14, <2>3, <2>4, <2>a DEF Fail
  <2>15. CASE Finish(t)
    BY <2>15, <2>3, <2>4, <2>a DEF Finish
  <2> QED
    BY <1>4, <2>5, <2>6, <2>7, <2>8, <2>9, <2>10, <2>11, <2>12, <2>13, <2>14,
       <2>15 DEF Update
<1>5. CASE Restart
  BY <1>5 DEF Restart, TypeOK, UpdateState, Steps
<1>6. CASE UNCHANGED vars
  BY <1>6 DEF TypeOK, vars, stateVars, notifyVars, threadVars, otherVars
<1> QED
  BY <1>1, <1>2, <1>3, <1>4, <1>5, <1>6 DEF Next, Paho

(***************************************************************************)
(* Type correctness (TypeOK): in particular a thread has a message exactly *)
(* while it is alive, so VersionOf is never applied to None.               *)
(***************************************************************************)
THEOREM TypeCorrect == Spec => []TypeOK
  BY InitTypeOK, NextTypeOK, PTL DEF Spec

-----------------------------------------------------------------------------
(***************************************************************************)
(* A state other than IDLE is kept by a thread that will leave it: some    *)
(* thread stands where the transition out of that state is still ahead.    *)
(* Another thread may move the state from under it, but then stands itself *)
(* where the way out of the new state is ahead, which is why the invariant *)
(* is inductive with any number of threads.                                *)
(***************************************************************************)
Keeps(s, step) ==
  \/ s = "DOWNLOADING" /\ step \in {"tellDownloading", "detect", "write",
                                    "written", "raise"}
  \/ s = "INSTALLING" /\ step \in {"tellInstalling", "switch", "reboot",
                                   "succeed", "raise"}
  \/ s = "SUCCESS" /\ step \in {"tellSuccess", "adopt", "record", "finally"}
  \/ s = "ERROR" /\ step \in {"tellError", "finally"}

StateKept == state # "IDLE" => \E t \in Threads : Keeps(state, pc[t])

LEMMA KeptNext == TypeOK /\ StateKept /\ [Next]_vars => StateKept'
<1> SUFFICES ASSUME TypeOK, StateKept, [Next]_vars PROVE StateKept'
  OBVIOUS
<1> USE EdgesAssumption
<1>k. \A s : ~Keeps(s, "none") /\ ~Keeps(s, "started") /\ ~Keeps(s, "clear")
             /\ ~Keeps(s, "tellIdle")
  BY DEF Keeps
<1>1. ASSUME UNCHANGED <<state, pc>> PROVE StateKept'
  BY <1>1 DEF StateKept
<1>2. CASE StartThread
  <2>1. UNCHANGED state
    BY <1>2 DEF StartThread, stateVars
  <2>2. PICK t \in Threads : pc[t] = "none" /\ pc' = [pc EXCEPT ![t] = "started"]
    BY <1>2 DEF StartThread, Alive
  <2> SUFFICES ASSUME state # "IDLE"
               PROVE  \E u \in Threads : Keeps(state, pc'[u])
    BY <2>1 DEF StateKept
  <2>3. PICK u \in Threads : Keeps(state, pc[u])
    BY DEF StateKept
  <2>4. u # t
    BY <2>2, <2>3, <1>k DEF TypeOK
  <2> QED
    BY <2>2, <2>3, <2>4 DEF TypeOK
<1>3. ASSUME NEW t \in Threads, Update(t) \/ Progress(t) PROVE StateKept'
  \* A step that leaves the state alone, and its keeper a keeper.
  <2>1. ASSUME NEW next, Advance(t, next), UNCHANGED state,
               state # "IDLE" /\ Keeps(state, pc[t]) => Keeps(state, next)
        PROVE StateKept'
    <3> SUFFICES ASSUME state # "IDLE"
                 PROVE  \E u \in Threads : Keeps(state, pc'[u])
      BY <2>1 DEF StateKept
    <3>1. PICK u \in Threads : Keeps(state, pc[u])
      BY DEF StateKept
    <3>2. CASE u = t
      BY <3>1, <3>2, <2>1 DEF Advance, TypeOK
    <3>3. CASE u # t
      BY <3>1, <3>3, <2>1 DEF Advance, TypeOK
    <3> QED
      BY <3>2, <3>3
  \* A transition into a state whose keeper the thread becomes.
  <2>2. ASSUME NEW at, NEW new, NEW ok, NEW illegal,
               Transition(t, at, new, ok, illegal),
               new # "IDLE" => Keeps(new, ok),
               state # "IDLE" /\ Keeps(state, at) /\ <<state, new>> \notin Edges
                 => Keeps(state, illegal)
        PROVE StateKept'
    <3>1. CASE <<state, new>> \in Edges
      <4>1. state' = new /\ pc' = [pc EXCEPT ![t] = ok]
        BY <2>2, <3>1 DEF Transition, Advance
      <4>2. pc'[t] = ok
        BY <4>1 DEF TypeOK
      <4> QED
        BY <2>2, <4>1, <4>2 DEF StateKept
    <3>2. CASE <<state, new>> \notin Edges
      BY <2>2, <3>2, <2>1 DEF Transition
    <3> QED
      BY <3>1, <3>2
  <2>3. CASE BeginDownload(t)
    <3>1. CASE Transition(t, "started", "DOWNLOADING", "tellDownloading", "raise")
      BY <3>1, <2>2, <1>k DEF TypeOK, Keeps
    <3>2. CASE Publish(t, "tellDownloading", "DOWNLOADING", "detect")
      BY <3>2, <2>1, <1>k DEF Publish, stateVars, TypeOK, Keeps
    <3> QED
      BY <2>3, <3>1, <3>2 DEF BeginDownload
  <2>4. CASE Detect(t) \/ Execute(t) \/ Progress(t)
    <3>1. PICK next \in {"write", "written", "raise"} :
                 pc[t] \in {"detect", "write"} /\ Advance(t, next) /\ UNCHANGED state
      BY <2>4 DEF Detect, Execute, Progress, Go, Publish, stateVars
    <3> QED
      BY <3>1, <2>1 DEF Keeps, TypeOK
  <2>5. CASE BeginInstall(t)
    <3>1. CASE Transition(t, "written", "INSTALLING", "tellInstalling", "raise")
      BY <3>1, <2>2, <1>k DEF TypeOK, Keeps
    <3>2. CASE ~Transition(t, "written", "INSTALLING", "tellInstalling", "raise")
      <4>1. PICK next \in {"succeed", "switch"} :
                   pc[t] = "tellInstalling" /\ Advance(t, next) /\ UNCHANGED state
        BY <2>5, <3>2 DEF BeginInstall, Publish, stateVars
      <4> QED
        BY <4>1, <2>1 DEF Keeps, TypeOK
    <3> QED
      BY <3>1, <3>2
  <2>6. CASE SwitchBoot(t) \/ Reboot(t)
    <3>1. PICK next \in {"reboot", "succeed", "raise"} :
                 pc[t] \in {"switch", "reboot"} /\ Advance(t, next) /\ UNCHANGED state
      BY <2>6 DEF SwitchBoot, Reboot, Go, stateVars
    <3> QED
      BY <3>1, <2>1 DEF Keeps, TypeOK
  <2>7. CASE BeginSuccess(t)
    <3>1. CASE Transition(t, "succeed", "SUCCESS", "tellSuccess", "raise")
      BY <3>1, <2>2, <1>k DEF TypeOK, Keeps
    <3>2. CASE Publish(t, "tellSuccess", "SUCCESS", "adopt")
      BY <3>2, <2>1 DEF Publish, stateVars, TypeOK, Keeps
    <3> QED
      BY <2>7, <3>1, <3>2 DEF BeginSuccess
  <2>8. CASE AdoptReporter(t) \/ AdoptConfig(t)
    <3>1. PICK next \in {"record", "finally"} :
                 pc[t] \in {"adopt", "record"} /\ Advance(t, next) /\ UNCHANGED state
      BY <2>8 DEF AdoptReporter, AdoptConfig, stateVars
    <3> QED
      BY <3>1, <2>1 DEF Keeps, TypeOK
  <2>9. CASE Fail(t)
    <3>1. CASE Transition(t, "raise", "ERROR", "tellError", "finally")
      BY <3>1, <2>2, <1>k DEF TypeOK, Keeps
    <3>2. CASE Publish(t, "tellError", "ERROR", "finally")
      BY <3>2, <2>1 DEF Publish, stateVars, TypeOK, Keeps
    <3> QED
      BY <2>9, <3>1, <3>2 DEF Fail
  <2>10. CASE Finish(t)
    <3>1. CASE Transition(t, "finally", "IDLE", "tellIdle", "clear")
      BY <3>1, <2>2, <1>k DEF TypeOK, Keeps
    <3>2. CASE Publish(t, "tellIdle", "IDLE", "clear")
      BY <3>2, <2>1, <1>k DEF Publish, stateVars, TypeOK, Keeps
    <3> QED
      BY <2>10, <3>1, <3>2 DEF Finish
  <2>11. CASE Clear(t)
    <3>1. pc[t] = "clear" /\ Advance(t, "none") /\ UNCHANGED state
      BY <2>11 DEF Clear, stateVars
    <3> QED
      BY <3>1, <2>1, <1>k DEF TypeOK
  <2> QED
    BY <1>3, <2>3, <2>4, <2>5, <2>6, <2>7, <2>8, <2>9, <2>10, <2>11 DEF Update
<1>4. CASE Restart
  BY <1>4 DEF Restart, StateKept
<1> QED
  BY <1>1, <1>2, <1>3, <1>4
     DEF Next, Paho, Receive, CheckPackage, Refuse, Accept, vars, stateVars,
         threadVars

LEMMA Kept == Spec => []StateKept
<1>1. Init => StateKept
  BY DEF Init, StateKept
<1> QED
  BY <1>1, KeptNext, TypeCorrect, PTL DEF Spec

(***************************************************************************)
(* NoStuckState: when every update thread is gone the state is IDLE, for   *)
(* any number of threads and deliveries in any order.                      *)
(***************************************************************************)
THEOREM NeverStuck == Spec => []NoStuckState
<1>1. TypeOK /\ StateKept => NoStuckState
  BY DEF TypeOK, StateKept, NoStuckState, NoThread, Alive, Keeps
<1> QED
  BY <1>1, Kept, TypeCorrect, PTL

-----------------------------------------------------------------------------
(***************************************************************************)
(* What the busy check gives when no notification arrives in a window.     *)
(* Every owner of the state machine stands where its phase of the pipeline *)
(* says, so no transition it asks for finds another state; there is one    *)
(* owner at most; and a notification under examination, or a thread that   *)
(* has not begun, finds the state IDLE and the version still to install.   *)
(***************************************************************************)
Pending(t) == pc[t] = "started"

OwnersKeep == \A t \in Threads : Owning(t) => Keeps(state, pc[t])

OneOwner == \A t, u \in Threads : Owning(t) /\ Owning(u) => t = u

EntryFree ==
  /\ handler # "waiting" => state = "IDLE" /\ \A t \in Threads : ~Pending(t)
  /\ \A t \in Threads : Pending(t) => state = "IDLE"
  /\ \A t, u \in Threads : Pending(t) /\ Pending(u) => t = u

NewVersion ==
  /\ handler = "starting" => VersionOf[notify] # configVersion
  /\ \A t \in Threads : Pending(t) => VersionOf[job[t]] # configVersion

SettledInv == TypeOK /\ OwnersKeep /\ OneOwner /\ EntryFree /\ NewVersion

\* A step of thread t: it goes on as the owner, it releases the state
\* machine, it acquires it, or it is not and does not become an owner.
GoesOn(t) ==
  /\ Owning(t) /\ pc'[t] \in OwningSteps
  /\ Keeps(state', pc'[t])
  /\ UNCHANGED job
  /\ configVersion' \in {configVersion, VersionOf[job[t]]}

Releases(t) ==
  /\ Owning(t) /\ pc'[t] = "tellIdle"
  /\ state' = "IDLE"
  /\ UNCHANGED <<job, configVersion>>

Acquires(t) ==
  /\ Pending(t) /\ pc'[t] = "tellDownloading"
  /\ state = "IDLE" /\ state' = "DOWNLOADING"
  /\ UNCHANGED <<job, configVersion>>

Winds(t) ==
  /\ ~Owning(t) /\ pc'[t] \in {"clear", "none"}
  /\ \A u \in Threads \ {t} : job'[u] = job[u]
  /\ UNCHANGED <<state, configVersion>>

LEMMA ThreadStep ==
  ASSUME SettledInv, NEW t \in Threads, Update(t) \/ Progress(t)
  PROVE  /\ pc' \in [Threads -> Steps]
         /\ \A u \in Threads \ {t} : pc'[u] = pc[u]
         /\ UNCHANGED notifyVars
         /\ GoesOn(t) \/ Releases(t) \/ Acquires(t) \/ Winds(t)
<1> USE EdgesAssumption DEF SettledInv
<1>1. PICK step \in Steps : Advance(t, step)
  BY DEF Update, Progress, BeginDownload, Detect, Execute, BeginInstall,
         SwitchBoot, Reboot, BeginSuccess, AdoptReporter, AdoptConfig, Fail,
         Finish, Clear, Transition, Publish, Go, Steps
<1>2. /\ pc' \in [Threads -> Steps] /\ pc'[t] = step
      /\ \A u \in Threads \ {t} : pc'[u] = pc[u]
  BY <1>1 DEF Advance, TypeOK
<1>3. UNCHANGED notifyVars
  BY DEF Update, Progress, BeginDownload, Detect, Execute, BeginInstall,
         SwitchBoot, Reboot, BeginSuccess, AdoptReporter, AdoptConfig, Fail,
         Finish, Clear, Transition, Publish, Go
<1>a. ASSUME NEW next, Advance(t, next) PROVE pc'[t] = next
  BY <1>a DEF Advance, TypeOK
<1> DEFINE Kinds == GoesOn(t) \/ Releases(t) \/ Acquires(t) \/ Winds(t)
<1>4. CASE Clear(t)
  <2>1. ~Owning(t) /\ Advance(t, "none") /\ UNCHANGED <<state, configVersion>>
    BY <1>4 DEF Clear, Owning, OwningSteps, stateVars, otherVars
  <2>2. \A u \in Threads \ {t} : job'[u] = job[u]
    BY <1>4 DEF Clear, TypeOK
  <2> QED
    BY <2>1, <2>2, <1>a, <1>2, <1>3 DEF Winds
\* A publication or a decision inside one phase.
<1>5. ASSUME NEW at, NEW next, pc[t] = at, Advance(t, next),
             UNCHANGED <<state, job, configVersion>>,
             at \in OwningSteps, next \in OwningSteps,
             Keeps(state, at) => Keeps(state, next)
      PROVE  GoesOn(t)
  BY <1>5, <1>a DEF GoesOn, Owning, OwnersKeep
\* A transition from one phase to the next, or to the error path.
<1>6. ASSUME NEW at, NEW new, NEW ok, NEW illegal,
             Transition(t, at, new, ok, illegal),
             at \in OwningSteps, ok \in OwningSteps, illegal \in OwningSteps,
             Keeps(new, ok),
             Keeps(state, at) /\ <<state, new>> \notin Edges => Keeps(state, illegal)
      PROVE  GoesOn(t)
  <2>1. Keeps(state, at) /\ UNCHANGED <<job, configVersion>> /\ Owning(t)
    BY <1>6 DEF Transition, otherVars, OwnersKeep, Owning
  <2>2. CASE <<state, new>> \in Edges
    BY <1>6, <2>1, <2>2, <1>a DEF Transition, GoesOn
  <2>3. CASE <<state, new>> \notin Edges
    BY <1>6, <2>1, <2>3, <1>a DEF Transition, GoesOn
  <2> QED
    BY <2>2, <2>3
<1>7. CASE BeginDownload(t)
  <2>1. CASE Transition(t, "started", "DOWNLOADING", "tellDownloading", "raise")
    <3>1. Pending(t) /\ state = "IDLE"
      BY <2>1 DEF Transition, Pending, EntryFree
    <3> QED
      BY <2>1, <3>1, <1>a, <1>2, <1>3 DEF Transition, Acquires, otherVars
  <2>2. CASE Publish(t, "tellDownloading", "DOWNLOADING", "detect")
    BY <2>2, <1>5, <1>2, <1>3
       DEF Publish, stateVars, otherVars, OwningSteps, Steps, Keeps
  <2> QED
    BY <1>7, <2>1, <2>2 DEF BeginDownload
<1>8. CASE Detect(t) \/ Execute(t) \/ Progress(t)
  <2>1. PICK at \in {"detect", "write"}, next \in {"write", "written", "raise"} :
               pc[t] = at /\ Advance(t, next) /\ UNCHANGED <<state, job, configVersion>>
    BY <1>8 DEF Detect, Execute, Progress, Go, Publish, stateVars, otherVars
  <2>2. at \in OwningSteps /\ next \in OwningSteps
        /\ (Keeps(state, at) => Keeps(state, next))
    BY DEF OwningSteps, Steps, Keeps
  <2> QED
    BY <2>1, <2>2, <1>5, <1>2, <1>3
<1>9. CASE BeginInstall(t)
  <2>1. CASE Transition(t, "written", "INSTALLING", "tellInstalling", "raise")
    BY <2>1, <1>6, <1>2, <1>3 DEF OwningSteps, Steps, Keeps
  <2>2. CASE ~Transition(t, "written", "INSTALLING", "tellInstalling", "raise")
    <3>1. PICK next \in {"succeed", "switch"} :
                 /\ pc[t] = "tellInstalling" /\ Advance(t, next)
                 /\ UNCHANGED <<state, job, configVersion>>
      BY <1>9, <2>2 DEF BeginInstall, Publish, stateVars, otherVars
    <3>2. "tellInstalling" \in OwningSteps /\ next \in OwningSteps
          /\ (Keeps(state, "tellInstalling") => Keeps(state, next))
      BY DEF OwningSteps, Steps, Keeps
    <3> QED
      BY <3>1, <3>2, <1>5, <1>2, <1>3
  <2> QED
    BY <2>1, <2>2
<1>10. CASE SwitchBoot(t) \/ Reboot(t)
  <2>1. PICK at \in {"switch", "reboot"}, next \in {"reboot", "succeed", "raise"} :
               pc[t] = at /\ Advance(t, next) /\ UNCHANGED <<state, job, configVersion>>
    BY <1>10 DEF SwitchBoot, Reboot, Go, stateVars, otherVars
  <2>2. at \in OwningSteps /\ next \in OwningSteps
        /\ (Keeps(state, at) => Keeps(state, next))
    BY DEF OwningSteps, Steps, Keeps
  <2> QED
    BY <2>1, <2>2, <1>5, <1>2, <1>3
<1>11. CASE BeginSuccess(t)
  <2>1. CASE Transition(t, "succeed", "SUCCESS", "tellSuccess", "raise")
    BY <2>1, <1>6, <1>2, <1>3 DEF OwningSteps, Steps, Keeps
  <2>2. CASE Publish(t, "tellSuccess", "SUCCESS", "adopt")
    BY <2>2, <1>5, <1>2, <1>3
       DEF Publish, stateVars, otherVars, OwningSteps, Steps, Keeps
  <2> QED
    BY <1>11, <2>1, <2>2 DEF BeginSuccess
<1>12. CASE AdoptReporter(t)
  BY <1>12, <1>5, <1>2, <1>3 DEF AdoptReporter, stateVars, OwningSteps, Steps, Keeps
<1>13. CASE AdoptConfig(t)
  <2>1. Keeps(state, "record") /\ Owning(t)
    BY <1>13 DEF AdoptConfig, OwnersKeep, Owning, OwningSteps, Steps
  <2>2. Keeps(state', "finally") /\ pc'[t] = "finally"
    BY <1>13, <2>1, <1>a DEF AdoptConfig, stateVars, Keeps
  <2>3. UNCHANGED job /\ configVersion' = VersionOf[job[t]]
    BY <1>13 DEF AdoptConfig
  <2>4. GoesOn(t)
    BY <2>1, <2>2, <2>3 DEF GoesOn, OwningSteps, Steps
  <2> QED
    BY <2>4, <1>2, <1>3
<1>14. CASE Fail(t)
  <2>1. CASE Transition(t, "raise", "ERROR", "tellError", "finally")
    BY <2>1, <1>6, <1>2, <1>3 DEF OwningSteps, Steps, Keeps
  <2>2. CASE Publish(t, "tellError", "ERROR", "finally")
    BY <2>2, <1>5, <1>2, <1>3
       DEF Publish, stateVars, otherVars, OwningSteps, Steps, Keeps
  <2> QED
    BY <1>14, <2>1, <2>2 DEF Fail
<1>15. CASE Finish(t)
  <2>1. CASE Transition(t, "finally", "IDLE", "tellIdle", "clear")
    <3>1. Owning(t) /\ Keeps(state, "finally")
      BY <2>1 DEF Transition, OwnersKeep, Owning, OwningSteps, Steps
    <3>2. <<state, "IDLE">> \in Edges
      BY <3>1 DEF Keeps
    <3> QED
      BY <2>1, <3>1, <3>2, <1>a, <1>2, <1>3 DEF Transition, Releases, otherVars
  <2>2. CASE Publish(t, "tellIdle", "IDLE", "clear")
    <3>1. Advance(t, "clear") /\ ~Owning(t)
          /\ UNCHANGED <<state, job, configVersion>>
      BY <2>2 DEF Publish, stateVars, otherVars, Owning, OwningSteps
    <3> QED
      BY <3>1, <1>a, <1>2, <1>3 DEF Winds
  <2> QED
    BY <1>15, <2>1, <2>2 DEF Finish
<1> QED
  BY <1>4, <1>7, <1>8, <1>9, <1>10, <1>11, <1>12, <1>13, <1>14, <1>15 DEF Update

LEMMA SettledInit == Init => SettledInv
  BY InitTypeOK DEF Init, SettledInv, OwnersKeep, OneOwner, EntryFree,
                    NewVersion, Pending, Owning, OwningSteps

LEMMA SettledNext ==
  ASSUME AvoidWindows, SettledInv, [Next]_vars
  PROVE  SettledInv'
<1> USE DEF SettledInv
<1>0. TypeOK'
  BY NextTypeOK
<1>1. ASSUME NEW m \in Notifications, Receive(m)
      PROVE  SettledInv'
  <2>1. UNCHANGED <<pc, job, state, configVersion>>
    BY <1>1 DEF Receive, stateVars, threadVars, otherVars
  <2>2. handler = "waiting"
    BY <1>1 DEF Receive
  <2>3. handler' # "waiting" => state = "IDLE" /\ \A t \in Threads : ~Pending(t)
    BY <1>1, <2>2 DEF Receive, Settled, IsBusy, Pending
  <2>4. handler' # "starting"
    BY <1>1, <2>2 DEF Receive
  <2> QED
    BY <1>0, <2>1, <2>3, <2>4
       DEF OwnersKeep, OneOwner, EntryFree, NewVersion, Pending, Owning
<1>2. CASE CheckPackage
  <2>1. UNCHANGED <<pc, job, state, configVersion>>
    BY <1>2 DEF CheckPackage, Refuse, Accept, stateVars, threadVars, otherVars
  <2>2. handler = "checking"
    BY <1>2 DEF CheckPackage
  <2>3. handler' = "starting" => notify' = notify /\ VersionOf[notify] # configVersion
    BY <1>2 DEF CheckPackage, Refuse, Accept
  <2> QED
    BY <1>0, <2>1, <2>2, <2>3
       DEF OwnersKeep, OneOwner, EntryFree, NewVersion, Pending, Owning
<1>3. CASE StartThread
  <2>1. UNCHANGED <<state, configVersion>> /\ handler = "starting" /\ handler' = "waiting"
    BY <1>3 DEF StartThread, stateVars, otherVars
  <2>2. PICK t \in Threads : /\ pc' = [pc EXCEPT ![t] = "started"]
                             /\ job' = [job EXCEPT ![t] = notify]
    BY <1>3 DEF StartThread
  <2>3. /\ pc'[t] = "started" /\ job'[t] = notify
        /\ \A u \in Threads \ {t} : pc'[u] = pc[u] /\ job'[u] = job[u]
    BY <2>2 DEF TypeOK
  <2>4. state = "IDLE" /\ (\A u \in Threads : ~Pending(u))
        /\ VersionOf[notify] # configVersion
    BY <2>1 DEF EntryFree, NewVersion
  <2>5. \A u \in Threads : Owning(u)' => Owning(u) /\ pc'[u] = pc[u]
    BY <2>3 DEF Owning, OwningSteps
  <2>6. \A u \in Threads : Pending(u)' => u = t
    BY <2>3, <2>4 DEF Pending
  <2>7. OwnersKeep' /\ OneOwner'
    BY <2>1, <2>5 DEF OwnersKeep, OneOwner
  <2>8. EntryFree' /\ NewVersion'
    BY <2>1, <2>3, <2>4, <2>6 DEF EntryFree, NewVersion
  <2> QED
    BY <1>0, <2>7, <2>8
<1>4. ASSUME NEW t \in Threads, Update(t) \/ Progress(t) PROVE SettledInv'
  <2>1. /\ \A u \in Threads \ {t} : pc'[u] = pc[u]
        /\ UNCHANGED <<handler, notify>>
        /\ GoesOn(t) \/ Releases(t) \/ Acquires(t) \/ Winds(t)
    BY <1>4, ThreadStep DEF notifyVars
  <2>2. \A u \in Threads \ {t} : (Owning(u)' <=> Owning(u)) /\ (Pending(u)' <=> Pending(u))
    BY <2>1 DEF Owning, Pending
  <2>3. CASE GoesOn(t)
    <3>1. Owning(t) /\ Owning(t)' /\ ~Pending(t)' /\ state # "IDLE" /\ UNCHANGED job
      BY <2>3 DEF GoesOn, OwnersKeep, Keeps, Owning, Pending, OwningSteps
    <3>2. handler = "waiting" /\ (\A u \in Threads : ~Pending(u))
      BY <3>1 DEF EntryFree, TypeOK
    <3>3. \A u \in Threads : Pending(u)' => FALSE
      BY <3>1, <3>2, <2>2
    <3>4. \A u \in Threads : Owning(u)' => u = t
      BY <3>1, <2>2 DEF OneOwner
    <3>5. OwnersKeep' /\ OneOwner'
      BY <3>4, <2>3 DEF GoesOn, OwnersKeep, OneOwner
    <3>6. EntryFree' /\ NewVersion'
      BY <3>2, <3>3, <2>1 DEF EntryFree, NewVersion
    <3> QED
      BY <1>0, <3>5, <3>6
  <2>4. CASE Releases(t)
    <3>1. Owning(t) /\ ~Owning(t)' /\ ~Pending(t)' /\ state # "IDLE"
      BY <2>4 DEF Releases, OwnersKeep, Keeps, Owning, Pending, OwningSteps
    <3>2. handler = "waiting" /\ (\A u \in Threads : ~Pending(u))
      BY <3>1 DEF EntryFree, TypeOK
    <3>3. \A u \in Threads : ~Pending(u)' /\ ~Owning(u)'
      BY <3>1, <3>2, <2>2 DEF OneOwner
    <3> QED
      BY <1>0, <3>2, <3>3, <2>1 DEF OwnersKeep, OneOwner, EntryFree, NewVersion
  <2>5. CASE Acquires(t)
    <3>1. \A u \in Threads : ~Owning(u)
      BY <2>5 DEF Acquires, OwnersKeep, Keeps
    <3>2. Owning(t)' /\ ~Pending(t)' /\ Keeps(state', pc'[t])
      BY <2>5 DEF Acquires, Owning, Pending, OwningSteps, Steps, Keeps
    <3>3. handler = "waiting" /\ \A u \in Threads : Pending(u) => u = t
      BY <2>5 DEF Acquires, EntryFree, TypeOK
    <3>4. \A u \in Threads : ~Pending(u)' /\ (Owning(u)' => u = t)
      BY <3>1, <3>2, <3>3, <2>2
    <3>5. OwnersKeep' /\ OneOwner'
      BY <3>2, <3>4 DEF OwnersKeep, OneOwner
    <3>6. EntryFree' /\ NewVersion'
      BY <3>3, <3>4, <2>1 DEF EntryFree, NewVersion
    <3> QED
      BY <1>0, <3>5, <3>6
  <2>6. CASE Winds(t)
    <3>1. ~Owning(t) /\ ~Owning(t)' /\ ~Pending(t)'
      BY <2>6 DEF Winds, Owning, Pending, OwningSteps
    <3>2. \A u \in Threads : /\ Owning(u)' => Owning(u) /\ u # t
                             /\ Pending(u)' => Pending(u) /\ u # t
      BY <3>1, <2>2
    <3>3. UNCHANGED <<state, configVersion>> /\ \A u \in Threads \ {t} : job'[u] = job[u]
      BY <2>6 DEF Winds
    <3>4. OwnersKeep'
      BY <3>2, <3>3, <2>1 DEF OwnersKeep
    <3>5. OneOwner'
      BY <3>2 DEF OneOwner
    <3>6. EntryFree'
      BY <3>2, <3>3, <2>1 DEF EntryFree
    <3>7. NewVersion'
      BY <3>2, <3>3, <2>1 DEF NewVersion
    <3> QED
      BY <1>0, <3>4, <3>5, <3>6, <3>7
  <2> QED
    BY <2>1, <2>3, <2>4, <2>5, <2>6
<1>5. CASE Restart
  BY <1>0, <1>5 DEF Restart, OwnersKeep, OneOwner, EntryFree, NewVersion,
                    Pending, Owning, OwningSteps
<1>6. CASE UNCHANGED vars
  BY <1>0, <1>6 DEF vars, stateVars, notifyVars, threadVars, otherVars,
                    OwnersKeep, OneOwner, EntryFree, NewVersion, Pending, Owning
<1> QED
  BY <1>1, <1>2, <1>3, <1>4, <1>5, <1>6 DEF Next, Paho

LEMMA Settles == AvoidWindows /\ Spec => []SettledInv
<1>1. AvoidWindows /\ SettledInv /\ [Next]_vars => SettledInv'
  BY SettledNext
<1>2. CASE AvoidWindows
  BY <1>1, <1>2, SettledInit, PTL DEF Spec
<1>3. CASE ~AvoidWindows
  BY <1>3, PTL
<1> QED
  BY <1>2, <1>3

(***************************************************************************)
(* Exclusive: as long as no notification arrives in a window, at most one  *)
(* thread downloads, writes, switches or reports, and the state is IDLE    *)
(* exactly when none does.                                                 *)
(***************************************************************************)
THEOREM OneUpdateAtATime == AvoidWindows /\ Spec => []Exclusive
<1>1. SettledInv /\ StateKept => Exclusive
  BY DEF SettledInv, StateKept, Exclusive, OwnersKeep, OneOwner, Keeps, Owning,
         OwningSteps, Steps, TypeOK
<1> QED
  BY <1>1, Kept, Settles, PTL

-----------------------------------------------------------------------------
(* The agent implements the update service.                                *)

LEMMA CurrentOfOwner ==
  ASSUME OneOwner, NEW t \in Threads, Owning(t)
  PROVE  Current = job[t]
  BY DEF Current, OneOwner

\* The mapped variable sees only who owns the state machine, and its job.
LEMMA CurrentSame ==
  ASSUME \A u \in Threads : /\ Owning(u)' <=> Owning(u)
                            /\ Owning(u) => job'[u] = job[u],
         OneOwner, OneOwner'
  PROVE  Current' = Current
<1>1. CASE \E u \in Threads : Owning(u)
  <2> PICK u \in Threads : Owning(u)
    BY <1>1
  <2>1. Current = job[u] /\ Current' = job'[u]
    BY DEF Current, OneOwner
  <2> QED
    BY <2>1
<1>2. CASE \A u \in Threads : ~Owning(u)
  BY <1>2 DEF Current
<1> QED
  BY <1>1, <1>2

LEMMA ServiceStep ==
  ASSUME SettledInv, SettledInv', [Next]_vars
  PROVE  [Service!Next]_<<Current, configVersion>>
<1> USE DEF SettledInv
<1>1. ASSUME UNCHANGED <<pc, job, configVersion>>
      PROVE  UNCHANGED <<Current, configVersion>>
  BY <1>1 DEF Current, Owning
<1>2. CASE StartThread
  <2>1. PICK t \in Threads : /\ pc[t] = "none"
                             /\ pc' = [pc EXCEPT ![t] = "started"]
                             /\ job' = [job EXCEPT ![t] = notify]
    BY <1>2 DEF StartThread, Alive
  <2>2. \A u \in Threads : /\ Owning(u)' <=> Owning(u)
                           /\ Owning(u) => job'[u] = job[u]
    BY <2>1 DEF TypeOK, Owning, OwningSteps
  <2> QED
    BY <1>2, <2>2, CurrentSame DEF StartThread, otherVars
<1>3. ASSUME NEW t \in Threads, Update(t) \/ Progress(t)
      PROVE  [Service!Next]_<<Current, configVersion>>
  <2>1. /\ \A u \in Threads \ {t} : pc'[u] = pc[u]
        /\ GoesOn(t) \/ Releases(t) \/ Acquires(t) \/ Winds(t)
    BY <1>3, ThreadStep
  <2>2. \A u \in Threads \ {t} : Owning(u)' <=> Owning(u)
    BY <2>1 DEF Owning
  <2>3. CASE GoesOn(t)
    <3>1. Owning(t) /\ Owning(t)'
      BY <2>3 DEF GoesOn, Owning
    <3>2. Current = job[t] /\ job[t] # None
      BY <3>1, CurrentOfOwner DEF TypeOK, Owning, OwningSteps
    <3>3. Current' = Current
      BY <3>1, <2>2, <2>3, CurrentSame DEF GoesOn
    <3>4. configVersion' = configVersion \/ Service!Install
      BY <2>3, <3>2, <3>3 DEF GoesOn, Service!Install
    <3> QED
      BY <3>3, <3>4 DEF Service!Next
  <2>4. CASE Releases(t)
    <3>1. Owning(t) /\ ~Owning(t)'
      BY <2>4 DEF Releases, Owning, OwningSteps
    <3>2. Current = job[t] /\ job[t] # None
      BY <3>1, CurrentOfOwner DEF TypeOK, Owning, OwningSteps
    <3>3. \A u \in Threads : ~Owning(u)'
      BY <3>1, <2>2 DEF OneOwner
    <3>4. Current' = None
      BY <3>3 DEF Current
    <3>5. Service!End
      BY <3>2, <3>4, <2>4 DEF Releases, Service!End
    <3> QED
      BY <3>5 DEF Service!Next
  <2>5. CASE Acquires(t)
    <3>1. \A u \in Threads : ~Owning(u)
      BY <2>5 DEF Acquires, OwnersKeep, Keeps
    <3>2. Owning(t)' /\ UNCHANGED <<job, configVersion>>
      BY <2>5 DEF Acquires, Owning, OwningSteps, Steps
    <3>3. Current = None
      BY <3>1 DEF Current
    <3>4. Current' = job[t]
      BY <3>2 DEF Current, OneOwner
    <3>5. VersionOf[job[t]] # configVersion /\ job[t] \in Notifications
      BY <2>5 DEF Acquires, NewVersion, TypeOK, Pending
    <3>6. Service!Begin(job[t])
      BY <3>2, <3>3, <3>4, <3>5 DEF Service!Begin
    <3> QED
      BY <3>5, <3>6 DEF Service!Next
  <2>6. CASE Winds(t)
    <3>1. ~Owning(t) /\ ~Owning(t)'
      BY <2>6 DEF Winds, Owning, OwningSteps
    <3>2. \A u \in Threads : /\ Owning(u)' <=> Owning(u)
                             /\ Owning(u) => job'[u] = job[u]
      BY <3>1, <2>2, <2>6 DEF Winds
    <3> QED
      BY <3>2, <2>6, CurrentSame DEF Winds
  <2> QED
    BY <2>1, <2>3, <2>4, <2>5, <2>6
<1>4. CASE Restart
  <2>1. \A u \in Threads : ~Owning(u)'
    BY <1>4 DEF Restart, Owning, OwningSteps
  <2>2. Current' = None /\ configVersion' \in Versions
    BY <1>4, <2>1 DEF Current, Restart
  <2> QED
    BY <2>2 DEF Service!Next, Service!Restart
<1> QED
  BY <1>1, <1>2, <1>3, <1>4
     DEF Next, Paho, Receive, CheckPackage, Refuse, Accept, vars, threadVars,
         otherVars

(***************************************************************************)
(* ServiceSpec: as long as no notification arrives in a window, the agent  *)
(* implements UpdateService.  It runs one update at a time, begins none    *)
(* for the version it runs, and changes its version only to the one of the *)
(* update under way.                                                       *)
(***************************************************************************)
THEOREM ImplementsService == AvoidWindows /\ Spec => ServiceSpec
<1>1. Init => Service!Init
  BY DEF Init, Service!Init, Current, Owning, OwningSteps
<1>2. SettledInv /\ SettledInv' /\ [Next]_vars
        => [Service!Next]_<<Current, configVersion>>
  BY ServiceStep
<1> QED
  BY <1>1, <1>2, Settles, PTL DEF Spec, ServiceSpec, Service!Spec
=============================================================================
