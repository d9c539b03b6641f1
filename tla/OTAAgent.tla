------------------------------ MODULE OTAAgent ------------------------------
(***************************************************************************)
(* agent/agent.py with agent/state_machine.py and the version and status   *)
(* parts of agent/reporter.py: the paho thread that handles update         *)
(* notifications, the daemon threads that run the update pipeline, and the *)
(* state machine they share.                                               *)
(*                                                                         *)
(* One action is one step between two points where another thread may run. *)
(* StateMachine.transition() checks and sets the state under its lock (one *)
(* action) and calls the listeners, which publish the status, after the    *)
(* lock is released (a second action).                                     *)
(***************************************************************************)
EXTENDS StateMachine

CONSTANTS
  Notifications,   \* notifications with the four fields _on_message requires
  VersionOf,       \* the version each notification asks for
  Compatible,      \* the notifications whose hardware list admits the device
  Versions,
  Threads,         \* bound: how many update threads may be alive at once
  Edges,           \* the transition table in force
  SimulationMode,  \* config.simulation_mode
  AvoidWindows,    \* TRUE: no notification arrives in a window (see Settled)
  None

ASSUME ConstantsAssumption ==
  /\ VersionOf \in [Notifications -> Versions]
  /\ Compatible \subseteq Notifications
  /\ SimulationMode \in BOOLEAN
  /\ AvoidWindows \in BOOLEAN
  /\ None \notin Notifications \cup Versions \cup Threads

(***************************************************************************)
(* What the proofs need of the table: the way in, and a way out of every   *)
(* state the pipeline can be in.                                           *)
(***************************************************************************)
ASSUME EdgesAssumption ==
  /\ Edges \subseteq Transitions
  /\ {<<"IDLE", "DOWNLOADING">>,
      <<"DOWNLOADING", "ERROR">>, <<"INSTALLING", "ERROR">>,
      <<"SUCCESS", "IDLE">>, <<"ERROR", "IDLE">>} \subseteq Edges

Partitions == {"A", "B"}

Acks == {"accepted", "update_in_progress", "hardware_incompatible",
         "already_up_to_date"}

VARIABLES
  state,            \* StateMachine._state
  activeMessageId,  \* StateMachine.active_message_id
  targetVersion,    \* StateMachine.target_version
  handler,          \* paho thread: its step in _on_update_notify
  notify,           \* paho thread: the message being handled
  pc,               \* update threads: step in _run_update
  job,              \* update threads: the message argument
  configVersion,    \* AgentConfig.current_version
  reporterVersion,  \* StatusReporter._current_version
  ack,              \* last acknowledgement published
  status,           \* last status published
  running,          \* the partition the kernel was booted from
  cmdline,          \* the partition cmdline.txt names
  writer            \* ghost: the thread that alone wrote the other partition
                    \* since it opened it, or None

stateVars  == <<state, activeMessageId, targetVersion>>
notifyVars == <<handler, notify, ack>>
threadVars == <<pc, job>>
otherVars  == <<configVersion, reporterVersion, running, cmdline>>
vars == <<stateVars, notifyVars, threadVars, otherVars, status,
          writer>>

Other(p) == IF p = "A" THEN "B" ELSE "A"

Alive(t) == pc[t] # "none"

-----------------------------------------------------------------------------
(* The paho thread: MQTTClient._on_message and OTAAgent._on_update_notify. *)

(***************************************************************************)
(* The two windows in which is_busy() says nothing about the updates under *)
(* way: a thread was started and has not reached DOWNLOADING, or the state *)
(* is ERROR and the failing thread has not reached IDLE.  With             *)
(* AvoidWindows the environment delivers nothing in a window.              *)
(***************************************************************************)
Settled == state # "ERROR" /\ \A t \in Threads : pc[t] # "started"

(***************************************************************************)
(* A delivery, in any order and any number of times, and the busy check    *)
(* that comes first.  _on_message drops a payload that is not JSON or      *)
(* lacks a required field, so m has them all.  Bound: a thread is free in   *)
(* case one must be started.                                               *)
(***************************************************************************)
Receive(m) ==
  /\ handler = "waiting"
  /\ AvoidWindows => Settled
  /\ \E t \in Threads : ~Alive(t)
  /\ IF IsBusy(state)
       THEN /\ ack' = "update_in_progress"
            /\ UNCHANGED <<handler, notify>>
       ELSE /\ handler' = "checking"
            /\ notify' = m
            /\ UNCHANGED ack
  /\ UNCHANGED <<stateVars, threadVars, otherVars, status, writer>>

Refuse(reason) ==
  /\ ack' = reason
  /\ handler' = "waiting"
  /\ notify' = None
  /\ UNCHANGED stateVars

Accept ==
  /\ ack' = "accepted"
  /\ activeMessageId' = notify
  /\ targetVersion' = VersionOf[notify]
  /\ handler' = "starting"
  /\ UNCHANGED <<state, notify>>

CheckPackageMutant ==
  /\ handler = "checking"
  /\ IF notify \notin Compatible THEN Refuse("hardware_incompatible")
     ELSE Accept
  /\ UNCHANGED <<threadVars, otherVars, status, writer>>

\* The hardware and version checks, and the acceptance that follows them.
CheckPackage ==
  /\ handler = "checking"
  /\ IF notify \notin Compatible THEN Refuse("hardware_incompatible")
     ELSE IF VersionOf[notify] = configVersion THEN Refuse("already_up_to_date")
     ELSE Accept
  /\ UNCHANGED <<threadVars, otherVars, status, writer>>

StartThreadMutant ==
  /\ handler = "starting"
  /\ \E t \in Threads : /\ ~Alive(t)
                        /\ pc' = [pc EXCEPT ![t] = "started"]
  /\ handler' = "waiting"
  /\ notify' = None
  /\ UNCHANGED <<stateVars, job, otherVars, ack, status, writer>>

\* threading.Thread(target=_run_update, args=(message,)).start()
StartThread ==
  /\ handler = "starting"
  /\ \E t \in Threads : /\ ~Alive(t)
                        /\ pc' = [pc EXCEPT ![t] = "started"]
                        /\ job' = [job EXCEPT ![t] = notify]
  /\ handler' = "waiting"
  /\ notify' = None
  /\ UNCHANGED <<stateVars, otherVars, ack, status, writer>>

-----------------------------------------------------------------------------
(* The update threads: OTAAgent._run_update.                               *)

(***************************************************************************)
(* The partition while the strategy has it open, the only step "write":    *)
(* the bytes of two threads end up in any mix, and a strategy that raises  *)
(* leaves part of its own.  A thread that fails has no use for it.         *)
(***************************************************************************)
Write(t, next) ==
  writer' = IF pc[t] # "write" /\ next = "write"
              THEN IF \E u \in Threads : pc[u] = "write" THEN None ELSE t
            ELSE IF next = "raise" /\ writer = t THEN None
            ELSE writer

Advance(t, next) ==
  /\ pc' = [pc EXCEPT ![t] = next]
  /\ Write(t, next)

(***************************************************************************)
(* StateMachine.transition, called by thread t at step `at': the state     *)
(* changes and t goes to `ok', or ValueError takes it to `illegal'.        *)
(***************************************************************************)
Transition(t, at, new, ok, illegal) ==
  /\ pc[t] = at
  /\ IF <<state, new>> \in Edges
       THEN state' = new /\ Advance(t, ok)
       ELSE state' = state /\ Advance(t, illegal)
  /\ UNCHANGED <<activeMessageId, targetVersion, job, notifyVars, otherVars,
                 status>>

\* The listener registered by start(): StatusReporter.publish_status.
Publish(t, at, published, next) ==
  /\ pc[t] = at
  /\ status' = published
  /\ Advance(t, next)
  /\ UNCHANGED <<stateVars, job, notifyVars, otherVars>>

\* A step that only decides where thread t goes next.
Go(t, at, next) ==
  /\ pc[t] = at
  /\ Advance(t, next)
  /\ UNCHANGED <<stateVars, job, notifyVars, otherVars, status>>

BeginDownload(t) ==
  \/ Transition(t, "started", "DOWNLOADING", "tellDownloading", "raise")
  \/ Publish(t, "tellDownloading", "DOWNLOADING", "detect")

\* detect_inactive_partition(), which may raise; not called in simulation.
Detect(t) ==
  \/ Go(t, "detect", "write")
  \/ ~SimulationMode /\ Go(t, "detect", "raise")

(***************************************************************************)
(* strategy.execute() returns or raises; until then its progress callback  *)
(* publishes DOWNLOADING, whatever the state machine says.                 *)
(***************************************************************************)
Execute(t) ==
  \/ Go(t, "write", "written")
  \/ Go(t, "write", "raise")

Progress(t) == Publish(t, "write", "DOWNLOADING", "write")

BeginInstall(t) ==
  \/ Transition(t, "written", "INSTALLING", "tellInstalling", "raise")
  \/ Publish(t, "tellInstalling", "INSTALLING",
             IF SimulationMode THEN "succeed" ELSE "switch")

(***************************************************************************)
(* _switch_boot_partition: raises when cmdline.txt is missing, or no       *)
(* longer names the running partition, or when the sync after the write    *)
(* fails.                                                                  *)
(***************************************************************************)
SwitchBoot(t) ==
  \/ Go(t, "switch", "raise")
  \/ /\ pc[t] = "switch"
     /\ cmdline = running
     /\ cmdline' = Other(running)
     /\ \E next \in {"reboot", "raise"} : Advance(t, next)
     /\ UNCHANGED <<stateVars, job, notifyVars, status,
                    configVersion, reporterVersion, running>>

\* _reboot: the command fails, or is accepted and the thread goes on until
\* the shutdown it asked for (Restart) ends the process.
Reboot(t) == Go(t, "reboot", "raise") \/ Go(t, "reboot", "succeed")

BeginSuccess(t) ==
  \/ Transition(t, "succeed", "SUCCESS", "tellSuccess", "raise")
  \/ Publish(t, "tellSuccess", "SUCCESS", "adopt")

AdoptReporter(t) ==
  /\ pc[t] = "adopt"
  /\ reporterVersion' = VersionOf[job[t]]
  /\ Advance(t, "record")
  /\ UNCHANGED <<stateVars, job, notifyVars, status,
                 configVersion, running, cmdline>>

AdoptConfigMutant(t) == Go(t, "record", "finally")

AdoptConfig(t) ==
  /\ pc[t] = "record"
  /\ configVersion' = VersionOf[job[t]]
  /\ Advance(t, "finally")
  /\ UNCHANGED <<stateVars, job, notifyVars, status,
                 reporterVersion, running, cmdline>>

FailMutant(t) == Go(t, "raise", "finally")

\* The except clauses: _transition_error, which swallows ValueError.
Fail(t) ==
  \/ Transition(t, "raise", "ERROR", "tellError", "finally")
  \/ Publish(t, "tellError", "ERROR", "finally")

FinishMutant(t) == Transition(t, "finally", "IDLE", "clear", "clear")

\* The finally clause, up to the two assignments.
Finish(t) ==
  \/ Transition(t, "finally", "IDLE", "tellIdle", "clear")
  \/ Publish(t, "tellIdle", "IDLE", "clear")

ClearMutant(t) ==
  /\ pc[t] = "clear"
  /\ Advance(t, "none")
  /\ job' = [job EXCEPT ![t] = None]
  /\ UNCHANGED <<stateVars, notifyVars, otherVars, status>>

\* The end of the finally clause, and of the thread.
Clear(t) ==
  /\ pc[t] = "clear"
  /\ activeMessageId' = None
  /\ targetVersion' = None
  /\ Advance(t, "none")
  /\ job' = [job EXCEPT ![t] = None]
  /\ UNCHANGED <<state, notifyVars, otherVars, status>>

-----------------------------------------------------------------------------
(***************************************************************************)
(* A new process of the agent takes its version from config.yaml, the      *)
(* environment or the command line: nothing in the agent writes it back,   *)
(* so it may be any version, whatever was installed before.                *)
(***************************************************************************)
Init ==
  /\ state = "IDLE"
  /\ activeMessageId = None
  /\ targetVersion = None
  /\ handler = "waiting"
  /\ notify = None
  /\ pc = [t \in Threads |-> "none"]
  /\ job = [t \in Threads |-> None]
  /\ configVersion \in Versions
  /\ reporterVersion = configVersion
  /\ ack = "none"
  /\ status = "none"
  /\ running \in Partitions
  /\ cmdline = running
  /\ writer = None

(***************************************************************************)
(* The process ends at any point and starts again: with the machine (the   *)
(* reboot asked for, or a power loss), which boots what cmdline.txt names, *)
(* or alone (a crash and a restart of the service).                        *)
(***************************************************************************)
Restart ==
  /\ state' = "IDLE"
  /\ activeMessageId' = None
  /\ targetVersion' = None
  /\ handler' = "waiting"
  /\ notify' = None
  /\ pc' = [t \in Threads |-> "none"]
  /\ job' = [t \in Threads |-> None]
  /\ configVersion' \in Versions
  /\ reporterVersion' = configVersion'
  /\ ack' = "none"
  /\ status' = "none"
  /\ running' \in {running, cmdline}
  /\ writer' = None
  /\ UNCHANGED cmdline

Paho == (\E m \in Notifications : Receive(m)) \/ CheckPackage \/ StartThread

Update(t) ==
  \/ BeginDownload(t) \/ Detect(t) \/ Execute(t) \/ BeginInstall(t)
  \/ SwitchBoot(t) \/ Reboot(t) \/ BeginSuccess(t)
  \/ AdoptReporter(t) \/ AdoptConfig(t)
  \/ Fail(t) \/ Finish(t) \/ Clear(t)

Next ==
  \/ Paho
  \/ \E t \in Threads : Update(t) \/ Progress(t)
  \/ Restart

Spec == Init /\ [][Next]_vars

(***************************************************************************)
(* The operating system runs every thread, and every call _run_update      *)
(* makes returns: HTTP requests have a timeout, images are finite and the  *)
(* commands end.  A progress publication is no progress of the thread, so  *)
(* it is not part of the fair steps.  Deliveries and restarts are unfair.  *)
(***************************************************************************)
FairSpec ==
  /\ Spec
  /\ WF_vars(CheckPackage) /\ WF_vars(StartThread)
  /\ \A t \in Threads : WF_vars(Update(t))

-----------------------------------------------------------------------------
Steps == {"none", "started", "tellDownloading", "detect", "write", "written",
          "tellInstalling", "switch", "reboot", "succeed", "tellSuccess",
          "adopt", "record", "raise", "tellError", "finally", "tellIdle",
          "clear"}

(***************************************************************************)
(* The types, and that a thread has a message exactly while it is alive    *)
(* and the paho thread exactly while it handles one.                       *)
(***************************************************************************)
TypeOK ==
  /\ state \in UpdateState
  /\ activeMessageId \in Notifications \cup {None}
  /\ targetVersion \in Versions \cup {None}
  /\ handler \in {"waiting", "checking", "starting"}
  /\ notify \in Notifications \cup {None}
  /\ notify = None <=> handler = "waiting"
  /\ pc \in [Threads -> Steps]
  /\ job \in [Threads -> Notifications \cup {None}]
  /\ \A t \in Threads : job[t] = None <=> pc[t] = "none"
  /\ configVersion \in Versions
  /\ reporterVersion \in Versions
  /\ ack \in Acks \cup {"none"}
  /\ status \in UpdateState \cup {"none"}
  /\ running \in Partitions
  /\ cmdline \in Partitions
  /\ writer \in Threads \cup {None}

NoThread == \A t \in Threads : ~Alive(t)

(***************************************************************************)
(* The state machine never outlives the threads that move it: when every   *)
(* update thread is gone the state is IDLE, whatever was interleaved with  *)
(* what and whichever transitions were refused on the way.  Otherwise the  *)
(* agent would reject every later update (agent.py:139, 246-250).          *)
(***************************************************************************)
NoStuckState == NoThread => state = "IDLE"

(***************************************************************************)
(* When nothing is under way the record of the active update is empty,     *)
(* although every thread and the paho thread write it without a lock       *)
(* (agent.py:159-160, 251-252).                                            *)
(***************************************************************************)
QuiescentClean ==
  NoThread /\ handler # "starting" => activeMessageId = None /\ targetVersion = None

(***************************************************************************)
(* The agent always becomes free again (agent.py:246-250).                 *)
(***************************************************************************)
FreesItself == state # "IDLE" ~> state = "IDLE"

(***************************************************************************)
(* "Return True when an update is in progress (not IDLE or ERROR)"         *)
(* (state_machine.py:52): is_busy() holds while a thread writes the image. *)
(***************************************************************************)
BusyWhileWriting ==
  (\E t \in Threads : pc[t] \in {"write", "written"}) => IsBusy(state)

(***************************************************************************)
(* "After the strategy writes the image, we switch the boot partition and  *)
(* reboot" (agent.py:176-177): a thread whose strategy returned does not   *)
(* go to the error path before it tried to switch.                         *)
(***************************************************************************)
WrittenIsInstalled ==
  [][\A t \in Threads : pc[t] = "written" => pc'[t] # "raise"]_vars

-----------------------------------------------------------------------------
(* What holds when no notification arrives in a window.                    *)

\* The threads that own the state machine: between the transition to
\* DOWNLOADING and the one back to IDLE.
OwningSteps == Steps \ {"none", "started", "tellIdle", "clear"}
Owning(t) == pc[t] \in OwningSteps

(***************************************************************************)
(* At most one thread downloads, writes, switches or reports at a time     *)
(* (agent.py:139: the busy check is all the agent has for a lock), and the *)
(* state is IDLE exactly when there is none.                               *)
(***************************************************************************)
Exclusive ==
  /\ \A t, u \in Threads : Owning(t) /\ Owning(u) => t = u
  /\ state = "IDLE" <=> \A t \in Threads : ~Owning(t)

(***************************************************************************)
(* An accepted update is never turned away by the state machine            *)
(* (agent.py:158, 188).                                                    *)
(***************************************************************************)
NotTurnedAway ==
  [][\A t \in Threads : pc[t] = "started" => pc'[t] # "raise"]_vars

(***************************************************************************)
(* The last status the backend hears of a quiescent agent is IDLE: the     *)
(* publications of different threads, made outside the lock, cannot leave  *)
(* an older status behind (state_machine.py:75-79, agent.py:269).          *)
(***************************************************************************)
QuiescentStatus == NoThread => status \in {"IDLE", "none"}

(***************************************************************************)
(* A thread switches to the whole image of its own update: nobody opened   *)
(* the partition while it wrote, nor between its write and its switch      *)
(* (agent.py:205-219; the busy check at agent.py:139 is all there is for a *)
(* lock on the partition).                                                 *)
(***************************************************************************)
SwitchesOwnImage ==
  [][cmdline' # cmdline =>
       \E t \in Threads : pc[t] = "switch" /\ writer = t]_vars

(***************************************************************************)
(* The version the agent reports and the one it compares notifications     *)
(* with agree between updates (agent.py:231-232).                          *)
(***************************************************************************)
VersionsAgree == state = "IDLE" => reporterVersion = configVersion

(***************************************************************************)
(* The update service this module implements: the update under way is the  *)
(* job of the thread that owns the state machine.                          *)
(***************************************************************************)
Current == IF \E t \in Threads : Owning(t)
             THEN job[CHOOSE t \in Threads : Owning(t)]
             ELSE None

Service == INSTANCE UpdateService WITH update <- Current,
                                       version <- configVersion
ServiceSpec == Service!Spec
ServiceFairSpec == Service!FairSpec
=============================================================================
