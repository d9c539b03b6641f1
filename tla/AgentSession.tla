---------------------------- MODULE AgentSession ----------------------------
(***************************************************************************)
(* The life of the agent's process around the updates: OTAAgent.start and  *)
(* shutdown on the main thread, where the signal handlers run too;         *)
(* MQTTClient, whose callbacks run on paho's network thread; the heartbeat *)
(* of StatusReporter, a chain of timer threads; and trigger-update.py,     *)
(* which publishes notifications, as others may.                           *)
(*                                                                         *)
(* The agent connects with paho's default clean session: the broker        *)
(* forgets its subscriptions, and what it holds for it, with the           *)
(* connection.                                                             *)
(***************************************************************************)
EXTENDS Naturals, Sequences

CONSTANTS
  MaxSignals,      \* bound on the signals sent
  SparesLogging    \* BOOLEAN: no signal arrives while the main thread holds
                   \* the lock of the log

ASSUME SessionAssumption == MaxSignals \in Nat /\ SparesLogging \in BOOLEAN

VARIABLES
  main,        \* the main thread in start(), or "exited"
  handlers,    \* _handle_signal on its stack, innermost first: their steps
  signals,     \* how many signals arrived
  stopping,    \* _shutdown_event
  net,         \* the network thread
  terminate,   \* paho: loop_stop asks the network thread to end
  online,      \* there is a connection to the broker
  subscribed,  \* SUBSCRIBE: "no", "sent" or "yes", as the broker sees it
  timer,       \* the heartbeat: "none", a timer "armed", or one that "fired"
               \* or has "published"
  late,        \* ghost: stop_heartbeat_loop ran before the first timer was
               \* armed, or while one had fired
  publisher,   \* trigger-update.py
  payload,     \* what the last message on the topic is: an "update", an
               \* "unusable" one (not JSON, or without a field), or JSON that is
               \* "noobject"
  notice       \* what became of it: "none", "held" by the broker for the
               \* agent, "received", or how it ended

process == <<main, handlers, signals, stopping>>
session == <<net, terminate, online, subscribed>>
heartbeat == <<timer, late>>
backend == <<publisher, payload, notice>>
vars == <<process, session, heartbeat, backend>>

Alive == main # "exited"

\* What the broker forgets with the connection.
Disconnected ==
  /\ online' = FALSE
  /\ subscribed' = "no"
  /\ notice' = IF notice = "held" THEN "lost" ELSE notice

-----------------------------------------------------------------------------
(* The main thread.                                                        *)

\* A step of start(), while no signal handler runs.
InStart(at) == main = at /\ handlers = <<>>

\* connect() without its loop_start().
ConnectMutant ==
  /\ InStart("connect")
  /\ main' = "heartbeat"
  /\ online' = TRUE
  /\ UNCHANGED <<handlers, signals, stopping, net, terminate, subscribed,
                 heartbeat, backend>>

\* MQTTClient.connect: the first connection is made here, or the exception
\* ends the process; loop_start starts the network thread.
Connect ==
  /\ InStart("connect")
  /\ \/ /\ main' = "exited"
        /\ UNCHANGED session
     \/ /\ main' = "heartbeat"
        /\ net' = "connack" /\ terminate' = FALSE
        /\ online' = TRUE /\ subscribed' = "no"
  /\ UNCHANGED <<handlers, signals, stopping, heartbeat, backend>>

\* start_heartbeat_loop.
StartHeartbeat ==
  /\ InStart("heartbeat")
  /\ main' = "log"
  /\ timer' = "armed"
  /\ UNCHANGED <<handlers, signals, stopping, session, late, backend>>

\* The lines that say that the agent runs.
Log ==
  /\ InStart("log")
  /\ main' = "wait"
  /\ UNCHANGED <<handlers, signals, stopping, session, heartbeat, backend>>

\* _shutdown_event.wait() returns and so does main(): the other threads are
\* daemons, and their connection ends with the process.
Exit ==
  /\ InStart("wait") /\ stopping
  /\ main' = "exited"
  /\ timer' = "none"
  /\ net' = IF net = "none" THEN "none" ELSE "ended"
  /\ Disconnected
  /\ UNCHANGED <<handlers, signals, stopping, terminate, late, publisher,
                 payload>>

-----------------------------------------------------------------------------
(* The signal handler: _handle_signal and shutdown.                        *)

\* A signal interrupts the main thread, and an earlier handler too.
Signal ==
  /\ Alive /\ signals < MaxSignals
  /\ SparesLogging => main # "log"
  /\ handlers' = <<"stop">> \o handlers
  /\ signals' = signals + 1
  /\ UNCHANGED <<main, stopping, session, heartbeat, backend>>

Handler(at, next) ==
  /\ Alive
  /\ handlers # <<>> /\ Head(handlers) = at
  /\ handlers' = <<next>> \o Tail(handlers)
  /\ UNCHANGED <<main, signals, stopping>>

TooEarlyOrFired ==
  main \in {"connect", "heartbeat"} \/ timer \in {"fired", "published"}

\* The timer is forgotten, not cancelled.
StopHeartbeatMutant ==
  /\ Handler("stop", "terminate")
  /\ late' = (late \/ TooEarlyOrFired)
  /\ UNCHANGED <<timer, session, backend>>

\* stop_heartbeat_loop: cancel() does nothing to a timer that has fired.
StopHeartbeat ==
  /\ Handler("stop", "terminate")
  /\ timer' = IF timer = "armed" THEN "none" ELSE timer
  /\ late' = (late \/ TooEarlyOrFired)
  /\ UNCHANGED <<session, backend>>

\* Only a thread that is connected is told to end.
LoopStopMutant ==
  /\ Handler("terminate", IF net = "none" THEN "disconnect" ELSE "join")
  /\ terminate' = online
  /\ UNCHANGED <<net, online, subscribed, heartbeat, backend>>

\* loop_stop, without a network thread and with one ...
LoopStop ==
  /\ Handler("terminate", IF net = "none" THEN "disconnect" ELSE "join")
  /\ terminate' = (net # "none")
  /\ UNCHANGED <<net, online, subscribed, heartbeat, backend>>

\* ... which it waits for; one that raised has ended too.
Join ==
  /\ Handler("join", "disconnect")
  /\ net \in {"ended", "raised"}
  /\ UNCHANGED <<session, heartbeat, backend>>

Disconnect ==
  /\ Handler("disconnect", "set")
  /\ Disconnected
  /\ UNCHANGED <<net, terminate, heartbeat, publisher, payload>>

\* The handler returns to what it interrupted.
SetEvent ==
  /\ Alive
  /\ handlers # <<>> /\ Head(handlers) = "set"
  /\ handlers' = Tail(handlers)
  /\ stopping' = TRUE
  /\ UNCHANGED <<main, signals, session, heartbeat, backend>>

-----------------------------------------------------------------------------
(* The network thread.  Its callbacks write to the log first, whose lock   *)
(* the main thread may hold.                                               *)

LogFree == main # "log"

\* Subscriptions are made once, for the first connection.
OnConnectMutant ==
  /\ Alive /\ net = "connack" /\ online /\ LogFree
  /\ net' = "loop"
  /\ subscribed' = IF notice = "none" THEN "sent" ELSE subscribed
  /\ UNCHANGED <<process, terminate, online, heartbeat, backend>>

\* _on_connect subscribes after every connection.
OnConnect ==
  /\ Alive /\ net = "connack" /\ online /\ LogFree
  /\ net' = "loop"
  /\ subscribed' = "sent"
  /\ UNCHANGED <<process, terminate, online, heartbeat, backend>>

\* _on_disconnect; a refused connection ends the same way.
OnDisconnect ==
  /\ Alive /\ net \in {"connack", "loop"} /\ ~online /\ LogFree
  /\ net' = "reconnect"
  /\ UNCHANGED <<process, terminate, online, subscribed, heartbeat, backend>>

\* After a delay of mqtt_reconnect_delay_min to _max.
Reconnect ==
  /\ Alive /\ net = "reconnect" /\ ~terminate
  /\ net' = "connack"
  /\ online' = TRUE
  /\ UNCHANGED <<process, terminate, subscribed, heartbeat, backend>>

Receive ==
  /\ Alive /\ net = "loop" /\ online /\ notice = "held"
  /\ net' = "callback"
  /\ notice' = "received"
  /\ UNCHANGED <<process, terminate, online, subscribed, heartbeat, publisher,
                 payload>>

\* A notification that is not understood is left for another try.
OnMessageMutant ==
  /\ Alive /\ net = "callback" /\ LogFree
  /\ net' = "loop"
  /\ notice' = IF payload = "update" THEN "handled" ELSE "held"
  /\ UNCHANGED <<process, terminate, online, subscribed, heartbeat, publisher,
                 payload>>

(***************************************************************************)
(* _on_message: what is not JSON or lacks a field is dropped; JSON that is *)
(* no object has no keys(), and the exception ends the network thread; the *)
(* rest goes to OTAAgent._on_update_notify, which only starts a thread.    *)
(***************************************************************************)
OnMessage ==
  /\ Alive /\ net = "callback" /\ LogFree
  /\ net' = IF payload = "noobject" THEN "raised" ELSE "loop"
  /\ notice' = CASE payload = "update" -> "handled"
                 [] payload = "unusable" -> "dropped"
                 [] payload = "noobject" -> "raised"
  /\ UNCHANGED <<process, terminate, online, subscribed, heartbeat, publisher,
                 payload>>

\* The delay before a reconnection does not look at the flag.
LoopEndsMutant ==
  /\ Alive /\ terminate /\ net \in {"connack", "loop"}
  /\ net' = "ended"
  /\ UNCHANGED <<process, terminate, online, subscribed, heartbeat, backend>>

\* The loop looks at the flag between two rounds.
LoopEnds ==
  /\ Alive /\ terminate /\ net \in {"connack", "loop", "reconnect"}
  /\ net' = "ended"
  /\ UNCHANGED <<process, terminate, online, subscribed, heartbeat, backend>>

-----------------------------------------------------------------------------
(* The timer threads: _schedule_heartbeat.                                 *)

Fire ==
  /\ Alive /\ timer = "armed"
  /\ timer' = "fired"
  /\ UNCHANGED <<process, session, late, backend>>

\* Without a connection the chain ends.
PublishHeartbeatMutant ==
  /\ Alive /\ timer = "fired"
  /\ timer' = IF online THEN "published" ELSE "none"
  /\ UNCHANGED <<process, session, late, backend>>

\* A QoS 0 message is given up without a connection.
PublishHeartbeat ==
  /\ Alive /\ timer = "fired"
  /\ timer' = "published"
  /\ UNCHANGED <<process, session, late, backend>>

\* The next timer is armed, unless stop_heartbeat_loop takes it away while
\* it is set up, which raises or cancels it.
Schedule ==
  /\ Alive /\ timer = "published"
  /\ timer' \in IF handlers # <<>> THEN {"armed", "none"} ELSE {"armed"}
  /\ UNCHANGED <<process, session, late, backend>>

-----------------------------------------------------------------------------
(* The broker, the network and trigger-update.py.                          *)

Subscribe ==
  /\ online /\ subscribed = "sent"
  /\ subscribed' = "yes"
  /\ UNCHANGED <<process, net, terminate, online, heartbeat, backend>>

LoseConnection ==
  /\ online
  /\ Disconnected
  /\ UNCHANGED <<process, net, terminate, heartbeat, publisher, payload>>

\* publish_notification, once it has a connection.
Trigger ==
  /\ publisher = "idle" /\ notice # "received"
  /\ publisher' = "connected"
  /\ UNCHANGED <<process, session, heartbeat, payload, notice>>

\* The broker takes a message for the subscribers it has.
Publish(what) ==
  /\ notice \notin {"held", "received"}
  /\ payload' = what
  /\ notice' = IF subscribed = "yes" THEN "held" ELSE "lost"

\* It takes the notification, which has all the fields, or five seconds pass:
\* the script says "Published" either way.
PublishNotification ==
  /\ publisher = "connected" /\ notice \notin {"held", "received"}
  /\ publisher' = "idle"
  /\ Publish("update") \/ UNCHANGED <<payload, notice>>
  /\ UNCHANGED <<process, session, heartbeat>>

\* Another client publishes something on the topic.
PublishOther ==
  /\ \E what \in {"unusable", "noobject"} : Publish(what)
  /\ UNCHANGED <<process, session, heartbeat, publisher>>

-----------------------------------------------------------------------------
Init ==
  /\ main = "connect" /\ handlers = <<>> /\ signals = 0 /\ stopping = FALSE
  /\ net = "none" /\ terminate = FALSE /\ online = FALSE /\ subscribed = "no"
  /\ timer = "none" /\ late = FALSE
  /\ publisher = "idle" /\ payload = "update" /\ notice = "none"

Start == Connect \/ StartHeartbeat \/ Log \/ Exit
Shutdown == StopHeartbeat \/ LoopStop \/ Join \/ Disconnect \/ SetEvent
Network == OnConnect \/ OnDisconnect \/ Receive \/ OnMessage \/ LoopEnds
Heartbeat == Fire \/ PublishHeartbeat \/ Schedule
Backend == \/ Subscribe \/ LoseConnection \/ Trigger \/ PublishNotification
           \/ PublishOther

Next == \/ Start \/ Signal \/ Shutdown \/ Network \/ Reconnect \/ Heartbeat
        \/ Backend

(***************************************************************************)
(* The threads run, timers and timeouts end, and a broker answers while    *)
(* the connection lasts; the network thread looks at the flag in every     *)
(* round of its loop, so however many messages come it ends.  Connections  *)
(* need not come again nor last, signals and messages need not come.       *)
(***************************************************************************)
Spec ==
  /\ Init /\ [][Next]_vars
  /\ WF_vars(Start) /\ WF_vars(Shutdown) /\ WF_vars(Network)
  /\ WF_vars(Heartbeat) /\ WF_vars(Subscribe) /\ SF_vars(LoopEnds)

-----------------------------------------------------------------------------
TypeOK ==
  /\ main \in {"connect", "heartbeat", "log", "wait", "exited"}
  /\ handlers \in Seq({"stop", "terminate", "join", "disconnect", "set"})
  /\ signals \in 0 .. MaxSignals /\ Len(handlers) <= signals
  /\ net \in {"none", "connack", "loop", "callback", "reconnect", "ended",
             "raised"}
  /\ net = "none" => main \in {"connect", "exited"}
  /\ {stopping, terminate, online, late} \subseteq BOOLEAN
  /\ subscribed \in {"no", "sent", "yes"}
  /\ timer \in {"none", "armed", "fired", "published"}
  /\ publisher \in {"idle", "connected"}
  /\ payload \in {"update", "unusable", "noobject"}
  /\ notice \in {"none", "held", "received", "handled", "dropped", "raised",
                "lost"}

(***************************************************************************)
(* A signal ends the process, whatever it interrupts: the first            *)
(* connection, another handler or the wait, with callbacks running and the *)
(* connection coming and going (agent.py:115-128, mqtt_client.py:58-61).   *)
(***************************************************************************)
ShutdownEnds == signals > 0 ~> main = "exited"

(***************************************************************************)
(* After the shutdown has stopped the heartbeat, one comes only if the     *)
(* timer had fired already or was not yet armed then (reporter.py:88-91).  *)
(***************************************************************************)
StoppedIsQuiet == stopping /\ ~late => timer = "none"

(***************************************************************************)
(* The shutdown joins only a thread that was told to end, which no other   *)
(* handler takes back: neither one that interrupts it before the join nor  *)
(* one that it interrupts (agent.py:123-128, mqtt_client.py:60).           *)
(***************************************************************************)
JoinReturns ==
  \A i \in 1 .. Len(handlers) :
    handlers[i] = "join" => net # "none" /\ terminate

(***************************************************************************)
(* No notification is left behind: a loop that runs on a connection asked  *)
(* for notifications on that one, the broker holds one only for a          *)
(* connection that is there, one that was received is in the hands of a    *)
(* callback, and no loop ends that was not told to, unless an exception    *)
(* ended its thread (mqtt_client.py:82-97, 104-118).                       *)
(***************************************************************************)
NeverDeaf ==
  /\ notice = "held" => online /\ subscribed = "yes"
  /\ Alive => /\ online /\ net \in {"loop", "callback"} => subscribed # "no"
              /\ notice = "received" <=> net = "callback"
              /\ net = "ended" => terminate

(***************************************************************************)
(* Whenever there is a connection, the agent will be subscribed, or the    *)
(* connection is lost again or a signal comes: also after a reconnection   *)
(* (mqtt_client.py:82-97).                                                 *)
(***************************************************************************)
SubscribesAgain ==
  online ~> (subscribed = "yes" \/ ~online \/ signals > 0)

(***************************************************************************)
(* A notification the broker holds for the agent is handled or dropped,    *)
(* unless the connection, the process or, by an exception, the network     *)
(* thread ends first (mqtt_client.py:104-118).                             *)
(***************************************************************************)
NotificationAnswered ==
  notice \in {"held", "received"}
    ~> \/ notice \in {"handled", "dropped", "lost"}
       \/ signals > 0 \/ net = "raised"

(***************************************************************************)
(* Once start() waits, a heartbeat comes again and again until a signal    *)
(* ends them, with a connection and without (reporter.py:94-100).          *)
(***************************************************************************)
HeartbeatGoesOn == main = "wait" ~> (timer = "fired" \/ signals > 0)
=============================================================================
