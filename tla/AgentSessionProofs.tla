------------------------- MODULE AgentSessionProofs -------------------------
(***************************************************************************)
(* Theorems about AgentSession: its types, that a shutdown leaves no       *)
(* heartbeat behind and waits only for a thread that can end, and that no  *)
(* notification is left behind.                                            *)
(***************************************************************************)
EXTENDS AgentSession, SequenceTheorems, TLAPS

HandlerSteps == {"stop", "terminate", "join", "disconnect", "set"}

\* What a step of the innermost handler does to the stack.
LEMMA StackStep ==
  ASSUME NEW s \in Seq(HandlerSteps), s # <<>>, NEW next \in HandlerSteps
  PROVE  /\ <<next>> \o Tail(s) \in Seq(HandlerSteps)
         /\ Len(<<next>> \o Tail(s)) = Len(s)
         /\ \A i \in 1 .. Len(s) :
              (<<next>> \o Tail(s))[i] = IF i = 1 THEN next ELSE s[i]
  OBVIOUS

\* What an interruption does to it.
LEMMA StackPush ==
  ASSUME NEW s \in Seq(HandlerSteps)
  PROVE  /\ <<"stop">> \o s \in Seq(HandlerSteps)
         /\ Len(<<"stop">> \o s) = Len(s) + 1
         /\ \A i \in 1 .. Len(s) + 1 :
              (<<"stop">> \o s)[i] = IF i = 1 THEN "stop" ELSE s[i - 1]
  BY DEF HandlerSteps

\* What the return of a handler does to it.
LEMMA StackPop ==
  ASSUME NEW s \in Seq(HandlerSteps), s # <<>>
  PROVE  /\ Tail(s) \in Seq(HandlerSteps)
         /\ Len(Tail(s)) = Len(s) - 1
         /\ \A i \in 1 .. Len(s) - 1 : Tail(s)[i] = s[i + 1]
  OBVIOUS

-----------------------------------------------------------------------------
\* The types without the stack of handlers.
PlainTypes ==
  /\ main \in {"connect", "heartbeat", "log", "wait", "exited"}
  /\ signals \in 0 .. MaxSignals
  /\ net \in {"none", "connack", "loop", "callback", "reconnect", "ended",
             "raised"}
  /\ net = "none" => main \in {"connect", "exited"}
  /\ {stopping, terminate, online, late} \subseteq BOOLEAN
  /\ subscribed \in {"no", "sent", "yes"}
  /\ timer \in {"none", "armed", "fired", "published"}
  /\ publisher \in {"idle", "connected"}
  /\ payload \in {"update", "unusable", "noobject"}
  /\ notice \in {"none", "held", "received", "handled", "dropped", "raised",
                "lost"}

StackTypes == handlers \in Seq(HandlerSteps) /\ Len(handlers) <= signals

\* A handler on the stack is behind stop_heartbeat_loop.
Passed == \E i \in 1 .. Len(handlers) : handlers[i] # "stop"

(***************************************************************************)
(* Unless it was late, the first stop_heartbeat_loop ends the chain: start *)
(* is past the place where it begins, and only a timer that has fired      *)
(* makes another.                                                          *)
(***************************************************************************)
ChainEnded ==
  (stopping \/ Passed) /\ ~late =>
    timer = "none" /\ main \notin {"connect", "heartbeat"}

Inv == PlainTypes /\ StackTypes /\ ChainEnded

LEMMA StartNext ==
  ASSUME Inv, Start
  PROVE  Inv'
<1> USE DEF Inv, PlainTypes, StackTypes, ChainEnded, Passed, InStart
<1>1. UNCHANGED <<handlers, signals, stopping, late>>
  BY DEF Start, Connect, StartHeartbeat, Log, Exit, heartbeat
<1>2. CASE Connect
  <2>1. /\ main' \in {"exited", "heartbeat"}
        /\ net' \in {net, "connack"}
        /\ net' = "none" => main' = "exited"
        /\ terminate' \in {terminate, FALSE} /\ online' \in {online, TRUE}
        /\ subscribed' \in {subscribed, "no"}
        /\ main = "connect" /\ handlers = <<>>
        /\ UNCHANGED <<timer, late, publisher, payload, notice>>
    BY <1>2 DEF Connect, session, heartbeat, backend
  <2>2. terminate' \in BOOLEAN /\ online' \in BOOLEAN
    BY <2>1
  <2>3. PlainTypes'
    BY <1>1, <2>1, <2>2
  <2>4. StackTypes'
    BY <1>1
  <2>5. ~(stopping /\ ~late) /\ ~Passed'
    <3>1. Len(handlers) = 0
      BY <2>1
    <3> QED
      BY <1>1, <2>1, <3>1
  <2> QED
    BY <1>1, <2>1, <2>3, <2>4, <2>5
<1>3. CASE StartHeartbeat
  BY <1>1, <1>3 DEF StartHeartbeat, session, backend
<1>4. CASE Log
  BY <1>1, <1>4 DEF Log, session, heartbeat, backend
<1>5. CASE Exit
  BY <1>1, <1>5 DEF Exit, Disconnected
<1> QED
  BY <1>2, <1>3, <1>4, <1>5 DEF Start

LEMMA SignalNext ==
  ASSUME Inv, Signal
  PROVE  Inv'
<1> USE DEF Inv
<1>1. /\ signals < MaxSignals /\ signals' = signals + 1
      /\ handlers' = <<"stop">> \o handlers
      /\ UNCHANGED <<main, stopping, session, heartbeat, backend>>
  BY DEF Signal
<1>2. PlainTypes'
  BY <1>1, SessionAssumption DEF PlainTypes, session, heartbeat, backend
<1>3. StackTypes'
  BY <1>1, StackPush, SessionAssumption DEF StackTypes, PlainTypes
<1>4. Passed' => Passed
  <2> SUFFICES ASSUME Passed' PROVE Passed
    OBVIOUS
  <2>1. PICK i \in 1 .. Len(handlers') : handlers'[i] # "stop"
    BY DEF Passed
  <2>2. /\ i \in 1 .. Len(handlers) + 1 /\ i # 1
        /\ handlers'[i] = handlers[i - 1]
    BY <1>1, <2>1, StackPush DEF StackTypes
  <2>3. i - 1 \in 1 .. Len(handlers)
    BY <2>2 DEF StackTypes
  <2> QED
    BY <2>1, <2>2, <2>3 DEF Passed
<1>5. ChainEnded'
  BY <1>1, <1>4 DEF ChainEnded, heartbeat
<1> QED
  BY <1>2, <1>3, <1>5

\* A step of the innermost handler leaves the stack as it should be; and if it
\* is not the first, the handler had passed that before.
LEMMA HandlerStack ==
  ASSUME Inv, NEW at \in HandlerSteps, NEW next \in HandlerSteps, Handler(at, next)
  PROVE  /\ StackTypes'
         /\ UNCHANGED <<main, signals, stopping>>
         /\ Passed' /\ at # "stop" => Passed
<1>1. /\ handlers # <<>> /\ Head(handlers) = at
      /\ handlers' = <<next>> \o Tail(handlers)
      /\ UNCHANGED <<main, signals, stopping>>
  BY DEF Handler
<1>2. /\ handlers' \in Seq(HandlerSteps) /\ Len(handlers') = Len(handlers)
      /\ \A i \in 1 .. Len(handlers) :
           handlers'[i] = IF i = 1 THEN next ELSE handlers[i]
  BY <1>1, StackStep DEF Inv, StackTypes
<1>3. StackTypes'
  BY <1>1, <1>2 DEF Inv, StackTypes
<1>4. at # "stop" => Passed
  <2>1. 1 \in 1 .. Len(handlers) /\ handlers[1] = at
    BY <1>1 DEF Inv, StackTypes
  <2> QED
    BY <2>1 DEF Passed
<1> QED
  BY <1>1, <1>3, <1>4

LEMMA ShutdownNext ==
  ASSUME Inv, Shutdown
  PROVE  Inv'
<1>1. CASE StopHeartbeat
  <2>1. /\ Handler("stop", "terminate")
        /\ timer' = IF timer = "armed" THEN "none" ELSE timer
        /\ late' = (late \/ TooEarlyOrFired)
        /\ UNCHANGED <<session, backend>>
    BY <1>1 DEF StopHeartbeat
  <2>2. StackTypes' /\ UNCHANGED <<main, signals, stopping>>
    BY <2>1, HandlerStack DEF HandlerSteps
  <2>3. PlainTypes'
    BY <2>1, <2>2 DEF Inv, PlainTypes, session, backend, TooEarlyOrFired
  <2>4. ChainEnded'
    BY <2>1, <2>2 DEF Inv, ChainEnded, PlainTypes, TooEarlyOrFired
  <2> QED
    BY <2>2, <2>3, <2>4 DEF Inv
<1>2. CASE LoopStop
  <2>1. \E next \in {"disconnect", "join"} : Handler("terminate", next)
    BY <1>2 DEF LoopStop
  <2>2. StackTypes' /\ UNCHANGED <<main, signals, stopping>> /\ (Passed' => Passed)
    BY <2>1, HandlerStack DEF HandlerSteps
  <2>3. /\ terminate' \in BOOLEAN
        /\ UNCHANGED <<net, online, subscribed, heartbeat, backend>>
    BY <1>2 DEF LoopStop
  <2> QED
    BY <2>2, <2>3 DEF Inv, PlainTypes, ChainEnded, heartbeat, backend
<1>3. CASE Join
  <2>1. Handler("join", "disconnect") /\ UNCHANGED <<session, heartbeat, backend>>
    BY <1>3 DEF Join
  <2>2. StackTypes' /\ UNCHANGED <<main, signals, stopping>> /\ (Passed' => Passed)
    BY <2>1, HandlerStack DEF HandlerSteps
  <2> QED
    BY <2>1, <2>2 DEF Inv, PlainTypes, ChainEnded, session, heartbeat, backend
<1>4. CASE Disconnect
  <2>1. /\ Handler("disconnect", "set") /\ Disconnected
        /\ UNCHANGED <<net, terminate, heartbeat, publisher, payload>>
    BY <1>4 DEF Disconnect
  <2>2. StackTypes' /\ UNCHANGED <<main, signals, stopping>> /\ (Passed' => Passed)
    BY <2>1, HandlerStack DEF HandlerSteps
  <2> QED
    BY <2>1, <2>2 DEF Inv, PlainTypes, ChainEnded, Disconnected, heartbeat
<1>5. CASE SetEvent
  <2>1. /\ handlers # <<>> /\ Head(handlers) = "set" /\ handlers' = Tail(handlers)
        /\ stopping' = TRUE
        /\ UNCHANGED <<main, signals, session, heartbeat, backend>>
    BY <1>5 DEF SetEvent
  <2>2. StackTypes'
    BY <2>1, StackPop, SessionAssumption DEF Inv, StackTypes, PlainTypes
  <2>3. Passed
    <3>1. 1 \in 1 .. Len(handlers) /\ handlers[1] = "set"
      BY <2>1 DEF Inv, StackTypes
    <3> QED
      BY <3>1 DEF Passed
  <2>4. PlainTypes' /\ ChainEnded'
    BY <2>1, <2>3 DEF Inv, PlainTypes, ChainEnded, session, heartbeat, backend
  <2> QED
    BY <2>2, <2>4 DEF Inv
<1> QED
  BY <1>1, <1>2, <1>3, <1>4, <1>5 DEF Shutdown

LEMMA OthersNext ==
  ASSUME Inv, Network \/ Reconnect \/ Heartbeat \/ Backend
  PROVE  Inv'
<1> USE DEF Inv, PlainTypes, StackTypes, ChainEnded, Passed
<1>1. UNCHANGED process
  BY DEF Network, OnConnect, OnDisconnect, Reconnect, Receive, OnMessage,
     LoopEnds, Heartbeat, Fire, PublishHeartbeat, Schedule, Backend, Subscribe,
     LoseConnection, Trigger, PublishNotification, PublishOther
<1>2. CASE Network \/ Reconnect
  BY <1>1, <1>2 DEF Network, OnConnect, OnDisconnect, Reconnect, Receive,
     OnMessage, LoopEnds, process, heartbeat, backend
<1>3. CASE Heartbeat
  BY <1>1, <1>3 DEF Heartbeat, Fire, PublishHeartbeat, Schedule, process, session,
     backend
<1>4. CASE Backend
  <2>1. /\ UNCHANGED <<net, terminate, timer, late>>
        /\ online' \in {online, FALSE} /\ subscribed' \in {subscribed, "yes", "no"}
        /\ publisher' \in {publisher, "idle", "connected"}
        /\ payload' \in {payload, "update", "unusable", "noobject"}
        /\ notice' \in {notice, "held", "lost"}
    BY <1>4 DEF Backend, Subscribe, LoseConnection, Trigger, PublishNotification,
       PublishOther, Publish, Disconnected, process, session, heartbeat, backend
  <2>2. online' \in BOOLEAN
    BY <2>1
  <2>3. PlainTypes'
    BY <1>1, <2>1, <2>2 DEF process
  <2> QED
    BY <1>1, <2>1, <2>3 DEF process
<1> QED
  BY <1>2, <1>3, <1>4

LEMMA InvHolds == Spec => []Inv
<1>1. Init => Inv
  <2> SUFFICES ASSUME Init PROVE Inv
    OBVIOUS
  <2>0. 0 \in 0 .. MaxSignals
    BY SessionAssumption
  <2>1. PlainTypes
    BY <2>0 DEF Init, PlainTypes
  <2>2. Len(handlers) = 0
    BY DEF Init
  <2>3. StackTypes
    BY <2>2 DEF Init, StackTypes
  <2>4. ~Passed
    BY <2>2 DEF Passed
  <2> QED
    BY <2>1, <2>3, <2>4 DEF Init, Inv, ChainEnded
<1>2. Inv /\ [Next]_vars => Inv'
  <2>1. Inv /\ UNCHANGED vars => Inv'
    BY DEF Inv, PlainTypes, StackTypes, ChainEnded, Passed, vars, process, session,
       heartbeat, backend
  <2> QED
    BY <2>1, StartNext, SignalNext, ShutdownNext, OthersNext DEF Next
<1> QED
  BY <1>1, <1>2, PTL DEF Spec

(***************************************************************************)
(* TypeOK; among it that there is a network thread as soon as start() is   *)
(* past the connection, so that the shutdown has one to join.              *)
(***************************************************************************)
THEOREM TypeCorrect == Spec => []TypeOK
<1>1. Inv => TypeOK
  BY DEF Inv, PlainTypes, StackTypes, HandlerSteps, TypeOK
<1> QED
  BY <1>1, InvHolds, PTL

(***************************************************************************)
(* StoppedIsQuiet, for any number of signals, each of which may interrupt  *)
(* the handler of another.                                                 *)
(***************************************************************************)
THEOREM ShutdownIsQuiet == Spec => []StoppedIsQuiet
<1>1. Inv => StoppedIsQuiet
  BY DEF Inv, ChainEnded, StoppedIsQuiet
<1> QED
  BY <1>1, InvHolds, PTL

-----------------------------------------------------------------------------
(***************************************************************************)
(* Who waits in join() waits for a network thread that was told to end.    *)
(* Only connect() and a loop_stop() that finds no thread take that back:   *)
(* the one runs under no handler, the other finds one.                     *)
(***************************************************************************)
JoinInv ==
  \A i \in 1 .. Len(handlers) :
    handlers[i] = "join" => net # "none" /\ terminate

\* A stack has handlers exactly if it has a length.
LEMMA StackEmpty ==
  ASSUME NEW s \in Seq(HandlerSteps)
  PROVE  s = <<>> <=> Len(s) = 0
  BY EmptySeq

LEMMA JoinNext ==
  ASSUME Inv, JoinInv, [Next]_vars
  PROVE  JoinInv'
<1> USE DEF JoinInv
<1>0. handlers \in Seq(HandlerSteps)
  BY DEF Inv, StackTypes
<1>1. CASE Start
  <2>1. UNCHANGED handlers
    BY <1>1 DEF Start, Connect, StartHeartbeat, Log, Exit
  <2>2. handlers = <<>> /\ Len(handlers) = 0
    BY <1>0, <1>1, StackEmpty DEF Start, Connect, StartHeartbeat, Log, Exit, InStart
  <2> QED
    BY <2>1, <2>2
<1>2. CASE Signal
  <2>1. handlers' = <<"stop">> \o handlers /\ UNCHANGED <<net, terminate>>
    BY <1>2 DEF Signal, session
  <2>2. /\ Len(handlers) \in Nat /\ Len(handlers') = Len(handlers) + 1
        /\ \A i \in 1 .. Len(handlers) + 1 :
             handlers'[i] = IF i = 1 THEN "stop" ELSE handlers[i - 1]
    BY <1>0, <2>1, StackPush
  <2>3. \A i \in 1 .. Len(handlers') : handlers'[i] = "join" =>
          i - 1 \in 1 .. Len(handlers) /\ handlers[i - 1] = "join"
    BY <2>2
  <2> QED
    BY <2>1, <2>3
<1>3. ASSUME NEW at \in HandlerSteps, NEW next \in HandlerSteps, Handler(at, next),
             UNCHANGED net, net # "none" /\ terminate => terminate',
             next = "join" => net # "none" /\ terminate'
      PROVE  JoinInv'
  <2>1. handlers # <<>> /\ handlers' = <<next>> \o Tail(handlers)
    BY <1>3 DEF Handler
  <2>2. /\ Len(handlers') = Len(handlers)
        /\ \A i \in 1 .. Len(handlers) :
             handlers'[i] = IF i = 1 THEN next ELSE handlers[i]
    BY <1>0, <2>1, StackStep
  <2>3. ASSUME NEW i \in 1 .. Len(handlers'), handlers'[i] = "join"
        PROVE  net' # "none" /\ terminate'
    <3>1. CASE handlers[i] = "join"
      BY <1>3, <2>2, <2>3, <3>1
    <3>2. CASE handlers[i] # "join"
      BY <1>3, <2>2, <2>3, <3>2
    <3> QED
      BY <3>1, <3>2
  <2> QED
    BY <2>1, <2>3
<1>4. CASE StopHeartbeat
  BY <1>3, <1>4 DEF StopHeartbeat, HandlerSteps, session
<1>5. CASE LoopStop
  BY <1>3, <1>5 DEF LoopStop, HandlerSteps
<1>6. CASE Join
  BY <1>3, <1>6 DEF Join, HandlerSteps, session
<1>7. CASE Disconnect
  BY <1>3, <1>7 DEF Disconnect, HandlerSteps
<1>8. CASE SetEvent
  <2>1. /\ handlers # <<>> /\ handlers' = Tail(handlers)
        /\ UNCHANGED <<net, terminate>>
    BY <1>8 DEF SetEvent, session
  <2>2. /\ Len(handlers) \in Nat /\ Len(handlers') = Len(handlers) - 1
        /\ \A i \in 1 .. Len(handlers) - 1 : handlers'[i] = handlers[i + 1]
    BY <1>0, <2>1, StackPop
  <2>3. \A i \in 1 .. Len(handlers') : handlers'[i] = "join" =>
          i + 1 \in 1 .. Len(handlers) /\ handlers[i + 1] = "join"
    BY <2>2
  <2> QED
    BY <2>1, <2>3
<1>9. CASE Network \/ Reconnect
  <2>1. /\ UNCHANGED <<handlers, terminate>>
        /\ net # "none" /\ net' # "none"
    BY <1>9 DEF Network, OnConnect, OnDisconnect, Reconnect, Receive, OnMessage,
       LoopEnds, process
  <2> QED
    BY <2>1
<1>10. CASE Heartbeat \/ Backend \/ UNCHANGED vars
  <2>1. UNCHANGED <<handlers, net, terminate>>
    BY <1>10 DEF Heartbeat, Fire, PublishHeartbeat, Schedule, Backend, Subscribe,
       LoseConnection, Trigger, PublishNotification, PublishOther, vars, process,
       session
  <2> QED
    BY <2>1
<1> QED
  BY <1>1, <1>2, <1>4, <1>5, <1>6, <1>7, <1>8, <1>9, <1>10 DEF Next, Shutdown

(***************************************************************************)
(* JoinReturns, for any number of signals that interrupt each other's      *)
(* handlers.                                                               *)
(***************************************************************************)
THEOREM ShutdownIsNotStuck == Spec => []JoinReturns
<1>1. Init => JoinInv
  <2>1. Init => handlers = <<>> /\ Len(handlers) = 0
    BY DEF Init
  <2> QED
    BY <2>1 DEF JoinInv
<1>2. Inv /\ JoinInv /\ [Next]_vars => JoinInv'
  BY JoinNext
<1>3. JoinInv => JoinReturns
  BY DEF JoinInv, JoinReturns
<1> QED
  BY <1>1, <1>2, <1>3, InvHolds, PTL DEF Spec

-----------------------------------------------------------------------------
(***************************************************************************)
(* The connection and the subscription go together: a new one of either    *)
(* kind begins without the other's, and they are lost at once.             *)
(***************************************************************************)
SessionInv ==
  /\ main = "connect" => net = "none"
  /\ net \in {"none", "reconnect"} => ~online
  /\ net \in {"none", "connack", "reconnect"} => subscribed = "no"
  /\ subscribed # "no" => online
  /\ NeverDeaf

LEMMA SessionNext ==
  ASSUME Inv, SessionInv, [Next]_vars
  PROVE  SessionInv'
<1> USE DEF SessionInv, NeverDeaf, Alive
<1>1. CASE Connect \/ Exit
  BY <1>1 DEF Connect, Exit, InStart, Disconnected, session, backend
<1>2. CASE StartHeartbeat \/ Log
  BY <1>2 DEF StartHeartbeat, Log, InStart, session, heartbeat, backend
<1>3. CASE Signal \/ StopHeartbeat \/ LoopStop \/ Join \/ SetEvent
  <2>1. /\ UNCHANGED <<main, net, online, subscribed, notice>>
        /\ net = "ended" /\ terminate => terminate'
    BY <1>3 DEF Signal, StopHeartbeat, LoopStop, Join, SetEvent, Handler, session,
       backend
  <2> QED
    BY <2>1
<1>4. CASE Disconnect \/ LoseConnection
  <2>1. Disconnected /\ UNCHANGED <<main, net, terminate>>
    BY <1>4 DEF Disconnect, LoseConnection, Handler, process
  <2> QED
    BY <2>1 DEF Disconnected
<1>5. CASE Network \/ Reconnect
  <2>1. CASE OnMessage
    <3>1. net' \in {"loop", "raised"} /\ notice' \in {"handled", "dropped", "raised"}
          /\ net = "callback" /\ UNCHANGED <<main, terminate, online, subscribed>>
      BY <2>1 DEF OnMessage, Inv, PlainTypes, process
    <3> QED
      BY <3>1
  <2>2. CASE (Network /\ ~OnMessage) \/ Reconnect
    BY <2>2 DEF Network, OnConnect, OnDisconnect, Reconnect, Receive, LoopEnds,
       process, backend
  <2> QED
    BY <1>5, <2>1, <2>2
<1>6. CASE Heartbeat \/ Trigger \/ UNCHANGED vars
  <2>1. UNCHANGED <<main, net, terminate, online, subscribed, notice>>
    BY <1>6 DEF Heartbeat, Fire, PublishHeartbeat, Schedule, Trigger, vars, process,
       session, backend
  <2> QED
    BY <2>1
<1>7. CASE Subscribe \/ PublishNotification \/ PublishOther
  BY <1>7 DEF Subscribe, PublishNotification, PublishOther, Publish, process,
     session, backend
<1> QED
  BY <1>1, <1>2, <1>3, <1>4, <1>5, <1>6, <1>7 DEF Next, Start, Shutdown, Backend

(***************************************************************************)
(* NeverDeaf, with connections that come and go at any moment and any      *)
(* number of signals.                                                      *)
(***************************************************************************)
THEOREM NothingLeftBehind == Spec => []NeverDeaf
<1>1. Init => SessionInv
  BY DEF Init, SessionInv, NeverDeaf
<1>2. Inv /\ SessionInv /\ [Next]_vars => SessionInv'
  BY SessionNext
<1>3. SessionInv => NeverDeaf
  BY DEF SessionInv
<1> QED
  BY <1>1, <1>2, <1>3, InvHolds, PTL DEF Spec
=============================================================================
