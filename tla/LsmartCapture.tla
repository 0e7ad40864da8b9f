----------------------------- MODULE LsmartCapture -----------------------------
(***************************************************************************)
(* What the LSMART demo records: the bridge's clients publish connections,  *)
(* orders and telemetry through one broker, the fleet's client announces    *)
(* the end of the run, and the recorder seals what it saw until then.       *)
(* LsmartBridge has the files between the simulation and the bridge and the *)
(* batches' way through them; here a robot has at most one batch, with the  *)
(* stage it is in, and the messages on the wire are kept.                   *)
(*                                                                          *)
(* A connection is <<client, session>>; only the fault target has a second  *)
(* session, with a client id of its own.  Each has a FIFO link to the       *)
(* broker, and the broker hands a message on when it takes it off its link. *)
(***************************************************************************)
EXTENDS Integers, Sequences, FiniteSets, CaptureTrace

CONSTANTS FaultTick,      (* 150 in the code                                  *)
          OutageTicks,    (* 10 in the code                                   *)
          StatePeriod,    (* 5 in the code                                    *)
          Jobs            (* the runs to consider, see JobType                *)

(* The plan's number of robots, simulation_ticks, message_limit and            *)
(* inject_reconnect_fault (10, 600 and 8192 in the code); batches bounds what   *)
(* a controller obtains and faults the connections and messages lost; slow     *)
(* says that workers may take longer than the pauses that wait for them, and   *)
(* the whole run longer than its deadline.                                     *)
JobType == [robots : Nat \ {0}, ticks : Nat, limit : Nat, inject : BOOLEAN,
            batches : Nat, faults : Nat, slow : BOOLEAN]

(* Per robot ONLINE, a visualization a tick, a state every StatePeriod ticks,  *)
(* an order a batch and a will; the target has one more of ONLINE and will.    *)
WorstCase(j) == j.robots * (2 + j.ticks + j.ticks \div StatePeriod + j.batches) + 2

ASSUME ConstantsAssumption ==
    /\ FaultTick \in Nat \ {0} /\ OutageTicks \in Nat \ {0}
    /\ StatePeriod \in Nat \ {0}
    /\ Jobs \subseteq JobType
    /\ \A j \in Jobs : j.limit >= WorstCase(j)

VARIABLES
  job,
  tick,         (* of the poses in the telemetry files                        *)
  complete,     (* complete.json is there                                     *)
  batch,        (* batch[r]: the stage of the batch r waits for               *)
  batches,      (* batches[r]: batches obtained                               *)
  accepted,     (* accepted[r]: vda_current_order_id, 0 when empty            *)
  pc,           (* the phase of the bridge's loop, or how the bridge ended    *)
  client,       (* client[r]: "up", "dead" when its worker stopped, or "none" *)
  session,      (* connection_epoch of the target                             *)
  lastTick,     (* last_tick, 0 when None                                     *)
  faultInjected,
  reconnectAt,  (* reconnect_at_tick of the target, 0 when None               *)
  orderHeader, vizHeader, stateHeader,
  link,         (* link[c]: of connection c, a trailing Last Will included    *)
  rec,          (* the recorder, see below                                    *)
  captured,
  faults

Fleet == 0
FaultTarget == 1
Robots == 1 .. job.robots
Connections == ({Fleet} \cup Robots) \X {1} \cup {<<FaultTarget, 2>>}
ClientOf(c) == c[1]

simVars == <<tick, complete, batches, accepted>>
headerVars == <<orderHeader, vizHeader, stateHeader>>
faultVars == <<session, faultInjected, reconnectAt>>
recVars == <<rec, captured>>
vars == <<job, simVars, batch, pc, client, lastTick, faultVars, headerVars, link,
          recVars, faults>>

Phases == {"receive", "faults", "publish", "telemetry", "check", "shutdown"}
Ended == {"done", "failed"}

(* The stage of a batch: in the outbox; in the pending map, then published;    *)
(* at the robot's client; in the inbox directory.                              *)
BatchStages == {"none", "queued", "pending", "published", "carried", "returned"}

(* ref is the state a visualization refers to, or the order a state names.    *)
Message(topic, r, header, value, s, ref) ==
    [topic |-> topic, robot |-> r, header |-> header, value |-> value,
     session |-> s, ref |-> ref]

Connection(r, header, state, s) == Message("connection", r, header, state, s, 0)
Order(r, header, number) == Message("order", r, header, "order", 1, number)
State(r, header, s, order) == Message("state", r, header, "pose", s, order)
Visualization(r, header, s, state) ==
    Message("visualization", r, header, "position", s, state)
Control == Message("control", 0, 0, "complete", 1, 0)

(* The will of session 2 is headed connection_header + 1 before ONLINE takes  *)
(* the same id.                                                               *)
Will(c) == Connection(c[1], 2 * c[2], "CONNECTION_BROKEN", c[2])

SessionOfRobot(r) == IF r = FaultTarget THEN session ELSE 1
Conn(r) == <<r, SessionOfRobot(r)>>

Messages ==
    [topic : {"connection", "order", "state", "visualization", "control"},
     robot : Robots \cup {0}, header : Nat, session : {1, 2}, ref : Nat,
     value : {"ONLINE", "CONNECTION_BROKEN", "order", "pose", "position", "complete"}]

TypeOK ==
    /\ job \in Jobs
    /\ tick \in 0 .. job.ticks /\ complete \in BOOLEAN
    /\ batch \in [Robots -> BatchStages]
    /\ batches \in [Robots -> 0 .. job.batches]
    /\ accepted \in [Robots -> 0 .. job.batches]
    /\ pc \in Phases \cup Ended
    /\ client \in [Robots \cup {Fleet} -> {"up", "dead", "none"}]
    /\ session \in {1, 2}
    /\ lastTick \in [Robots -> 0 .. job.ticks]
    /\ faultInjected \in BOOLEAN /\ reconnectAt \in Nat
    /\ \A h \in {orderHeader, vizHeader, stateHeader} : h \in [Robots -> Nat]
    /\ link \in [Connections -> Seq(Messages)]
    /\ rec \in {"recording", "sealed", "overflow", "failed"}
    /\ captured \in Seq(Messages)
    /\ faults \in 0 .. job.faults

(* The stack when the simulation starts: every robot's client has subscribed   *)
(* and was given its ONLINE.                                                   *)
Init ==
    /\ job \in Jobs
    /\ tick = 0 /\ complete = FALSE
    /\ batch = [r \in Robots |-> "none"]
    /\ batches = [r \in Robots |-> 0] /\ accepted = [r \in Robots |-> 0]
    /\ pc = "receive"
    /\ client = [c \in Robots \cup {Fleet} |-> "up"]
    /\ session = 1 /\ lastTick = [r \in Robots |-> 0]
    /\ faultInjected = FALSE /\ reconnectAt = 0
    /\ orderHeader = [r \in Robots |-> 0]
    /\ vizHeader = [r \in Robots |-> 0] /\ stateHeader = [r \in Robots |-> 0]
    /\ link = [c \in Connections |->
                IF c[1] = Fleet \/ c[2] = 2 THEN << >>
                ELSE <<Connection(c[1], 1, "ONLINE", 1)>>]
    /\ rec = "recording" /\ captured = << >>
    /\ faults = 0

MayFault == faults < job.faults

-----------------------------------------------------------------------------
(* The simulation, a tick of all robots at a time: a returned batch is taken,  *)
(* a robot without one may obtain the next, the poses are written.             *)

Idle == {r \in Robots : batch[r] \in {"none", "returned"}}

(* Mutant: the pose names the order asked for. *)
CurrentOrderMutant(r) == batches[r]

CurrentOrder(r) == IF batch[r] = "returned" THEN batches[r] ELSE accepted[r]

MoreTicks == tick < job.ticks

Simulate ==
    /\ MoreTicks /\ tick' = tick + 1
    /\ accepted' = [r \in Robots |-> CurrentOrder(r)]
    /\ \E obtain \in SUBSET {r \in Idle : batches[r] < job.batches} :
        /\ batches' = [r \in Robots |-> IF r \in obtain THEN batches[r] + 1 ELSE batches[r]]
        /\ batch' = [r \in Robots |-> IF r \in obtain THEN "queued"
                                      ELSE IF r \in Idle THEN "none" ELSE batch[r]]
    /\ UNCHANGED <<job, complete, pc, client, lastTick, faultVars, headerVars, link,
                   recVars, faults>>

WriteComplete ==
    /\ tick = job.ticks /\ ~complete /\ complete' = TRUE
    /\ UNCHANGED <<job, tick, batch, batches, accepted, pc, client, lastTick, faultVars,
                   headerVars, link, recVars, faults>>

-----------------------------------------------------------------------------
(* Links *)

(* The link of c when its connection ends without DISCONNECT after the broker  *)
(* got k messages: the Last Will follows.  The fleet's client has none.        *)
Cut(c, k) ==
    SubSeq(link[c], 1, k) \o (IF ClientOf(c) = Fleet THEN << >> ELSE <<Will(c)>>)

(* How much of link c has left the worker when a pause for it is over.         *)
Flushed(c) == IF job.slow THEN 0 .. Len(link[c]) ELSE {Len(link[c])}

ConnectionOf(x) == IF x = Fleet THEN <<Fleet, 1>> ELSE Conn(x)

Sever(x, state, kept) ==
    /\ client' = [client EXCEPT ![x] = state]
    /\ \E k \in kept : link' = [link EXCEPT ![ConnectionOf(x)] = Cut(ConnectionOf(x), k)]

(* A connection error stops a worker. *)
ConnectionLost(x) ==
    /\ pc \notin Ended /\ MayFault /\ faults' = faults + 1
    /\ client[x] = "up"
    /\ Sever(x, "dead", 0 .. Len(link[ConnectionOf(x)]))
    /\ UNCHANGED <<job, simVars, batch, pc, lastTick, faultVars, headerVars, recVars>>

(* A bridge that failed exits, and its sockets are closed. *)
Exit(x) ==
    /\ pc = "failed" /\ client[x] = "up"
    /\ Sever(x, "none", 0 .. Len(link[ConnectionOf(x)]))
    /\ UNCHANGED <<job, simVars, batch, pc, lastTick, faultVars, headerVars, recVars, faults>>

-----------------------------------------------------------------------------
(* The bridge.  One iteration of the loop is                                   *)
(*   receive -> faults -> publish -> telemetry -> check -> receive.            *)

ReceiveDeliveries ==
    /\ pc = "receive" /\ pc' = "faults"
    /\ \A r \in Robots : client[r] # "dead"
    /\ batch' = [r \in Robots |-> IF batch[r] = "carried" THEN "returned" ELSE batch[r]]
    /\ UNCHANGED <<job, simVars, client, lastTick, faultVars, headerVars, link, recVars, faults>>

(* manage_faults *)

ShouldInjectFault ==
    /\ ~faultInjected /\ lastTick[FaultTarget] >= FaultTick
    /\ batch[FaultTarget] \notin {"pending", "published", "carried"}

ShouldReconnect ==
    /\ client[FaultTarget] = "none" /\ reconnectAt # 0
    /\ lastTick[FaultTarget] >= reconnectAt

NoFaultWork ==
    /\ pc = "faults" /\ pc' = "publish"
    /\ ~ShouldInjectFault /\ ~ShouldReconnect
    /\ UNCHANGED <<job, simVars, batch, client, lastTick, faultVars, headerVars, link,
                   recVars, faults>>

(* At least 20 ms after the last publication. *)
InjectFault ==
    /\ pc = "faults" /\ pc' = "publish"
    /\ ShouldInjectFault
    /\ faultInjected' = TRUE /\ reconnectAt' = lastTick[FaultTarget] + OutageTicks
    /\ IF client[FaultTarget] = "up"
       THEN Sever(FaultTarget, "none", Flushed(Conn(FaultTarget)))
       ELSE client' = [client EXCEPT ![FaultTarget] = "none"] /\ UNCHANGED link
    /\ UNCHANGED <<job, simVars, batch, session, lastTick, headerVars, recVars, faults>>

(* Mutant: ONLINE is headed like the first will.                               *)
GreetingHeaderMutant ==
    IF job.inject THEN << >> ELSE <<Connection(FaultTarget, 2, "ONLINE", 2)>>

Greeting == IF job.inject THEN << >> ELSE <<Connection(FaultTarget, 4, "ONLINE", 2)>>

(* The broker has dealt with the socket closed OutageTicks before.             *)
FirstSessionEnded == link[<<FaultTarget, 1>>] = << >>

Reconnect ==
    /\ pc = "faults" /\ pc' = "publish"
    /\ ShouldReconnect /\ FirstSessionEnded
    /\ session' = 2 /\ reconnectAt' = 0
    /\ client' = [client EXCEPT ![FaultTarget] = "up"]
    /\ link' = [link EXCEPT ![<<FaultTarget, 2>>] = Greeting]
    /\ UNCHANGED <<job, simVars, batch, lastTick, faultInjected, headerVars, recVars, faults>>

(* discover_batches and publish_ready_batches: robots without a client wait.   *)
Discovered == [r \in Robots |-> IF batch[r] = "queued" THEN "pending" ELSE batch[r]]

Ready == {r \in Robots : Discovered[r] = "pending" /\ client[r] # "none"}

(* Batches are taken in the order of their ids, which begin with the robot's. *)
Ascending(ready) ==
    {file \in Bijection(1 .. Cardinality(ready), ready) :
        \A i, j \in DOMAIN file : i < j => file[i] < file[j]}

OrderOf(r) == Order(r, orderHeader[r] + 1, batches[r])

PublishOrders ==
    /\ pc = "publish" /\ pc' = "telemetry"
    /\ Ready # {} => client[Fleet] = "up"
    /\ batch' = [r \in Robots |-> IF r \in Ready THEN "published" ELSE Discovered[r]]
    /\ orderHeader' = [r \in Robots |-> IF r \in Ready THEN orderHeader[r] + 1 ELSE orderHeader[r]]
    /\ \E file \in Ascending(Ready) :
        link' = [link EXCEPT ![<<Fleet, 1>>] = @ \o [i \in DOMAIN file |-> OrderOf(file[i])]]
    /\ UNCHANGED <<job, simVars, client, lastTick, faultVars, vizHeader, stateHeader,
                   recVars, faults>>

(* publish_telemetry *)

Fresh(r) == tick > lastTick[r]
Reporting == {r \in Robots : Fresh(r) /\ client[r] # "none"}
StateIsDue == tick % StatePeriod = 0

(* The visualization refers to the state before the one of the same tick.      *)
Pose(r) ==
    <<Visualization(r, vizHeader[r] + 1, SessionOfRobot(r), stateHeader[r])>>
    \o (IF StateIsDue
        THEN <<State(r, stateHeader[r] + 1, SessionOfRobot(r), accepted[r])>> ELSE << >>)

PublishTelemetry ==
    /\ pc = "telemetry" /\ pc' = "check"
    /\ \A r \in Reporting : client[r] = "up"
    /\ lastTick' = [r \in Robots |-> tick]
    /\ vizHeader' = [r \in Robots |-> IF r \in Reporting THEN vizHeader[r] + 1 ELSE vizHeader[r]]
    /\ stateHeader' = [r \in Robots |-> IF r \in Reporting /\ StateIsDue
                                        THEN stateHeader[r] + 1 ELSE stateHeader[r]]
    /\ link' = [c \in Connections |->
                 IF ClientOf(c) \in Reporting /\ c = Conn(ClientOf(c))
                 THEN link[c] \o Pose(ClientOf(c)) ELSE link[c]]
    /\ UNCHANGED <<job, simVars, batch, client, faultVars, orderHeader, recVars, faults>>

(* Mutant: batches not yet returned do not keep the bridge from finishing. *)
MayFinishMutant == complete

MayFinish ==
    complete /\ \A r \in Robots : batch[r] \notin {"pending", "published", "carried"}

NextIteration ==
    /\ pc = "check" /\ pc' = "receive"
    /\ ~MayFinish
    /\ UNCHANGED <<job, simVars, batch, client, lastTick, faultVars, headerVars, link,
                   recVars, faults>>

Announce == link' = [link EXCEPT ![<<Fleet, 1>>] = Append(@, Control)]

Finish ==
    /\ pc = "check" /\ pc' = "shutdown"
    /\ MayFinish /\ client[Fleet] = "up"
    /\ Announce
    /\ UNCHANGED <<job, simVars, batch, client, lastTick, faultVars, headerVars,
                   recVars, faults>>

(* finish_bridge: each client has 100 ms to send what it has and DISCONNECT.   *)
Shutdown(x) ==
    /\ client[x] # "none"
    /\ \/ client' = [client EXCEPT ![x] = "none"] /\ UNCHANGED link
       \/ job.slow /\ client[x] = "up" /\ Sever(x, "none", 0 .. Len(link[ConnectionOf(x)]))
    /\ UNCHANGED <<job, simVars, batch, lastTick, faultVars, headerVars, recVars, faults>>

ShutdownRobot(r) ==
    /\ pc = "shutdown" /\ pc' = pc
    /\ \A q \in 1 .. r - 1 : client[q] = "none"
    /\ Shutdown(r)

ShutdownFleet ==
    /\ pc = "shutdown" /\ pc' = "done"
    /\ \A r \in Robots : client[r] = "none"
    /\ Shutdown(Fleet)

(* A client whose worker stopped, a client that cannot connect, the deadline.  *)
Broken ==
    \/ pc = "receive" /\ \E r \in Robots : client[r] = "dead"
    \/ pc = "publish" /\ Ready # {} /\ client[Fleet] = "dead"
    \/ pc = "telemetry" /\ \E r \in Reporting : client[r] = "dead"
    \/ pc = "check" /\ MayFinish /\ client[Fleet] = "dead"

BridgeFails ==
    /\ \/ Broken /\ UNCHANGED faults
       \/ pc = "faults" /\ ShouldReconnect /\ MayFault /\ faults' = faults + 1
       \/ pc = "receive" /\ job.slow /\ UNCHANGED faults
    /\ pc' = "failed"
    /\ UNCHANGED <<job, simVars, batch, client, lastTick, faultVars, headerVars, link, recVars>>

-----------------------------------------------------------------------------
(* The broker (external) and the recorder *)

CaptureLimit == job.limit

WireLimit == job.limit + 16

(* The loop of the recorder's run: the wire projection first, then the         *)
(* completion, then the capture.  It stops at the completion.                  *)
Record(m) ==
    IF Len(captured) >= WireLimit THEN rec' = "overflow" /\ UNCHANGED captured
    ELSE IF m = Control THEN rec' = "sealed" /\ UNCHANGED captured
    ELSE IF Len(captured) >= CaptureLimit THEN rec' = "overflow" /\ UNCHANGED captured
    ELSE captured' = Append(captured, m) /\ UNCHANGED rec

(* QoS 0 gives no guarantee of delivery.                                       *)
(* Mutant: connection messages are QoS 0 too.                                  *)
UnreliableMutant == {"order", "state", "visualization", "connection"}

Unreliable == {"order", "state", "visualization"}

MayMiss(m) ==
    {"nobody"} \cup (IF MayFault /\ m.topic \in Unreliable THEN {"recorder"} ELSE {})
               \cup (IF MayFault /\ m.topic = "order" THEN {"robot"} ELSE {})

Deliver(m) ==
    \E missed \in MayMiss(m) :
        /\ faults' = IF missed = "nobody" THEN faults ELSE faults + 1
        /\ IF rec = "recording" /\ missed # "recorder" THEN Record(m) ELSE UNCHANGED recVars
        /\ batch' = IF m.topic = "order" /\ missed # "robot" /\ client[m.robot] = "up"
                    THEN [batch EXCEPT ![m.robot] = "carried"] ELSE batch

Route(c) ==
    /\ link[c] # << >>
    /\ link' = [link EXCEPT ![c] = Tail(@)]
    /\ Deliver(Head(link[c]))
    /\ UNCHANGED <<job, simVars, pc, client, lastTick, faultVars, headerVars>>

(* The recorder's own connection ends, or its deadline passes.                 *)
RecorderFails ==
    /\ rec = "recording" /\ rec' = "failed"
    /\ \/ MayFault /\ faults' = faults + 1
       \/ job.slow /\ UNCHANGED faults
    /\ UNCHANGED <<job, simVars, batch, pc, client, lastTick, faultVars, headerVars,
                   link, captured>>

-----------------------------------------------------------------------------
Simulation == Simulate \/ WriteComplete

Bridge ==
    \/ ReceiveDeliveries \/ NoFaultWork \/ InjectFault \/ Reconnect
    \/ PublishOrders \/ PublishTelemetry \/ NextIteration \/ Finish
    \/ (\E r \in Robots : ShutdownRobot(r)) \/ ShutdownFleet
    \/ BridgeFails

Broker == \E c \in Connections : Route(c)

Faults ==
    \/ RecorderFails
    \/ \E x \in Robots \cup {Fleet} : ConnectionLost(x) \/ Exit(x)

(* The bridge and the simulation have stopped and the links are empty.         *)
Terminated ==
    /\ pc \in Ended /\ complete
    /\ \A c \in Connections : link[c] = << >>
    /\ UNCHANGED vars

Next == Simulation \/ Bridge \/ Broker \/ Faults \/ Terminated

Spec == Init /\ [][Next]_vars

-----------------------------------------------------------------------------
(* build_lsmart_capture_artifacts and the two diagnoses *)

EvidenceTrace == EvidenceContext(captured)
PassiveTrace == PassiveContext(captured)

-----------------------------------------------------------------------------
(* Properties *)

Sealed == rec = "sealed"
Calm == job.faults = 0 /\ ~job.slow

(* The session the builder infers for a robot message (live_capture.rs 244-250) *)
(* is the one it was published in, whatever was lost or late, as long as the    *)
(* broker ends the first session before it hears of the second.                 *)
EpochsAreTrue ==
    \A i \in DOMAIN captured :
        FromFleet(captured[i]) \/ SessionOf(captured, i) = captured[i].session

(* The recorder stops at the fleet's completion while messages of the robots'   *)
(* clients may still be on their way (lsmart-recorder.rs 84-88); but every order *)
(* is in the capture by then and came back to its robot.                        *)
OrdersAreSealed ==
    Sealed /\ job.faults = 0 =>
        \A r \in Robots :
            /\ batch[r] \notin {"published", "carried"}
            /\ \A n \in 1 .. orderHeader[r] :
                \E i \in DOMAIN captured : captured[i] = Order(r, n, n)

(* A bridge that ends well leaves a sealed capture with every order: the        *)
(* completion is served before the fleet's client is gone, and the recorder's   *)
(* two limits are never met.                                                    *)
SealedIsAnswered ==
    /\ OrdersAreSealed
    /\ pc = "done" /\ Calm /\ link[<<Fleet, 1>>] = << >> => Sealed

(* What a message refers to is in the capture before it, over the outage and in *)
(* the new session too.  A state names only an order that went through the      *)
(* broker, for the gate lets the controller have a batch only then              *)
(* (LSMART_DEMO.md 52-55); a visualization refers to a state of its robot that  *)
(* left before it (lsmart-bridge.rs 490-506).                                   *)
CapturedBefore(i, topic, Refers(_)) ==
    \E j \in 1 .. i - 1 :
        captured[j].topic = topic /\ captured[j].robot = captured[i].robot
                                 /\ Refers(captured[j])

ReferencesAreCaptured ==
    \A i \in DOMAIN captured :
        LET IsOrder(m) == m.ref = captured[i].ref
            IsState(m) == m.header = captured[i].ref
        IN captured[i].ref # 0 =>
            /\ captured[i].topic = "state" /\ job.faults = 0 =>
                CapturedBefore(i, "order", IsOrder)
            /\ captured[i].topic = "visualization" /\ Calm =>
                CapturedBefore(i, "state", IsState)

(* The header ids of a topic rise over both sessions, also where they are       *)
(* constants (lsmart-bridge.rs 302-326, 539-567).  Without faults no connection *)
(* but the first of the target ends in a will.                                  *)
HeaderIdsIncrease ==
    Calm =>
        \A i, j \in DOMAIN captured :
            i < j /\ captured[i].topic = captured[j].topic
                  /\ captured[i].robot = captured[j].robot =>
                captured[i].header < captured[j].header

(* What run-lsmart-demo.sh 241-248 asks of a faulty run, as soon as the second  *)
(* session was heard of: FAIL / MOBILE_ROBOT with evidence, INCONCLUSIVE alone. *)
FaultIsDiagnosed ==
    Sealed /\ job.inject /\ (\E i \in DOMAIN captured : captured[i].session = 2) =>
        /\ \E f \in ReconnectFindings(EvidenceTrace) :
            f.verdict = "FAIL" /\ f.target = "MOBILE_ROBOT"
        /\ \E f \in ReconnectFindings(PassiveTrace) :
            f.verdict = "INCONCLUSIVE" /\ f.target = "UNRESOLVED"

(* No robot but the target is blamed, and without the omitted ONLINE only when  *)
(* the second session broke too, before its ONLINE left.                        *)
NoFalseBlame ==
    Sealed =>
        /\ \A f \in ReconnectFindings(PassiveTrace) : f.verdict # "FAIL"
        /\ \A f \in ReconnectFindings(EvidenceTrace) :
            f.verdict = "FAIL" =>
                /\ captured[f.event].robot = FaultTarget
                /\ job.inject \/ \E i \in DOMAIN captured : captured[i] = Will(<<FaultTarget, 2>>)

(* Wherever the capture was cut off and whatever was lost, the reports of a     *)
(* sealed capture say what happened (LSMART_DEMO.md 62-65).                     *)
DiagnosisIsTrue == FaultIsDiagnosed /\ NoFalseBlame
=============================================================================
