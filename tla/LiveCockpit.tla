----------------------------- MODULE LiveCockpit -----------------------------
(***************************************************************************)
(* The live two-robot job: robot-sim (one process, one MQTT client a robot), *)
(* fleet-actor, trace-recorder and the Mosquitto broker between them, then   *)
(* the capture the recorder seals and what the Doctor's reconnect rule says  *)
(* of it.  The processes and the broker interleave freely.                   *)
(*                                                                          *)
(* Each client has one FIFO link to the broker, holding what it has queued   *)
(* and the broker has not processed; the Last Will is what the broker        *)
(* publishes after the last message of a link that ends without DISCONNECT.  *)
(* Motion is abstracted to the tick at which a robot crosses disconnect_x    *)
(* and the tick at which it arrives; it is deterministic in the code.        *)
(***************************************************************************)
EXTENDS Integers, Sequences, FiniteSets, CaptureTrace

CONSTANTS NumRobots,       (* robots 1 .. NumRobots, in plan order             *)
          Target,          (* fault_target                                     *)
          CrossTick,       (* first tick with x >= disconnect_x                *)
          ArriveTick,      (* ArriveTick[r]: first tick in mode Arrived        *)
          Jobs,            (* the jobs to consider, see JobType                *)
          MaxTick,         (* hard_limits.simulation_ticks                     *)
          StatePeriod,     (* tick_hz / state_hz                               *)
          VizPeriod        (* tick_hz / visualization_hz                       *)

Robots == 1 .. NumRobots

(* What the plan fixes: omit_online_after_reconnect, the ticks of outage (10   *)
(* in the code) and hard_limits.messages.  And what the environment may do:   *)
(* faults bounds the connections and messages lost, deadlines says whether    *)
(* the three deadlines may run out, slow whether an MQTT worker may take more *)
(* than 100 ms to flush.                                                      *)
JobType == [omitOnline : BOOLEAN, outage : Nat \ {0}, messages : Nat,
            faults : Nat, deadlines : BOOLEAN, slow : BOOLEAN]

ASSUME ConstantsAssumption ==
    /\ NumRobots \in Nat \ {0}
    /\ Target \in Robots
    /\ CrossTick \in Nat \ {0} /\ Jobs \subseteq JobType
    /\ ArriveTick \in [Robots -> Nat \ {0}]
    /\ CrossTick < ArriveTick[Target]
    /\ MaxTick \in Nat \ {0}
    /\ StatePeriod \in Nat \ {0} /\ VizPeriod \in Nat \ {0}

VARIABLES
  (* robot-sim *)
    simPc,          (* "connect", "orders", "tick", "shutdown", "done", "failed" *)
    tick,           (* 0 before the loop                                      *)
    cursor,         (* the robot the sequential loop is at                    *)
    client,         (* client[r]: "none", "up" or "dead" (its worker stopped) *)
    session,        (* session[r]: connection_epoch, 1 or 2                   *)
    faultInjected,
    reconnectAt,    (* reconnect_at_tick of the target, 0 when None           *)
    finalSent,      (* finalSent[r]: final_state_sent                         *)
  (* the broker *)
    link,           (* link[r]: from the robot's client, a trailing will included *)
    fleetLink,      (* from the fleet's client                                *)
    retained,       (* retained[r]: the connection message kept, or NoMessage *)
    orderIn,        (* orderIn[r]: orders in the inbox of the robot's client  *)
    faults,         (* connections and messages lost so far                   *)
  (* fleet-actor *)
    job,            (* the job all processes were given                       *)
    fleetPc,        (* "connect", "online", "arrived", "done", "failed"       *)
    fleetIn, online, arrived,
  (* trace-recorder *)
    recPc,          (* "record", "sealed", "overflow", "failed"               *)
    recUp,          (* its client's worker runs                               *)
    recIn, captured, finals, completion

simVars == <<simPc, tick, cursor, client, session, faultInjected, reconnectAt,
             finalSent>>
brokerVars == <<link, fleetLink, retained, orderIn, faults>>
fleetVars == <<job, fleetPc, fleetIn, online, arrived>>
recVars == <<recPc, recUp, recIn, captured, finals, completion>>
vars == <<simVars, brokerVars, fleetVars, recVars>>

(* Messages, with the session they were published in. *)
Message(topic, r, value, s) ==
    [topic |-> topic, robot |-> r, value |-> value, session |-> s]

Connection(r, state, s) == Message("connection", r, state, s)
State(r, value, s) == Message("state", r, value, s)
Visualization(r, s) == Message("visualization", r, "pose", s)
Order(r) == Message("order", r, "order", 0)
Control == Message("control", 0, "complete", 0)
Disconnect == Message("disconnect", 0, "", 0)
NoMessage == Message("none", 0, "", 0)

Sessions == {1, 2}
RobotMessages ==
    {Connection(r, v, s) : r \in Robots, v \in {"ONLINE", "CONNECTION_BROKEN"},
                           s \in Sessions}
    \cup {State(r, v, s) : r \in Robots, v \in {"moving", "arrived"}, s \in Sessions}
    \cup {Visualization(r, s) : r \in Robots, s \in Sessions}
Orders == {Order(r) : r \in Robots}
Captures == RobotMessages \cup Orders

TypeOK ==
    /\ simPc \in {"connect", "orders", "tick", "shutdown", "done", "failed"}
    /\ tick \in 0 .. MaxTick
    /\ cursor \in 1 .. NumRobots + 1
    /\ client \in [Robots -> {"none", "up", "dead"}]
    /\ session \in [Robots -> Sessions]
    /\ faultInjected \in BOOLEAN
    /\ reconnectAt \in Nat
    /\ finalSent \in [Robots -> BOOLEAN]
    /\ link \in [Robots -> Seq(RobotMessages \cup {Disconnect})]
    /\ fleetLink \in Seq(Orders \cup {Control})
    /\ retained \in [Robots -> RobotMessages \cup {NoMessage}]
    /\ orderIn \in [Robots -> Seq(Orders)]
    /\ faults \in 0 .. job.faults
    /\ job \in Jobs
    /\ fleetPc \in {"connect", "online", "arrived", "done", "failed"}
    /\ fleetIn \in Seq(RobotMessages)
    /\ online \in SUBSET Robots /\ arrived \in SUBSET Robots
    /\ recPc \in {"record", "sealed", "overflow", "failed"}
    /\ recUp \in BOOLEAN
    /\ recIn \in Seq(Captures \cup {Control})
    /\ captured \in Seq(Captures)
    /\ finals \in SUBSET Robots
    /\ completion \in BOOLEAN

(* The run script starts the others once recorder-ready.json exists. *)
Init ==
    /\ job \in Jobs
    /\ simPc = "connect" /\ tick = 0 /\ cursor = 1
    /\ client = [r \in Robots |-> "none"]
    /\ session = [r \in Robots |-> 1]
    /\ faultInjected = FALSE /\ reconnectAt = 0
    /\ finalSent = [r \in Robots |-> FALSE]
    /\ link = [r \in Robots |-> << >>] /\ fleetLink = << >>
    /\ retained = [r \in Robots |-> NoMessage]
    /\ orderIn = [r \in Robots |-> << >>]
    /\ faults = 0
    /\ fleetPc = "connect" /\ fleetIn = << >> /\ online = {} /\ arrived = {}
    /\ recPc = "record" /\ recUp = TRUE /\ recIn = << >> /\ captured = << >>
    /\ finals = {} /\ completion = FALSE

MayFault == faults < job.faults
OmitOnline == job.omitOnline
TimeoutsCanExpire == job.deadlines
SlowWorker == job.slow

-----------------------------------------------------------------------------
(* Links *)

(* The link of r when its session ends without DISCONNECT after the broker   *)
(* got its first k messages: the will of the session follows.                *)
Cut(r, k) == Append(SubSeq(link[r], 1, k),
                    Connection(r, "CONNECTION_BROKEN", session[r]))

(* The links when the process ends with an error: every open session is cut. *)
Severed(kept) ==
    [r \in Robots |-> IF client[r] = "up" THEN Cut(r, kept[r]) ELSE link[r]]

Kept == {k \in [Robots -> UNION {0 .. Len(link[r]) : r \in Robots}] :
            \A r \in Robots : k[r] <= Len(link[r])}

SimFails ==
    /\ simPc' = "failed"
    /\ \E kept \in Kept : link' = Severed(kept)
    /\ client' = [r \in Robots |-> "none"]
    /\ UNCHANGED <<tick, cursor, session, faultInjected, reconnectAt, finalSent,
                   fleetLink, retained, orderIn, fleetVars, recVars>>

Fails == SimFails /\ UNCHANGED faults

-----------------------------------------------------------------------------
(* robot-sim: connect_robots, wait_for_orders, simulate *)

(* The client is subscribed to its order topic when connect returns.         *)
ConnectRobot ==
    /\ simPc = "connect"
    /\ client' = [client EXCEPT ![cursor] = "up"]
    /\ link' = [link EXCEPT ![cursor] = <<Connection(cursor, "ONLINE", 1)>>]
    /\ IF cursor = NumRobots
       THEN simPc' = "orders" /\ cursor' = 1
       ELSE simPc' = simPc /\ cursor' = cursor + 1
    /\ UNCHANGED <<tick, session, faultInjected, reconnectAt, finalSent, fleetLink,
                   retained, orderIn, faults, fleetVars, recVars>>

ConnectFails ==
    /\ simPc = "connect"
    /\ MayFault /\ faults' = faults + 1
    /\ SimFails

(* The order of the robot at the cursor, then its first state. *)
ReceiveOrder ==
    /\ simPc = "orders"
    /\ orderIn[cursor] # << >>
    /\ client[cursor] = "up"
    /\ orderIn' = [orderIn EXCEPT ![cursor] = Tail(@)]
    /\ link' = [link EXCEPT ![cursor] = Append(@, State(cursor, "moving", 1))]
    /\ IF cursor = NumRobots
       THEN simPc' = "tick" /\ cursor' = 1 /\ tick' = 1
       ELSE UNCHANGED <<simPc, tick>> /\ cursor' = cursor + 1
    /\ UNCHANGED <<client, session, faultInjected, reconnectAt, finalSent, fleetLink,
                   retained, faults, fleetVars, recVars>>

(* The worker has stopped: recv_timeout reports it once the inbox is empty,  *)
(* publish at once.                                                          *)
OrderWaitBroken ==
    /\ simPc = "orders"
    /\ client[cursor] = "dead"
    /\ Fails

OrderWaitExpires ==
    /\ simPc = "orders"
    /\ TimeoutsCanExpire
    /\ Fails

Ticking == simPc = "tick" /\ cursor \in Robots

ReconnectDue == cursor = Target /\ reconnectAt = tick

(* The robot at the cursor is done with this tick. *)
NextRobot == cursor' = cursor + 1

(* Mutant: ONLINE is omitted in the control scenario as well. *)
GreetingMutant == << >>

(* What is published on the new session. *)
Greeting == IF OmitOnline THEN << >> ELSE <<Connection(Target, "ONLINE", 2)>>

(* CONNACK comes after the broker has dealt with the session taken over, its *)
(* will included: the link is empty by then.                                 *)
Reconnect ==
    /\ Ticking /\ ReconnectDue /\ client[Target] = "none"
    /\ link[Target] = << >>
    /\ session' = [session EXCEPT ![Target] = 2]
    /\ client' = [client EXCEPT ![Target] = "up"]
    /\ link' = [link EXCEPT ![Target] = Greeting]
    /\ UNCHANGED <<simPc, tick, cursor, faultInjected, reconnectAt, finalSent,
                   fleetLink, retained, orderIn, faults, fleetVars, recVars>>

ReconnectFails ==
    /\ Ticking /\ ReconnectDue /\ client[Target] = "none"
    /\ MayFault /\ faults' = faults + 1
    /\ SimFails

Stepping == Ticking /\ ~(ReconnectDue /\ client[cursor] = "none")

Crossing == cursor = Target /\ ~faultInjected /\ tick >= CrossTick

(* The client is dropped: what it had queued last may never leave.           *)
CrashRobot ==
    /\ Stepping /\ Crossing
    /\ faultInjected' = TRUE
    /\ reconnectAt' = tick + job.outage
    /\ client' = [client EXCEPT ![Target] = "none"]
    /\ IF client[Target] = "up"
       THEN \E k \in 0 .. Len(link[Target]) : link' = [link EXCEPT ![Target] = Cut(Target, k)]
       ELSE UNCHANGED link
    /\ NextRobot
    /\ UNCHANGED <<simPc, tick, session, finalSent, fleetLink, retained, orderIn,
                   faults, fleetVars, recVars>>

Arrived(r) == tick >= ArriveTick[r]

Pose(r) == IF Arrived(r) THEN "arrived" ELSE "moving"

(* What simulate publishes for a connected robot in this tick.               *)
Published(r) ==
    (IF tick % StatePeriod = 0 THEN <<State(r, Pose(r), session[r])>> ELSE << >>)
    \o (IF tick % VizPeriod = 0 THEN <<Visualization(r, session[r])>> ELSE << >>)
    \o (IF Arrived(r) /\ ~finalSent[r]
        THEN <<State(r, "arrived", session[r])>> ELSE << >>)

(* Mutant: the flag is set whether or not a client could publish. *)
FinalSentMutant(r) == [finalSent EXCEPT ![r] = @ \/ Arrived(r)]

FinalSent(r) ==
    [finalSent EXCEPT ![r] = @ \/ (Arrived(r) /\ client[r] = "up")]

StepRobot ==
    /\ Stepping /\ ~Crossing
    /\ client[cursor] = "dead" => Published(cursor) = << >>
    /\ link' = IF client[cursor] = "up"
               THEN [link EXCEPT ![cursor] = @ \o Published(cursor)] ELSE link
    /\ finalSent' = FinalSent(cursor)
    /\ NextRobot
    /\ UNCHANGED <<simPc, tick, client, session, faultInjected, reconnectAt,
                   fleetLink, retained, orderIn, faults, fleetVars, recVars>>

PublishFails ==
    /\ Stepping /\ ~Crossing
    /\ client[cursor] = "dead" /\ Published(cursor) # << >>
    /\ Fails

AllFinalSent == \A r \in Robots : finalSent[r]

EndTick ==
    /\ simPc = "tick" /\ cursor = NumRobots + 1
    /\ AllFinalSent \/ tick < MaxTick
    /\ cursor' = 1
    /\ IF AllFinalSent THEN simPc' = "shutdown" /\ tick' = tick
       ELSE simPc' = simPc /\ tick' = tick + 1
    /\ UNCHANGED <<client, session, faultInjected, reconnectAt, finalSent,
                   brokerVars, fleetVars, recVars>>

TickLimit ==
    /\ simPc = "tick" /\ cursor = NumRobots + 1
    /\ ~AllFinalSent /\ tick = MaxTick
    /\ Fails

(* DISCONNECT is queued; 100 ms later the worker is stopped, flushed or not. *)
ShutdownLinks ==
    {[link EXCEPT ![cursor] = Append(@, Disconnect)]}
    \cup (IF SlowWorker
          THEN {[link EXCEPT ![cursor] = Cut(cursor, k)] : k \in 0 .. Len(link[cursor])}
          ELSE {})

ShutdownRobot ==
    /\ simPc = "shutdown"
    /\ IF client[cursor] = "up" THEN link' \in ShutdownLinks ELSE UNCHANGED link
    /\ client' = [client EXCEPT ![cursor] = "none"]
    /\ IF cursor = NumRobots
       THEN simPc' = "done" /\ cursor' = cursor
       ELSE simPc' = simPc /\ NextRobot
    /\ UNCHANGED <<tick, session, faultInjected, reconnectAt, finalSent, fleetLink,
                   retained, orderIn, faults, fleetVars, recVars>>

(* A connection error stops the worker of a robot's client. *)
RobotConnectionLost(r) ==
    /\ MayFault /\ faults' = faults + 1
    /\ client[r] = "up"
    /\ client' = [client EXCEPT ![r] = "dead"]
    /\ \E k \in 0 .. Len(link[r]) : link' = [link EXCEPT ![r] = Cut(r, k)]
    /\ UNCHANGED <<simPc, tick, cursor, session, faultInjected, reconnectAt,
                   finalSent, fleetLink, retained, orderIn, fleetVars, recVars>>

-----------------------------------------------------------------------------
(* The broker (external): a message is stored, if retained, and handed to    *)
(* every connected subscriber in one step.                                   *)

FleetListens(m) ==
    fleetPc \in {"online", "arrived"} /\ m.topic \in {"connection", "state"}

Egress(m, missed) ==
    /\ retained' = IF m.topic = "connection"
                   THEN [retained EXCEPT ![m.robot] = m] ELSE retained
    /\ fleetIn' = IF FleetListens(m) /\ missed # "fleet"
                  THEN Append(fleetIn, m) ELSE fleetIn
    /\ recIn' = IF recPc = "record" /\ recUp /\ missed # "recorder"
                THEN Append(recIn, m) ELSE recIn
    /\ orderIn' = IF m.topic = "order" /\ client[m.robot] = "up" /\ missed # "robot"
                  THEN [orderIn EXCEPT ![m.robot] = Append(@, m)] ELSE orderIn

(* QoS 0 gives no guarantee of delivery; connections and control are QoS 1.  *)
MayMiss(m) ==
    IF MayFault /\ m.topic \in {"order", "state", "visualization"}
    THEN {"nobody", "fleet", "recorder", "robot"} ELSE {"nobody"}

Deliver(m) ==
    \E missed \in MayMiss(m) :
        /\ Egress(m, missed)
        /\ faults' = IF missed = "nobody" THEN faults ELSE faults + 1

BrokerUnchanged ==
    UNCHANGED <<job, simVars, fleetPc, online, arrived, recPc, recUp, captured, finals,
                completion>>

RouteRobot(r) ==
    /\ link[r] # << >>
    /\ link' = [link EXCEPT ![r] = Tail(@)]
    /\ IF Head(link[r]) = Disconnect
       THEN UNCHANGED <<retained, fleetIn, recIn, orderIn, faults>>
       ELSE Deliver(Head(link[r]))
    /\ UNCHANGED fleetLink
    /\ BrokerUnchanged

RouteFleet ==
    /\ fleetLink # << >>
    /\ fleetLink' = Tail(fleetLink)
    /\ Deliver(Head(fleetLink))
    /\ UNCHANGED link
    /\ BrokerUnchanged

-----------------------------------------------------------------------------
(* fleet-actor *)

FleetUnchanged == UNCHANGED <<job, simVars, link, retained, orderIn, recVars>>

(* The retained connection messages come with the SUBACK, in any order.      *)
KeptRobots == {r \in Robots : retained[r] # NoMessage}

FleetConnect ==
    /\ fleetPc = "connect"
    /\ fleetPc' = "online"
    /\ \E order \in [1 .. Cardinality(KeptRobots) -> KeptRobots] :
        /\ \A r \in KeptRobots : \E i \in DOMAIN order : order[i] = r
        /\ fleetIn' = [i \in DOMAIN order |-> retained[order[i]]]
    /\ UNCHANGED <<fleetLink, online, arrived, faults>>
    /\ FleetUnchanged

(* Mutant: one robot is enough. *)
SomeOnline == online # {}

AllOnline == online = Robots

FleetAwaitsOnline ==
    /\ fleetPc = "online" /\ ~AllOnline
    /\ fleetIn # << >>
    /\ fleetIn' = Tail(fleetIn)
    /\ online' = IF Head(fleetIn).value = "ONLINE"
                 THEN online \cup {Head(fleetIn).robot} ELSE online
    /\ UNCHANGED <<fleetPc, fleetLink, arrived, faults>>
    /\ FleetUnchanged

FleetPublishesOrders ==
    /\ fleetPc = "online" /\ AllOnline
    /\ fleetPc' = "arrived"
    /\ fleetLink' = [r \in Robots |-> Order(r)]
    /\ UNCHANGED <<fleetIn, online, arrived, faults>>
    /\ FleetUnchanged

(* driving is false and lastNodeId is the end node of the robot's order. *)
ReportsArrival(m) == m.topic = "state" /\ m.value = "arrived"

FleetAwaitsArrival ==
    /\ fleetPc = "arrived" /\ arrived # Robots
    /\ fleetIn # << >>
    /\ fleetIn' = Tail(fleetIn)
    /\ arrived' = IF ReportsArrival(Head(fleetIn))
                  THEN arrived \cup {Head(fleetIn).robot} ELSE arrived
    /\ UNCHANGED <<fleetPc, fleetLink, online, faults>>
    /\ FleetUnchanged

(* 250 ms and 100 ms later the client is stopped, flushed or not. *)
FleetCompletes ==
    /\ fleetPc = "arrived" /\ arrived = Robots
    /\ fleetPc' = "done"
    /\ \/ fleetLink' = Append(fleetLink, Control)
       \/ SlowWorker /\ UNCHANGED fleetLink
    /\ fleetIn' = << >>
    /\ UNCHANGED <<online, arrived, faults>>
    /\ FleetUnchanged

(* The deadline passes; or the client's worker stops: the inbox may still be *)
(* read, but every way out needs a publish, which fails.                     *)
FleetFails ==
    /\ \/ TimeoutsCanExpire /\ fleetPc \in {"online", "arrived"} /\ UNCHANGED faults
       \/ MayFault /\ fleetPc \in {"connect", "online", "arrived"} /\ faults' = faults + 1
    /\ fleetPc' = "failed"
    /\ \E k \in 0 .. Len(fleetLink) : fleetLink' = SubSeq(fleetLink, 1, k)
    /\ fleetIn' = << >>
    /\ UNCHANGED <<online, arrived>>
    /\ FleetUnchanged

-----------------------------------------------------------------------------
(* trace-recorder *)

RecorderUnchanged == UNCHANGED <<simVars, brokerVars, fleetVars>>

(* Mutant: the run is sealed on the fleet's word alone. *)
RunObservedMutant == completion

RunObserved == completion /\ finals = Robots

(* Mutant: the completion message is captured like any other. *)
IsControlMutant(m) == FALSE

IsControl(m) == m = Control

Recording == recPc = "record" /\ ~RunObserved

ObserveControl ==
    /\ Recording /\ recIn # << >>
    /\ IsControl(Head(recIn))
    /\ completion' = TRUE
    /\ recIn' = Tail(recIn)
    /\ UNCHANGED <<recPc, recUp, captured, finals>>
    /\ RecorderUnchanged

CaptureMessage ==
    /\ Recording /\ recIn # << >>
    /\ ~IsControl(Head(recIn))
    /\ Len(captured) < job.messages
    /\ captured' = Append(captured, Head(recIn))
    /\ finals' = IF ReportsArrival(Head(recIn))
                 THEN finals \cup {Head(recIn).robot} ELSE finals
    /\ recIn' = Tail(recIn)
    /\ UNCHANGED <<recPc, recUp, completion>>
    /\ RecorderUnchanged

CaptureOverflow ==
    /\ Recording /\ recIn # << >>
    /\ ~IsControl(Head(recIn))
    /\ Len(captured) >= job.messages
    /\ recPc' = "overflow"
    /\ UNCHANGED <<recUp, recIn, captured, finals, completion>>
    /\ RecorderUnchanged

SealCapture ==
    /\ recPc = "record" /\ RunObserved
    /\ recPc' = "sealed" /\ recIn' = << >>
    /\ UNCHANGED <<recUp, captured, finals, completion>>
    /\ RecorderUnchanged

RecorderConnectionLost ==
    /\ MayFault /\ faults' = faults + 1
    /\ recPc = "record" /\ recUp
    /\ recUp' = FALSE
    /\ UNCHANGED <<simVars, link, fleetLink, retained, orderIn, fleetVars, recPc,
                   recIn, captured, finals, completion>>

(* What is in the inbox is read before the dead worker is noticed. *)
RecorderDisconnected ==
    /\ Recording /\ ~recUp /\ recIn = << >>
    /\ recPc' = "failed"
    /\ UNCHANGED <<recUp, recIn, captured, finals, completion>>
    /\ RecorderUnchanged

RecorderDeadline ==
    /\ Recording /\ TimeoutsCanExpire
    /\ recPc' = "failed" /\ recIn' = << >>
    /\ UNCHANGED <<recUp, captured, finals, completion>>
    /\ RecorderUnchanged

-----------------------------------------------------------------------------
SimNext ==
    \/ ConnectRobot \/ ReceiveOrder \/ OrderWaitBroken
    \/ Reconnect \/ CrashRobot \/ StepRobot \/ PublishFails
    \/ EndTick \/ TickLimit \/ ShutdownRobot

FleetNext ==
    \/ FleetConnect \/ FleetAwaitsOnline \/ FleetPublishesOrders
    \/ FleetAwaitsArrival \/ FleetCompletes

RecorderNext ==
    \/ ObserveControl \/ CaptureMessage \/ CaptureOverflow \/ SealCapture
    \/ RecorderDisconnected

EnvNext ==
    \/ ConnectFails \/ ReconnectFails \/ OrderWaitExpires
    \/ \E r \in Robots : RobotConnectionLost(r)
    \/ FleetFails \/ RecorderConnectionLost \/ RecorderDeadline

(* Every process has ended and the broker has nothing left to forward. *)
Terminated ==
    /\ simPc \in {"done", "failed"} /\ fleetPc \in {"done", "failed"}
    /\ recPc # "record"
    /\ fleetLink = << >> /\ \A r \in Robots : link[r] = << >>
    /\ UNCHANGED vars

Next ==
    \/ SimNext
    \/ \E r \in Robots : RouteRobot(r)
    \/ RouteFleet
    \/ FleetNext
    \/ RecorderNext
    \/ EnvNext
    \/ Terminated

Spec == Init /\ [][Next]_vars

(* The processes and the broker do not all stop while one of them can go on.  *)
Progress ==
    \/ SimNext \/ FleetNext \/ RecorderNext
    \/ \E r \in Robots : RouteRobot(r)
    \/ RouteFleet

FairSpec == Spec /\ WF_vars(Progress)

-----------------------------------------------------------------------------
(* The sealed capture: build_live_capture_artifacts and the two diagnoses.   *)

EvidenceTrace == EvidenceContext(captured)
PassiveTrace == PassiveContext(captured)

EvidenceFindings == ReconnectFindings(EvidenceTrace)
PassiveFindings == ReconnectFindings(PassiveTrace)

-----------------------------------------------------------------------------
(* Properties *)

Sealed == recPc = "sealed"

(* The connection epoch the recorder infers from the messages it saw is the   *)
(* one each robot message was published in (live_capture.rs 312-316).         *)
EpochsAreTrue ==
    \A i \in DOMAIN captured :
        FromFleet(captured[i]) \/ SessionOf(captured, i) = captured[i].session

(* In a capture that missed nothing, a robot reports on an order only after   *)
(* the order, and the order only after the robot's ONLINE.                    *)
Precedes(t, u) ==
    \A r \in Robots : \A i \in DOMAIN captured :
        captured[i].topic = u /\ captured[i].robot = r =>
            \E j \in 1 .. i - 1 : captured[j].topic = t /\ captured[j].robot = r

CaptureIsCausal ==
    faults = 0 => Precedes("order", "state") /\ Precedes("connection", "order")

(* A sealed capture is of a job that got to its end, every robot having sent   *)
(* its arrival and the fleet having received it, and holds the whole exchange: *)
(* each robot's ONLINE, order and arrival, the target's break, and its ONLINE  *)
(* after it exactly in the control run.                                       *)
Captured(m) == \E i \in DOMAIN captured : captured[i] = m

SealedCaptureIsComplete ==
    Sealed =>
        /\ AllFinalSent /\ fleetPc = "done"
        /\ \A r \in Robots :
            /\ Captured(Connection(r, "ONLINE", 1))
            /\ faults = 0 => Captured(Order(r))
            /\ Captured(State(r, "arrived", IF r = Target THEN 2 ELSE 1))
        /\ Captured(Connection(Target, "CONNECTION_BROKEN", 1))
        /\ Captured(Connection(Target, "ONLINE", 2)) <=> ~OmitOnline

(* The diagnoses of the fault scenario that run-live-demo.sh 43-49 asserts.    *)
FaultIsDiagnosed ==
    OmitOnline =>
        /\ \E f \in EvidenceFindings :
            f.verdict = "FAIL" /\ f.target = "MOBILE_ROBOT"
        /\ \E f \in PassiveFindings :
            f.verdict = "INCONCLUSIVE" /\ f.target = "UNRESOLVED"

(* A robot is blamed only for the omitted ONLINE of the target, and only with  *)
(* the evidence manifest.                                                     *)
NoFalseBlame ==
    /\ \A f \in PassiveFindings : f.verdict # "FAIL"
    /\ \A f \in EvidenceFindings :
        f.verdict = "FAIL" => OmitOnline /\ captured[f.event].robot = Target

(* Whatever was lost, late or cut, the reports of a sealed capture say what    *)
(* the job did, also when a slow shutdown leaves a second CONNECTION_BROKEN in *)
(* the capture (PROTOCOL_SOURCES.md 108-113).                                 *)
DiagnosisIsTrue == Sealed => FaultIsDiagnosed /\ NoFalseBlame

(* A late subscriber sees the truth in the control run: the retained message   *)
(* of a connected robot whose link is drained is the ONLINE of its session.   *)
RetainedIsCurrent ==
    \A r \in Robots :
        client[r] = "up" /\ link[r] = << >> /\ ~OmitOnline =>
            retained[r] = Connection(r, "ONLINE", session[r])

(* What a job sends that ends when its robots have arrived: per robot ONLINE,  *)
(* order, first state, arrival and a will at a slow shutdown, the periodic     *)
(* messages up to the last tick, and the target's will and second ONLINE.      *)
LastTick ==
    CHOOSE t \in {CrossTick + job.outage} \cup {ArriveTick[r] : r \in Robots} :
        \A u \in {CrossTick + job.outage} \cup {ArriveTick[r] : r \in Robots} : u <= t

LargestCapture ==
    NumRobots * (5 + LastTick \div StatePeriod + LastTick \div VizPeriod)
        + (IF OmitOnline THEN 1 ELSE 2)

(* Without faults, slow workers or deadlines, and with the plan's limit at     *)
(* what a job can send, every process ends well (run-live-demo.sh 167-187).   *)
Calm ==
    /\ job.faults = 0 /\ ~job.deadlines /\ ~job.slow
    /\ LastTick <= MaxTick /\ LargestCapture <= job.messages

JobCompletes ==
    Calm => <>(simPc = "done" /\ fleetPc = "done" /\ recPc = "sealed")

(* LIVE_DEMO.md 64-73, run-live-demo.sh 51-53: the control run has no finding *)
(* of the reconnect rule in the passive report.                               *)
ControlPassiveIsClean == Sealed /\ ~OmitOnline => PassiveFindings = {}
=============================================================================
