----------------------------- MODULE LsmartBridge -----------------------------
(***************************************************************************)
(* The causal LSMART bridge: the robot controllers inside the ARGoS         *)
(* simulation (the overlay patch), the bridge process with its one polling  *)
(* loop, the files they exchange (outbox, inbox, telemetry, complete.json)  *)
(* and the MQTT broker between the bridge's fleet client and its robot      *)
(* clients.  Controllers, bridge and broker interleave freely; one action   *)
(* is one phase of the bridge loop, one control step, or one broker hop.    *)
(*                                                                          *)
(* Abstracted: the actions in a batch, the order document and its headers'  *)
(* other fields, timestamps and the telemetry messages themselves.          *)
(* A batch is <<robot, counter>>.                                           *)
(***************************************************************************)
EXTENDS Integers, Sequences, FiniteSets

CONSTANTS NumRobots,      (* robots 0 .. NumRobots - 1 of the plan           *)
          FaultTarget,    (* the robot whose client the bridge crashes       *)
          MaxBatches,     (* bound: batches a controller obtains             *)
          MaxTick,        (* control steps of a simulation                   *)
          PollPeriod,     (* a controller asks the ADG every PollPeriod steps *)
          FaultTick,      (* telemetry tick from which the fault is injected *)
          OutageTicks,    (* ticks between the crash and the reconnection    *)
          MaxEnvFaults,   (* bound: MQTT connections or messages lost        *)
          DeadlineCanExpire  (* whether duration_seconds may run out         *)

ASSUME ConstantsAssumption ==
    /\ NumRobots \in Nat \ {0}
    /\ FaultTarget \in 0 .. NumRobots - 1
    /\ MaxBatches \in Nat
    /\ MaxTick \in Nat
    /\ PollPeriod \in Nat \ {0}
    /\ FaultTick \in Nat \ {0}
    /\ OutageTicks \in Nat \ {0}
    /\ MaxEnvFaults \in Nat
    /\ DeadlineCanExpire \in BOOLEAN

Robots == 0 .. NumRobots - 1
Numbers == 1 .. MaxBatches
Batches == Robots \X Numbers

VARIABLES
  (* the simulation and its controllers *)
    sim,          (* "running", "failed" (a controller threw), "complete"     *)
    step,         (* step[r]: control steps taken                             *)
    counter,      (* counter[r]: vda_batch_counter                            *)
    waiting,      (* waiting[r]: vda_pending_batch_id is set (it is counter)   *)
    executed,     (* executed[r]: batches handed to the action queue, in order *)
  (* the exchanged files *)
    outbox,       (* batch files                                              *)
    inbox,        (* inbox[b]: "absent", "partial", "written"                 *)
    telemetry,    (* telemetry[r]: tick of the pose file, 0 when absent       *)
  (* the bridge *)
    pc,           (* the phase of the loop, or how the process ended          *)
    cursor,       (* the robot whose deliveries are being received            *)
    delivered,    (* `completed` of receive_deliveries                        *)
    processed,    (* processed_outbox                                         *)
    pending,      (* keys of the pending map                                  *)
    published,    (* pending batches with published = true                    *)
    orderHeader,  (* order_header                                             *)
    ordersPublished,
    deliveriesReleased,
    lastTick,     (* last_tick, 0 when None                                   *)
    faultInjected,
    reconnectAt,  (* reconnect_at_tick of the target, 0 when None             *)
    conn,         (* conn[r]: client "up", worker "dead", or "none"           *)
    fleetUp,      (* the fleet client's worker runs                           *)
  (* MQTT, one FIFO per robot's order topic *)
    orderWire,    (* published, not yet at the robot's client                 *)
    mqttIn,       (* in the inbox channel of the robot's client               *)
    envFaults     (* MQTT faults so far                                       *)

simVars == <<sim, step, counter, waiting, executed>>
fileVars == <<outbox, inbox, telemetry>>
batchVars == <<delivered, processed, pending, published, orderHeader,
               ordersPublished, deliveriesReleased>>
clientVars == <<lastTick, faultInjected, reconnectAt, conn>>
mqttVars == <<orderWire, mqttIn, fleetUp, envFaults>>
vars == <<simVars, fileVars, pc, cursor, batchVars, clientVars, mqttVars>>

Ended == {"done", "timeout", "failed"}
Phases == {"top", "receive", "write", "faults", "discover", "publish",
           "telemetry", "check"}

SimTypeOK ==
    /\ sim \in {"running", "failed", "complete"}
    /\ step \in [Robots -> 0 .. MaxTick]
    /\ counter \in [Robots -> 0 .. MaxBatches]
    /\ waiting \in [Robots -> BOOLEAN]
    /\ executed \in [Robots -> Seq(Numbers)]

FileTypeOK ==
    /\ outbox \in SUBSET Batches
    /\ inbox \in [Batches -> {"absent", "partial", "written"}]
    /\ telemetry \in [Robots -> 0 .. MaxTick]

BatchTypeOK ==
    /\ delivered \in SUBSET Batches
    /\ processed \in SUBSET Batches
    /\ pending \in SUBSET Batches
    /\ published \in SUBSET Batches
    /\ orderHeader \in [Robots -> Nat]
    /\ ordersPublished \in Nat
    /\ deliveriesReleased \in Nat

ClientTypeOK ==
    /\ lastTick \in [Robots -> 0 .. MaxTick]
    /\ faultInjected \in BOOLEAN
    /\ reconnectAt \in Nat
    /\ conn \in [Robots -> {"up", "dead", "none"}]

MqttTypeOK ==
    /\ orderWire \in [Robots -> Seq(Batches)]
    /\ mqttIn \in [Robots -> Seq(Batches)]
    /\ fleetUp \in BOOLEAN
    /\ envFaults \in 0 .. MaxEnvFaults

TypeOK ==
    /\ SimTypeOK
    /\ FileTypeOK
    /\ pc \in Phases \cup Ended
    /\ cursor \in 0 .. NumRobots
    /\ BatchTypeOK
    /\ ClientTypeOK
    /\ MqttTypeOK

(* The stack after lsmart-bridge-ready.json: every adapter is subscribed. *)
Init ==
    /\ sim = "running"
    /\ step = [r \in Robots |-> 0]
    /\ counter = [r \in Robots |-> 0]
    /\ waiting = [r \in Robots |-> FALSE]
    /\ executed = [r \in Robots |-> << >>]
    /\ outbox = {}
    /\ inbox = [b \in Batches |-> "absent"]
    /\ telemetry = [r \in Robots |-> 0]
    /\ pc = "top"
    /\ cursor = 0
    /\ delivered = {}
    /\ processed = {}
    /\ pending = {}
    /\ published = {}
    /\ orderHeader = [r \in Robots |-> 0]
    /\ ordersPublished = 0
    /\ deliveriesReleased = 0
    /\ lastTick = [r \in Robots |-> 0]
    /\ faultInjected = FALSE
    /\ reconnectAt = 0
    /\ conn = [r \in Robots |-> "up"]
    /\ fleetUp = TRUE
    /\ orderWire = [r \in Robots |-> << >>]
    /\ mqttIn = [r \in Robots |-> << >>]
    /\ envFaults = 0

-----------------------------------------------------------------------------
(* The controllers.  ARGoS runs them in one thread, a tick at a time.       *)

PendingBatch(r) == <<r, counter[r]>>

(* acceptVdaDelivery finds the file of the pending batch. *)
DeliveryFile(r) == IF waiting[r] THEN inbox[PendingBatch(r)] ELSE "absent"

MayStep(r) ==
    /\ sim = "running"
    /\ step[r] < MaxTick
    /\ \A q \in Robots : step[r] <= step[q]

(* The JSON parser throws on a file that is still being written; the        *)
(* exception leaves ControlStep and takes the simulation down.              *)
AcceptTornDelivery(r) ==
    /\ MayStep(r)
    /\ DeliveryFile(r) = "partial"
    /\ sim' = "failed"
    /\ UNCHANGED <<step, counter, waiting, executed, fileVars, pc, cursor,
                   batchVars, clientVars, mqttVars>>

(* Mutant: the check for a pending batch before obtain_actions is dropped. *)
IdleAfterAcceptMutant(r) == r \in Robots

(* Whether acceptVdaDelivery leaves no batch pending. *)
IdleAfterAccept(r) == ~waiting[r] \/ DeliveryFile(r) = "written"

AcceptDelivery(r) ==
    executed' = IF DeliveryFile(r) = "written"
                THEN [executed EXCEPT ![r] = Append(@, counter[r])]
                ELSE executed

WriteTelemetry(r) ==
    /\ step' = [step EXCEPT ![r] = @ + 1]
    /\ telemetry' = [telemetry EXCEPT ![r] = step[r] + 1]

(* A control step that obtains a non-empty plan and queues it as a batch. *)
QueueBatch(r) ==
    /\ MayStep(r)
    /\ DeliveryFile(r) # "partial"
    /\ AcceptDelivery(r)
    /\ step[r] % PollPeriod = 0
    /\ IdleAfterAccept(r)
    /\ counter[r] < MaxBatches
    /\ counter' = [counter EXCEPT ![r] = @ + 1]
    /\ waiting' = [waiting EXCEPT ![r] = TRUE]
    /\ outbox' = outbox \cup {<<r, counter[r] + 1>>}
    /\ WriteTelemetry(r)
    /\ UNCHANGED <<sim, inbox, pc, cursor, batchVars, clientVars, mqttVars>>

(* A control step that obtains nothing. *)
ControlStep(r) ==
    /\ MayStep(r)
    /\ DeliveryFile(r) # "partial"
    /\ AcceptDelivery(r)
    /\ waiting' = [waiting EXCEPT ![r] = ~IdleAfterAccept(r)]
    /\ WriteTelemetry(r)
    /\ UNCHANGED <<sim, counter, outbox, inbox, pc, cursor, batchVars,
                   clientVars, mqttVars>>

(* The run script renames complete.json into place after the simulation. *)
WriteComplete ==
    /\ sim = "running"
    /\ \A r \in Robots : step[r] = MaxTick
    /\ sim' = "complete"
    /\ UNCHANGED <<step, counter, waiting, executed, fileVars, pc, cursor,
                   batchVars, clientVars, mqttVars>>

CompleteFile == sim = "complete"

-----------------------------------------------------------------------------
(* The broker and the MQTT client workers (external). *)

(* An order reaches the robot's client if that client is connected: the     *)
(* session is clean, so nothing is kept for a client that is away.  An ended *)
(* bridge has no clients.                                                   *)
BrokerDeliver(r) ==
    /\ orderWire[r] # << >>
    /\ orderWire' = [orderWire EXCEPT ![r] = Tail(@)]
    /\ mqttIn' = IF conn[r] = "up" /\ pc \notin Ended
                 THEN [mqttIn EXCEPT ![r] = Append(@, Head(orderWire[r]))]
                 ELSE mqttIn
    /\ UNCHANGED <<simVars, fileVars, pc, cursor, batchVars, clientVars,
                   fleetUp, envFaults>>

(* Orders are QoS 0: delivered at most once. *)
BrokerDrop(r) ==
    /\ pc \notin Ended
    /\ envFaults < MaxEnvFaults
    /\ orderWire[r] # << >>
    /\ orderWire' = [orderWire EXCEPT ![r] = Tail(@)]
    /\ envFaults' = envFaults + 1
    /\ UNCHANGED <<simVars, fileVars, pc, cursor, batchVars, clientVars,
                   fleetUp, mqttIn>>

(* The worker of a robot's client stops at a connection error. *)
ConnectionLost(r) ==
    /\ pc \notin Ended
    /\ envFaults < MaxEnvFaults
    /\ conn[r] = "up"
    /\ conn' = [conn EXCEPT ![r] = "dead"]
    /\ envFaults' = envFaults + 1
    /\ UNCHANGED <<simVars, fileVars, pc, cursor, batchVars, lastTick,
                   faultInjected, reconnectAt, orderWire, mqttIn, fleetUp>>

FleetConnectionLost ==
    /\ pc \notin Ended
    /\ envFaults < MaxEnvFaults
    /\ fleetUp
    /\ fleetUp' = FALSE
    /\ envFaults' = envFaults + 1
    /\ UNCHANGED <<simVars, fileVars, pc, cursor, batchVars, clientVars,
                   orderWire, mqttIn>>

-----------------------------------------------------------------------------
(* The bridge: one iteration of `run`'s loop is                             *)
(*   top -> receive (-> write)* -> faults -> discover -> publish ->         *)
(*   telemetry -> check -> top.                                             *)

Stop(result) ==
    /\ pc' = result
    /\ UNCHANGED <<simVars, fileVars, cursor, batchVars, clientVars, mqttVars>>

DeadlineExpires ==
    /\ pc = "top"
    /\ DeadlineCanExpire
    /\ Stop("timeout")

BeginIteration ==
    /\ pc = "top"
    /\ pc' = "receive"
    /\ cursor' = 0
    /\ delivered' = {}
    /\ UNCHANGED <<simVars, fileVars, processed, pending, published, orderHeader,
                   ordersPublished, deliveriesReleased, clientVars, mqttVars>>

(* receive_deliveries: the robots in plan order, each drained. *)

Polling == pc = "receive" /\ cursor \in Robots

(* No client, or a live client with an empty inbox: go on to the next robot. *)
NextRobot ==
    /\ Polling
    /\ conn[cursor] = "none" \/ (conn[cursor] = "up" /\ mqttIn[cursor] = << >>)
    /\ cursor' = cursor + 1
    /\ UNCHANGED <<simVars, fileVars, pc, batchVars, clientVars, mqttVars>>

(* recv_timeout on an emptied channel whose worker has stopped. *)
WorkerStopped == conn[cursor] = "dead" /\ mqttIn[cursor] = << >>

Delivery == Head(mqttIn[cursor])

HasDelivery ==
    /\ Polling
    /\ conn[cursor] # "none"
    /\ mqttIn[cursor] # << >>

(* The delivery is for a batch of this robot that is pending. *)
Expected(b) == b \in pending /\ b[1] = cursor

(* Neither "without a pending LSMART batch" nor a file create_new finds.     *)
Acceptable == HasDelivery => Expected(Delivery) /\ inbox[Delivery] = "absent"

ReceiveFails ==
    /\ Polling
    /\ Acceptable => WorkerStopped
    /\ Stop("failed")

(* Mutant: the created file is never filled. *)
FilledMutant(b) == [inbox EXCEPT ![b] = "partial"]

(* write_all and sync_all on the created file. *)
Filled(b) == [inbox EXCEPT ![b] = "written"]

(* write_new_artifact creates the file, then fills it.  The received order  *)
(* stays at the head of the inbox channel until the file is filled.         *)
CreateDelivery ==
    /\ HasDelivery
    /\ Expected(Delivery)
    /\ inbox[Delivery] = "absent"
    /\ inbox' = [inbox EXCEPT ![Delivery] = "partial"]
    /\ pc' = "write"
    /\ UNCHANGED <<simVars, outbox, telemetry, cursor, batchVars, clientVars,
                   mqttVars>>

WriteDelivery ==
    /\ pc = "write"
    /\ inbox' = Filled(Delivery)
    /\ delivered' = delivered \cup {Delivery}
    /\ deliveriesReleased' = deliveriesReleased + 1
    /\ mqttIn' = [mqttIn EXCEPT ![cursor] = Tail(@)]
    /\ pc' = "receive"
    /\ UNCHANGED <<simVars, outbox, telemetry, cursor, processed, pending,
                   published, orderHeader, ordersPublished, clientVars,
                   orderWire, fleetUp, envFaults>>

StillPending == pending \ delivered

EndReceive ==
    /\ pc = "receive"
    /\ cursor = NumRobots
    /\ pending' = StillPending
    /\ published' = published \ delivered
    /\ delivered' = {}
    /\ pc' = "faults"
    /\ UNCHANGED <<simVars, fileVars, cursor, processed, orderHeader,
                   ordersPublished, deliveriesReleased, clientVars, mqttVars>>

(* manage_faults *)

TargetHasPendingBatch == \E b \in pending : b[1] = FaultTarget

(* Mutant: the in-flight order of the target is not waited for. *)
ShouldInjectFaultEarly ==
    /\ ~faultInjected
    /\ lastTick[FaultTarget] >= FaultTick

(* Mutant: the fault tick must be met exactly. *)
ShouldInjectFaultExact ==
    /\ ~faultInjected
    /\ lastTick[FaultTarget] = FaultTick
    /\ ~TargetHasPendingBatch

ShouldInjectFault ==
    /\ ~faultInjected
    /\ lastTick[FaultTarget] >= FaultTick
    /\ ~TargetHasPendingBatch

(* Mutant: the outage lasts one telemetry tick too long. *)
ShouldReconnectLate ==
    /\ conn[FaultTarget] = "none"
    /\ reconnectAt # 0
    /\ lastTick[FaultTarget] > reconnectAt

ShouldReconnect ==
    /\ conn[FaultTarget] = "none"
    /\ reconnectAt # 0
    /\ lastTick[FaultTarget] >= reconnectAt

(* The client is dropped with its inbox channel, without DISCONNECT. *)
InjectFault ==
    /\ pc = "faults"
    /\ ShouldInjectFault
    /\ faultInjected' = TRUE
    /\ reconnectAt' = lastTick[FaultTarget] + OutageTicks
    /\ conn' = [conn EXCEPT ![FaultTarget] = "none"]
    /\ mqttIn' = [mqttIn EXCEPT ![FaultTarget] = << >>]
    /\ pc' = "discover"
    /\ UNCHANGED <<simVars, fileVars, cursor, batchVars, lastTick, orderWire,
                   fleetUp, envFaults>>

(* A new client, subscribed before connect_isolated returns. *)
Reconnect ==
    /\ pc = "faults"
    /\ ShouldReconnect
    /\ conn' = [conn EXCEPT ![FaultTarget] = "up"]
    /\ reconnectAt' = 0
    /\ pc' = "discover"
    /\ UNCHANGED <<simVars, fileVars, cursor, batchVars, lastTick,
                   faultInjected, mqttVars>>

ReconnectFails ==
    /\ pc = "faults"
    /\ ShouldReconnect
    /\ envFaults < MaxEnvFaults
    /\ envFaults' = envFaults + 1
    /\ pc' = "failed"
    /\ UNCHANGED <<simVars, fileVars, cursor, batchVars, clientVars, orderWire,
                   mqttIn, fleetUp>>

NoFaultWork ==
    /\ pc = "faults"
    /\ ~ShouldInjectFault
    /\ ~ShouldReconnect
    /\ pc' = "discover"
    /\ UNCHANGED <<simVars, fileVars, cursor, batchVars, clientVars, mqttVars>>

NewBatches == outbox \ processed

(* discover_batches: the directory is listed once; files are never removed. *)
DiscoverBatches ==
    /\ pc = "discover"
    /\ pending' = pending \cup NewBatches
    /\ processed' = outbox
    /\ pc' = "publish"
    /\ UNCHANGED <<simVars, fileVars, cursor, delivered, published, orderHeader,
                   ordersPublished, deliveriesReleased, clientVars, mqttVars>>

(* publish_ready_batches: in batch order, skipping robots without a client. *)

(* Mutant: the published flag is not looked at. *)
ReadyAgain == {b \in pending : conn[b[1]] # "none"}

(* Mutant: orders are published to robots without a client as well. *)
ReadyOffline == pending \ published

Ready == {b \in pending \ published : conn[b[1]] # "none"}

Before(a, b) == a[1] < b[1] \/ (a[1] = b[1] /\ a[2] <= b[2])

PublishBatch(b) ==
    /\ pc = "publish"
    /\ b \in Ready
    /\ \A a \in Ready : Before(b, a)
    /\ fleetUp
    /\ published' = published \cup {b}
    /\ orderHeader' = [orderHeader EXCEPT ![b[1]] = @ + 1]
    /\ ordersPublished' = ordersPublished + 1
    /\ orderWire' = [orderWire EXCEPT ![b[1]] = Append(@, b)]
    /\ UNCHANGED <<simVars, fileVars, pc, cursor, delivered, processed, pending,
                   deliveriesReleased, clientVars, mqttIn, fleetUp, envFaults>>

PublishFails ==
    /\ pc = "publish"
    /\ Ready # {}
    /\ ~fleetUp
    /\ Stop("failed")

EndPublish ==
    /\ pc = "publish"
    /\ Ready = {}
    /\ pc' = "telemetry"
    /\ UNCHANGED <<simVars, fileVars, cursor, batchVars, clientVars, mqttVars>>

(* publish_telemetry *)

FreshPose(r) == telemetry[r] > lastTick[r]

PublishTelemetry ==
    /\ pc = "telemetry"
    /\ \A r \in Robots : FreshPose(r) => conn[r] # "dead"
    /\ lastTick' = [r \in Robots |-> IF FreshPose(r) THEN telemetry[r] ELSE lastTick[r]]
    /\ pc' = "check"
    /\ UNCHANGED <<simVars, fileVars, cursor, batchVars, faultInjected,
                   reconnectAt, conn, mqttVars>>

TelemetryFails ==
    /\ pc = "telemetry"
    /\ \E r \in Robots : FreshPose(r) /\ conn[r] = "dead"
    /\ Stop("failed")

(* The completion check; publish_control needs the fleet's worker.          *)

MayFinish == CompleteFile /\ pending = {}

Finish ==
    /\ pc = "check"
    /\ MayFinish
    /\ Stop(IF fleetUp THEN "done" ELSE "failed")

NextIteration ==
    /\ pc = "check"
    /\ ~MayFinish
    /\ pc' = "top"
    /\ UNCHANGED <<simVars, fileVars, cursor, batchVars, clientVars, mqttVars>>

-----------------------------------------------------------------------------
SimNext ==
    \/ \E r \in Robots : AcceptTornDelivery(r) \/ QueueBatch(r) \/ ControlStep(r)
    \/ WriteComplete

ReceiveNext ==
    \/ NextRobot \/ ReceiveFails
    \/ CreateDelivery \/ WriteDelivery \/ EndReceive

FaultNext == InjectFault \/ Reconnect \/ NoFaultWork

PublishNext ==
    \/ \E b \in Batches : PublishBatch(b)
    \/ PublishFails \/ EndPublish

BridgeNext ==
    \/ BeginIteration
    \/ ReceiveNext
    \/ FaultNext
    \/ DiscoverBatches
    \/ PublishNext
    \/ PublishTelemetry \/ TelemetryFails
    \/ Finish \/ NextIteration

EnvNext ==
    \/ \E r \in Robots : BrokerDrop(r) \/ ConnectionLost(r)
    \/ FleetConnectionLost
    \/ ReconnectFails
    \/ DeadlineExpires

(* Both sides have stopped and nothing is on the wire. *)
Terminated ==
    /\ pc \in Ended
    /\ sim # "running"
    /\ \A r \in Robots : orderWire[r] = << >>
    /\ UNCHANGED vars

Next ==
    \/ SimNext
    \/ BridgeNext
    \/ \E r \in Robots : BrokerDeliver(r)
    \/ EnvNext
    \/ Terminated

Spec == Init /\ [][Next]_vars

(* The simulation clock advances, the bridge loop never blocks (every call   *)
(* in it is bounded), the broker forwards what it has.                       *)
FairSpec ==
    /\ Spec
    /\ WF_vars(SimNext)
    /\ WF_vars(BridgeNext)
    /\ \A r \in Robots : WF_vars(BrokerDeliver(r))

-----------------------------------------------------------------------------
(* Properties *)

(* The orders of robot r between the fleet's publish and the adapter. *)
InFlight(r) == orderWire[r] \o mqttIn[r]

OnItsWay(b) == \E i \in DOMAIN InFlight(b[1]) : InFlight(b[1])[i] = b

Carried(b) == \E i \in DOMAIN mqttIn[b[1]] : mqttIn[b[1]][i] = b

(* The stage of a batch in the abstract gate. *)
GateStage(b) ==
    IF b[2] > counter[b[1]] THEN "none"
    ELSE IF b[2] <= Len(executed[b[1]]) THEN "executed"
    ELSE IF inbox[b] = "written" THEN "returned"
    ELSE IF Carried(b) THEN "carried"
    ELSE IF b \in published THEN "sent" ELSE "issued"

Stages == [b \in Batches |-> GateStage(b)]

Gate == INSTANCE CausalGate WITH stage <- Stages

(* A batch runs only after its own order went out over MQTT and came back,    *)
(* at most once, in the planner's order (patch acceptVdaDelivery, bridge      *)
(* publish_ready_batches and receive_deliveries; LSMART_DEMO.md:52-55).       *)
CausalGateHolds == Gate!Spec

(* Every order in flight is one the bridge still waits for, at most one per   *)
(* robot, and it has no finished inbox file: receive_deliveries never meets   *)
(* "without a pending LSMART batch" nor an existing file.                     *)
DeliveriesAreExpected ==
    \A r \in Robots :
        /\ Len(InFlight(r)) <= 1
        /\ \A i \in DOMAIN InFlight(r) :
               /\ InFlight(r)[i] \in published
               /\ inbox[InFlight(r)[i]] # "written"

(* The injected crash waits for the target's order to return, so no order is   *)
(* in flight to a robot whose client is gone (manage_faults, the test          *)
(* reconnect_fault_waits_until_the_target_has_no_in_flight_order).             *)
OutageSparesOrders ==
    \A r \in Robots : conn[r] = "none" => InFlight(r) = << >>

(* Without an MQTT fault a batch marked published is on its way or returned:   *)
(* the single QoS 0 publication of publish_ready_batches is enough.            *)
PublishedIsOnItsWay ==
    envFaults = 0 /\ pc \notin Ended =>
        \A b \in published : b \in delivered \/ OnItsWay(b)

Returned == {b \in Batches : inbox[b] = "written"}

(* The counters of the completion message agree with the files: every          *)
(* delivery counted has its inbox file, and every order counted has returned   *)
(* or is still awaited.                                                        *)
CountersMatchFiles ==
    /\ deliveriesReleased = Cardinality(Returned)
    /\ ordersPublished = Cardinality(Returned \cup published)

(* What the run script compares at the end (run-lsmart-demo.sh 211-223).       *)
InboxFiles == {b \in Batches : inbox[b] # "absent"}

RunnerAccepts ==
    /\ pc = "done"
    /\ sim = "complete"
    /\ outbox # {}
    /\ Cardinality(outbox) = Cardinality(InboxFiles)
    /\ ordersPublished = Cardinality(outbox)
    /\ deliveriesReleased = Cardinality(outbox)
    /\ faultInjected

(* The script compares counts only; an accepted run nevertheless has one       *)
(* finished delivery for each batch and nothing left to publish.               *)
AcceptedRunsAreComplete ==
    RunnerAccepts =>
        /\ \A b \in outbox : inbox[b] = "written"
        /\ pending = {} /\ processed = outbox

(* The bridge announces completion only after every batch in the outbox came   *)
(* back through MQTT (run-lsmart-demo.sh:213-214 asserts it of every run whose *)
(* bridge exits with success).                                                 *)
AllBatchesTraverseMqtt ==
    pc = "done" => \A b \in outbox : inbox[b] = "written"

(* A controller never reads a delivery file the bridge is still writing (the   *)
(* overlay parses the file once and throws on anything but the whole batch).   *)
NoTornDelivery == sim # "failed"

(* The outage outlasts the simulation: the target's ticks stop short of        *)
(* reconnect_at_tick.                                                          *)
Stranded ==
    /\ conn[FaultTarget] = "none"
    /\ sim # "running"
    /\ telemetry[FaultTarget] < reconnectAt

(* Without MQTT faults the bridge ends after the simulation, with every batch it *)
(* saw back through MQTT (lsmart-bridge.rs 144-156), unless the target stays cut *)
(* off or the deadline passes.                                                  *)
BridgeFinishes ==
    (sim = "complete") ~>
        \/ pc = "done" /\ \A b \in processed : inbox[b] = "written"
        \/ Stranded \/ pc = "timeout" \/ envFaults > 0

(* Once the target has reached the fault tick its client is crashed, however   *)
(* busy the target is: a return is processed before new batches are found.     *)
FaultIsInjected ==
    (lastTick[FaultTarget] >= FaultTick) ~>
        (faultInjected \/ pc \in Ended \/ envFaults > 0)
=============================================================================
