--------------------------- MODULE LsmartBridgeProofs ---------------------------
(***************************************************************************)
(* Proofs about LsmartBridge for every number of robots, batches and ticks. *)
(* The frame lemmas say which actions touch which group of variables; then  *)
(* one lemma per part of the inductive invariant, one step per action that  *)
(* touches the part's variables.                                            *)
(***************************************************************************)
EXTENDS LsmartBridgeInv, FiniteSetTheorems, TLAPS

(* The robots are numbered by naturals and there are finitely many batches. *)
LEMMA BatchesFinite == IsFiniteSet(Batches)
<1>1. IsFiniteSet(Robots) /\ IsFiniteSet(Numbers)
  BY ConstantsAssumption, FS_Interval DEF Robots, Numbers
<1> QED
  BY <1>1, FS_Product DEF Batches

(* A queue with at most one order. *)
LEMMA AtMostOne ==
    ASSUME NEW S, NEW s \in Seq(S), Len(s) <= 1
    PROVE  /\ s # << >> => DOMAIN s = {1} /\ Head(s) = s[1] /\ Tail(s) = << >>
           /\ \A i \in DOMAIN s : i = 1
<1>1. Len(s) \in Nat
  OBVIOUS
<1>2. ASSUME s # << >> PROVE DOMAIN s = {1} /\ Head(s) = s[1] /\ Tail(s) = << >>
  <2>0. Len(s) # 0
    BY <1>2
  <2>1. Len(s) = 1
    <3> DEFINE n == Len(s)
    <3>1. n \in Nat /\ n <= 1 /\ n # 0
      BY <1>1, <2>0
    <3> HIDE DEF n
    <3>2. n = 1
      BY <3>1
    <3> QED
      BY <3>2 DEF n
  <2>2. Tail(s) \in Seq(S) /\ Len(Tail(s)) = 0
    BY <1>2, <2>1
  <2>3. Tail(s) = << >>
    BY <2>2
  <2>4. DOMAIN s = 1 .. 1
    BY <2>1
  <2> QED
    BY <2>3, <2>4
<1>3. \A i \in DOMAIN s : i = 1
  BY <1>1
<1> QED
  BY <1>2, <1>3

-----------------------------------------------------------------------------
(* Which actions change which variables. *)

(* Only control steps and the run script change the simulation's variables. *)
LEMMA SimFrame == [Next]_vars => SimNext \/ UNCHANGED simVars
BY DEF Next, vars, BridgeNext, ReceiveNext, FaultNext, PublishNext, EnvNext,
       Terminated, Stop, BrokerDeliver, BrokerDrop, ConnectionLost,
       FleetConnectionLost, ReconnectFails, DeadlineExpires, BeginIteration,
       NextRobot, ReceiveFails, CreateDelivery,
       WriteDelivery, EndReceive, InjectFault, Reconnect, NoFaultWork,
       DiscoverBatches, PublishBatch, PublishFails, EndPublish,
       PublishTelemetry, TelemetryFails, Finish, NextIteration

(* The bridge writes files only while it delivers. *)
LEMMA FileFrame ==
    [Next]_vars => \/ SimNext \/ CreateDelivery \/ WriteDelivery
                   \/ UNCHANGED fileVars
BY DEF Next, vars, BridgeNext, ReceiveNext, FaultNext, PublishNext, EnvNext,
       Terminated, Stop, BrokerDeliver, BrokerDrop, ConnectionLost,
       FleetConnectionLost, ReconnectFails, DeadlineExpires, BeginIteration,
       NextRobot, ReceiveFails, EndReceive, InjectFault,
       Reconnect, NoFaultWork, DiscoverBatches, PublishBatch, PublishFails,
       EndPublish, PublishTelemetry, TelemetryFails, Finish, NextIteration

(* The bridge's batch bookkeeping. *)
LEMMA BatchFrame ==
    [Next]_vars => \/ BeginIteration \/ WriteDelivery \/ EndReceive
                   \/ DiscoverBatches \/ (\E b \in Batches : PublishBatch(b))
                   \/ UNCHANGED batchVars
BY DEF Next, vars, BridgeNext, ReceiveNext, FaultNext, PublishNext, EnvNext,
       SimNext, Terminated, Stop, BrokerDeliver, BrokerDrop, ConnectionLost,
       FleetConnectionLost, ReconnectFails, DeadlineExpires,
       NextRobot, ReceiveFails, CreateDelivery,
       InjectFault, Reconnect, NoFaultWork, PublishFails, EndPublish,
       PublishTelemetry, TelemetryFails, Finish, NextIteration,
       AcceptTornDelivery, QueueBatch, ControlStep, WriteComplete

(* The clients change in manage_faults and when a connection breaks. *)
LEMMA ClientFrame ==
    [Next]_vars => \/ (\E r \in Robots : ConnectionLost(r))
                   \/ InjectFault \/ Reconnect \/ PublishTelemetry
                   \/ UNCHANGED clientVars
BY DEF Next, vars, BridgeNext, ReceiveNext, FaultNext, PublishNext, EnvNext,
       SimNext, Terminated, Stop, BrokerDeliver, BrokerDrop,
       FleetConnectionLost, ReconnectFails, DeadlineExpires, BeginIteration,
       NextRobot, ReceiveFails, CreateDelivery,
       WriteDelivery, EndReceive, NoFaultWork, DiscoverBatches, PublishBatch,
       PublishFails, EndPublish, TelemetryFails, Finish, NextIteration,
       AcceptTornDelivery, QueueBatch, ControlStep, WriteComplete

(* MQTT. *)
LEMMA MqttFrame ==
    [Next]_vars => \/ (\E r \in Robots : BrokerDeliver(r) \/ BrokerDrop(r)
                                         \/ ConnectionLost(r))
                   \/ FleetConnectionLost \/ ReconnectFails
                   \/ WriteDelivery \/ InjectFault
                   \/ (\E b \in Batches : PublishBatch(b))
                   \/ UNCHANGED mqttVars
BY DEF Next, vars, BridgeNext, ReceiveNext, FaultNext, PublishNext, EnvNext,
       SimNext, Terminated, Stop, DeadlineExpires, BeginIteration,
       NextRobot, ReceiveFails, CreateDelivery,
       EndReceive, Reconnect, NoFaultWork, DiscoverBatches,
       PublishFails, EndPublish, PublishTelemetry, TelemetryFails, Finish,
       NextIteration, AcceptTornDelivery, QueueBatch, ControlStep, WriteComplete

-----------------------------------------------------------------------------
(* Type correctness. *)

LEMMA InitTypeOK == Init => TypeOK
<1> SUFFICES ASSUME Init PROVE TypeOK
  OBVIOUS
<1> USE ConstantsAssumption DEF Init
<1>1. SimTypeOK
  BY DEF SimTypeOK
<1>2. FileTypeOK
  BY DEF FileTypeOK
<1>3. pc \in Phases \cup Ended /\ cursor \in 0 .. NumRobots
  BY DEF Phases
<1>4. BatchTypeOK
  BY DEF BatchTypeOK
<1>5. ClientTypeOK
  <2>1. conn \in [Robots -> {"up", "dead", "none"}]
    OBVIOUS
  <2>2. lastTick \in [Robots -> 0 .. MaxTick]
    OBVIOUS
  <2> QED
    BY <2>1, <2>2 DEF ClientTypeOK
<1>6. MqttTypeOK
  BY DEF MqttTypeOK
<1> QED
  BY <1>1, <1>2, <1>3, <1>4, <1>5, <1>6 DEF TypeOK

(* A controller that waits has numbered a batch. *)
LEMMA WaitingNumber ==
    ASSUME TypeOK, ControllerInv, NEW r \in Robots, waiting[r]
    PROVE  counter[r] \in Numbers
<1>1. Len(executed[r]) = counter[r] - 1 /\ executed[r] \in Seq(Numbers)
  BY DEF ControllerInv, TypeOK, SimTypeOK
<1>2. counter[r] \in 0 .. MaxBatches /\ Len(executed[r]) \in Nat
  BY <1>1 DEF TypeOK, SimTypeOK
<1> QED
  BY <1>1, <1>2, ConstantsAssumption DEF Numbers

(* The batch a control step executes is one the controller has numbered. *)
LEMMA AcceptType ==
    ASSUME TypeOK, ControllerInv, NEW r \in Robots, AcceptDelivery(r)
    PROVE  executed' \in [Robots -> Seq(Numbers)]
<1>1. executed \in [Robots -> Seq(Numbers)]
  BY DEF TypeOK, SimTypeOK
<1>2. CASE DeliveryFile(r) = "written"
  <2>1. counter[r] \in Numbers
    BY <1>2, WaitingNumber DEF DeliveryFile
  <2> QED
    BY <1>1, <1>2, <2>1 DEF AcceptDelivery
<1>3. CASE DeliveryFile(r) # "written"
  BY <1>1, <1>3 DEF AcceptDelivery
<1> QED
  BY <1>2, <1>3

LEMMA SimTypeStep == IInv /\ [Next]_vars => SimTypeOK'
<1> SUFFICES ASSUME IInv, [Next]_vars PROVE SimTypeOK'
  OBVIOUS
<1>0. TypeOK /\ ControllerInv /\ SimTypeOK
  BY DEF IInv, TypeOK
<1> USE <1>0, ConstantsAssumption
<1>1. ASSUME NEW r \in Robots, AcceptTornDelivery(r) PROVE SimTypeOK'
  BY <1>1 DEF AcceptTornDelivery, SimTypeOK
<1>2. ASSUME NEW r \in Robots, QueueBatch(r) PROVE SimTypeOK'
  BY <1>2, AcceptType DEF QueueBatch, WriteTelemetry, MayStep, SimTypeOK
<1>3. ASSUME NEW r \in Robots, ControlStep(r) PROVE SimTypeOK'
  BY <1>3, AcceptType DEF ControlStep, WriteTelemetry, MayStep, SimTypeOK, IdleAfterAccept
<1>4. CASE WriteComplete
  BY <1>4 DEF WriteComplete, SimTypeOK
<1>5. CASE UNCHANGED simVars
  BY <1>5 DEF simVars, SimTypeOK
<1> QED
  BY <1>1, <1>2, <1>3, <1>4, <1>5, SimFrame DEF SimNext

(* While a file is written, the received order is a batch. *)
LEMMA DeliveryType ==
    ASSUME TypeOK, cursor \in Robots, mqttIn[cursor] # << >>
    PROVE  Delivery \in Batches
BY DEF Delivery, TypeOK, MqttTypeOK

LEMMA FileTypeStep == IInv /\ [Next]_vars => FileTypeOK'
<1> SUFFICES ASSUME IInv, [Next]_vars PROVE FileTypeOK'
  OBVIOUS
<1>0. TypeOK /\ InboxInv /\ SimTypeOK /\ FileTypeOK
  BY DEF IInv, TypeOK
<1> USE <1>0, ConstantsAssumption
<1>1. ASSUME NEW r \in Robots, AcceptTornDelivery(r) PROVE FileTypeOK'
  BY <1>1 DEF AcceptTornDelivery, FileTypeOK, fileVars
<1>2. ASSUME NEW r \in Robots, QueueBatch(r) PROVE FileTypeOK'
  <2>1. <<r, counter[r] + 1>> \in Batches
    BY <1>2 DEF QueueBatch, SimTypeOK, Batches, Numbers
  <2>2. outbox' \in SUBSET Batches /\ inbox' = inbox
    BY <1>2, <2>1 DEF QueueBatch, FileTypeOK
  <2>3. step[r] + 1 \in 0 .. MaxTick
    BY <1>2 DEF QueueBatch, MayStep, SimTypeOK
  <2>4. telemetry' \in [Robots -> 0 .. MaxTick]
    BY <1>2, <2>3 DEF QueueBatch, WriteTelemetry, FileTypeOK
  <2> QED
    BY <2>2, <2>4 DEF FileTypeOK
<1>3. ASSUME NEW r \in Robots, ControlStep(r) PROVE FileTypeOK'
  BY <1>3 DEF ControlStep, WriteTelemetry, MayStep, FileTypeOK, SimTypeOK
<1>4. CASE WriteComplete
  BY <1>4 DEF WriteComplete, FileTypeOK, fileVars
<1>5. CASE CreateDelivery
  BY <1>5, DeliveryType DEF CreateDelivery, HasDelivery, Polling, FileTypeOK
<1>6. CASE WriteDelivery
  BY <1>6, DeliveryType DEF WriteDelivery, Filled, InboxInv, FileTypeOK
<1>7. CASE UNCHANGED fileVars
  BY <1>7 DEF fileVars, FileTypeOK
<1> QED
  BY <1>1, <1>2, <1>3, <1>4, <1>5, <1>6, <1>7, FileFrame DEF SimNext

LEMMA BatchTypeStep == IInv /\ [Next]_vars => BatchTypeOK'
<1> SUFFICES ASSUME IInv, [Next]_vars PROVE BatchTypeOK'
  OBVIOUS
<1>0. TypeOK /\ InboxInv /\ FileTypeOK /\ BatchTypeOK
  BY DEF IInv, TypeOK
<1> USE <1>0
<1>1. CASE BeginIteration
  BY <1>1 DEF BeginIteration, BatchTypeOK
<1>2. CASE WriteDelivery
  BY <1>2, DeliveryType DEF WriteDelivery, InboxInv, BatchTypeOK
<1>3. CASE EndReceive
  BY <1>3 DEF EndReceive, StillPending, BatchTypeOK
<1>4. CASE DiscoverBatches
  BY <1>4 DEF DiscoverBatches, NewBatches, BatchTypeOK, FileTypeOK
<1>5. ASSUME NEW b \in Batches, PublishBatch(b) PROVE BatchTypeOK'
  BY <1>5 DEF PublishBatch, BatchTypeOK, Batches
<1>6. CASE UNCHANGED batchVars
  BY <1>6 DEF batchVars, BatchTypeOK
<1> QED
  BY <1>1, <1>2, <1>3, <1>4, <1>5, <1>6, BatchFrame

LEMMA ClientTypeStep == IInv /\ [Next]_vars => ClientTypeOK'
<1> SUFFICES ASSUME IInv, [Next]_vars PROVE ClientTypeOK'
  OBVIOUS
<1>0. FileTypeOK /\ ClientTypeOK
  BY DEF IInv, TypeOK
<1> USE <1>0, ConstantsAssumption
<1>1. ASSUME NEW r \in Robots, ConnectionLost(r) PROVE ClientTypeOK'
  BY <1>1 DEF ConnectionLost, ClientTypeOK
<1>2. CASE InjectFault
  BY <1>2 DEF InjectFault, ClientTypeOK, Robots
<1>3. CASE Reconnect
  BY <1>3 DEF Reconnect, ClientTypeOK
<1>4. CASE PublishTelemetry
  BY <1>4 DEF PublishTelemetry, ClientTypeOK, FileTypeOK
<1>5. CASE UNCHANGED clientVars
  BY <1>5 DEF clientVars, ClientTypeOK
<1> QED
  BY <1>1, <1>2, <1>3, <1>4, <1>5, ClientFrame

LEMMA MqttTypeStep == IInv /\ [Next]_vars => MqttTypeOK'
<1> SUFFICES ASSUME IInv, [Next]_vars PROVE MqttTypeOK'
  OBVIOUS
<1>0. TypeOK /\ InboxInv /\ MqttTypeOK
  BY DEF IInv, TypeOK
<1> USE <1>0, ConstantsAssumption
<1>1. ASSUME NEW r \in Robots, BrokerDeliver(r) PROVE MqttTypeOK'
  <2>1. orderWire[r] \in Seq(Batches) /\ mqttIn[r] \in Seq(Batches)
    BY DEF MqttTypeOK
  <2>2. Tail(orderWire[r]) \in Seq(Batches)
    BY <1>1, <2>1 DEF BrokerDeliver
  <2>3. Append(mqttIn[r], Head(orderWire[r])) \in Seq(Batches)
    BY <1>1, <2>1 DEF BrokerDeliver
  <2>4. orderWire' \in [Robots -> Seq(Batches)]
    BY <1>1, <2>2 DEF BrokerDeliver, MqttTypeOK
  <2>5. mqttIn' \in [Robots -> Seq(Batches)]
    BY <1>1, <2>3 DEF BrokerDeliver, MqttTypeOK
  <2> QED
    BY <1>1, <2>4, <2>5 DEF BrokerDeliver, MqttTypeOK
<1>2. ASSUME NEW r \in Robots, BrokerDrop(r) PROVE MqttTypeOK'
  BY <1>2 DEF BrokerDrop, MqttTypeOK
<1>3. ASSUME NEW r \in Robots, ConnectionLost(r) PROVE MqttTypeOK'
  <2>1. envFaults' \in 0 .. MaxEnvFaults
    BY <1>3 DEF ConnectionLost, MqttTypeOK
  <2>2. UNCHANGED <<orderWire, mqttIn, fleetUp>>
    BY <1>3 DEF ConnectionLost
  <2> QED
    BY <2>1, <2>2 DEF MqttTypeOK
<1>4. CASE FleetConnectionLost
  <2>1. envFaults' \in 0 .. MaxEnvFaults
    BY <1>4 DEF FleetConnectionLost, MqttTypeOK
  <2>2. UNCHANGED <<orderWire, mqttIn>> /\ fleetUp' \in BOOLEAN
    BY <1>4 DEF FleetConnectionLost, MqttTypeOK
  <2> QED
    BY <2>1, <2>2 DEF MqttTypeOK
<1>5. CASE ReconnectFails
  <2>1. envFaults' \in 0 .. MaxEnvFaults
    BY <1>5 DEF ReconnectFails, MqttTypeOK
  <2>2. UNCHANGED <<orderWire, mqttIn>> /\ fleetUp' \in BOOLEAN
    BY <1>5 DEF ReconnectFails, MqttTypeOK
  <2> QED
    BY <2>1, <2>2 DEF MqttTypeOK
<1>6. CASE WriteDelivery
  BY <1>6 DEF WriteDelivery, InboxInv, MqttTypeOK
<1>7. CASE InjectFault
  <2> DEFINE none == << >>
  <2>0. none \in Seq(Batches) /\ mqttIn' = [mqttIn EXCEPT ![FaultTarget] = none]
    BY <1>7 DEF InjectFault
  <2> HIDE DEF none
  <2>1. mqttIn' \in [Robots -> Seq(Batches)]
    BY <2>0 DEF MqttTypeOK
  <2>2. UNCHANGED <<orderWire, fleetUp, envFaults>>
    BY <1>7 DEF InjectFault
  <2> QED
    BY <2>1, <2>2 DEF MqttTypeOK
<1>8. ASSUME NEW b \in Batches, PublishBatch(b) PROVE MqttTypeOK'
  BY <1>8 DEF PublishBatch, MqttTypeOK, Batches
<1>9. CASE UNCHANGED mqttVars
  BY <1>9 DEF mqttVars, MqttTypeOK
<1> QED
  BY <1>1, <1>2, <1>3, <1>4, <1>5, <1>6, <1>7, <1>8, <1>9, MqttFrame

(* The phase of the loop and the robot being polled. *)
LEMMA PhaseStep ==
    IInv /\ [Next]_vars => pc' \in Phases \cup Ended /\ cursor' \in 0 .. NumRobots
<1> SUFFICES ASSUME IInv, [Next]_vars
             PROVE  pc' \in Phases \cup Ended /\ cursor' \in 0 .. NumRobots
  OBVIOUS
<1>0. pc \in Phases \cup Ended /\ cursor \in 0 .. NumRobots
  BY DEF IInv, TypeOK
<1> USE <1>0, ConstantsAssumption DEF Phases, Ended
<1>1. CASE UNCHANGED <<pc, cursor>>
  BY <1>1
<1>2. CASE BeginIteration
  BY <1>2 DEF BeginIteration
<1>3. CASE NextRobot
  BY <1>3 DEF NextRobot, Polling, Robots
<1>4. \/ pc' \in Phases \cup Ended /\ UNCHANGED cursor
      \/ UNCHANGED <<pc, cursor>>
      \/ BeginIteration
      \/ NextRobot
  BY DEF Next, vars, BridgeNext, ReceiveNext, FaultNext, PublishNext, EnvNext,
       SimNext, Terminated, Stop, BrokerDeliver, BrokerDrop, ConnectionLost,
       FleetConnectionLost, ReconnectFails, DeadlineExpires,
       ReceiveFails, CreateDelivery, WriteDelivery,
       EndReceive, InjectFault, Reconnect, NoFaultWork, DiscoverBatches,
       PublishBatch, PublishFails, EndPublish, PublishTelemetry,
       TelemetryFails, Finish, NextIteration, AcceptTornDelivery, QueueBatch,
       ControlStep, WriteComplete
<1> QED
  BY <1>1, <1>2, <1>3, <1>4

LEMMA TypeStep == IInv /\ [Next]_vars => TypeOK'
BY SimTypeStep, FileTypeStep, BatchTypeStep, ClientTypeStep, MqttTypeStep,
   PhaseStep DEF TypeOK

-----------------------------------------------------------------------------
(* The controllers' part. *)

(* acceptVdaDelivery: what it appends keeps `executed` the batches 1, 2, ...   *)
LEMMA ExecutedAfterAccept ==
    ASSUME TypeOK, ControllerInv, NEW r \in Robots, AcceptDelivery(r),
           DeliveryFile(r) # "partial"
    PROVE  /\ Len(executed'[r]) = IF IdleAfterAccept(r) THEN counter[r] ELSE counter[r] - 1
           /\ \A i \in DOMAIN executed'[r] : executed'[r][i] = i
           /\ \A q \in Robots : q # r => executed'[q] = executed[q]
<1>1. executed \in [Robots -> Seq(Numbers)] /\ counter[r] \in Nat /\ waiting[r] \in BOOLEAN
  BY DEF TypeOK, SimTypeOK
<1>2. /\ Len(executed[r]) = IF waiting[r] THEN counter[r] - 1 ELSE counter[r]
      /\ \A i \in DOMAIN executed[r] : executed[r][i] = i
  BY DEF ControllerInv
<1>3. CASE DeliveryFile(r) = "written"
  <2>1. waiting[r] /\ IdleAfterAccept(r)
    BY <1>3 DEF DeliveryFile, IdleAfterAccept
  <2>2. executed' = [executed EXCEPT ![r] = Append(@, counter[r])]
    BY <1>3 DEF AcceptDelivery
  <2>3. executed'[r] = Append(executed[r], counter[r])
    BY <2>2, <1>1
  <2>4. counter[r] \in Numbers
    BY <2>1, WaitingNumber
  <2>5. Len(executed'[r]) = counter[r]
    BY <2>1, <2>3, <2>4, <1>1, <1>2
  <2>6. \A i \in DOMAIN executed'[r] : executed'[r][i] = i
    BY <2>1, <2>3, <2>4, <1>1, <1>2
  <2> QED
    BY <2>1, <2>2, <2>5, <2>6, <1>1
<1>4. CASE DeliveryFile(r) # "written"
  <2>1. executed' = executed
    BY <1>4 DEF AcceptDelivery
  <2> QED
    BY <2>1, <1>1, <1>2, <1>4 DEF IdleAfterAccept
<1> QED
  BY <1>3, <1>4

LEMMA ControllerFrame ==
    [Next]_vars => \/ (\E r \in Robots : QueueBatch(r) \/ ControlStep(r))
                   \/ UNCHANGED <<counter, waiting, executed, outbox>>
BY DEF Next, vars, simVars, fileVars, BridgeNext, ReceiveNext, FaultNext,
       PublishNext, EnvNext, SimNext, Terminated, Stop, BrokerDeliver, BrokerDrop,
       ConnectionLost, FleetConnectionLost, ReconnectFails, DeadlineExpires,
       BeginIteration, NextRobot, ReceiveFails,
       CreateDelivery, WriteDelivery, EndReceive, InjectFault, Reconnect,
       NoFaultWork, DiscoverBatches, PublishBatch, PublishFails, EndPublish,
       PublishTelemetry, TelemetryFails, Finish, NextIteration,
       AcceptTornDelivery, WriteComplete

LEMMA ControllerStep == IInv /\ [Next]_vars => ControllerInv'
<1> SUFFICES ASSUME IInv, [Next]_vars PROVE ControllerInv'
  OBVIOUS
<1>0. TypeOK /\ ControllerInv /\ SimTypeOK
  BY DEF IInv, TypeOK
<1> USE <1>0
<1>1. ASSUME NEW r \in Robots, QueueBatch(r) PROVE ControllerInv'
  <2>1. /\ Len(executed'[r]) = counter[r]
        /\ \A i \in DOMAIN executed'[r] : executed'[r][i] = i
        /\ \A q \in Robots : q # r => executed'[q] = executed[q]
    BY <1>1, ExecutedAfterAccept DEF QueueBatch
  <2>2. /\ counter' = [counter EXCEPT ![r] = @ + 1]
        /\ waiting' = [waiting EXCEPT ![r] = TRUE]
        /\ outbox' = outbox \cup {<<r, counter[r] + 1>>}
        /\ counter[r] + 1 \in Numbers
    BY <1>1, ConstantsAssumption DEF QueueBatch, SimTypeOK, Numbers
  <2>3. \A q \in Robots :
           /\ Len(executed'[q]) = IF waiting'[q] THEN counter'[q] - 1 ELSE counter'[q]
           /\ \A i \in DOMAIN executed'[q] : executed'[q][i] = i
    BY <2>1, <2>2 DEF ControllerInv, SimTypeOK
  <2>4. \A b \in Batches : b \in outbox' <=> b[2] <= counter'[b[1]]
    <3> SUFFICES ASSUME NEW q \in Robots, NEW n \in Numbers
                 PROVE  <<q, n>> \in outbox' <=> n <= counter'[q]
      BY DEF Batches
    <3>1. <<q, n>> \in outbox <=> n <= counter[q]
      BY DEF ControllerInv, Batches
    <3> QED
      BY <3>1, <2>2 DEF SimTypeOK, Numbers
  <2>5. outbox' \subseteq Batches
    BY <2>2 DEF ControllerInv, Batches
  <2> QED
    BY <2>3, <2>4, <2>5 DEF ControllerInv
<1>2. ASSUME NEW r \in Robots, ControlStep(r) PROVE ControllerInv'
  <2>1. /\ Len(executed'[r]) = IF IdleAfterAccept(r) THEN counter[r] ELSE counter[r] - 1
        /\ \A i \in DOMAIN executed'[r] : executed'[r][i] = i
        /\ \A q \in Robots : q # r => executed'[q] = executed[q]
    BY <1>2, ExecutedAfterAccept DEF ControlStep
  <2>2. waiting' = [waiting EXCEPT ![r] = ~IdleAfterAccept(r)] /\ UNCHANGED <<counter, outbox>>
    BY <1>2 DEF ControlStep
  <2>3. \A q \in Robots :
           /\ Len(executed'[q]) = IF waiting'[q] THEN counter'[q] - 1 ELSE counter'[q]
           /\ \A i \in DOMAIN executed'[q] : executed'[q][i] = i
    BY <2>1, <2>2 DEF ControllerInv, SimTypeOK
  <2> QED
    BY <2>2, <2>3 DEF ControllerInv
<1>3. CASE UNCHANGED <<counter, waiting, executed, outbox>>
  BY <1>3 DEF ControllerInv
<1> QED
  BY <1>1, <1>2, <1>3, ControllerFrame

(* A queued batch that has not come back is the last one of its robot, which   *)
(* waits for it: at most one batch per robot is outstanding.                   *)
LEMMA UniqueOutstanding ==
    ASSUME TypeOK, ControllerInv, InboxInv,
           NEW r \in Robots, NEW n \in Numbers,
           <<r, n>> \in outbox, inbox[<<r, n>>] # "written"
    PROVE  waiting[r] /\ n = counter[r]
<1>1. n <= counter[r] /\ <<r, n>> \in Batches
  BY DEF ControllerInv, Batches
<1>2. ~(n <= Len(executed[r]))
  BY <1>1 DEF InboxInv
<1>3. counter[r] \in Nat /\ Len(executed[r]) = IF waiting[r] THEN counter[r] - 1 ELSE counter[r]
  BY DEF TypeOK, SimTypeOK, ControllerInv
<1> QED
  BY <1>1, <1>2, <1>3, ConstantsAssumption DEF Numbers

-----------------------------------------------------------------------------
(* The inbox files. *)

LEMMA InboxFrame ==
    [Next]_vars => \/ (\E r \in Robots : QueueBatch(r) \/ ControlStep(r))
                   \/ CreateDelivery \/ WriteDelivery \/ DiscoverBatches
                   \/ (\E r \in Robots : BrokerDeliver(r))
                   \/ UNCHANGED <<inbox, processed, executed, pc, cursor, mqttIn>>
                   \/ /\ pc # "write" /\ pc' # "write"
                      /\ UNCHANGED <<inbox, processed, executed>>
BY DEF Next, vars, simVars, fileVars, batchVars, clientVars, mqttVars, BridgeNext,
       ReceiveNext, FaultNext, PublishNext, EnvNext, SimNext, Terminated, Stop,
       BrokerDrop, ConnectionLost, FleetConnectionLost, ReconnectFails,
       DeadlineExpires, BeginIteration, NextRobot, Polling, ReceiveFails, HasDelivery, EndReceive, InjectFault, Reconnect,
       NoFaultWork, PublishBatch, PublishFails, EndPublish, PublishTelemetry,
       TelemetryFails, Finish, NextIteration, AcceptTornDelivery, WriteComplete

(* A control step executes only what has a written file. *)
LEMMA ExecutedIsWritten ==
    ASSUME TypeOK, ControllerInv, InboxInv, NEW r \in Robots,
           QueueBatch(r) \/ ControlStep(r)
    PROVE  \A b \in Batches : b[2] <= Len(executed'[b[1]]) => inbox[b] = "written"
<1>1. AcceptDelivery(r) /\ DeliveryFile(r) # "partial"
  BY DEF QueueBatch, ControlStep
<1>2. SUFFICES ASSUME NEW q \in Robots, NEW n \in Numbers, n <= Len(executed'[q])
               PROVE  inbox[<<q, n>>] = "written"
  BY DEF Batches
<1>3. <<q, n>> \in Batches
  BY DEF Batches
<1>4. counter[r] \in Nat /\ waiting[r] \in BOOLEAN
      /\ Len(executed[r]) = IF waiting[r] THEN counter[r] - 1 ELSE counter[r]
  BY DEF TypeOK, SimTypeOK, ControllerInv
<1>5. CASE q = r /\ DeliveryFile(r) = "written"
  <2>1. waiting[r] /\ inbox[<<r, counter[r]>>] = "written"
    BY <1>5 DEF DeliveryFile, PendingBatch
  <2>2. Len(executed'[r]) = counter[r]
    BY <1>1, <1>5, ExecutedAfterAccept DEF IdleAfterAccept
  <2>3. n = counter[r] \/ n <= Len(executed[r])
    BY <1>2, <1>4, <1>5, <2>1, <2>2, ConstantsAssumption DEF Numbers
  <2> QED
    BY <1>3, <1>5, <2>1, <2>3 DEF InboxInv
<1>6. CASE ~(q = r /\ DeliveryFile(r) = "written")
  <2>1. executed'[q] = executed[q]
    BY <1>1, <1>6, ExecutedAfterAccept DEF AcceptDelivery
  <2> QED
    BY <1>2, <1>3, <2>1 DEF InboxInv
<1> QED
  BY <1>5, <1>6

LEMMA InboxStep == IInv /\ [Next]_vars => InboxInv'
<1> SUFFICES ASSUME IInv, [Next]_vars PROVE InboxInv'
  OBVIOUS
<1>0. /\ TypeOK /\ ControllerInv /\ InboxInv /\ BatchInv /\ FlightInv
      /\ FileTypeOK /\ MqttTypeOK
  BY DEF IInv, TypeOK
<1> USE <1>0
<1>1. ASSUME NEW r \in Robots, QueueBatch(r) \/ ControlStep(r) PROVE InboxInv'
  <2>1. UNCHANGED <<inbox, processed, pc, cursor, mqttIn>>
    BY <1>1 DEF QueueBatch, ControlStep, batchVars, mqttVars
  <2>2. \A b \in Batches : b[2] <= Len(executed'[b[1]]) => inbox[b] = "written"
    BY <1>1, ExecutedIsWritten
  <2> QED
    BY <2>1, <2>2 DEF InboxInv, Delivery
<1>2. CASE CreateDelivery
  <2>1. /\ Delivery \in Batches /\ Delivery \in processed
        /\ cursor \in Robots /\ mqttIn[cursor] # << >> /\ pc = "receive"
        /\ inbox[Delivery] = "absent"
    BY <1>2, DeliveryType DEF CreateDelivery, HasDelivery, Polling, Expected, BatchInv
  <2>2. /\ inbox' = [inbox EXCEPT ![Delivery] = "partial"] /\ pc' = "write"
        /\ UNCHANGED <<processed, executed, cursor, mqttIn>>
    BY <1>2 DEF CreateDelivery, simVars, batchVars, mqttVars
  <2>3. Delivery' = Delivery
    BY <2>2 DEF Delivery
  <2> QED
    BY <2>1, <2>2, <2>3 DEF InboxInv, FileTypeOK
<1>3. CASE WriteDelivery
  <2>1. /\ Delivery \in Batches /\ inbox[Delivery] = "partial"
    BY <1>3, DeliveryType DEF WriteDelivery, InboxInv
  <2>2. /\ inbox' = [inbox EXCEPT ![Delivery] = "written"] /\ pc' = "receive"
        /\ UNCHANGED <<processed, executed>>
    BY <1>3 DEF WriteDelivery, Filled, simVars
  <2> QED
    BY <2>1, <2>2, <1>3 DEF InboxInv, FileTypeOK, WriteDelivery
<1>4. CASE DiscoverBatches
  <2>1. pc # "write" /\ pc' # "write" /\ UNCHANGED <<inbox, executed>>
        /\ processed \subseteq processed'
    BY <1>4 DEF DiscoverBatches, BatchInv, simVars, fileVars
  <2> QED
    BY <2>1 DEF InboxInv
<1>5. ASSUME NEW r \in Robots, BrokerDeliver(r) PROVE InboxInv'
  <2>1. UNCHANGED <<inbox, executed, processed, pc, cursor>>
    BY <1>5 DEF BrokerDeliver, simVars, fileVars, batchVars
  <2>2. CASE pc # "write"
    BY <2>1, <2>2 DEF InboxInv
  <2>3. CASE pc = "write"
    <3>1. cursor \in Robots /\ mqttIn[cursor] # << >>
      BY <2>3 DEF InboxInv
    <3>2. orderWire[cursor] = << >>
      BY <3>1 DEF FlightInv
    <3>3. r # cursor
      BY <1>5, <3>2 DEF BrokerDeliver
    <3>4. mqttIn'[cursor] = mqttIn[cursor]
      BY <1>5, <3>1, <3>3 DEF BrokerDeliver, MqttTypeOK
    <3> QED
      BY <2>1, <3>4 DEF InboxInv, Delivery
  <2> QED
    BY <2>2, <2>3
<1>6. CASE UNCHANGED <<inbox, processed, executed, pc, cursor, mqttIn>>
  BY <1>6 DEF InboxInv, Delivery
<1>7. CASE pc # "write" /\ pc' # "write" /\ UNCHANGED <<inbox, processed, executed>>
  BY <1>7 DEF InboxInv
<1> QED
  BY <1>1, <1>2, <1>3, <1>4, <1>5, <1>6, <1>7, InboxFrame

-----------------------------------------------------------------------------
(* The bridge's batch sets. *)

Bookkeeping == <<processed, outbox, pending, published, delivered, inbox>>

LEMMA BookkeepingFrame ==
    [Next]_vars => \/ (\E r \in Robots : QueueBatch(r))
                   \/ CreateDelivery \/ WriteDelivery \/ EndReceive
                   \/ DiscoverBatches \/ BeginIteration \/ Finish
                   \/ (\E b \in Batches : PublishBatch(b))
                   \/ UNCHANGED Bookkeeping /\ UNCHANGED pc
                      /\ (UNCHANGED sim \/ sim = "running")
                   \/ UNCHANGED Bookkeeping /\ pc' # "done"
                      /\ (pc \in {"receive", "write"} => pc' \in {"receive", "write", "failed"})
                      /\ (pc' = "failed" \/ pc' = "timeout" \/ pc \in Phases)
BY DEF Next, vars, simVars, fileVars, batchVars, BridgeNext, ReceiveNext,
       FaultNext, PublishNext, EnvNext, SimNext, Terminated, Stop, BrokerDeliver,
       BrokerDrop, ConnectionLost, FleetConnectionLost, ReconnectFails,
       DeadlineExpires, NextRobot, Polling, ReceiveFails,
       HasDelivery, InjectFault, Reconnect, NoFaultWork, PublishFails, EndPublish,
       PublishTelemetry, TelemetryFails, NextIteration, ControlStep,
       AcceptTornDelivery, WriteComplete, MayStep, Bookkeeping, Phases

(* The order being written is for a published batch of the polled robot. *)
LEMMA DeliveryIsPublished ==
    ASSUME TypeOK, FlightInv, cursor \in Robots, mqttIn[cursor] # << >>
    PROVE  /\ Delivery \in published /\ Delivery[1] = cursor
           /\ inbox[Delivery] # "written"
<1>1. mqttIn[cursor] \in Seq(Batches)
  BY DEF TypeOK, MqttTypeOK
<1>2. 1 \in DOMAIN mqttIn[cursor] /\ Delivery = mqttIn[cursor][1]
  BY <1>1 DEF Delivery
<1> QED
  BY <1>2 DEF FlightInv

LEMMA BatchStep == IInv /\ [Next]_vars => BatchInv'
<1> SUFFICES ASSUME IInv, [Next]_vars PROVE BatchInv'
  OBVIOUS
<1>0. /\ TypeOK /\ InboxInv /\ BatchInv /\ FlightInv
      /\ FileTypeOK /\ BatchTypeOK
  BY DEF IInv, TypeOK
<1> USE <1>0
<1>1. ASSUME NEW r \in Robots, QueueBatch(r) PROVE BatchInv'
  BY <1>1 DEF QueueBatch, batchVars, BatchInv, MayStep
<1>2. CASE CreateDelivery
  <2>1. Delivery \in Batches /\ inbox[Delivery] = "absent"
    BY <1>2, DeliveryType DEF CreateDelivery, HasDelivery, Polling
  <2>2. /\ inbox' = [inbox EXCEPT ![Delivery] = "partial"] /\ pc' = "write"
        /\ UNCHANGED <<processed, outbox, pending, published, delivered>>
    BY <1>2 DEF CreateDelivery, batchVars
  <2> QED
    BY <2>1, <2>2 DEF BatchInv, FileTypeOK, BatchTypeOK
<1>3. CASE WriteDelivery
  <2>1. Delivery \in Batches /\ Delivery \in published
    BY <1>3, DeliveryType, DeliveryIsPublished DEF WriteDelivery, InboxInv
  <2>2. /\ inbox' = [inbox EXCEPT ![Delivery] = "written"] /\ pc' = "receive"
        /\ delivered' = delivered \cup {Delivery}
        /\ UNCHANGED <<processed, outbox, pending, published>>
    BY <1>3 DEF WriteDelivery, Filled
  <2> QED
    BY <2>1, <2>2 DEF BatchInv, FileTypeOK, BatchTypeOK
<1>4. CASE EndReceive
  BY <1>4 DEF EndReceive, StillPending, BatchInv, fileVars
<1>5. CASE DiscoverBatches
  BY <1>5 DEF DiscoverBatches, NewBatches, BatchInv, InboxInv, fileVars, FileTypeOK
<1>6. CASE BeginIteration
  BY <1>6 DEF BeginIteration, BatchInv, fileVars
<1>7. CASE Finish
  <2>1. UNCHANGED <<sim, processed, outbox, pending, published, delivered, inbox>>
        /\ pc = "check" /\ pending = {} /\ sim = "complete"
    BY <1>7 DEF Finish, Stop, MayFinish, CompleteFile, simVars, fileVars, batchVars
  <2> QED
    BY <2>1 DEF BatchInv
<1>8. ASSUME NEW b \in Batches, PublishBatch(b) PROVE BatchInv'
  BY <1>8 DEF PublishBatch, Ready, BatchInv, fileVars
<1>9. CASE UNCHANGED Bookkeeping /\ UNCHANGED pc /\ (UNCHANGED sim \/ sim = "running")
  BY <1>9 DEF Bookkeeping, BatchInv
<1>10. CASE UNCHANGED Bookkeeping /\ pc' # "done"
            /\ (pc \in {"receive", "write"} => pc' \in {"receive", "write", "failed"})
            /\ (pc' = "failed" \/ pc' = "timeout" \/ pc \in Phases)
  BY <1>10 DEF Bookkeeping, BatchInv, Phases
<1> QED
  BY <1>1, <1>2, <1>3, <1>4, <1>5, <1>6, <1>7, <1>8, <1>9, <1>10, BookkeepingFrame

-----------------------------------------------------------------------------
(* Orders in flight. *)

LEMMA FlightFrame ==
    [Next]_vars => \/ (\E r \in Robots : BrokerDeliver(r) \/ BrokerDrop(r))
                   \/ CreateDelivery \/ WriteDelivery \/ EndReceive \/ InjectFault
                   \/ (\E b \in Batches : PublishBatch(b))
                   \/ UNCHANGED <<orderWire, mqttIn, published, inbox>>
BY DEF Next, vars, fileVars, batchVars, mqttVars, BridgeNext, ReceiveNext,
       FaultNext, PublishNext, EnvNext, SimNext, Terminated, Stop,
       ConnectionLost, FleetConnectionLost, ReconnectFails,
       DeadlineExpires, NextRobot, ReceiveFails,
       BeginIteration, Reconnect, NoFaultWork, DiscoverBatches, PublishFails,
       EndPublish, PublishTelemetry, TelemetryFails, Finish, NextIteration,
       AcceptTornDelivery, QueueBatch, ControlStep, WriteComplete

(* The orders on one robot's way, once: at most one, and it is expected. *)
FlightOK(r, wire, channel) ==
    /\ Len(wire) <= 1 /\ Len(channel) <= 1
    /\ wire = << >> \/ channel = << >>
    /\ \A i \in DOMAIN wire : /\ wire[i][1] = r
                              /\ wire[i] \in published
                              /\ inbox[wire[i]] # "written"
    /\ \A i \in DOMAIN channel : /\ channel[i][1] = r
                                 /\ channel[i] \in published
                                 /\ inbox[channel[i]] # "written"

LEMMA FlightInvByRobot == FlightInv <=> \A r \in Robots : FlightOK(r, orderWire[r], mqttIn[r])
BY DEF FlightInv, FlightOK

(* A batch that may be published has no order of its robot before it. *)
LEMMA NothingAhead ==
    ASSUME IInv, NEW b \in Batches, b \in Ready
    PROVE  orderWire[b[1]] = << >> /\ mqttIn[b[1]] = << >>
<1>0. TypeOK /\ ControllerInv /\ InboxInv /\ BatchInv /\ FlightInv /\ MqttTypeOK
  BY DEF IInv, TypeOK
<1>1. PICK r \in Robots, n \in Numbers : b = <<r, n>>
  BY DEF Batches
<1>2. b \in outbox /\ b \notin published /\ inbox[b] # "written"
  BY <1>0 DEF BatchInv, Ready
<1>3. n = counter[r]
  BY <1>0, <1>1, <1>2, UniqueOutstanding
<1>4. ASSUME NEW c \in Batches, c[1] = r, c \in published, inbox[c] # "written" PROVE FALSE
  <2>1. PICK m \in Numbers : c = <<r, m>>
    BY <1>4 DEF Batches
  <2>2. c \in outbox
    BY <1>0, <1>4 DEF BatchInv
  <2>3. m = counter[r]
    BY <1>0, <1>4, <2>1, <2>2, UniqueOutstanding
  <2> QED
    BY <1>1, <1>2, <1>3, <1>4, <2>1, <2>3
<1>5. orderWire[r] \in Seq(Batches) /\ mqttIn[r] \in Seq(Batches)
  BY <1>0 DEF MqttTypeOK
<1>6. orderWire[r] = << >>
  <2> SUFFICES ASSUME orderWire[r] # << >> PROVE FALSE
    OBVIOUS
  <2>1. 1 \in DOMAIN orderWire[r] /\ orderWire[r][1] \in Batches
    BY <1>5
  <2>2. /\ orderWire[r][1][1] = r /\ orderWire[r][1] \in published
        /\ inbox[orderWire[r][1]] # "written"
    BY <1>0, <2>1 DEF FlightInv
  <2> QED
    BY <1>4, <2>1, <2>2
<1>7. mqttIn[r] = << >>
  <2> SUFFICES ASSUME mqttIn[r] # << >> PROVE FALSE
    OBVIOUS
  <2>1. 1 \in DOMAIN mqttIn[r] /\ mqttIn[r][1] \in Batches
    BY <1>5
  <2>2. /\ mqttIn[r][1][1] = r /\ mqttIn[r][1] \in published
        /\ inbox[mqttIn[r][1]] # "written"
    BY <1>0, <2>1 DEF FlightInv
  <2> QED
    BY <1>4, <2>1, <2>2
<1> QED
  BY <1>1, <1>6, <1>7

LEMMA FlightStep == IInv /\ [Next]_vars => FlightInv'
<1> SUFFICES ASSUME IInv, [Next]_vars, NEW q \in Robots
             PROVE  FlightOK(q, orderWire[q], mqttIn[q])'
  BY DEF FlightInv, FlightOK
<1>0. /\ TypeOK /\ InboxInv /\ BatchInv /\ FlightInv
      /\ MqttTypeOK /\ FileTypeOK /\ BatchTypeOK
      /\ orderWire[q] \in Seq(Batches) /\ mqttIn[q] \in Seq(Batches)
      /\ FlightOK(q, orderWire[q], mqttIn[q])
  BY DEF IInv, TypeOK, MqttTypeOK, FlightInv, FlightOK
<1> USE <1>0
<1>a. orderWire[q] = << >> \/ mqttIn[q] = << >>
  BY DEF FlightOK
<1>b. orderWire[q] # << >> => Tail(orderWire[q]) = << >> /\ Head(orderWire[q]) = orderWire[q][1]
                              /\ 1 \in DOMAIN orderWire[q]
  BY AtMostOne DEF FlightOK
<1>1. ASSUME NEW r \in Robots, BrokerDeliver(r) PROVE FlightOK(q, orderWire[q], mqttIn[q])'
  <2>1. UNCHANGED <<published, inbox>>
    BY <1>1 DEF BrokerDeliver, fileVars, batchVars
  <2>2. CASE q # r
    <3>1. orderWire'[q] = orderWire[q] /\ mqttIn'[q] = mqttIn[q]
      BY <1>1, <2>2 DEF BrokerDeliver, MqttTypeOK
    <3> QED
      BY <2>1, <3>1 DEF FlightOK
  <2>3. CASE q = r
    <3>1. orderWire[q] # << >> /\ orderWire'[q] = << >> /\ mqttIn[q] = << >>
      BY <1>1, <2>3, <1>a, <1>b DEF BrokerDeliver, MqttTypeOK
    <3>2. mqttIn'[q] = mqttIn[q] \/ mqttIn'[q] = Append(mqttIn[q], Head(orderWire[q]))
      BY <1>1, <2>3 DEF BrokerDeliver, MqttTypeOK
    <3>3. mqttIn'[q] = << >> \/ mqttIn'[q] = <<orderWire[q][1]>>
      BY <1>b, <3>1, <3>2
    <3> QED
      BY <1>b, <2>1, <3>1, <3>3 DEF FlightOK
  <2> QED
    BY <2>2, <2>3
<1>2. ASSUME NEW r \in Robots, BrokerDrop(r) PROVE FlightOK(q, orderWire[q], mqttIn[q])'
  <2>1. UNCHANGED <<published, inbox, mqttIn>>
    BY <1>2 DEF BrokerDrop, fileVars, batchVars
  <2>2. orderWire'[q] = orderWire[q] \/ orderWire'[q] = << >>
    BY <1>2, <1>b DEF BrokerDrop, MqttTypeOK
  <2> QED
    BY <2>1, <2>2 DEF FlightOK
<1>3. CASE CreateDelivery
  <2>1. UNCHANGED <<published, orderWire, mqttIn>>
        /\ inbox' = [inbox EXCEPT ![Delivery] = "partial"]
    BY <1>3 DEF CreateDelivery, batchVars, mqttVars
  <2>2. \A b \in Batches : inbox[b] # "written" => inbox'[b] # "written"
    BY <2>1 DEF FileTypeOK
  <2>3. \A i \in DOMAIN orderWire[q] : orderWire[q][i] \in Batches
    OBVIOUS
  <2>4. \A i \in DOMAIN mqttIn[q] : mqttIn[q][i] \in Batches
    OBVIOUS
  <2> QED
    BY <2>1, <2>2, <2>3, <2>4 DEF FlightOK
<1>4. CASE WriteDelivery
  <2>1. /\ UNCHANGED <<published, orderWire>> /\ cursor \in Robots
        /\ inbox' = [inbox EXCEPT ![Delivery] = "written"]
        /\ mqttIn' = [mqttIn EXCEPT ![cursor] = Tail(@)]
        /\ mqttIn[cursor] # << >> /\ Delivery[1] = cursor
    BY <1>4, DeliveryIsPublished DEF WriteDelivery, Filled, InboxInv
  <2>2. CASE q = cursor
    <3>1. orderWire[q] = << >> /\ Tail(mqttIn[q]) = << >>
      BY <1>a, <2>1, <2>2, AtMostOne DEF FlightOK
    <3>2. orderWire'[q] = << >> /\ mqttIn'[q] = << >>
      BY <2>1, <2>2, <3>1 DEF MqttTypeOK
    <3> QED
      BY <3>2 DEF FlightOK
  <2>3. CASE q # cursor
    <3>1. orderWire'[q] = orderWire[q] /\ mqttIn'[q] = mqttIn[q]
      BY <2>1, <2>3 DEF MqttTypeOK
    <3>2. \A b \in Batches : b[1] = q => inbox'[b] = inbox[b]
      BY <2>1, <2>3 DEF FileTypeOK
    <3>3. \A i \in DOMAIN orderWire[q] : orderWire[q][i] \in Batches
      OBVIOUS
    <3>4. \A i \in DOMAIN mqttIn[q] : mqttIn[q][i] \in Batches
      OBVIOUS
    <3>5. \A i \in DOMAIN orderWire[q] : inbox'[orderWire[q][i]] # "written"
      BY <3>2, <3>3 DEF FlightOK
    <3>6. \A i \in DOMAIN mqttIn[q] : inbox'[mqttIn[q][i]] # "written"
      BY <3>2, <3>4 DEF FlightOK
    <3> QED
      BY <2>1, <3>1, <3>5, <3>6 DEF FlightOK
  <2> QED
    BY <2>2, <2>3
<1>5. CASE EndReceive
  <2>1. published' = published \ delivered /\ UNCHANGED <<inbox, orderWire, mqttIn>>
    BY <1>5 DEF EndReceive, fileVars, mqttVars
  <2>2. \A b \in delivered : inbox[b] = "written"
    BY DEF BatchInv
  <2> QED
    BY <2>1, <2>2 DEF FlightOK
<1>6. CASE InjectFault
  <2>1. UNCHANGED <<published, inbox, orderWire>>
    BY <1>6 DEF InjectFault, fileVars, batchVars
  <2>2. mqttIn'[q] = mqttIn[q] \/ mqttIn'[q] = << >>
    BY <1>6 DEF InjectFault, MqttTypeOK
  <2> QED
    BY <2>1, <2>2 DEF FlightOK
<1>7. ASSUME NEW b \in Batches, PublishBatch(b) PROVE FlightOK(q, orderWire[q], mqttIn[q])'
  <2>1. /\ published' = published \cup {b} /\ UNCHANGED <<inbox, mqttIn>>
        /\ orderWire' = [orderWire EXCEPT ![b[1]] = Append(@, b)]
        /\ b \in Ready
    BY <1>7 DEF PublishBatch, fileVars
  <2>2. CASE q = b[1]
    <3>1. orderWire[q] = << >> /\ mqttIn[q] = << >> /\ inbox[b] # "written"
      BY <2>1, <2>2, NothingAhead DEF Ready, BatchInv
    <3>2. orderWire'[q] = Append(orderWire[q], b)
      BY <2>1, <2>2 DEF MqttTypeOK
    <3>3. orderWire'[q] = <<b>> /\ mqttIn'[q] = << >>
      BY <2>1, <3>1, <3>2
    <3> QED
      BY <2>1, <2>2, <3>1, <3>3 DEF FlightOK
  <2>3. CASE q # b[1]
    <3>1. orderWire'[q] = orderWire[q] /\ mqttIn'[q] = mqttIn[q]
      BY <2>1, <2>3 DEF MqttTypeOK
    <3>2. inbox' = inbox /\ \A c : c \in published => c \in published'
      BY <2>1
    <3> QED
      BY <3>1, <3>2 DEF FlightOK
  <2> QED
    BY <2>2, <2>3
<1>8. CASE UNCHANGED <<orderWire, mqttIn, published, inbox>>
  BY <1>8 DEF FlightOK
<1> QED
  BY <1>1, <1>2, <1>3, <1>4, <1>5, <1>6, <1>7, <1>8, FlightFrame

-----------------------------------------------------------------------------
(* The outage. *)

LEMMA OutageFrame ==
    [Next]_vars => \/ (\E r \in Robots : ConnectionLost(r))
                   \/ EndReceive \/ InjectFault \/ Reconnect
                   \/ (\E b \in Batches : PublishBatch(b))
                   \/ UNCHANGED <<published, conn>>
BY DEF Next, vars, batchVars, clientVars, BridgeNext, ReceiveNext,
       FaultNext, PublishNext, EnvNext, SimNext, Terminated, Stop, BrokerDeliver,
       BrokerDrop, FleetConnectionLost, ReconnectFails,
       DeadlineExpires, NextRobot, ReceiveFails,
       CreateDelivery, WriteDelivery, BeginIteration, NoFaultWork,
       DiscoverBatches, PublishFails, EndPublish, PublishTelemetry,
       TelemetryFails, Finish, NextIteration, AcceptTornDelivery, QueueBatch,
       ControlStep, WriteComplete

LEMMA OutageStep == IInv /\ [Next]_vars => OutageInv'
<1> SUFFICES ASSUME IInv, [Next]_vars PROVE OutageInv'
  OBVIOUS
<1>0. /\ OutageInv /\ published \subseteq pending /\ published \subseteq Batches
      /\ conn \in [Robots -> {"up", "dead", "none"}]
      /\ \A b \in Batches : b[1] \in Robots
  BY DEF IInv, TypeOK, ClientTypeOK, BatchTypeOK, BatchInv, Batches
<1> USE <1>0
<1>1. ASSUME NEW r \in Robots, ConnectionLost(r) PROVE OutageInv'
  BY <1>1 DEF ConnectionLost, OutageInv, batchVars
<1>2. CASE EndReceive
  BY <1>2 DEF EndReceive, OutageInv, clientVars
<1>3. CASE InjectFault
  BY <1>3 DEF InjectFault, ShouldInjectFault, TargetHasPendingBatch, OutageInv, batchVars
<1>4. CASE Reconnect
  BY <1>4 DEF Reconnect, OutageInv, batchVars
<1>5. ASSUME NEW b \in Batches, PublishBatch(b) PROVE OutageInv'
  BY <1>5 DEF PublishBatch, Ready, OutageInv, clientVars
<1>6. CASE UNCHANGED <<published, conn>>
  BY <1>6 DEF OutageInv
<1> QED
  BY <1>1, <1>2, <1>3, <1>4, <1>5, <1>6, OutageFrame

-----------------------------------------------------------------------------
(* Runs without MQTT faults. *)

LEMMA LosslessFrame ==
    [Next]_vars => \/ (\E r \in Robots : BrokerDeliver(r))
                   \/ BeginIteration \/ WriteDelivery \/ EndReceive
                   \/ InjectFault \/ Reconnect
                   \/ (\E b \in Batches : PublishBatch(b))
                   \/ envFaults' = envFaults + 1
                   \/ /\ UNCHANGED <<envFaults, conn, published, delivered,
                                     orderWire, mqttIn>>
                      /\ pc' \in Ended \/ pc \notin Ended \/ pc' = pc
BY DEF Next, vars, simVars, fileVars, batchVars, clientVars, mqttVars, BridgeNext,
       ReceiveNext, FaultNext, PublishNext, EnvNext, SimNext, Terminated, Stop,
       BrokerDrop, ConnectionLost, FleetConnectionLost, ReconnectFails,
       DeadlineExpires, NextRobot, Polling, HasDelivery, ReceiveFails, CreateDelivery, NoFaultWork, DiscoverBatches, PublishFails,
       EndPublish, PublishTelemetry, TelemetryFails, Finish, NextIteration,
       AcceptTornDelivery, QueueBatch, ControlStep, WriteComplete, Ended

(* Where a published batch can be. *)
Accounted(b) ==
    \/ b \in delivered
    \/ \E i \in DOMAIN orderWire[b[1]] : orderWire[b[1]][i] = b
    \/ \E i \in DOMAIN mqttIn[b[1]] : mqttIn[b[1]][i] = b

LEMMA LosslessInvByBatch ==
    LosslessInv <=> (envFaults = 0 => /\ \A r \in Robots : conn[r] # "dead"
                                      /\ pc \notin Ended => \A b \in published : Accounted(b))
BY DEF LosslessInv, Accounted

LEMMA LosslessStep == IInv /\ [Next]_vars => LosslessInv'
<1> SUFFICES ASSUME IInv, [Next]_vars, envFaults' = 0
             PROVE  /\ \A r \in Robots : conn'[r] # "dead"
                    /\ pc' \notin Ended => \A b \in published' : Accounted(b)'
  BY DEF LosslessInv, Accounted
<1>0. /\ TypeOK /\ InboxInv /\ BatchInv /\ FlightInv /\ OutageInv /\ LosslessInv
      /\ MqttTypeOK /\ ClientTypeOK /\ BatchTypeOK
      /\ \A b \in Batches : b[1] \in Robots
  BY DEF IInv, TypeOK, Batches
<1> USE <1>0
<1>a. envFaults' = envFaults + 1 => FALSE
  BY DEF MqttTypeOK
<1>b. envFaults' = envFaults => /\ \A r \in Robots : conn[r] # "dead"
                                /\ pc \notin Ended => \A b \in published : Accounted(b)
  BY LosslessInvByBatch
<1> DEFINE Goal == /\ \A r \in Robots : conn'[r] # "dead"
                   /\ pc' \notin Ended => \A b \in published' : Accounted(b)'
<1>1. ASSUME NEW r \in Robots, BrokerDeliver(r) PROVE Goal
  <2>1. UNCHANGED <<conn, published, delivered, pc, envFaults>>
    BY <1>1 DEF BrokerDeliver, batchVars, clientVars
  <2>2. \A q \in Robots : conn'[q] # "dead"
    BY <1>b, <2>1
  <2>3. ASSUME pc \notin Ended, NEW b \in published PROVE Accounted(b)'
    <3>0. b \in Batches /\ b[1] \in Robots /\ Accounted(b)
      BY <1>b, <2>1, <2>3 DEF BatchTypeOK
    <3>1. CASE b \in delivered
      BY <2>1, <3>1 DEF Accounted
    <3>2. CASE b[1] # r
      <4>1. orderWire'[b[1]] = orderWire[b[1]] /\ mqttIn'[b[1]] = mqttIn[b[1]]
        BY <1>1, <3>0, <3>2 DEF BrokerDeliver, MqttTypeOK
      <4> QED
        BY <2>1, <3>0, <4>1 DEF Accounted
    <3>3. CASE b[1] = r /\ \E i \in DOMAIN orderWire[r] : orderWire[r][i] = b
      <4>1. /\ orderWire[r] \in Seq(Batches) /\ mqttIn[r] \in Seq(Batches)
            /\ orderWire[r] # << >> /\ Len(orderWire[r]) <= 1
        BY <1>1 DEF BrokerDeliver, MqttTypeOK, FlightInv
      <4>2. Head(orderWire[r]) = b
        BY <3>3, <4>1, AtMostOne
      <4>3. conn[r] = "up"
        BY <1>b, <2>1, <3>0, <3>3 DEF OutageInv, ClientTypeOK
      <4>4. mqttIn'[r] = Append(mqttIn[r], b)
        BY <1>1, <2>3, <4>2, <4>3 DEF BrokerDeliver, MqttTypeOK
      <4>5. \E i \in DOMAIN mqttIn'[r] : mqttIn'[r][i] = b
        <5>1. Len(mqttIn[r]) \in Nat /\ Len(mqttIn'[r]) = Len(mqttIn[r]) + 1
              /\ mqttIn'[r][Len(mqttIn[r]) + 1] = b
          BY <3>0, <4>1, <4>4
        <5>2. Len(mqttIn[r]) + 1 \in DOMAIN mqttIn'[r]
          BY <3>0, <4>1, <4>4
        <5> QED
          BY <5>1, <5>2
      <4> QED
        BY <3>3, <4>5 DEF Accounted
    <3>4. CASE b[1] = r /\ \E i \in DOMAIN mqttIn[r] : mqttIn[r][i] = b
      <4>1. mqttIn[r] = << >>
        BY <1>1 DEF BrokerDeliver, FlightInv
      <4> QED
        BY <3>4, <4>1
    <3> QED
      BY <3>0, <3>1, <3>2, <3>3, <3>4 DEF Accounted
  <2> QED
    BY <2>1, <2>2, <2>3
<1>2. CASE BeginIteration
  <2>1. UNCHANGED <<envFaults, conn, published, orderWire, mqttIn>> /\ pc \notin Ended
        /\ delivered' = delivered
    BY <1>2 DEF BeginIteration, clientVars, mqttVars, Ended, BatchInv
  <2> QED
    BY <1>b, <2>1 DEF Accounted
<1>3. CASE WriteDelivery
  <2>1. /\ UNCHANGED <<envFaults, conn, published, orderWire>> /\ pc \notin Ended
        /\ delivered' = delivered \cup {Delivery}
        /\ mqttIn' = [mqttIn EXCEPT ![cursor] = Tail(@)]
        /\ cursor \in Robots /\ mqttIn[cursor] # << >>
    BY <1>3 DEF WriteDelivery, clientVars, Ended, InboxInv
  <2>2. ASSUME NEW b \in published PROVE Accounted(b)'
    <3>0. b \in Batches /\ b[1] \in Robots /\ Accounted(b)
      BY <1>b, <2>1 DEF BatchTypeOK
    <3>1. CASE b \in delivered \/ \E i \in DOMAIN orderWire[b[1]] : orderWire[b[1]][i] = b
      BY <2>1, <3>1 DEF Accounted
    <3>2. CASE b[1] # cursor /\ \E i \in DOMAIN mqttIn[b[1]] : mqttIn[b[1]][i] = b
      <4>1. mqttIn'[b[1]] = mqttIn[b[1]]
        BY <2>1, <3>0, <3>2 DEF MqttTypeOK
      <4> QED
        BY <3>2, <4>1 DEF Accounted
    <3>3. CASE b[1] = cursor /\ \E i \in DOMAIN mqttIn[b[1]] : mqttIn[b[1]][i] = b
      <4>1. mqttIn[cursor] \in Seq(Batches) /\ Len(mqttIn[cursor]) <= 1
        BY <2>1 DEF MqttTypeOK, FlightInv
      <4>2. Delivery = b
        BY <2>1, <3>3, <4>1, AtMostOne DEF Delivery
      <4> QED
        BY <2>1, <4>2 DEF Accounted
    <3> QED
      BY <3>0, <3>1, <3>2, <3>3 DEF Accounted
  <2> QED
    BY <1>b, <2>1, <2>2
<1>4. CASE EndReceive
  <2>1. /\ UNCHANGED <<envFaults, conn, orderWire, mqttIn>> /\ pc \notin Ended
        /\ published' = published \ delivered
    BY <1>4 DEF EndReceive, clientVars, mqttVars, Ended
  <2> QED
    BY <1>b, <2>1 DEF Accounted
<1>5. CASE InjectFault
  <2>1. /\ UNCHANGED <<envFaults, published, delivered, orderWire>> /\ pc \notin Ended
        /\ mqttIn' = [mqttIn EXCEPT ![FaultTarget] = << >>]
        /\ conn' = [conn EXCEPT ![FaultTarget] = "none"]
        /\ \A b \in pending : b[1] # FaultTarget
    BY <1>5 DEF InjectFault, batchVars, Ended, ShouldInjectFault, TargetHasPendingBatch
  <2>2. \A b \in published : b[1] \in Robots /\ mqttIn'[b[1]] = mqttIn[b[1]]
    BY <2>1 DEF MqttTypeOK, BatchInv, BatchTypeOK
  <2>3. \A r \in Robots : conn'[r] # "dead"
    BY <1>b, <2>1 DEF ClientTypeOK
  <2> QED
    BY <1>b, <2>1, <2>2, <2>3 DEF Accounted
<1>6. CASE Reconnect
  <2>1. /\ UNCHANGED <<envFaults, published, delivered, orderWire, mqttIn>> /\ pc \notin Ended
        /\ conn' = [conn EXCEPT ![FaultTarget] = "up"]
    BY <1>6 DEF Reconnect, batchVars, mqttVars, Ended
  <2>2. \A r \in Robots : conn'[r] # "dead"
    BY <1>b, <2>1 DEF ClientTypeOK
  <2> QED
    BY <1>b, <2>1, <2>2 DEF Accounted
<1>7. ASSUME NEW b \in Batches, PublishBatch(b) PROVE Goal
  <2>1. /\ UNCHANGED <<envFaults, conn, delivered, mqttIn>> /\ pc \notin Ended
        /\ published' = published \cup {b}
        /\ orderWire' = [orderWire EXCEPT ![b[1]] = Append(@, b)]
        /\ b \in Ready
    BY <1>7 DEF PublishBatch, clientVars, Ended
  <2>0. b[1] \in Robots /\ orderWire[b[1]] = << >> /\ mqttIn[b[1]] = << >>
    BY <2>1, NothingAhead
  <2>2. orderWire'[b[1]] = <<b>> /\ \A r \in Robots : r # b[1] => orderWire'[r] = orderWire[r]
    BY <2>0, <2>1 DEF MqttTypeOK
  <2>3. ASSUME NEW c \in published' PROVE Accounted(c)'
    <3>1. CASE c = b
      BY <2>2, <3>1 DEF Accounted
    <3>2. CASE c # b
      <4>1. c \in Batches /\ c \in published /\ Accounted(c)
        BY <1>b, <2>1, <2>3, <3>2 DEF BatchTypeOK
      <4>2. c[1] = b[1] => c \in delivered
        BY <2>1, <4>1, NothingAhead DEF Accounted
      <4> QED
        BY <2>1, <2>2, <4>1, <4>2 DEF Accounted
    <3> QED
      BY <3>1, <3>2
  <2> QED
    BY <1>b, <2>1, <2>3
<1>8. CASE /\ UNCHANGED <<envFaults, conn, published, delivered, orderWire, mqttIn>>
           /\ pc' \in Ended \/ pc \notin Ended \/ pc' = pc
  BY <1>b, <1>8 DEF Accounted
<1> QED
  BY <1>a, <1>1, <1>2, <1>3, <1>4, <1>5, <1>6, <1>7, <1>8, LosslessFrame

-----------------------------------------------------------------------------
(* The counters. *)

LEMMA CountersFrame ==
    [Next]_vars => \/ CreateDelivery \/ WriteDelivery \/ EndReceive
                   \/ (\E b \in Batches : PublishBatch(b))
                   \/ UNCHANGED <<inbox, published, deliveriesReleased, ordersPublished>>
BY DEF Next, vars, fileVars, batchVars, BridgeNext, ReceiveNext,
       FaultNext, PublishNext, EnvNext, SimNext, Terminated, Stop, BrokerDeliver,
       BrokerDrop, ConnectionLost, FleetConnectionLost, ReconnectFails,
       DeadlineExpires, NextRobot, ReceiveFails,
       BeginIteration, InjectFault, Reconnect, NoFaultWork,
       DiscoverBatches, PublishFails, EndPublish, PublishTelemetry,
       TelemetryFails, Finish, NextIteration, AcceptTornDelivery, QueueBatch,
       ControlStep, WriteComplete

(* A set of batches grows by one. *)
LEMMA OneMoreBatch ==
    ASSUME NEW S \in SUBSET Batches, NEW b \in Batches, b \notin S
    PROVE  Cardinality(S \cup {b}) = Cardinality(S) + 1
<1>1. IsFiniteSet(S)
  BY BatchesFinite, FS_Subset
<1> QED
  BY <1>1, FS_AddElement

LEMMA CountersStep == IInv /\ [Next]_vars => CountersMatchFiles'
<1> SUFFICES ASSUME IInv, [Next]_vars PROVE CountersMatchFiles'
  OBVIOUS
<1>0. /\ TypeOK /\ InboxInv /\ BatchInv /\ FlightInv /\ CountersMatchFiles
      /\ FileTypeOK /\ BatchTypeOK
  BY DEF IInv, TypeOK
<1> USE <1>0
<1>1. CASE CreateDelivery
  <2>1. Delivery \in Batches /\ inbox[Delivery] = "absent"
    BY <1>1, DeliveryType DEF CreateDelivery, HasDelivery, Polling
  <2>2. inbox' = [inbox EXCEPT ![Delivery] = "partial"]
        /\ UNCHANGED <<published, deliveriesReleased, ordersPublished>>
    BY <1>1 DEF CreateDelivery, batchVars
  <2>3. Returned' = Returned
    BY <2>1, <2>2 DEF Returned, FileTypeOK
  <2> QED
    BY <2>2, <2>3 DEF CountersMatchFiles
<1>2. CASE WriteDelivery
  <2>1. Delivery \in Batches /\ Delivery \in published /\ Delivery \notin Returned
    BY <1>2, DeliveryType, DeliveryIsPublished DEF WriteDelivery, InboxInv, Returned
  <2>2. inbox' = [inbox EXCEPT ![Delivery] = "written"]
        /\ deliveriesReleased' = deliveriesReleased + 1
        /\ UNCHANGED <<published, ordersPublished>>
    BY <1>2 DEF WriteDelivery, Filled
  <2>3. Returned' = Returned \cup {Delivery}
    BY <2>1, <2>2 DEF Returned, FileTypeOK
  <2>4. Cardinality(Returned') = Cardinality(Returned) + 1
    BY <2>1, <2>3, OneMoreBatch DEF Returned
  <2>5. Returned' \cup published' = Returned \cup published
    BY <2>1, <2>2, <2>3
  <2> QED
    BY <2>2, <2>4, <2>5 DEF CountersMatchFiles
<1>3. CASE EndReceive
  <2>1. published' = published \ delivered
        /\ UNCHANGED <<inbox, deliveriesReleased, ordersPublished>>
    BY <1>3 DEF EndReceive, fileVars
  <2>2. Returned' = Returned /\ delivered \subseteq Returned
    BY <2>1 DEF Returned, BatchInv, BatchTypeOK
  <2>3. Returned' \cup published' = Returned \cup published
    BY <2>1, <2>2 DEF BatchInv
  <2> QED
    BY <2>1, <2>2, <2>3 DEF CountersMatchFiles
<1>4. ASSUME NEW b \in Batches, PublishBatch(b) PROVE CountersMatchFiles'
  <2>1. b \in Ready /\ published' = published \cup {b}
        /\ ordersPublished' = ordersPublished + 1
        /\ UNCHANGED <<inbox, deliveriesReleased>>
    BY <1>4 DEF PublishBatch, fileVars
  <2>2. Returned' = Returned /\ b \notin Returned /\ b \notin published
    BY <2>1 DEF Returned, Ready, BatchInv
  <2>3. Returned' \cup published' = (Returned \cup published) \cup {b}
    BY <2>1, <2>2
  <2>4. Cardinality(Returned' \cup published') = Cardinality(Returned \cup published) + 1
    BY <2>2, <2>3, OneMoreBatch DEF Returned, BatchTypeOK
  <2> QED
    BY <2>1, <2>2, <2>4 DEF CountersMatchFiles
<1>5. CASE UNCHANGED <<inbox, published, deliveriesReleased, ordersPublished>>
  BY <1>5 DEF CountersMatchFiles, Returned
<1> QED
  BY <1>1, <1>2, <1>3, <1>4, <1>5, CountersFrame

-----------------------------------------------------------------------------
(* The inductive invariant. *)

LEMMA InitIInv == Init => IInv
<1> SUFFICES ASSUME Init PROVE IInv
  OBVIOUS
<1>1. TypeOK
  BY InitTypeOK
<1>2. ControllerInv
  <2>1. \A b \in Batches : b[1] \in Robots /\ b[2] \in Nat /\ b[2] > 0
    BY ConstantsAssumption DEF Batches, Numbers
  <2>2. {b \in Batches : b[2] <= counter[b[1]]} = {}
    BY <2>1 DEF Init
  <2> QED
    BY <2>2 DEF Init, ControllerInv
<1>3. InboxInv
  <2>1. \A b \in Batches : b[1] \in Robots /\ b[2] \in Nat /\ b[2] > 0
    BY ConstantsAssumption DEF Batches, Numbers
  <2> QED
    BY <2>1 DEF Init, InboxInv
<1>4. BatchInv /\ FlightInv /\ OutageInv
  BY DEF Init, BatchInv, FlightInv, OutageInv
<1>5. LosslessInv
  BY DEF Init, LosslessInv
<1>6. CountersMatchFiles
  <2>1. Returned = {} /\ published = {}
    BY DEF Init, Returned
  <2> QED
    BY <2>1, FS_EmptySet DEF Init, CountersMatchFiles
<1> QED
  BY <1>1, <1>2, <1>3, <1>4, <1>5, <1>6 DEF IInv

LEMMA StepIInv == IInv /\ [Next]_vars => IInv'
BY TypeStep, ControllerStep, InboxStep, BatchStep, FlightStep, OutageStep,
   LosslessStep, CountersStep DEF IInv

(* Every reachable state satisfies the inductive invariant, whatever the       *)
(* number of robots and batches and the lengths of simulation and outage: it   *)
(* is what the loop of vda5050-lsmart-bridge.rs maintains between phases.       *)
THEOREM Invariant == Spec => []IInv
BY InitIInv, StepIInv, PTL DEF Spec

(* The variables keep their types; in particular a written file is for a       *)
(* batch of the plan and no counter leaves its range.                          *)
THEOREM TypeCorrect == Spec => []TypeOK
<1>1. IInv => TypeOK
  BY DEF IInv
<1> QED
  BY <1>1, Invariant, PTL

(* The completion message's counters agree with the files (finish_bridge).     *)
THEOREM CountersCorrect == Spec => []CountersMatchFiles
<1>1. IInv => CountersMatchFiles
  BY DEF IInv
<1> QED
  BY <1>1, Invariant, PTL

(* The bridge never meets an unexpected or repeated delivery, although it      *)
(* publishes and crashes clients concurrently with the broker.                 *)
THEOREM NoUnexpectedDelivery == Spec => []DeliveriesAreExpected
<1>1. ASSUME IInv PROVE DeliveriesAreExpected
  <2> SUFFICES ASSUME NEW r \in Robots
               PROVE  /\ Len(InFlight(r)) <= 1
                      /\ \A i \in DOMAIN InFlight(r) :
                             /\ InFlight(r)[i] \in published
                             /\ inbox[InFlight(r)[i]] # "written"
    BY DEF DeliveriesAreExpected
  <2>1. orderWire[r] \in Seq(Batches) /\ mqttIn[r] \in Seq(Batches) /\ FlightInv
    BY <1>1 DEF IInv, TypeOK, MqttTypeOK
  <2>2. CASE orderWire[r] = << >>
    <3>1. InFlight(r) = mqttIn[r]
      BY <2>1, <2>2 DEF InFlight
    <3> QED
      BY <2>1, <3>1 DEF FlightInv
  <2>3. CASE mqttIn[r] = << >>
    <3>1. InFlight(r) = orderWire[r]
      BY <2>1, <2>3 DEF InFlight
    <3> QED
      BY <2>1, <3>1 DEF FlightInv
  <2> QED
    BY <2>1, <2>2, <2>3 DEF FlightInv
<1> QED
  BY <1>1, Invariant, PTL

(* No order is in flight to the robot whose client manage_faults has crashed,  *)
(* nor to one that it has not yet reconnected.                                 *)
THEOREM OutageIsSafe == Spec => []OutageSparesOrders
<1>1. ASSUME IInv PROVE OutageSparesOrders
  <2> SUFFICES ASSUME NEW r \in Robots, conn[r] = "none" PROVE InFlight(r) = << >>
    BY DEF OutageSparesOrders
  <2>1. orderWire[r] \in Seq(Batches) /\ mqttIn[r] \in Seq(Batches)
        /\ FlightInv /\ OutageInv
    BY <1>1 DEF IInv, TypeOK, MqttTypeOK
  <2>2. orderWire[r] = << >>
    <3> SUFFICES ASSUME orderWire[r] # << >> PROVE FALSE
      OBVIOUS
    <3>1. 1 \in DOMAIN orderWire[r]
      BY <2>1
    <3>2. orderWire[r][1][1] = r /\ orderWire[r][1] \in published
      BY <2>1, <3>1 DEF FlightInv
    <3> QED
      BY <2>1, <3>2 DEF OutageInv
  <2>3. mqttIn[r] = << >>
    <3> SUFFICES ASSUME mqttIn[r] # << >> PROVE FALSE
      OBVIOUS
    <3>1. 1 \in DOMAIN mqttIn[r]
      BY <2>1
    <3>2. mqttIn[r][1][1] = r /\ mqttIn[r][1] \in published
      BY <2>1, <3>1 DEF FlightInv
    <3> QED
      BY <2>1, <3>2 DEF OutageInv
  <2> QED
    BY <2>2, <2>3 DEF InFlight
<1> QED
  BY <1>1, Invariant, PTL

(* Without MQTT faults an order published once stays on its way until it is    *)
(* received: publish_ready_batches needs no retry.                             *)
THEOREM PublishedOnce == Spec => []PublishedIsOnItsWay
<1>1. ASSUME IInv, envFaults = 0, pc \notin Ended, NEW b \in published
      PROVE  b \in delivered \/ OnItsWay(b)
  <2>1. b[1] \in Robots /\ Accounted(b)
    BY <1>1, LosslessInvByBatch DEF IInv, TypeOK, BatchTypeOK, Batches
  <2>2. /\ orderWire[b[1]] \in Seq(Batches) /\ mqttIn[b[1]] \in Seq(Batches)
        /\ orderWire[b[1]] = << >> \/ mqttIn[b[1]] = << >>
    BY <1>1, <2>1 DEF IInv, TypeOK, MqttTypeOK, FlightInv
  <2>3. CASE orderWire[b[1]] = << >>
    <3>1. InFlight(b[1]) = mqttIn[b[1]]
      BY <2>2, <2>3 DEF InFlight
    <3> QED
      BY <2>1, <2>3, <3>1 DEF Accounted, OnItsWay
  <2>4. CASE mqttIn[b[1]] = << >>
    <3>1. InFlight(b[1]) = orderWire[b[1]]
      BY <2>2, <2>4 DEF InFlight
    <3> QED
      BY <2>1, <2>4, <3>1 DEF Accounted, OnItsWay
  <2> QED
    BY <2>2, <2>3, <2>4
<1>2. IInv => PublishedIsOnItsWay
  BY <1>1 DEF PublishedIsOnItsWay
<1> QED
  BY <1>2, Invariant, PTL

(* The run script's count comparison is enough: a run it accepts has one       *)
(* finished delivery for every batch (run-lsmart-demo.sh 211-223).             *)
THEOREM AcceptedRuns == Spec => []AcceptedRunsAreComplete
<1>1. ASSUME IInv, RunnerAccepts
      PROVE  /\ \A b \in outbox : inbox[b] = "written"
             /\ pending = {} /\ processed = outbox
  <2>1. /\ BatchInv /\ InboxInv /\ CountersMatchFiles /\ outbox \in SUBSET Batches
        /\ pc = "done" /\ deliveriesReleased = Cardinality(outbox)
    BY <1>1 DEF IInv, TypeOK, FileTypeOK, RunnerAccepts
  <2>2. Returned \subseteq processed /\ processed \subseteq outbox /\ pending = {}
    BY <2>1 DEF Returned, InboxInv, BatchInv
  <2>3. Returned = outbox
    <3>1. IsFiniteSet(outbox) /\ Returned \in SUBSET outbox
      BY <2>1, <2>2, BatchesFinite, FS_Subset
    <3>2. Cardinality(outbox) = Cardinality(Returned)
      BY <2>1 DEF CountersMatchFiles
    <3> QED
      BY <3>1, <3>2, FS_Subset
  <2> QED
    BY <2>2, <2>3 DEF Returned
<1>2. IInv => AcceptedRunsAreComplete
  BY <1>1 DEF AcceptedRunsAreComplete
<1> QED
  BY <1>2, Invariant, PTL

-----------------------------------------------------------------------------
(* LsmartBridge implements CausalGate: each step of the bridge, the simulation  *)
(* or the broker takes one batch one stage further (a control step may take     *)
(* two) or none.                                                                *)

LEMMA GateFrame ==
    [Next]_vars => \/ (\E r \in Robots : QueueBatch(r) \/ ControlStep(r))
                   \/ (\E r \in Robots : BrokerDeliver(r))
                   \/ CreateDelivery \/ WriteDelivery \/ EndReceive \/ InjectFault
                   \/ (\E b \in Batches : PublishBatch(b))
                   \/ UNCHANGED <<counter, executed, inbox, mqttIn, published>>
BY DEF Next, vars, simVars, fileVars, batchVars, mqttVars, BridgeNext, ReceiveNext,
       FaultNext, PublishNext, EnvNext, SimNext, Terminated, Stop, BrokerDrop,
       ConnectionLost, FleetConnectionLost, ReconnectFails, DeadlineExpires,
       NextRobot, ReceiveFails, BeginIteration, Reconnect,
       NoFaultWork, DiscoverBatches, PublishFails, EndPublish, PublishTelemetry,
       TelemetryFails, Finish, NextIteration, AcceptTornDelivery, WriteComplete

(* One batch moves, the others keep their stage. *)
LEMMA OneMoves ==
    ASSUME NEW b \in Batches, NEW s, GateStage(b)' = s,
           \A c \in Batches : c # b => GateStage(c)' = GateStage(c)
    PROVE  Stages' = [Stages EXCEPT ![b] = s]
BY DEF Stages, Batches, Robots, Numbers

LEMMA NoneMoves ==
    ASSUME \A c \in Batches : GateStage(c)' = GateStage(c)
    PROVE  UNCHANGED Stages
BY DEF Stages, Batches, Robots, Numbers

(* The batches before the outstanding one are executed. *)
LEMMA StageOfExecuted ==
    ASSUME IInv, NEW r \in Robots, NEW k \in Numbers, k <= Len(executed[r])
    PROVE  GateStage(<<r, k>>) = "executed"
<1>1. /\ counter[r] \in Nat /\ Len(executed[r]) \in Nat
      /\ Len(executed[r]) = IF waiting[r] THEN counter[r] - 1 ELSE counter[r]
  BY DEF IInv, TypeOK, SimTypeOK, ControllerInv
<1>2. ~(k > counter[r])
  BY <1>1 DEF Numbers
<1> QED
  BY <1>2 DEF GateStage

(* A published batch whose delivery is not written is past "issued" and short  *)
(* of "returned".                                                              *)
LEMMA StageOfPublished ==
    ASSUME IInv, NEW b \in published, inbox[b] # "written"
    PROVE  GateStage(b) = IF Carried(b) THEN "carried" ELSE "sent"
<1>1. b \in Batches /\ b \in outbox /\ InboxInv
  BY DEF IInv, TypeOK, BatchTypeOK, BatchInv
<1>2. b[1] \in Robots /\ b[2] \in Nat /\ counter[b[1]] \in Nat /\ b[2] <= counter[b[1]]
  BY <1>1, ConstantsAssumption
     DEF Batches, Numbers, IInv, TypeOK, SimTypeOK, ControllerInv
<1>3. ~(b[2] > counter[b[1]]) /\ ~(b[2] <= Len(executed[b[1]]))
  BY <1>1, <1>2 DEF InboxInv
<1> QED
  BY <1>3 DEF GateStage

-----------------------------------------------------------------------------
(* One lemma per kind of step. *)

LEMMA GateBroker ==
    ASSUME IInv, NEW r \in Robots, BrokerDeliver(r)
    PROVE  UNCHANGED Stages \/ \E b \in Gate!Batches : Gate!Carry(b)
<1>1. UNCHANGED <<counter, executed, inbox, published>>
  BY DEF BrokerDeliver, simVars, fileVars, batchVars
<1>2. /\ orderWire[r] \in Seq(Batches) /\ orderWire[r] # << >> /\ mqttIn[r] = << >>
      /\ mqttIn \in [Robots -> Seq(Batches)]
  BY DEF IInv, TypeOK, MqttTypeOK, FlightInv, BrokerDeliver
<1>a. PICK b \in Batches : b = Head(orderWire[r])
  BY <1>2
<1>3. b \in Batches /\ b[1] = r /\ b \in published /\ inbox[b] # "written"
  <2>1. 1 \in DOMAIN orderWire[r] /\ b = orderWire[r][1]
    BY <1>2, <1>a
  <2> QED
    BY <1>2, <2>1 DEF IInv, FlightInv
<1>4. CASE mqttIn' = mqttIn
  <2>1. \A c \in Batches : GateStage(c)' = GateStage(c)
    BY <1>1, <1>4 DEF GateStage, Carried
  <2> QED
    BY <2>1, NoneMoves
<1>5. CASE mqttIn' # mqttIn
  <2>1. mqttIn' = [mqttIn EXCEPT ![r] = Append(@, b)]
    BY <1>5, <1>a DEF BrokerDeliver
  <2>2. mqttIn'[r] = <<b>> /\ \A q \in Robots : q # r => mqttIn'[q] = mqttIn[q]
    BY <1>2, <2>1
  <2>3. GateStage(b) = "sent"
    BY <1>2, <1>3, StageOfPublished DEF Carried
  <2>4. GateStage(b)' = "carried"
    <3>1. Carried(b)'
      BY <1>3, <2>2 DEF Carried
    <3> QED
      BY <1>1, <2>3, <3>1 DEF GateStage
  <2>5. \A c \in Batches : c # b => GateStage(c)' = GateStage(c)
    <3> SUFFICES ASSUME NEW c \in Batches, c # b PROVE Carried(c)' = Carried(c)
      BY <1>1 DEF GateStage
    <3>1. c[1] \in Robots
      BY DEF Batches
    <3>2. CASE c[1] = r
      <4>1. ~Carried(c)
        BY <1>2, <3>2 DEF Carried
      <4>2. ~Carried(c)'
        BY <2>2, <3>2 DEF Carried
      <4> QED
        BY <4>1, <4>2 DEF Carried
    <3>3. CASE c[1] # r
      BY <2>2, <3>1, <3>3 DEF Carried
    <3> QED
      BY <3>2, <3>3
  <2>6. Stages' = [Stages EXCEPT ![b] = "carried"] /\ Stages[b] = "sent"
    BY <1>3, <2>3, <2>4, <2>5, OneMoves DEF Stages
  <2> QED
    BY <1>3, <2>6 DEF Gate!Carry, Gate!Batches, Batches, Numbers
<1> QED
  BY <1>4, <1>5

LEMMA GateDelivery ==
    ASSUME IInv, WriteDelivery
    PROVE  \E b \in Gate!Batches : Gate!Return(b)
<1>1. /\ UNCHANGED <<counter, executed, published>>
      /\ inbox' = [inbox EXCEPT ![Delivery] = "written"]
      /\ mqttIn' = [mqttIn EXCEPT ![cursor] = Tail(@)]
      /\ cursor \in Robots /\ mqttIn[cursor] # << >>
  BY DEF WriteDelivery, Filled, simVars, IInv, InboxInv
<1>2. /\ mqttIn \in [Robots -> Seq(Batches)] /\ Len(mqttIn[cursor]) <= 1
      /\ inbox \in [Batches -> {"absent", "partial", "written"}] /\ TypeOK /\ FlightInv
  BY <1>1 DEF IInv, TypeOK, MqttTypeOK, FileTypeOK, FlightInv
<1>a. PICK b \in Batches : b = Delivery
  BY <1>1, <1>2, DeliveryType
<1>b. PICK r \in Robots : r = cursor
  BY <1>1
<1>3. b \in Batches /\ b[1] = r /\ b \in published /\ inbox[b] # "written"
  BY <1>1, <1>2, <1>a, <1>b, DeliveryIsPublished
<1>4. /\ DOMAIN mqttIn[r] = {1} /\ b = mqttIn[r][1] /\ Tail(mqttIn[r]) = << >>
  BY <1>1, <1>2, <1>a, <1>b, AtMostOne DEF Delivery
<1>5. mqttIn'[r] = << >> /\ \A q \in Robots : q # r => mqttIn'[q] = mqttIn[q]
  BY <1>1, <1>2, <1>4, <1>b
<1>6. inbox'[b] = "written" /\ \A c \in Batches : c # b => inbox'[c] = inbox[c]
  BY <1>1, <1>2, <1>a
<1>7. GateStage(b) = "carried"
  BY <1>3, <1>4, StageOfPublished DEF Carried
<1>8. GateStage(b)' = "returned"
  BY <1>1, <1>6, <1>7 DEF GateStage
<1>9. \A c \in Batches : c # b => GateStage(c)' = GateStage(c)
  <2> SUFFICES ASSUME NEW c \in Batches, c # b PROVE Carried(c)' = Carried(c)
    BY <1>1, <1>6 DEF GateStage
  <2>1. c[1] \in Robots
    BY DEF Batches
  <2> QED
    BY <1>4, <1>5, <2>1 DEF Carried
<1>10. Stages' = [Stages EXCEPT ![b] = "returned"] /\ Stages[b] = "carried"
  BY <1>3, <1>7, <1>8, <1>9, OneMoves DEF Stages
<1> QED
  BY <1>3, <1>10 DEF Gate!Return, Gate!Batches, Batches, Numbers

LEMMA GatePublish ==
    ASSUME IInv, NEW b \in Batches, PublishBatch(b)
    PROVE  \E c \in Gate!Batches : Gate!Send(c)
<1>1. /\ UNCHANGED <<counter, executed, inbox, mqttIn>> /\ b \in Ready
      /\ published' = published \cup {b}
  BY DEF PublishBatch, simVars, fileVars
<1>2. /\ b \in outbox /\ b \notin published /\ inbox[b] # "written" /\ InboxInv
  BY <1>1 DEF IInv, BatchInv, Ready
<1>3. mqttIn[b[1]] = << >>
  BY <1>1, NothingAhead
<1>4. b[1] \in Robots /\ b[2] \in Nat /\ counter[b[1]] \in Nat /\ b[2] <= counter[b[1]]
  BY <1>2, ConstantsAssumption
     DEF Batches, Numbers, IInv, TypeOK, SimTypeOK, ControllerInv
<1>5. ~(b[2] > counter[b[1]]) /\ ~(b[2] <= Len(executed[b[1]])) /\ ~Carried(b)
  BY <1>2, <1>3, <1>4 DEF InboxInv, Carried
<1>6. GateStage(b) = "issued" /\ GateStage(b)' = "sent"
  BY <1>1, <1>2, <1>5 DEF GateStage, Carried
<1>7. \A c \in Batches : c # b => GateStage(c)' = GateStage(c)
  BY <1>1 DEF GateStage, Carried
<1>8. Stages' = [Stages EXCEPT ![b] = "sent"] /\ Stages[b] = "issued"
  BY <1>6, <1>7, OneMoves DEF Stages
<1> QED
  BY <1>8 DEF Gate!Send, Gate!Batches, Batches, Numbers

(* Creating the file, clearing the pending map and the crash move nothing. *)
LEMMA GateStutters ==
    ASSUME IInv, CreateDelivery \/ EndReceive \/ InjectFault
    PROVE  UNCHANGED Stages
<1>0. \A c \in Batches : c[1] \in Robots
  BY DEF Batches
<1>1. CASE CreateDelivery
  <2>1. Delivery \in Batches /\ inbox[Delivery] = "absent"
        /\ inbox \in [Batches -> {"absent", "partial", "written"}]
    BY <1>1, DeliveryType
       DEF CreateDelivery, HasDelivery, Polling, IInv, TypeOK, FileTypeOK
  <2>2. inbox' = [inbox EXCEPT ![Delivery] = "partial"]
        /\ UNCHANGED <<counter, executed, mqttIn, published>>
    BY <1>1 DEF CreateDelivery, simVars, batchVars, mqttVars
  <2>3. \A c \in Batches : inbox'[c] = "written" <=> inbox[c] = "written"
    BY <2>1, <2>2
  <2>4. \A c \in Batches : GateStage(c)' = GateStage(c)
    BY <2>2, <2>3 DEF GateStage, Carried
  <2> QED
    BY <2>4, NoneMoves
<1>2. CASE EndReceive
  <2>1. published' = published \ delivered
        /\ UNCHANGED <<counter, executed, inbox, mqttIn>>
    BY <1>2 DEF EndReceive, simVars, fileVars, mqttVars
  <2>2. \A c \in delivered : inbox[c] = "written"
    BY DEF IInv, BatchInv
  <2>3. \A c \in Batches : GateStage(c)' = GateStage(c)
    BY <2>1, <2>2 DEF GateStage, Carried
  <2> QED
    BY <2>3, NoneMoves
<1>3. CASE InjectFault
  <2>1. UNCHANGED <<counter, executed, inbox, published>>
        /\ mqttIn' = [mqttIn EXCEPT ![FaultTarget] = << >>]
        /\ \A c \in published : c[1] # FaultTarget
    BY <1>3 DEF InjectFault, simVars, fileVars, batchVars, ShouldInjectFault,
                TargetHasPendingBatch, IInv, BatchInv
  <2>2. mqttIn \in [Robots -> Seq(Batches)] /\ FlightInv
    BY DEF IInv, TypeOK, MqttTypeOK
  <2>3. ASSUME NEW c \in Batches PROVE Carried(c)' = Carried(c)
    <3>1. CASE c[1] = FaultTarget
      <4>1. ~Carried(c)
        BY <1>0, <2>1, <2>2, <3>1 DEF Carried, FlightInv
      <4>2. mqttIn'[c[1]] = << >>
        BY <1>0, <2>1, <2>2, <3>1
      <4> QED
        BY <4>1, <4>2 DEF Carried
    <3>2. CASE c[1] # FaultTarget
      BY <1>0, <2>1, <2>2, <3>2 DEF Carried
    <3> QED
      BY <3>1, <3>2
  <2>4. \A c \in Batches : GateStage(c)' = GateStage(c)
    BY <2>1, <2>3 DEF GateStage
  <2> QED
    BY <2>4, NoneMoves
<1> QED
  BY <1>1, <1>2, <1>3

(* A control step executes the returned batch, issues the next one, or both. *)
LEMMA GateControl ==
    ASSUME IInv, NEW r \in Robots, QueueBatch(r) \/ ControlStep(r)
    PROVE  UNCHANGED Stages \/ Gate!Next
<1>0. /\ TypeOK /\ ControllerInv /\ InboxInv /\ BatchInv /\ FlightInv /\ SimTypeOK
      /\ AcceptDelivery(r) /\ DeliveryFile(r) # "partial"
      /\ UNCHANGED <<inbox, mqttIn, published>>
  BY DEF IInv, TypeOK, QueueBatch, ControlStep, batchVars, mqttVars
<1>1. /\ counter[r] \in Nat /\ Len(executed[r]) \in Nat /\ waiting[r] \in BOOLEAN
      /\ Len(executed[r]) = IF waiting[r] THEN counter[r] - 1 ELSE counter[r]
  BY <1>0 DEF SimTypeOK, ControllerInv
<1>2. /\ Len(executed'[r]) = IF IdleAfterAccept(r) THEN counter[r] ELSE counter[r] - 1
      /\ \A q \in Robots : q # r => executed'[q] = executed[q]
  BY <1>0, ExecutedAfterAccept
<1>3. \A q \in Robots : q # r => counter'[q] = counter[q]
  BY <1>0 DEF QueueBatch, ControlStep, SimTypeOK
<1>4. \A q \in Robots, k \in Numbers :
         q # r => GateStage(<<q, k>>)' = GateStage(<<q, k>>)
  BY <1>0, <1>2, <1>3 DEF GateStage, Carried
(* The batch executed. *)
<1>5. ASSUME DeliveryFile(r) = "written"
      PROVE  /\ counter[r] \in Numbers
             /\ GateStage(<<r, counter[r]>>) = "returned"
             /\ Len(executed[r]) = counter[r] - 1 /\ Len(executed'[r]) = counter[r]
  <2>1. waiting[r] /\ inbox[<<r, counter[r]>>] = "written" /\ IdleAfterAccept(r)
    BY <1>5 DEF DeliveryFile, PendingBatch, IdleAfterAccept
  <2>2. counter[r] \in Numbers
    BY <1>0, <2>1, WaitingNumber
  <2>3. ~(counter[r] > counter[r]) /\ ~(counter[r] <= Len(executed[r]))
    BY <1>1, <2>1
  <2>4. GateStage(<<r, counter[r]>>) = "returned"
    BY <2>1, <2>3 DEF GateStage
  <2> QED
    BY <1>1, <1>2, <2>1, <2>2, <2>4
(* The batch issued. *)
<1>6. ASSUME QueueBatch(r)
      PROVE  /\ counter[r] + 1 \in Numbers /\ counter'[r] = counter[r] + 1
             /\ GateStage(<<r, counter[r] + 1>>) = "none"
             /\ Len(executed'[r]) = counter[r]
             /\ \A c \in Batches : c[1] = r /\ c[2] = counter[r] + 1 => GateStage(c)' = "issued"
  <2>1. /\ counter[r] + 1 \in Numbers /\ counter'[r] = counter[r] + 1 /\ IdleAfterAccept(r)
    <3>1. counter[r] < MaxBatches /\ IdleAfterAccept(r)
          /\ counter' = [counter EXCEPT ![r] = @ + 1]
      BY <1>6 DEF QueueBatch
    <3>2. counter'[r] = counter[r] + 1
      BY <1>0, <3>1 DEF SimTypeOK
    <3>3. counter[r] + 1 \in Numbers
      BY <1>1, <3>1, ConstantsAssumption DEF Numbers
    <3> QED
      BY <3>1, <3>2, <3>3
  <2>2. GateStage(<<r, counter[r] + 1>>) = "none"
    BY <1>1 DEF GateStage
  <2>3. ASSUME NEW c \in Batches, c[1] = r, c[2] = counter[r] + 1
        PROVE  GateStage(c)' = "issued"
    <3>1. c \notin outbox /\ c \notin processed /\ c \notin published
      BY <1>0, <1>1, <2>3 DEF ControllerInv, BatchInv
    <3>2. inbox[c] # "written" /\ ~Carried(c)
      BY <1>0, <2>3, <3>1 DEF InboxInv, FlightInv, Carried
    <3>3. ~(c[2] > counter'[c[1]]) /\ ~(c[2] <= Len(executed'[c[1]]))
      BY <1>1, <1>2, <2>1, <2>3
    <3> QED
      BY <1>0, <3>1, <3>2, <3>3 DEF GateStage, Carried
  <2> QED
    BY <1>2, <2>1, <2>2, <2>3
(* Every other batch of the robot keeps its stage. *)
<1>7. ASSUME NEW k \in Numbers, k # counter[r] \/ DeliveryFile(r) # "written",
             k # counter[r] + 1 \/ ~QueueBatch(r)
      PROVE  GateStage(<<r, k>>)' = GateStage(<<r, k>>)
  <2>1. k > counter'[r] <=> k > counter[r]
    <3>1. CASE QueueBatch(r)
      BY <1>1, <1>6, <1>7, <3>1 DEF Numbers
    <3>2. CASE ~QueueBatch(r)
      <4>1. counter' = counter
        BY <3>2 DEF ControlStep
      <4> QED
        BY <4>1
    <3> QED
      BY <3>1, <3>2
  <2>2. k <= Len(executed'[r]) <=> k <= Len(executed[r])
    <3>1. CASE DeliveryFile(r) = "written"
      BY <1>1, <1>5, <1>7, <3>1 DEF Numbers
    <3>2. CASE DeliveryFile(r) # "written"
      <4>1. executed' = executed
        BY <1>0, <3>2 DEF AcceptDelivery
      <4> QED
        BY <4>1
    <3> QED
      BY <3>1, <3>2
  <2>3. Carried(<<r, k>>)' = Carried(<<r, k>>)
    BY <1>0 DEF Carried
  <2> QED
    BY <1>0, <2>1, <2>2, <2>3 DEF GateStage
(* The earlier batches are executed. *)
<1>8. \A k \in Numbers : k <= Len(executed[r]) => Stages[<<r, k>>] = "executed"
  <2> SUFFICES ASSUME NEW k \in Numbers, k <= Len(executed[r])
               PROVE  Stages[<<r, k>>] = "executed"
    OBVIOUS
  <2>1. GateStage(<<r, k>>) = "executed" /\ <<r, k>> \in Batches
    BY StageOfExecuted DEF Batches
  <2> QED
    BY <2>1 DEF Stages
<1>9. \A q \in Robots, k \in Numbers : Stages[<<q, k>>] = GateStage(<<q, k>>)
  BY DEF Stages, Batches
<1>10. ASSUME DeliveryFile(r) = "written"
       PROVE  GateStage(<<r, counter[r]>>) = "returned"
              /\ \A c \in Batches : c[1] = r /\ c[2] = counter[r] => GateStage(c)' = "executed"
  <2>1. counter'[r] \in Nat /\ counter'[r] >= counter[r]
    BY <1>0, <1>1, <1>6 DEF ControlStep, QueueBatch
  <2>2. ASSUME NEW c \in Batches, c[1] = r, c[2] = counter[r] PROVE GateStage(c)' = "executed"
    BY <1>1, <1>5, <1>10, <2>1, <2>2 DEF GateStage
  <2> QED
    BY <1>5, <1>10, <2>2
<1> PICK N \in Nat : N = counter[r]
  BY <1>1
<1>11. CASE DeliveryFile(r) = "written" /\ QueueBatch(r)
  <2>1. /\ N \in Numbers /\ N + 1 \in Numbers /\ <<r, N>> \in Batches /\ <<r, N + 1>> \in Batches
        /\ <<r, N>> # <<r, N + 1>>
    BY <1>5, <1>6, <1>11 DEF Batches
  <2>2. GateStage(<<r, N>>)' = "executed" /\ GateStage(<<r, N + 1>>)' = "issued"
    BY <1>6, <1>10, <1>11, <2>1
  <2>3. \A c \in Batches : c # <<r, N>> /\ c # <<r, N + 1>> => GateStage(c)' = GateStage(c)
    BY <1>4, <1>7, <1>11 DEF Batches
  <2>4. Stages' = [Stages EXCEPT ![<<r, N>>] = "executed", ![<<r, N + 1>>] = "issued"]
    BY <2>1, <2>2, <2>3 DEF Stages, Batches, Robots, Numbers
  <2>5. Stages[<<r, N>>] = "returned" /\ Stages[<<r, N + 1>>] = "none"
    BY <1>5, <1>6, <1>9, <1>11, <2>1
  <2>6. \A m \in 1 .. MaxBatches : m < N => Stages[<<r, m>>] = "executed"
    BY <1>1, <1>5, <1>8, <1>11 DEF Numbers
  <2>7. Gate!ExecuteAndIssue(r, N)
    BY <2>1, <2>4, <2>5, <2>6 DEF Gate!ExecuteAndIssue, Numbers
  <2> QED
    BY <2>1, <2>7 DEF Gate!Next, Numbers
<1>12. CASE DeliveryFile(r) = "written" /\ ~QueueBatch(r)
  <2>1. N \in Numbers /\ <<r, N>> \in Batches
    BY <1>5, <1>12 DEF Batches
  <2>2. GateStage(<<r, N>>)' = "executed"
    BY <1>10, <1>12, <2>1
  <2>3. \A c \in Batches : c # <<r, N>> => GateStage(c)' = GateStage(c)
    BY <1>4, <1>7, <1>12 DEF Batches
  <2>4. Stages' = [Stages EXCEPT ![<<r, N>>] = "executed"]
    BY <2>1, <2>2, <2>3, OneMoves
  <2>5. Stages[<<r, N>>] = "returned"
    BY <1>5, <1>9, <1>12, <2>1
  <2>6. Gate!Execute(r, N)
    BY <2>4, <2>5 DEF Gate!Execute
  <2> QED
    BY <2>1, <2>6 DEF Gate!Next, Numbers
<1>13. CASE DeliveryFile(r) # "written" /\ QueueBatch(r)
  <2>1. N + 1 \in Numbers /\ <<r, N + 1>> \in Batches
    BY <1>6, <1>13 DEF Batches
  <2>2. GateStage(<<r, N + 1>>)' = "issued"
    BY <1>6, <1>13, <2>1
  <2>3. \A c \in Batches : c # <<r, N + 1>> => GateStage(c)' = GateStage(c)
    BY <1>4, <1>7, <1>13 DEF Batches
  <2>4. Stages' = [Stages EXCEPT ![<<r, N + 1>>] = "issued"]
    BY <2>1, <2>2, <2>3, OneMoves
  <2>5. Stages[<<r, N + 1>>] = "none"
    BY <1>6, <1>9, <1>13, <2>1
  <2>6. Len(executed[r]) = N
    BY <1>1, <1>13 DEF QueueBatch, IdleAfterAccept
  <2>7. \A m \in 1 .. MaxBatches : m < N + 1 => Stages[<<r, m>>] = "executed"
    BY <1>8, <2>6 DEF Numbers
  <2>8. Gate!Issue(r, N + 1)
    BY <2>4, <2>5, <2>7 DEF Gate!Issue, Gate!MayIssue
  <2> QED
    BY <2>1, <2>8 DEF Gate!Next, Numbers
<1>14. CASE DeliveryFile(r) # "written" /\ ~QueueBatch(r)
  <2>1. \A c \in Batches : GateStage(c)' = GateStage(c)
    BY <1>4, <1>7, <1>14 DEF Batches
  <2> QED
    BY <2>1, NoneMoves
<1> QED
  BY <1>11, <1>12, <1>13, <1>14

-----------------------------------------------------------------------------
(* The refinement. *)

LEMMA GateInit == Init => Gate!Init
<1> SUFFICES ASSUME Init PROVE Gate!Init
  OBVIOUS
<1>1. ASSUME NEW b \in Batches PROVE GateStage(b) = "none"
  <2>1. b[1] \in Robots /\ b[2] \in Nat /\ b[2] > 0
    BY ConstantsAssumption DEF Batches, Numbers
  <2>2. counter[b[1]] = 0
    BY <2>1 DEF Init
  <2> QED
    BY <2>1, <2>2 DEF GateStage
<1> QED
  BY <1>1 DEF Stages, Gate!Init, Gate!Batches, Batches, Numbers

LEMMA GateStep == IInv /\ [Next]_vars => [Gate!Next]_Stages
<1> SUFFICES ASSUME IInv, [Next]_vars PROVE UNCHANGED Stages \/ Gate!Next
  OBVIOUS
<1>1. ASSUME NEW r \in Robots, QueueBatch(r) \/ ControlStep(r)
      PROVE  UNCHANGED Stages \/ Gate!Next
  BY <1>1, GateControl
<1>2. ASSUME NEW r \in Robots, BrokerDeliver(r) PROVE UNCHANGED Stages \/ Gate!Next
  BY <1>2, GateBroker DEF Gate!Next
<1>3. CASE CreateDelivery \/ EndReceive \/ InjectFault
  BY <1>3, GateStutters
<1>4. CASE WriteDelivery
  BY <1>4, GateDelivery DEF Gate!Next
<1>5. ASSUME NEW b \in Batches, PublishBatch(b) PROVE UNCHANGED Stages \/ Gate!Next
  BY <1>5, GatePublish DEF Gate!Next
<1>6. CASE UNCHANGED <<counter, executed, inbox, mqttIn, published>>
  <2>1. \A c \in Batches : GateStage(c)' = GateStage(c)
    BY <1>6 DEF GateStage, Carried
  <2> QED
    BY <2>1, NoneMoves
<1> QED
  BY <1>1, <1>2, <1>3, <1>4, <1>5, <1>6, GateFrame

(* ADR 0006 for every instance: a batch runs only after its own order went     *)
(* over MQTT and came back, once, in the planner's order, whatever the broker, *)
(* the connections and the injected outage do.                                 *)
THEOREM ImplementsGate == Spec => CausalGateHolds
<1>1. Init => Gate!Init
  BY GateInit
<1>2. IInv /\ [Next]_vars => [Gate!Next]_Stages
  BY GateStep
<1> QED
  BY <1>1, <1>2, Invariant, PTL DEF Spec, CausalGateHolds, Gate!Spec
=============================================================================
