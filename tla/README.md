# Verification of VDA 5050 Lab

TLA+ models of this repository's processes and rules, TLC runs over small instances, and TLAPS
proofs for every instance. `PROJECT.json` lists the components, the runs, the mutants that show
each property can be broken by a change of the code, the map from definitions to source lines,
the hazards and the theorems; this file explains them.

All paths below are relative to `src/`. `demo/` abbreviates `apps/vda5050-demo/src/`, `doctor/`
`crates/vda5050-doctor/src/`, `import/` `crates/vda5050-import/src/`.

## 1. Inventory

### 1.1 The system

VDA 5050 Lab diagnoses captures of VDA 5050 traffic (MQTT messages between a fleet control and
mobile robots) and has demonstrations that produce such captures.

| component | state it keeps | operations | interacts through |
|---|---|---|---|
| LSMART bridge `demo/bin/vda5050-lsmart-bridge.rs` | pending batches, processed files, last telemetry tick per robot, one MQTT client per robot and one for the fleet, fault state, completion counters | one polling loop: receive orders, inject or end the fault, discover batches, publish orders, publish telemetry, test for completion | files shared with the simulator, MQTT |
| Controllers in the simulator `demo/lsmart/patches/0001-*.patch` | next batch number, waiting flag, actions in execution | one control step per tick: accept a delivery, step, write telemetry, queue the next batch | outbox, inbox, telemetry, `complete.json` |
| Run script `scripts/run-lsmart-demo.sh` | processes and run directory | start, wait, compare counts, accept or refuse the run | files, exit codes |
| LSMART recorder and builder `demo/bin/vda5050-lsmart-recorder.rs`, `demo/live_capture.rs` | captured messages, wire projection | subscribe, record until the fleet's completion message under two limits and a deadline, infer sessions, seal | MQTT, files |
| Live robot simulator `demo/bin/vda5050-robot-sim.rs` | per robot: client, simulation, crashed, reconnected and final flags | connect, await orders, tick loop with crash and reconnection, shutdown | MQTT |
| Live fleet actor `demo/bin/vda5050-fleet-actor.rs` | robots seen ONLINE, robots arrived | await ONLINE, publish orders, await arrivals, publish completion | MQTT |
| Live trace recorder `demo/bin/vda5050-trace-recorder.rs` | capture, completion seen, finals seen | record under a message limit and a deadline, seal | MQTT, files |
| MQTT client `demo/live_mqtt.rs` | worker thread, request queue, inbox | connect with Last Will, publish QoS 0, crash, shutdown | the broker |
| Tier-1 demo `demo/live.rs` | one client per robot, one of the fleet, one of the recorder with its capture buffer | a linear scenario: greet, order, drive, crash the first robot, wait for its will, reconnect, wait for a number of publications, shut down, write the trace | MQTT, event file |
| Doctor rules `doctor/lib.rs` | none (a function of a trace) | rules D1 to D5 with their gating | called by the CLI |
| Evidence adapter and CLI `apps/vda5050-doctor/src/lib.rs` | none beyond one run | import, validate a manifest, build the trace context, report | importer, rules |
| Importer `import/reader.rs` | record counters, retained budget | read three formats under two limits, with markers | called by the CLI |
| Order comparator `crates/vda5050-protocol/src/comparator.rs` | none | semantic and structural comparison of two orders | called by rule D1 |
| Capture core, protocol bundle, errata, report renderer, file access | none beyond one call | validation and formatting | libraries |
| Simulation core `crates/vda5050-sim-core/` | position, velocity, mode of a robot | kinematics over floating point | called by the demos |
| Web gateway and cockpit, containers, release tooling, rule catalogue | — | read-only file server, browser page, packaging, data | HTTP, shell |

### 1.2 Where the difficulty is

* **Concurrency without locks.** The bridge and the controllers share a directory. Neither locks
  it; each creates files the other polls for. The three live processes share only a broker that
  orders messages per publisher and not between publishers.
* **Failure on purpose.** The bridge and the live simulator crash an MQTT client, let the broker
  publish the Last Will and reconnect, while orders, states and arrivals continue. Everything is
  QoS 0: what is lost is never sent again.
* **Independent deadlines.** Bridge, simulator, fleet and recorder each give up on their own; what
  one has sealed the other may have given up.
* **Inference.** The recorders reconstruct sessions ("connection epochs") from what they saw; the
  Doctor reasons from absences. Both may be wrong about messages that were lost or late.
* **Limits.** A capture stops at a message limit, an import at a record limit and a byte budget; in
  either case what is left out must not turn into a verdict about what is there.

The hazards in `PROJECT.json` name the lines and the properties that cover each.

### 1.3 What makes each component correct

* Bridge and controllers: a batch is executed only after its order went through the broker, once,
  in the planner's order; a returned order is one the bridge awaits; the injected crash loses no
  order; the completion report and the files agree; every batch eventually returns.
* Live job, Tier-1 demo, LSMART recorder: sessions are inferred truly; a sealed capture is causal and
  complete; what a message refers to was captured before it; header ids rise over both sessions; the
  omitted ONLINE is diagnosed as such; a robot that behaved is not blamed; retained states are
  current; limits are not met; every run ends.
* Rules: nobody is blamed for what he did not do; who did it is blamed when the evidence is there;
  less evidence never adds blame; a verdict does not change with later messages.
* Import and adapter: the budget holds to the last marker; every line is accounted for; a VALID
  report stands for the whole file; an absence is not claimed of unread lines.
* Comparator: EQUAL, CHANGED and UNKNOWN mean of two imported payloads what the profile says they mean;
  no number that is imported ends the comparison in an error.

## 2. Modules

| module | models | composed with |
|---|---|---|
| `CausalGate` | the abstract specification of a batch's life: issued, sent, carried, returned, executed | implemented by `LsmartBridge` |
| `LsmartBridge` | bridge, controllers, files, broker, clients, end of the run | `Gate == INSTANCE CausalGate WITH stage <- Stages` |
| `LsmartBridgeInv` | the inductive invariant, in named parts | EXTENDS `LsmartBridge` |
| `LsmartBridgeProofs` | theorems and proofs, the refinement included | EXTENDS `LsmartBridgeInv` |
| `LsmartCapture` | the LSMART demo as its recorder sees it: every message on the wire, the recorder with its limits and its seal, the epochs it infers | EXTENDS `CaptureTrace` |
| `LsmartCaptureProofs` | theorems and proofs: sessions and diagnosis; orders, references, header ids and answers | EXTENDS `LsmartCapture`, `DoctorProofs` |
| `LiveCockpit` | robot simulator, fleet actor, trace recorder, MQTT workers, broker | EXTENDS `CaptureTrace` |
| `LiveCockpitProofs` | theorems and proofs | EXTENDS `LiveCockpit`, `DoctorProofs` |
| `Tier1Live` | the one-process demo: its clients and their workers, the scenario, the broker (fresh or reused), the capture buffer | EXTENDS `CaptureTrace` |
| `Tier1LiveProofs` | theorems and proofs | EXTENDS `Tier1Live`, `DoctorProofs` |
| `CaptureTrace` | a capture as the Doctor reads it: inferred epochs, the trace with and without the manifest | EXTENDS `Doctor` |
| `Doctor` | the five rules with their gating, as operators of a trace | used through `CaptureTrace`, `ObservedJob` and `DoctorRun` |
| `DoctorProofs` | what the rules promise of every trace | EXTENDS `CaptureTrace`; all proofs about diagnoses rest on it |
| `ObservedJob` | what a fleet control and a robot can do, captured, and the rules' verdicts after each message | EXTENDS `Doctor` |
| `ObservedJobProofs` | theorems and proofs | EXTENDS `ObservedJob`, `DoctorProofs` |
| `DoctorRun` | one `diagnose` command: import, manifest, rules, validity | EXTENDS `Doctor` |
| `DoctorRunProofs` | theorems and proofs | EXTENDS `DoctorRun`, `DoctorProofs` |
| `OrderComparator` | what the importer makes of a payload, order comparison with decimal keys, the graph check | EXTENDS `Doctor` |
| `OrderComparatorProofs` | theorems and proofs | EXTENDS `OrderComparator`, `DoctorProofs` |
| `MC*` | values of the constants for TLC | - |

### 2.1 LsmartBridge

A batch is a pair <<robot, number>>. The directory is four variables: `outbox` (the set of queued
batches; the overlay renames a finished file into place), `inbox` (absent, partial or written: the
bridge creates the file and fills it in two system calls), `telemetry` and `sim = "complete"` for
`complete.json`. `pc` and `cursor` are the bridge's place in its loop (`main`, lines 97 to 165), so
that a controller may act between any two phases:

| action | code |
|---|---|
| `BeginIteration`, `NextRobot`, `HasDelivery`, `Acceptable`, `ReceiveFails` | loop head, `receive_orders`: try_recv per robot, id lookup, early errors |
| `CreateDelivery`, `WriteDelivery` | `write_new_artifact`, counters |
| `EndReceive` | removal of the delivered batches |
| `InjectFault`, `Reconnect`, `ReconnectFails`, `NoFaultWork` | the fault manager |
| `DiscoverBatches` | `discover_batches` |
| `PublishBatch`, `PublishFails`, `EndPublish` | `publish_ready_batches`, in file order |
| `PublishTelemetry`, `TelemetryFails` | `publish_telemetry` |
| `Finish`, `NextIteration` | completion test, sleep |
| `DeadlineExpires` | the timeout and its report |
| `ControlStep` (`AcceptDelivery`, `AcceptTornDelivery`, `WriteTelemetry`, `QueueBatch`), `WriteComplete` | the overlay patch |
| `BrokerDeliver`, `BrokerDrop`, `ConnectionLost`, `FleetConnectionLost` | the broker and the network, external |

ARGoS runs the controllers one after the other and all of a tick before the next tick (`MayStep`);
the bridge may act between any two of them.

### 2.2 LiveCockpit

Each robot's client is a queue `link` to the broker (worker FIFO), a retained message at the broker,
and queues to the fleet, to the recorder and to the robot. `CrashRobot` keeps any prefix of the
link (`crash` drops the client: what was queued may or may not have left) and the broker appends
the Last Will. `ShutdownRobot` does the same if the worker is slower than the 100 ms it has. The
simulator is sequential: `tick` and `cursor` walk the robots, exactly as the loop does. The
recorder's `captured` is what the builder then reads: `CaptureTrace!SessionOf` is its epoch inference,
the true session is carried by the message and is used by properties only. Physics is two ticks: when
the target crosses its line and when a robot arrives. What a run may differ in (scenario, outage,
message limit, faults, deadlines, slow workers) is the variable `job`, constant over a behaviour, so
that one run checks them side by side.

### 2.3 Tier1Live

`run_live` is one function; `pc` is where it is, and each of its loops that only publishes is one step
(`Publish` with the stage, the next one, who speaks and what each says):

| action | code (`demo/live.rs`) |
|---|---|
| `StartRecorder`, `StartFleet`, `StartRobots`, `StartFails` | `RunningClient::start` for each client, lines 366 to 415 |
| `Greet`, `ReportMoving`, `Drive`, `ReportArrived`, `ReportRequest`, `PublishFails` | the publishing loops, lines 417 to 549; `publish` fails when the worker has stopped |
| `AwaitOrders`, `AwaitBroken`, `AwaitCount`, `DeadlineExpires` | the waits, lines 430 to 438, 510 and 551 to 557 |
| `Crash`, `Reconnect` | lines 504 to 530 |
| `ShutdownRobot`, `ShutdownFleet`, `Conclude`, `BudgetExceeded` | lines 559 to 580 |
| `Route` with `Capture` and `Inbox` | the broker (external), `CaptureBuffer::push`, the robots' `order_rx` |
| `ConnectionLost`, `RecorderConnectionLost` | an error that stops a worker; the broker publishes the will |

A client's link holds what its worker has not sent and what the broker has not processed. `Crash` and
a slow `Shutdown` keep any prefix of it (with a fast worker, all of it) and append the Last Will. The
recorder of a reused broker first receives what an earlier run left retained (`job.kept`), in any
order: `docs/DEMO.md:31-33` asks for a fresh broker, and the properties that need one say `Fresh`;
nobody may be blamed wrongly on a reused one either.

### 2.4 LsmartCapture

`LsmartBridge` has the files and keeps of the wire only the orders in flight. `LsmartCapture` is the
other half: a batch is a stage (`queued` ... `returned`), and connections, orders, states and
visualizations are messages on a link per connection; the fault target's second session is a
connection of its own, because it has a client id of its own. `PublishTelemetry` writes what
`publish_telemetry` does, a visualization naming the last state header and a state naming the order
its controller accepted, and raises the header counters that live across the crash. `Record` is the
recorder's loop body, in its order: the wire projection's limit (`limit + 16`), the completion, the
capture's limit. The recorder stops at the completion, with messages of the robots' clients still on
their links.

One assumption is about the broker: it serves the closed socket of session 1, its will included,
before the connection that the bridge makes `OutageTicks` (1 s) later (`FirstSessionEnded`).

### 2.5 Doctor, ObservedJob, DoctorRun

A trace is a sequence of events with topic, role, participant, order and update id, epoch, and the
facts the rules test (warning, graph broken, base request, cancellation); an event's index is its
source sequence number, a line's number in `DoctorRun`. An unknown value is
`<< >>`, a known one `<<v>>`. A context adds what a manifest proves: `closed`, `confirmed`, `roles`.
`Analyze` returns the findings.

`ObservedJob` sends orders and cancellations to one robot that answers by states, may drop a
cancellation (`IgnoreCancel`), and captures everything in order. `DoctorRun` abstracts a line of the
file to seven classes (`Lines`) and the budget to units: a message costs `MessageCost`, anything else
1, and `Reserve` is what the reader holds back for markers.

### 2.6 OrderComparator

A JSON document is a function from paths to nodes (`IsPayload` says which functions are a payload that is
imported: `IsTree`, prefixes are objects or arrays and an array has its indices; numbers are spelled as
JSON spells them; nothing is deeper than the import allows). What is published is compared as it was
imported, and `Imported` is what `StrictValueVisitor` makes of a document. The import crate builds serde_json
with `arbitrary_precision` (`crates/vda5050-import/Cargo.toml:15`); a number that parses as an `i64` or `u64`
stays one, and every other number (a fraction, an exponent, a larger integer) comes to the visitor as a map
with the one key `$serde_json::private::Number` and is imported as an object whose only field is the number's
text. `MaxI64` and `MaxU64` stand for the largest integers.

`CompareSemantic` follows the code's recursion with its early ends, as a recursive function of a path that both
documents have and two flags; a call returns what `CompareNodes` makes of the calls one level below.
`DecimalKey` is the code's key of a number's text, with its error for an exponent outside an `i64`
(`Unsupported`), which D1 takes for UNKNOWN (`Comparisons`; which of two differences the code gets to first
is not followed, any pair of numbers at one path may be the one that fails). The reference (`ContentOf`) is written from the profile,
without recursion over the two documents: the class of a path is that of the first key on the way that is
not significant. `graph_is_inconsistent` reads ids that fit a `u64` (`IsU64`).

`ComparisonIsExact` speaks of the imported payloads: it says that the recursion, its early ends and the
decimal keys add nothing and lose nothing, and that the error never takes a change's place. It does not
say that numbers are compared by value: the import turns `1.0` into an object and leaves `1` a number
(section 6).

## 3. Runs

| run | instance | shows |
|---|---|---|
| `lsmart_bridge` | 2 robots, 2 batches each, 3 ticks, poll period 1, crash of robot 0 at tick 1 for 1 tick, up to 1 MQTT fault (lost message, lost connection), the deadline at any time, `FairSpec` | safety, the inductive invariant, the refinement of `CausalGate`; the bridge finishes, having returned every batch; the fault is injected |
| `lsmart_missed_batch` | 1 robot, 2 batches | finding 1 |
| `lsmart_torn_delivery` | 1 robot, 2 batches | finding 2 |
| `live_job` | 2 robots, 3 ticks; the fault scenario with one lost message or connection anywhere, with an outage past the arrival, with one past the last tick and room for 7 messages, and with slow workers; the control scenario with every deadline; `FairSpec` | epochs, causality, completeness, diagnosis, retained states; the calm job ends |
| `live_control_passive` | control scenario, no fault | finding 3 |
| `tier1_live` | 2 robots, 1 visualization each; incident calm, with one fault anywhere, and on a broker that retains the break of an earlier run; control calm, with slow workers, and on a broker that retains an ONLINE; `FairSpec` | epochs, completeness, causality, diagnosis, header ids, the budget; every run ends |
| `lsmart_capture` | 1 robot for 4 ticks: 2 batches, or 1 with a fault or slow workers; 2 robots for 3 ticks without batches and for 1 with one; each with and without the omitted ONLINE | epochs, answered orders, references, header ids, diagnosis of what is sealed |
| `job_paced` | updates 0, 1 and none, 3 contents, 2 cancellations, 5 messages answered one at a time, a robot that may drop a cancellation | who is blamed, and when |
| `job_periodic` | 1 update, 2 contents, periodic states, a conforming robot | finding 4 |
| `job_returns` | 2 updates, 2 contents, 6 messages answered one at a time, a conforming robot | finding 5 |
| `doctor_run` | every file of up to 4 lines in 3 formats, every manifest, limits of 3 records and 7 units | import under limits |
| `order_comparator` | 47 payloads, each sequence of publications | comparison and graph check |

Why the bounds are enough:

* *Bridge.* A second robot is needed for the fault manager (a crashed and a live one) and for the
  order in which robots are polled; a second batch for the previous batch's leftovers; three ticks
  for crash, reconnection and a step after it. One MQTT fault can hit the crashed robot's client,
  the other's or the fleet's; for more of them, as for more of everything, there are the theorems of
  section 5, so that what rests on this run alone is the two liveness properties.
* *Live job.* Two robots give the two publishers whose streams the recorder merges. Outages 1, 2 and
  3 are the three relations to the arrival (back before, back after, never back before the tick
  limit). `LargestCapture` is what a job can send (13 and 11 in the second and third calm jobs, whose
  limits are exactly that): `JobCompletes` has no run that overflows. The safety properties are proved
  for any number of faults (5.3); the run shows that each is real.
* *Tier-1.* Two robots are the victim and another one, whose messages and wills the waits may take for
  the victim's. One visualization stands for the four, which are alike, and one fault for more: the
  theorems of 5.4 are for any number of either, on a fresh broker and on a reused one. What rests on
  this run alone is `RunEnds`.
* *LSMART capture.* One robot has all the phases of the outage in four ticks (fault at 1, back at 2,
  a state every second tick on both sides); two robots give the second publisher of telemetry and of
  orders. The limit is `WorstCase`, exactly what a run can send. In the code a plan has at most
  10 robots, 600 ticks and 120 states per robot: 10 * (2 + 600 + 120 + batches) + 2 stays below the
  8192 of the capture for up to 96 batches per robot, which take at least ten ticks each.
* *Observed job.* Five messages hold an order, a changed order, a state between or after them and a
  cancellation with its end; rules relate at most three messages. An update that comes back takes six
  (`job_returns`). Every property of `job_paced` is proved for any number (5.7).
* *Doctor run.* With a limit of 3 records, four lines are one too many; with 7 units and 2 per
  message, the third message exhausts the budget and both markers exactly use the reserve.
* *Comparator.* The comparison is local to a path: the payloads hold each class of path, each kind of
  change at it, and numbers with and without fraction, exponent, sign and zeroes at either end.
  `MaxI64 = 9` and `MaxU64 = 19` have integers of one digit and of two, one that is too large, an exponent
  that is, and make the saturating sum reachable. `MaxDepth` is the code's 64. All three properties are
  proved for payloads of any size (5.8).

`CHECK_DEADLOCK FALSE` is set where a model really stops: the Doctor has reported (`doctor_run`), the
message bound is reached (`job_*`), or the live job is over in a scenario that leaves nothing to do
(`live_job`). The others check deadlock; their intended ends are the actions `Terminated` and `Ended`.

### 3.1 What some properties say

* `OutageSparesOrders`, `DeliveriesAreExpected`: the fault manager's guard reads the pending map; that
  no order is in flight at the crash, nor left from before it, follows only from all the phases
  together.
* `PublishedIsOnItsWay`: without MQTT faults each published batch is at exactly one place on its way.
* `AcceptedRunsAreComplete`: the script compares *counts*; that equal counts here mean equal sets of
  batches needs the invariant.
* `EpochsAreTrue` (three modules): the inference "after a captured CONNECTION_BROKEN the robot is in
  its second session" against the session a message was really sent in. It fails when one robot's
  break moves another's epoch, and it rests on the broker's order: the will of a session follows all
  of it and precedes the next. In `Tier1Live` it needs a fresh broker: a retained CONNECTION_BROKEN of
  an earlier run puts the victim's whole first session into epoch 2.
* `SealedCaptureIsComplete`: a seal means the whole exchange, and that the fleet is done with it.
* `WrittenIsComplete`: `wait_for_publish_count` counts any messages; that the count is met by exactly
  the scenario's needs that nothing else is published on a fresh broker without faults. With a lost
  connection or a reused broker other messages meet it (the will of another robot, what was retained),
  and the run may end before the victim's second ONLINE is captured. `NoFalseBlame` (in
  `DiagnosisIsTrue`) therefore says of the general case only that the victim is not blamed when its
  ONLINE *is* in the capture, and of fresh brokers without faults, slow workers included, that it is
  not blamed when its ONLINE was not omitted.
* `SealedIsAnswered`: the LSMART recorder seals while robots' messages are on their way; every order
  has been captured and answered by then. And a calm bridge that ends leaves a sealed capture.
* `ReferencesAreCaptured`: a state's order and a visualization's state are captured before it, over
  crash and reconnection, although different clients publish them. The reference of a visualization
  needs a worker that sends in 20 ms what it was given (`Calm`): otherwise the crash may drop the state.
* `HeaderIdsIncrease`: only the target's connections end in a will in a calm run; elsewhere a second
  will repeats id 2.
* `DiagnosisIsTrue` (three modules): with the manifest FAIL / MOBILE_ROBOT, without it INCONCLUSIVE,
  whatever was lost or late, and nobody else is ever blamed. In `LsmartCapture` a run without the
  omitted ONLINE may blame the target only if its second session broke too, before its ONLINE left.
* `SteadyRobotIsCleared`: a conforming robot is never failed, unless the fleet returns to an update id
  it has left (`Returned`, finding 5). `RobotIsCleared`, without the exception, is what `job_periodic` and
  `job_returns` refute.
* `LessEvidenceBlamesNobody`: the same trace with any part of the evidence taken away blames no one
  more. `VerdictsAreFinal`: a FAIL found before the close stays.
* `FleetBlameIsTrue` is for captures that stay open until all is answered (`Grace`); of others it does not hold (section 6).
  `ProvenOrderIsEvaluated` is for evidence that gives an order's addressee as its participant, as the rule's
  `implementation_guard` (`rules/phase1.json:176`) requires; with its sender there the rule stays
  UNEVALUATED.
* `ChangeIsNotHidden`: the comparison of neighbours is transitive on what is significant.
* `FleetBlameCoversTheFile`: the code accepts CAPTURE_CLOSED anywhere among the imported records. The
  property therefore assumes that a file has it on its last line (`ClosedLast`), which every writer
  in this repository does and nothing in the reader enforces (section 6).
* `GraphCheckIsExact`: graphs with sequence ids at the top of the u64 range are excluded; there the
  saturating sum accepts equal ids (section 6).
* `BridgeFinishes`: except when the outage outlasts the simulation (`Stranded`): a crash so late that
  its reconnection tick is never simulated leaves the target away, and the code waits for its
  deadline; the plan's validation does not exclude it.

## 4. Fairness

`LsmartBridge!FairSpec` has weak fairness of the simulator's steps, of the bridge's steps and of the
broker's delivery. The bridge's loop never blocks: each call in it returns at once or after a bounded
time, and it sleeps a fixed time; the simulator is a separate process in its own container that never
waits for the bridge (a waiting controller idles); the broker forwards what it has on a live
connection. `LiveCockpit!FairSpec` and `Tier1Live!FairSpec` say less: `WF_vars(Progress)` and
`WF_vars(Scenario \/ Broker)`, that the processes and the broker do not all stop while one of them can
go on. The processes block only in receives and waits with deadlines, so that is all the code needs:
a job has finitely many messages, and `RunEnds` and `JobCompletes` follow without fairness between
them. No strong fairness is assumed. Faults and lost connections are never fair; deadlines are steps
of the scenario in `Tier1Live` (that they are there is what `RunEnds` shows), but only expire where
what is waited for cannot come, or workers are slow.

## 5. Proofs

Every safety property that a passing run checks is also a theorem, for every value of the constants. A
diagnosis is proved of a live system in two halves that meet in the capture: the rules promise something of every trace (5.2), and the system's invariant says what
traces it can leave (5.3 to 5.7).

### 5.1 LsmartBridge

From `ConstantsAssumption` (bounds are natural numbers; the number of robots, the poll period, the
fault tick and the outage are positive; the target is a robot) TLAPS proves, for every instance:

| theorem | states |
|---|---|
| `Invariant` | `Spec => []IInv` |
| `TypeCorrect`, `CountersCorrect` | two parts of `IInv` on their own |
| `NoUnexpectedDelivery`, `OutageIsSafe`, `PublishedOnce`, `AcceptedRuns` | the four other invariants of `lsmart_bridge`, from `Invariant` |
| `ImplementsGate` | `Spec => Gate!Spec` (`CausalGateHolds`) |

**The inductive invariant.** None of the properties is inductive. `DeliveriesAreExpected` needs that an
order in flight is for a batch in `published` whose inbox file is not written (`FlightInv`). That an
order can be published only once needs the nesting `delivered ⊆ published ⊆ pending ⊆ processed ⊆
outbox` (`BatchInv`) and that `pc` tells when `delivered` is empty. That a robot has at most one order
in flight needs that the controller queues a batch only after it executed the former one
(`ControllerInv`), and that an executed batch has a written file (`InboxInv`). That the crash is safe
needs that a robot without a client has nothing published (`OutageInv`), preserved because the fault
guard reads `pending`. `LosslessInv` is `PublishedIsOnItsWay` with the facts that keep it; it is
conditional on no MQTT fault having happened. The proof has one lemma per part (`TypeStep`,
`ControllerStep`, `InboxStep`, ...), in it one step per action that can disturb the part, and a frame
lemma that disposes of the others. TLC checks `IInv` in `lsmart_bridge`.

**Counting.** `CountersMatchFiles` equates counters with cardinalities; its steps use the finite-set
library (a set grows by one new element). `AcceptedRuns` then needs that of two finite sets, one in
the other, equal cardinalities mean equality.

**Refinement.** `GateStage` maps a batch to its stage by the first of: executed, inbox written, at the
robot's client, published, queued. Each step is shown to be a stutter or the one gate action; a
control step may execute one batch and issue the next (`ExecuteAndIssue`). A broker drop is a stutter
that leaves the batch in "sent" forever, since the gate promises order and not delivery.

### 5.2 Doctor

`DoctorProofs` is about operators, without assumption: a trace context is any value.

| theorem | states |
|---|---|
| `BlameNeedsEvidence` | a FAIL has an attributed role; a robot, and a fleet for a base it did not extend, is failed only in a closed capture that is CONFIRMED_FOR_RULE, at a known time |
| `EvidenceOnlyAdds` | a FAIL of a context stays one in each context of the same trace that proves more |
| `VerdictsStand` | PASS and FAIL are not withdrawn by what is captured later, nor by the close |
| `ChangeIsFound` | two contents under one update id are found, although the code compares with the last earlier publication only |

`FailSources` lists the six ways to a FAIL and `FailIsReported` that each is reported; the theorems split on
them. That a verdict stands needs that "the first state after the order" and "the last earlier publication"
are the same in the longer trace (`SameResponse`, `SamePast`), for which `Least` and `Greatest` take the
library's well-foundedness of `<` in place of an induction; so does `ChangeIsFound`, at the least
publication that differs. `ReconnectVerdict`, `PassiveVerdict`, `CleanVerdict` and `RequestVerdict` say what
the rules make of a recorder's capture, from facts about its messages alone; the diagnosis theorems below
apply them.

### 5.3 LiveCockpit

From `ConstantsAssumption` (at least one robot; the target crosses its line before it arrives; positive
periods; `Jobs` any set of records of the type) for every number of robots, ticks, messages, faults and
lost connections, with slow workers or not:

| theorem | states |
|---|---|
| `TypeCorrect` | `TypeOK` |
| `EpochsHold`, `CausalityHolds` | `EpochsAreTrue`, `CaptureIsCausal` |
| `RetainedHolds`, `CompleteHolds` | `RetainedIsCurrent`, `SealedCaptureIsComplete` |
| `DiagnosisHolds` | `DiagnosisIsTrue` |

All follow from `JobInvariant`. What a message may follow is said once (`Justified`: a message of the
second session follows the break, a report its robot's order, an order everybody's first ONLINE) and
demanded of each captured message against those before it (`CapturedInv`), of each one in the recorder's
inbox against what is heard before it (`InboxInv`), and of each one on a link against all that is heard
plus what is ahead of it on that link (`WireInv`); a hop of the broker moves a message from one to the
next. `WireInv` is conditional on the recorder's client being connected, since one that lost its
connection misses what the others rely on; `CapturedInv` is not, and it is what the properties are
about. `BreakInv` is the session argument: the break of a first session is heard before the second
begins and is the last that is heard of the first. `CompletionInv` ties the seal to the fleet's end.

### 5.4 Tier1Live

From `ConstantsAssumption` (at least one robot; `Jobs` is any set of records of the type) for every number
of robots, any number of samples, lost messages and connections, slow or not, fresh or reused broker:

| theorem | states |
|---|---|
| `TypeCorrect` | `TypeOK` |
| `EpochsHold`, `CausalityHolds` | `EpochsAreTrue`, `CaptureIsCausal`, from `ScenarioInvariant` |
| `HeadersRise`, `BudgetHolds`, `WrittenComplete` | `HeaderIdsIncrease`, `BudgetSuffices`, `WrittenIsComplete`, from `StoryInvariant` |
| `DiagnosisHolds` | `DiagnosisIsTrue`, from `EndingInvariant` |

*Sessions.* `EpochsAreTrue` looks at the capture only; why it holds is spread over scenario, links and
broker. `LinkInv`: a link holds its client's messages of its present session, a will only at its end
and only of a client that is no longer up, and a state only once every robot has its order. `BreakInv`:
from the moment the victim's client is dead or away its break is captured or at the end of its link, and
it is captured before the second session begins; and once a robot's break of its first session is captured, its
link is empty. So a message routed in session 1 finds no break of its robot in the capture, and one of
session 2 finds it. Both halves need that the capture takes messages (`Growing`): a full or dead
recorder misses the break, and then everything after it. `StageInv` relates `pc` to who is connected
and what was waited for; `OrderInv` says that without faults a robot's order was captured when it got
it. The proof has one lemma for each kind of step: quiet ones, connecting, publishing, a severed
connection (`SeverStep`, shared by crash, lost connection and slow shutdown), a stopped client, the
reconnection, and the broker's routing, part by part of the invariant.

*Counting.* `Story(r)` is the set of messages that robot r, the fleet to it or a reused broker may have
said of it by the present stage. `Rank` orders them on their topic: the capture and each link rise, what is
captured is behind what waits, and what is said next is ahead of all that was said. Hence header
ids rise, and no message is captured twice. Numbering all messages a run can say (`Tell`) then bounds
the capture by a pigeonhole argument, which gives the budget; and where no fault happened on a fresh
broker the messages that can be captured before the barrier are exactly as many as it waits for, so it
is met only by all of them (`BarrierIsWritten`).

*Diagnosis.* `EndingInvariant` adds what follows a break: nothing of the same session, on the link or
in the capture. Hence a disconnection that is reported without a later ONLINE is the victim's
(`SilentIsVictim`), if its second session left an event the rule is decisive, and in a calm control each
disconnection is answered (`CalmConnections`). The attempt found the former statement of `NoFalseBlame`
false in instances larger than the run's (section 3.1 says what it is now), and TLC the counterexamples
in those instances.

### 5.5 LsmartCapture

From `ConstantsAssumption` (at least one robot; fault tick, outage and state period positive; a message
limit of at least `WorstCase`) for every number of robots, ticks, batches, lost messages and connections:

| theorem | states |
|---|---|
| `TypeCorrect`, `EpochsHold`, `DiagnosisHolds` | `TypeOK`; `EpochsAreTrue`; `DiagnosisIsTrue` |
| `OrdersSealed`, `ReferencesHold` | `OrdersAreSealed`; `ReferencesAreCaptured` |
| `HeadersRise`, `SealedAnswered` | `HeaderIdsIncrease`; `SealedIsAnswered` |

*Sessions* (`WireInvariant`). The argument is that of 5.4 with a link per connection: a link carries only
what its client says in its session, a will is the last on it, the second link is empty while the
target is in its first session and the first link in its second. Here the last is the broker's promise
(`FirstSessionEnded`, an assumption about external code that the proof rests on), and clients that
leave in good order (`Closing`) leave no break behind.

*Diagnosis* (`OpeningInv`). Unless it is omitted, the second session begins with its ONLINE, or has but
its will to report: the ONLINE is captured, or first on its link, as long as the recorder listens; and
nothing of the session is captured before it.

*Orders* (`RecordInvariant`). `StageInv` says where a batch is when its order waits on the fleet's link:
it is published, it is the robot's present batch and the only order of that robot there; once the
completion is on the link, no batch is under way. `HeardInv`, while nothing is lost, follows an order's
number: what was published is captured or on the fleet's link; what a robot got was captured when it
got it, because the broker hands one message to both at once; so what a state names was captured
before the state is even sent. When the recorder hears the completion, no order is left on the link in
front of it, hence each is captured. Neither slowness nor a failed bridge enters: a failed bridge
announces nothing.

*References* (`PoseInvariant`). The last state of a robot is captured or waits on the link of its present
session; a state that a visualization refers to is captured or waits before it on the same link. The
crash is the difficult step: the robot's state counter survives it while its link does not, so the
invariant needs that the pause before it sufficed (`Calm`), and the reconnection needs that the broker
is done with the first session. All other steps only append to links, and share one lemma
(`GrowthKeepsPoses`).

*Headers and the seal* (`AnswerInvariant`). In a calm run no header is ahead of the counter it was taken
from (`Said`), so links and capture rise as in 5.4. All captured messages then differ, `CountInv` bounds
each counter by the ticks, and numbering the messages shows that no run of any size reaches
`WorstCase`: the recorder never stops at a limit, and the completion waits for it on the fleet's link.

### 5.6 DoctorRun

From `LimitsOK` (`Limit`, `MaxRecords` and the costs are natural numbers, a message costs something, the
reserve is at least 2 and within the limit) for every file, format, manifest and limit:

| theorem | states |
|---|---|
| `TypeCorrect` | `TypeOK` |
| `BudgetHolds` | `RetainedStaysWithinLimit`: the retained budget is never passed |
| `LinesAccounted` | `NoLineIsLost` |
| `ValidReportsAreComplete` | `ValidIsComplete`: VALID means the whole file |
| `FleetBlameHolds` | `FleetBlameCoversTheFile` |

The budget alone is not inductive: `BudgetInv` says how much room is left in each phase, two units
while records are read and one when only the array's structure is still to be checked, because each
phase may push one marker of cost 1 without asking. `ImportInv` says that while it imports, record
`i` is line `i` classified; it is what makes `LinesInv` (each line has a record or is behind the
truncation, and a file cut short or torn has a marker) hold where the import stops. A report is VALID
when it counts no rejection, no gap and no truncation; `NoneCounted` (a set of cardinality 0 is empty)
turns the counters into statements about lines. `FleetBlameHolds` adds that the record of a close has
the records of all lines before it with it (`CloseInv`; markers never count as a close), and that what is
reported is what the rules make of the imported lines (`ReportInv`). A fleet is failed only with a
manifest that claims the close, the manifest is refused unless a close was imported, and if that is the
file's last line then every order in the file was imported, where the rule sees it.

### 5.7 ObservedJob

For every set of orders, contents and actions and any number of messages:

| theorem | states |
|---|---|
| `TypeOK` | `TypeInv` |
| `LessEvidence`, `VerdictsFinal` | `LessEvidenceBlamesNobody`, `VerdictsAreFinal`: instances of `EvidenceOnlyAdds` and `VerdictsStand` |
| `SilenceReported` | `SilenceIsReported`, from `CancelInv`: where each cancelOrder action is |
| `ChangeEvaluated` | `ProvenOrderIsEvaluated`, if the job is `Paced` |
| `FleetBlameTrue`, `SteadyRobotCleared` | `FleetBlameIsTrue`, `SteadyRobotIsCleared`, if it is `Paced` and the capture stays open (`Grace`) |

The two hypotheses are switches of the model and are those of `job_paced`: unpaced, a conforming robot is
failed (finding 4), and without `Grace` the fleet (the first observation of section 6). `PacedInv` follows a message through inbox,
robot and trace: the robot holds the last order it was sent, it has said so since or owes a state,
a base it asked for is still awaited, and while no update comes back the first state after a changed
publication carries the warning (`WarningInv`).

### 5.8 OrderComparator

From `DocumentsOK` (every payload is a document the import accepts, and the largest `u64` is twice the largest
`i64` and one) for any set of payloads of any size, numbers of any spelling and any depth limit:

| theorem | states |
|---|---|
| `ComparisonHolds` | `ComparisonIsExact` |
| `ChangeIsReported` | `ChangeIsNotHidden` |
| `GraphsAreJudged` | `GraphCheckIsExact` |

*The import.* `PayloadsAreDocuments`: what is imported is a tree again, no deeper than the limit, and its
numbers are machine integers, without a leading zero and without -0.

*Numbers.* An integer of n digits without a leading zero is at least 9(n - 1) + 1 (`MagnitudeGrows`), so an
imported one has at most `MaxI64` digits (`FewDigits`) and its key's exponent, the number of its trailing
zeroes, is an `i64`: `decimal_key` never refuses it (`ComparisonCannotFail`). `KeyOfNumber` says what the key is (the digits up to
the last that is not zero, and how many zeroes follow), from which sign and digits can be read back;
hence two imported numbers have one key only when they are the same (`KeysAreExact`).

*The comparison.* That the recursive function exists is itself proved: a call reads calls at longer paths
only (`CompareReadsBelow`), and none is longer than `MaxDepth`; a function for the calls of some length
extends to those one shorter, and at the least length that has one there is nothing left. The same trade,
an extreme counterexample for an induction, gives exactness. The recursion gets to a path only when every
key on the way is significant (`Reached`), and then its flag says whether a prefix is opaque; `Exact`
relates the summary returned there to the two parts below the path, and holds at a path if it does at
all longer ones (`ExactFromBelow`): a field that is excluded or unknown decides for everything below it
(`FieldDecides`), equal subtrees are read alike (`SameClasses`), a field of one side only is in one part
only, and an element of an array has an index for a key, which decides nothing (`ElementIsReached`).
At the root this is the relation of the two orders' parts. Agreement of the significant parts is
transitive, hence a change cannot hide in a row of publications.

*The graph.* `as_u64` is a recursive function of the digits, natural at each of them; while the ids stay within
`MaxU64` the saturating sum is the sum, and the least node out of line contradicts the stitch before it.

### 5.9 Only model-checked

Liveness (fairness and ENABLED): `BridgeFinishes`, `FaultIsInjected`, `JobCompletes`, `RunEnds`.

What the proofs assume of code outside the repository is what the models say of it: a broker that keeps
a connection's messages in order, publishes a will after all of them and serves a closed socket before
the robot's next connection.

## 6. Findings

Each has a run whose counterexample shows it; `PROJECT.json` quotes the text it contradicts.

1. `lsmart_missed_batch`: a batch queued with `complete.json` between the outbox listing and the
   completion test of one iteration is never published, and the bridge ends with success. The run
   script then refuses the run.
2. `lsmart_torn_delivery`: the inbox file is created, then filled; a controller that polls between
   reads an empty batch, once, and ends the simulation. Everything else exchanged through the
   directory is renamed into place or retried.
3. `live_control_passive`: the passive Doctor has no participants, so the control scenario always
   yields the reconnect finding that the script forbids.
4. `job_periodic`: the first state captured after a changed order is taken for the robot's response,
   also when it was sent before the order arrived.
5. `job_returns`: a state the robot sent before it took a later update counts as proof of its current
   order; a fleet that then repeats the old update with other content fails a robot that ignores it
   as it must.

Observed while modelling, without a run:

* A capture closed right after a base request fails the fleet (`doctor/lib.rs:438`): an absence is decisive
  as soon as the capture is closed, although the catalogue wants the response window observed
  (`rules/phase1.json:26` and `:241`). `FleetBlameIsTrue` is checked with captures that stay open until all
  is answered (`Grace`).
* Numbers that are no machine integers are imported as objects (2.6), so rule D1 finds 1 against 1.0
  CHANGED, which can fail the fleet, and 1.5 against 2.5 UNKNOWN. `docs/IMPLEMENTATION_PLAN.md:532-533` has
  numbers "compare by exact mathematical value", and the test
  `exact_decimal_math_handles_sign_zero_fraction_and_exponent`
  (`crates/vda5050-protocol/tests/protocol_contract.rs:530`) has it so, because it parses with serde_json's
  own `Value`.
* The LSMART recorder names the sender as an order's participant (`demo/live_capture.rs:306`), and rule
  D1's response half needs the robot (`doctor/lib.rs:622`): it is never evaluated on these captures.
* A FAIL is possible in a trace with a CAPTURE_GAP and between events of different clock epochs.
* The array format accepts a trailing comma.
* `CaptureLifecycle::validate` is called by no reader: records after CAPTURE_CLOSED are accepted.
* The graph check's `saturating_add` accepts equal sequence ids at the top of the range.
* The line at which the record limit stops is counted as rejected and as truncated.
* `shutdown` waits 100 ms for DISCONNECT; a slower worker makes the broker publish the will of a robot
  that left in order, and the evidence report of the control scenario then has an INCONCLUSIVE
  reconnect finding (`docs/LIVE_DEMO.md:72` says none). The slow jobs of `live_job` and `tier1_live`
  have it and show that it never becomes a FAIL.
* `scalar_key` gives the string "1" and the number 1 one key, `identifiers_equal` does not.
* With `same_job_isolated = false` the Tier-1 demo writes a manifest that the Doctor refuses
  (`apps/vda5050-doctor/src/lib.rs:182`): such runs have a passive report only.
* The Tier-1 demo's count of publications is met too early by another robot's will or by what a reused
  broker retained (`demo/live.rs:551-557`), and the manifest then claims CONFIRMED_FOR_RULE all the same
  (`demo/live.rs:595`): a victim that came back is failed. `docs/DEMO.md:30-33` asks for a fresh broker.
* The web page refuses a wire projection of more than 8192 lines (`web/src/model.ts:69`), the recorder
  writes up to 8208 (`limit + 16`); the plan's limits keep real runs far below.
* The recorders write their artifacts one after another; a crash in between leaves a trace without its
  manifest, which the Doctor then reads as passive evidence.

## 7. Further work

What would extend this project: the capture core's lifecycle, once a reader calls it; liveness of the three
demos in larger instances.

## 8. Not modelled

`CaptureLifecycle::validate` and the derived completeness of the capture core: no reader and no recorder
of the repository calls them; what is accepted instead is in `DoctorRun`. The motion of the robots and the
mode machine of `robot.rs`: floating-point kinematics, of which the live job needs two ticks. Numeric
validation of plans, coordinates, curves and the physics (floating-point functions of one call); JSON
syntax, timestamps, digests and file layout; report rendering and wording; argument parsing; operating-system
file access; the web gateway (a sequential read-only server whose accept loop ends on
an I/O error of one connection, line 45) and the browser page;
protocol bundle and errata validation (digest checks of one call); container, release and media
tooling; the rule catalogue and fixtures (data). The simulator's own planner, the MQTT broker and the
network are external: they are modelled from how the code uses them, in `BrokerDeliver`, `BrokerDrop`
and the connection losses of `LsmartBridge`, and in the routing actions of `LiveCockpit`, `Tier1Live` and
`LsmartCapture`.

## 9. Running

    tlc -config LsmartBridge.cfg MCLsmartBridge     # each run: module and cfg in PROJECT.json
    tlapm LsmartBridgeProofs.tla
    tlapm LsmartCaptureProofs.tla
    tlapm LiveCockpitProofs.tla                     # the longest, some six minutes
    tlapm Tier1LiveProofs.tla
    tlapm DoctorProofs.tla
    tlapm ObservedJobProofs.tla
    tlapm DoctorRunProofs.tla
    tlapm OrderComparatorProofs.tla
