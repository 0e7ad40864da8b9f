------------------------------ MODULE Tier1Live ------------------------------
(***************************************************************************)
(* The Tier-1 live demo: one process with an MQTT client for the recorder,  *)
(* the fleet and every robot, a linear scenario that crashes the first      *)
(* robot and reconnects it, and the Doctor's reading of what the recorder   *)
(* captured.  The scenario, the clients' workers and the broker interleave. *)
(*                                                                          *)
(* Each client has a FIFO link to the broker, with what its worker has not  *)
(* sent or the broker not processed.  The broker hands a message on in the  *)
(* step that takes it off its link: a slower delivery is a longer stay.     *)
(* A loop of the scenario that only publishes is one step, for messages of  *)
(* different clients are ordered by the broker alone.                       *)
(***************************************************************************)
EXTENDS Integers, Sequences, FiniteSets, CaptureTrace

CONSTANTS NumRobots,      (* robot_count                                      *)
          Jobs            (* the runs to consider, see JobType                *)

Robots == 1 .. NumRobots
Fleet == 0
Clients == Robots \cup {Fleet}
Victim == 1

(* What the caller chooses: online is send_online_after_reconnect; samples is *)
(* the number of visualizations per robot, 4 in the code.  And what it finds: *)
(* kept is the connection state of the victim a reused broker still retains   *)
(* from an earlier run; faults bounds the connections and messages lost; slow *)
(* says that workers may take longer than the sleeps that wait for them and   *)
(* answers longer than the deadlines.                                         *)
JobType == [online : BOOLEAN, samples : Nat \ {0},
            kept : {"nothing", "ONLINE", "CONNECTION_BROKEN"},
            faults : Nat, slow : BOOLEAN]

ASSUME ConstantsAssumption == NumRobots \in Nat \ {0} /\ Jobs \subseteq JobType

VARIABLES
  job,
  pc,           (* where the scenario is, see Stages                          *)
  sample,       (* sample_index + 1                                           *)
  up,           (* up[c]: "none", "up", or "dead" when its worker has stopped *)
  session,      (* of the victim, 1 or 2                                      *)
  link,         (* link[c]: from client c, a trailing Last Will included      *)
  ordered,      (* robots whose order is in order_rx                          *)
  recorderUp,   (* the recorder's worker runs                                 *)
  captured,     (* CaptureBuffer.publishes                                    *)
  exceeded,     (* CaptureBuffer.exceeded                                     *)
  faults

vars == <<job, pc, sample, up, session, link, ordered, recorderUp, captured,
          exceeded, faults>>

Stages == {"recorder", "fleet", "robots", "greet", "orders", "moving", "drive",
           "arrived", "crash", "broken", "reconnect", "report", "count",
           "shutdown", "verdict", "done", "failed"}

Running == pc \notin {"done", "failed"}

(* Messages, with their header id and the session they were published in. *)
Message(topic, r, header, value, s) ==
    [topic |-> topic, robot |-> r, header |-> header, value |-> value, session |-> s]

Connection(r, header, state, s) == Message("connection", r, header, state, s)
Order(r) == Message("order", r, 1, "order", 0)
State(r, header, value, s) == Message("state", r, header, value, s)
Visualization(r, header) == Message("visualization", r, header, "position", 1)
Disconnect == Message("disconnect", 0, 0, "", 0)

SessionOfClient(r) == IF r = Victim THEN session ELSE 1

(* The Last Will a robot's client registers when it connects. *)
Will(r) == Connection(r, 2, "CONNECTION_BROKEN", SessionOfClient(r))

(* What a reused broker retains: session 0 stands for the earlier run. *)
Retained(r) ==
    IF r = Victim /\ job.kept = "CONNECTION_BROKEN"
    THEN Connection(r, 2, "CONNECTION_BROKEN", 0)
    ELSE Connection(r, 1, "ONLINE", 0)

Messages ==
    [topic : {"connection", "order", "state", "visualization"}, robot : Robots,
     header : Nat \ {0}, session : 0 .. 2,
     value : {"ONLINE", "CONNECTION_BROKEN", "order", "moving", "arrived", "request",
              "position"}]

TypeOK ==
    /\ job \in Jobs /\ pc \in Stages
    /\ sample \in 1 .. job.samples + 1
    /\ up \in [Clients -> {"none", "up", "dead"}]
    /\ session \in {1, 2}
    /\ link \in [Clients -> Seq(Messages \cup {Disconnect})]
    /\ ordered \in SUBSET Robots
    /\ recorderUp \in BOOLEAN
    /\ captured \in Seq(Messages)
    /\ exceeded \in BOOLEAN
    /\ faults \in 0 .. job.faults

Init ==
    /\ job \in Jobs /\ pc = "recorder" /\ sample = 1
    /\ up = [c \in Clients |-> "none"] /\ session = 1
    /\ link = [c \in Clients |-> << >>] /\ ordered = {}
    /\ recorderUp = FALSE /\ captured = << >> /\ exceeded = FALSE
    /\ faults = 0

MayFault == faults < job.faults

-----------------------------------------------------------------------------
(* Links *)

(* The link of c when its connection ends without DISCONNECT after the broker *)
(* got k messages: the Last Will follows.  The fleet's client has none.       *)
Cut(c, k) ==
    SubSeq(link[c], 1, k) \o (IF c = Fleet THEN << >> ELSE <<Will(c)>>)

(* How much the worker of c has sent when a sleep that waits for it is over.  *)
Flushed(c) == IF job.slow THEN 0 .. Len(link[c]) ELSE {Len(link[c])}

Fail ==
    /\ pc' = "failed"
    /\ UNCHANGED <<job, sample, up, session, link, ordered, recorderUp, captured,
                   exceeded>>

-----------------------------------------------------------------------------
(* RunningClient::start: the SUBACK or CONNACK has come *)

StartFails ==
    /\ pc \in {"recorder", "fleet", "robots", "reconnect"}
    /\ MayFault /\ faults' = faults + 1
    /\ Fail

(* The retained messages of a reused broker come with the SUBACK, any order.  *)
StartRecorder ==
    /\ pc = "recorder"
    /\ pc' = "fleet" /\ recorderUp' = TRUE
    /\ IF job.kept = "nothing" THEN UNCHANGED captured
       ELSE \E order \in Bijection(Robots, Robots) :
                captured' = [i \in Robots |-> Retained(order[i])]
    /\ UNCHANGED <<job, sample, up, session, link, ordered, exceeded, faults>>

StartFleet ==
    /\ pc = "fleet"
    /\ pc' = "robots" /\ up' = [up EXCEPT ![Fleet] = "up"]
    /\ UNCHANGED <<job, sample, session, link, ordered, recorderUp, captured,
                   exceeded, faults>>

StartRobots ==
    /\ pc = "robots"
    /\ pc' = "greet"
    /\ up' = [c \in Clients |-> IF c \in Robots THEN "up" ELSE up[c]]
    /\ UNCHANGED <<job, sample, session, link, ordered, recorderUp, captured,
                   exceeded, faults>>

(* A connection error stops a worker. *)
ConnectionLost(c) ==
    /\ Running /\ MayFault /\ faults' = faults + 1
    /\ up[c] = "up"
    /\ up' = [up EXCEPT ![c] = "dead"]
    /\ \E k \in 0 .. Len(link[c]) : link' = [link EXCEPT ![c] = Cut(c, k)]
    /\ UNCHANGED <<job, pc, sample, session, ordered, recorderUp, captured, exceeded>>

RecorderConnectionLost ==
    /\ Running /\ MayFault /\ faults' = faults + 1
    /\ recorderUp /\ recorderUp' = FALSE
    /\ UNCHANGED <<job, pc, sample, up, session, link, ordered, captured, exceeded>>

-----------------------------------------------------------------------------
(* run_live *)

(* The scenario publishes output[c] on each client c in speakers and goes on. *)
Publish(stage, next, speakers, output) ==
    /\ pc = stage /\ pc' = next
    /\ \A c \in speakers : up[c] = "up"
    /\ link' = [c \in Clients |-> IF c \in speakers THEN link[c] \o output[c] ELSE link[c]]
    /\ UNCHANGED <<job, up, session, ordered, recorderUp, captured, exceeded, faults>>

Greet ==
    /\ Publish("greet", "orders", Clients,
               [c \in Clients |-> IF c = Fleet THEN [r \in Robots |-> Order(r)]
                                  ELSE <<Connection(c, 1, "ONLINE", 1)>>])
    /\ UNCHANGED sample

(* Mutant: one order is enough. *)
SomeOrdered == ordered # {}

AllOrdered == ordered = Robots

AwaitOrders ==
    /\ pc = "orders" /\ AllOrdered
    /\ pc' = "moving"
    /\ UNCHANGED <<job, sample, up, session, link, ordered, recorderUp, captured,
                   exceeded, faults>>

ReportMoving ==
    /\ Publish("moving", "drive", Robots, [r \in Robots |-> <<State(r, 1, "moving", 1)>>])
    /\ UNCHANGED sample

Drive ==
    /\ Publish("drive", IF sample = job.samples THEN "arrived" ELSE "drive", Robots,
               [r \in Robots |-> <<Visualization(r, sample)>>])
    /\ sample' = sample + 1

ReportArrived ==
    /\ Publish("arrived", "crash", Robots, [r \in Robots |-> <<State(r, 2, "arrived", 1)>>])
    /\ UNCHANGED sample

(* 250 ms later the victim's client is dropped. *)
Crash ==
    /\ pc = "crash" /\ pc' = "broken"
    /\ up' = [up EXCEPT ![Victim] = "none"]
    /\ IF up[Victim] = "up"
       THEN \E k \in Flushed(Victim) : link' = [link EXCEPT ![Victim] = Cut(Victim, k)]
       ELSE UNCHANGED link
    /\ UNCHANGED <<job, sample, session, ordered, recorderUp, captured, exceeded, faults>>

(* wait_for_capture: the Last Will of any robot will do. *)
BrokenCaptured == \E i \in DOMAIN captured : captured[i].value = "CONNECTION_BROKEN"

AwaitBroken ==
    /\ pc = "broken" /\ BrokenCaptured
    /\ pc' = "reconnect"
    /\ UNCHANGED <<job, sample, up, session, link, ordered, recorderUp, captured,
                   exceeded, faults>>

(* CONNACK comes after the broker has dealt with the session taken over, its  *)
(* will included: the link is empty by then.                                  *)
Reconnect ==
    /\ pc = "reconnect" /\ link[Victim] = << >>
    /\ pc' = "report" /\ session' = 2
    /\ up' = [up EXCEPT ![Victim] = "up"]
    /\ UNCHANGED <<job, sample, link, ordered, recorderUp, captured, exceeded, faults>>

(* Mutant: the header id of the second ONLINE is not advanced past the will's. *)
SecondHeaderMutant == IF job.online THEN <<Connection(Victim, 2, "ONLINE", 2)>> ELSE << >>

SecondOnline == IF job.online THEN <<Connection(Victim, 3, "ONLINE", 2)>> ELSE << >>

ReportRequest ==
    /\ Publish("report", "count", {Victim},
               [c \in {Victim} |-> Append(SecondOnline, State(Victim, 3, "request", 2))])
    /\ UNCHANGED sample

(* wait_for_publish_count.  Per robot ONLINE, order, two states and the       *)
(* visualizations; the victim's will, third state and second ONLINE.          *)
(* Mutant: the second ONLINE is never counted.                                *)
ExpectedMutant == NumRobots * (4 + job.samples) + 2

Expected == NumRobots * (4 + job.samples) + (IF job.online THEN 3 ELSE 2)

AwaitCount ==
    /\ pc = "count" /\ Len(captured) >= Expected
    /\ pc' = "shutdown"
    /\ UNCHANGED <<job, sample, up, session, link, ordered, recorderUp, captured,
                   exceeded, faults>>

(* A worker that has stopped makes publish fail. *)
Speakers ==
    CASE pc = "greet" -> Clients
      [] pc \in {"moving", "drive", "arrived"} -> Robots
      [] pc = "report" -> {Victim}
      [] OTHER -> {}

PublishFails ==
    /\ \E c \in Speakers : up[c] = "dead"
    /\ Fail /\ UNCHANGED faults

Satisfied ==
    \/ pc = "orders" /\ AllOrdered
    \/ pc = "broken" /\ BrokenCaptured
    \/ pc = "count" /\ Len(captured) >= Expected

Drained == \A c \in Clients : link[c] = << >>

Waiting == pc \in {"orders", "broken", "count"}

(* Mutant: the wait for the publications has no deadline. *)
DeadlineMutant == pc \in {"orders", "broken"}

HasDeadline == Waiting

(* A deadline passes, in time only when what it waits for cannot come.        *)
DeadlineExpires ==
    /\ HasDeadline
    /\ job.slow \/ (Drained /\ ~Satisfied)
    /\ Fail /\ UNCHANGED faults

(* 100 ms after DISCONNECT was queued the worker is stopped, flushed or not.  *)
Shutdown(c) ==
    /\ pc = "shutdown"
    /\ up[c] # "none" /\ up' = [up EXCEPT ![c] = "none"]
    /\ \/ link' = [link EXCEPT ![c] = IF up[c] = "up" THEN Append(@, Disconnect) ELSE @]
       \/ /\ job.slow /\ up[c] = "up"
          /\ \E k \in 0 .. Len(link[c]) : link' = [link EXCEPT ![c] = Cut(c, k)]
    /\ UNCHANGED <<job, sample, session, ordered, recorderUp, captured, exceeded, faults>>

(* The second session first, then the other robots in order. *)
ShutdownRobot(r) ==
    /\ \A q \in 1 .. r - 1 : up[q] = "none"
    /\ Shutdown(r)
    /\ pc' = pc

ShutdownFleet ==
    /\ \A r \in Robots : up[r] = "none"
    /\ Shutdown(Fleet)
    /\ pc' = "verdict"

(* The recorder is shut down and the budgets are looked at. *)
Conclude ==
    /\ pc = "verdict" /\ ~exceeded
    /\ pc' = "done" /\ recorderUp' = FALSE
    /\ UNCHANGED <<job, sample, up, session, link, ordered, captured, exceeded, faults>>

BudgetExceeded ==
    /\ pc = "verdict"
    /\ exceeded \/ job.slow
    /\ Fail /\ UNCHANGED faults

-----------------------------------------------------------------------------
(* The broker (external) and the recorder's worker *)

(* Mutant: the budget is the number of messages the scenario publishes. *)
MessageBudgetMutant == Expected

(* message_budget: ten messages per robot with four visualizations. *)
MessageBudget == NumRobots * (6 + job.samples) + 16

(* CaptureBuffer::push, unless the message misses the recorder. *)
Capture(m, missed) ==
    IF missed = "recorder" \/ ~recorderUp THEN UNCHANGED <<captured, exceeded>>
    ELSE IF Len(captured) >= MessageBudget THEN exceeded' = TRUE /\ UNCHANGED captured
    ELSE captured' = Append(captured, m) /\ UNCHANGED exceeded

(* The robot's client hands the order to order_rx. *)
Inbox(m, missed) ==
    ordered' = IF m.topic = "order" /\ up[m.robot] = "up" /\ missed # "robot"
               THEN ordered \cup {m.robot} ELSE ordered

(* QoS 0 gives no guarantee of delivery; connections are QoS 1.              *)
MayMiss(m) ==
    IF MayFault /\ m.topic # "connection" THEN {"nobody", "recorder", "robot"} ELSE {"nobody"}

Deliver(m) ==
    \E missed \in MayMiss(m) :
        /\ Capture(m, missed)
        /\ Inbox(m, missed)
        /\ faults' = IF missed = "nobody" THEN faults ELSE faults + 1

Route(c) ==
    /\ Running /\ link[c] # << >>
    /\ link' = [link EXCEPT ![c] = Tail(@)]
    /\ IF Head(link[c]) = Disconnect THEN UNCHANGED <<captured, exceeded, ordered, faults>>
       ELSE Deliver(Head(link[c]))
    /\ UNCHANGED <<job, pc, sample, up, session, recorderUp>>

-----------------------------------------------------------------------------
Scenario ==
    \/ StartRecorder \/ StartFleet \/ StartRobots
    \/ Greet \/ AwaitOrders \/ ReportMoving \/ Drive \/ ReportArrived
    \/ Crash \/ AwaitBroken \/ Reconnect \/ ReportRequest \/ AwaitCount
    \/ \E r \in Robots : ShutdownRobot(r)
    \/ ShutdownFleet \/ Conclude
    \/ PublishFails \/ DeadlineExpires \/ BudgetExceeded

Faults ==
    \/ StartFails \/ RecorderConnectionLost
    \/ \E c \in Clients : ConnectionLost(c)

Broker == \E c \in Clients : Route(c)

Ended == ~Running /\ UNCHANGED vars

(* The waits look again every 25 or 50 ms. *)
Poll == Waiting /\ UNCHANGED vars

Next == Scenario \/ Broker \/ Faults \/ Poll \/ Ended

Spec == Init /\ [][Next]_vars

(* The process and the broker do not both stop while one of them can go on.   *)
FairSpec == Spec /\ WF_vars(Scenario \/ Broker)

-----------------------------------------------------------------------------
(* canonical_trace and the two diagnoses *)

EvidenceTrace == EvidenceContext(captured)
PassiveTrace == PassiveContext(captured)

Findings(context) == ReconnectFindings(context) \cup BaseRequestFindings(context)

-----------------------------------------------------------------------------
(* Properties *)

Done == pc = "done"
Fresh == job.kept = "nothing"
Calm == Fresh /\ job.faults = 0 /\ ~job.slow

Captured(m) == \E i \in DOMAIN captured : captured[i] = m

(* On a fresh broker the session canonical_trace infers for a robot message    *)
(* (live.rs 819-825) is the one it was published in, whatever was lost or late. *)
EpochsAreTrue ==
    Fresh => \A i \in DOMAIN captured :
        FromFleet(captured[i]) \/ SessionOf(captured, i) = captured[i].session

(* The count of publications (live.rs 551-557) is a barrier: on a fresh broker *)
(* and without faults, what is written is the whole scenario, the end of the   *)
(* victim's second session included, and however late the workers are.         *)
WrittenIsComplete ==
    Done /\ Fresh /\ job.faults = 0 =>
        /\ \A r \in Robots :
            /\ Captured(Connection(r, 1, "ONLINE", 1)) /\ Captured(Order(r))
            /\ Captured(State(r, 1, "moving", 1)) /\ Captured(State(r, 2, "arrived", 1))
            /\ \A h \in 1 .. job.samples : Captured(Visualization(r, h))
        /\ Captured(Connection(Victim, 2, "CONNECTION_BROKEN", 1))
        /\ Captured(State(Victim, 3, "request", 2))
        /\ Captured(Connection(Victim, 3, "ONLINE", 2)) <=> job.online

(* No robot reports before every robot's order is out, for the states wait for *)
(* all orders (live.rs 430-438); the second session reports after the break of *)
(* the first was seen (live.rs 510).                                           *)
CaptureIsCausal ==
    \A i \in DOMAIN captured :
        captured[i].topic = "state" =>
            /\ job.faults = 0 => \A r \in Robots : \E j \in 1 .. i - 1 : captured[j] = Order(r)
            /\ captured[i].session = 2 =>
                \E j \in 1 .. i - 1 :
                    captured[j] = Connection(Victim, 2, "CONNECTION_BROKEN", 1)

(* A run that ends well on a fresh broker is diagnosed exactly as             *)
(* tests/tier1_demo_verdict_matrix.sh 34-63 asks: with evidence the omitted    *)
(* ONLINE is the victim's fault as soon as its second session reported, without *)
(* evidence it is undecided.                                                   *)
FaultIsDiagnosed ==
    Done /\ Fresh /\ ~job.online =>
        /\ Captured(State(Victim, 3, "request", 2)) =>
            \E f \in Findings(EvidenceTrace) :
                f.verdict = "FAIL" /\ f.target = "MOBILE_ROBOT"
        /\ \E f \in ReconnectFindings(PassiveTrace) :
            f.verdict = "INCONCLUSIVE" /\ f.target = "UNRESOLVED"

(* The victim's connection states are ONLINE, CONNECTION_BROKEN, ONLINE, with no *)
(* reconnect finding, in the control on a fresh broker (docs/DEMO.md 240-245). *)
VictimStates ==
    {i \in DOMAIN captured : captured[i].topic = "connection" /\ captured[i].robot = Victim}

ControlIsClean ==
    Done /\ Calm /\ job.online =>
        /\ ReconnectFindings(EvidenceTrace) = {}
        /\ \E i, j, k \in DOMAIN captured :
            /\ i < j /\ j < k /\ VictimStates = {i, j, k}
            /\ captured[i] = Connection(Victim, 1, "ONLINE", 1)
            /\ captured[j] = Connection(Victim, 2, "CONNECTION_BROKEN", 1)
            /\ captured[k] = Connection(Victim, 3, "ONLINE", 2)

(* Nobody is blamed but the victim, when no ONLINE of its second session was    *)
(* captured, and the fleet, for the new base the victim asked for; and nobody   *)
(* without evidence.  Only a lost connection or a reused broker lets the count  *)
(* end the run before an ONLINE that was said is captured (live.rs 551-557).    *)
NoFalseBlame ==
    Done =>
        /\ \A f \in Findings(PassiveTrace) : f.verdict # "FAIL"
        /\ \A f \in Findings(EvidenceTrace) : f.verdict = "FAIL" =>
            \/ /\ f.target = "MOBILE_ROBOT" /\ captured[f.event].robot = Victim
               /\ ~Captured(Connection(Victim, 3, "ONLINE", 2))
               /\ Fresh /\ job.faults = 0 => ~job.online
            \/ /\ f.target = "FLEET_CONTROL"
               /\ captured[f.event] = State(Victim, 3, "request", 2)

(* The two reports of a run that ended well say what the scenario did: the     *)
(* incident is diagnosed, the control is clean, nobody is blamed for what the  *)
(* capture shows he did, and, however late the workers are, nobody for what he *)
(* did as long as nothing is lost on a fresh broker (docs/DEMO.md 195-199,     *)
(* 224-227).                                                                   *)
DiagnosisIsTrue == FaultIsDiagnosed /\ ControlIsClean /\ NoFalseBlame

(* The fixed header ids rise on every topic of a robot across its two sessions  *)
(* (live.rs 393, 424, 446, 471, 496, 516, 532), as long as no connection but    *)
(* the one the scenario drops ends without a DISCONNECT: the second will        *)
(* repeats id 2.                                                                *)
HeaderIdsIncrease ==
    Calm =>
        \A i, j \in DOMAIN captured :
            i < j /\ captured[i].topic = captured[j].topic
                  /\ captured[i].robot = captured[j].robot =>
                captured[i].header < captured[j].header

(* The budget is never met, whatever a reused broker and cut connections add. *)
BudgetSuffices == ~exceeded

(* Every run ends, and ends well when nothing is lost, late or retained: no    *)
(* wait is for more than the scenario sends (live.rs 551-557, 738-780).        *)
RunEnds == <>(pc \in {"done", "failed"}) /\ (Calm => <>Done)
=============================================================================
