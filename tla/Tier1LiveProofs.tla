--------------------------- MODULE Tier1LiveProofs ---------------------------
(***************************************************************************)
(* Proofs about Tier1Live for every number of robots and every set of runs:  *)
(* all its invariants.  First the sessions the written trace infers and the  *)
(* causality of the capture, then the header ids, the budget and the barrier *)
(* of the publication count, last how the links end and the diagnosis.       *)
(*                                                                          *)
(* ScenarioInvariant says what may wait on a link, what the stages of the    *)
(* scenario have waited for, and that the end of the victim's first session  *)
(* is captured, or on its way, from the moment its client is gone.           *)
(* StoryInvariant says of every message whether it was said yet, and in what *)
(* order those said are captured and wait.  EndingInvariant says what may    *)
(* still follow the break of a connection.                                   *)
(***************************************************************************)
EXTENDS Tier1Live, DoctorProofs, SequenceTheorems, FiniteSetTheorems

(* What waits on the link of client c: its own messages of its present session *)
(* and at the end of the link a DISCONNECT or, of a client no longer up, a      *)
(* Last Will.                                                                  *)
FromClient(c, m) ==
    \/ m = Disconnect
    \/ c = Fleet /\ \E r \in Robots : m = Order(r)
    \/ /\ c \in Robots /\ m.robot = c /\ m.session = SessionOfClient(c)
       /\ m.topic \in {"connection", "state", "visualization"}

LinkInv ==
    \A c \in Clients : \A i \in DOMAIN link[c] :
        /\ FromClient(c, link[c][i])
        /\ link[c][i].value = "CONNECTION_BROKEN" => i = Len(link[c]) /\ up[c] # "up"
        /\ link[c][i].topic = "state" => ordered = Robots

(* Where the scenario is: who is connected, in which session, and what it has  *)
(* waited for.                                                                 *)
Starting == {"recorder", "fleet", "robots"}
Driving == {"greet", "orders", "moving", "drive", "arrived", "crash"}
Away == {"broken", "reconnect"}
Second == {"report", "count", "shutdown", "verdict", "done"}

StageInv ==
    /\ pc = "recorder" => captured = << >> /\ ordered = {}
    /\ pc \in Starting =>
           /\ \A r \in Robots : up[r] = "none"
           /\ \A c \in Clients : link[c] = << >>
           /\ Fresh => captured = << >>
    /\ pc \in Driving => up[Victim] # "none"
    /\ pc \in Away => up[Victim] = "none"
    /\ session = 2 => pc \in Second \cup {"failed"}
    /\ pc \in Second => session = 2
    /\ pc \in (Starting \cup Driving) \ {"arrived", "crash"} => sample <= job.samples
    /\ pc \in {"moving", "drive", "arrived", "crash"} \cup Away \cup Second => ordered = Robots

(* The capture still takes messages. *)
Growing == recorderUp /\ Len(captured) < MessageBudget

Break == Connection(Victim, 2, "CONNECTION_BROKEN", 1)

BreakOnItsWay == link[Victim] # << >> /\ link[Victim][Len(link[Victim])] = Break

(* The end of the first session of the victim is captured before its second    *)
(* begins; the end of a robot's first session is the last it had to say in it. *)
BreakInv ==
    /\ session = 2 /\ Growing => Captured(Break)
    /\ (up[Victim] = "dead" \/ pc \in Away) /\ session = 1 /\ Growing =>
           Captured(Break) \/ BreakOnItsWay
    /\ Fresh => \A r \in Robots :
           SessionOfClient(r) = 1 /\ (\E j \in DOMAIN captured : BrokenIn(captured, j, r)) =>
               link[r] = << >> /\ up[r] # "up"

(* An order is captured when its robot gets it. *)
OrderInv == job.faults = 0 /\ Growing => \A r \in ordered : Captured(Order(r))

CaptureInv == EpochsAreTrue /\ CaptureIsCausal

ScenarioInvariant == TypeOK /\ LinkInv /\ StageInv /\ BreakInv /\ OrderInv /\ CaptureInv

-----------------------------------------------------------------------------
(* Operators *)

LEMMA Numbers ==
    ASSUME job \in Jobs
    PROVE  /\ NumRobots \in Nat \ {0} /\ Victim \in Robots /\ Fleet \notin Robots
           /\ Robots \subseteq Nat \ {0}
           /\ job.samples \in Nat \ {0} /\ job.faults \in Nat /\ MessageBudget \in Nat
           /\ job.online \in BOOLEAN
<1>1. job \in JobType
  BY ConstantsAssumption
<1>2. job.samples \in Nat \ {0} /\ job.faults \in Nat /\ job.online \in BOOLEAN
  BY <1>1 DEF JobType
<1>3. NumRobots \in Nat \ {0}
  BY ConstantsAssumption
<1>4. MessageBudget \in Nat
  <2>1. 6 + job.samples \in Nat
    BY <1>2
  <2>2. NumRobots * (6 + job.samples) \in Nat
    BY <1>3, <2>1
  <2> QED
    BY <2>2 DEF MessageBudget
<1> QED
  BY <1>2, <1>3, <1>4 DEF Robots, Victim, Fleet

LEMMA MessageTypes ==
    ASSUME NEW r \in Robots, NEW s \in 0 .. 2
    PROVE  /\ \A h \in Nat \ {0} :
                  /\ Connection(r, h, "ONLINE", s) \in Messages
                  /\ Connection(r, h, "CONNECTION_BROKEN", s) \in Messages
                  /\ State(r, h, "moving", s) \in Messages
                  /\ State(r, h, "arrived", s) \in Messages
                  /\ State(r, h, "request", s) \in Messages
                  /\ Visualization(r, h) \in Messages
           /\ Order(r) \in Messages
BY DEF Connection, State, Visualization, Order, Message, Messages

LEMMA DisconnectIsNone == Disconnect \notin Messages
BY DEF Disconnect, Message, Messages

LEMMA SessionType ==
    ASSUME session \in {1, 2} PROVE \A r \in Robots : SessionOfClient(r) \in {1, 2}
BY DEF SessionOfClient

(* The parts of the invariant that do not look at pc survive a step that       *)
(* changes nothing they mention.                                               *)
LEMMA LinkFrame ==
    ASSUME LinkInv, UNCHANGED <<up, session, link, ordered>>
    PROVE  LinkInv'
<1>1. \A c, m : FromClient(c, m)' <=> FromClient(c, m)
  BY DEF FromClient, SessionOfClient, Order, Disconnect, Message
<1>2. link' = link /\ up' = up /\ ordered' = ordered
  OBVIOUS
<1>3. SUFFICES ASSUME NEW c \in Clients, NEW i \in DOMAIN link[c]
               PROVE  /\ FromClient(c, link[c][i])'
                      /\ link[c][i].value = "CONNECTION_BROKEN" =>
                             i = Len(link[c]) /\ up[c] # "up"
                      /\ link[c][i].topic = "state" => ordered = Robots
  BY <1>2 DEF LinkInv
<1>4. FromClient(c, link[c][i])' <=> FromClient(c, link[c][i])
  BY <1>1, <1>2
<1> QED
  BY <1>4 DEF LinkInv

LEMMA CaptureFrame ==
    ASSUME CaptureInv, UNCHANGED <<job, captured>>
    PROVE  CaptureInv'
BY DEF CaptureInv, EpochsAreTrue, CaptureIsCausal, Fresh, FromFleet, SessionOf, BrokenIn,
       Order, Connection, Message

LEMMA OrderFrame ==
    ASSUME OrderInv, UNCHANGED <<job, captured, ordered>>, recorderUp' => recorderUp
    PROVE  OrderInv'
BY DEF OrderInv, Growing, MessageBudget, Captured, Order, Message

LEMMA BreakFrame ==
    ASSUME BreakInv, UNCHANGED <<job, captured, session, link, up>>, recorderUp' => recorderUp,
           pc' \in Away => pc \in Away
    PROVE  BreakInv'
BY DEF BreakInv, Growing, MessageBudget, Captured, Break, BreakOnItsWay, Fresh, BrokenIn,
       SessionOfClient, Connection, Message

-----------------------------------------------------------------------------
(* Steps of the scenario that only go on, or give up *)

QuietVars == <<job, sample, up, session, link, ordered, captured, exceeded>>

LEMMA QuietStep ==
    ASSUME ScenarioInvariant, UNCHANGED QuietVars, recorderUp' \in BOOLEAN,
           recorderUp' => recorderUp, faults' \in 0 .. job.faults,
           \/ pc' = pc
           \/ pc' = "failed"
           \/ pc = "orders" /\ ordered = Robots /\ pc' = "moving"
           \/ pc = "broken" /\ pc' = "reconnect"
           \/ pc = "count" /\ pc' = "shutdown"
           \/ pc = "verdict" /\ pc' = "done"
    PROVE  ScenarioInvariant'
<1>1. TypeOK'
  BY DEF ScenarioInvariant, TypeOK, QuietVars, Stages
<1>2. LinkInv' /\ CaptureInv' /\ OrderInv'
  BY LinkFrame, CaptureFrame, OrderFrame DEF ScenarioInvariant, QuietVars
<1>3. StageInv'
  BY DEF ScenarioInvariant, QuietVars, StageInv, Starting, Driving, Away, Second,
         Fresh
<1>4. BreakInv'
  BY BreakFrame DEF ScenarioInvariant, QuietVars, Away
<1> QED
  BY <1>1, <1>2, <1>3, <1>4 DEF ScenarioInvariant

LEMMA GoesOn ==
    ASSUME ScenarioInvariant,
           \/ AwaitOrders \/ AwaitBroken \/ AwaitCount \/ Conclude
           \/ StartFails \/ PublishFails \/ DeadlineExpires \/ BudgetExceeded
           \/ RecorderConnectionLost \/ Poll \/ Ended
    PROVE  ScenarioInvariant'
<1> DEFINE Quiet ==
        /\ UNCHANGED QuietVars /\ recorderUp' \in BOOLEAN /\ (recorderUp' => recorderUp)
        /\ faults' \in 0 .. job.faults
<1>0. /\ recorderUp \in BOOLEAN /\ job.faults \in Nat /\ faults \in 0 .. job.faults
  BY Numbers DEF ScenarioInvariant, TypeOK
<1>1. CASE AwaitOrders
  <2>1. Quiet /\ pc = "orders" /\ ordered = Robots /\ pc' = "moving"
    BY <1>0, <1>1 DEF AwaitOrders, AllOrdered, QuietVars
  <2> QED
    BY <2>1, QuietStep
<1>2. CASE AwaitBroken
  <2>1. Quiet /\ pc = "broken" /\ pc' = "reconnect"
    BY <1>0, <1>2 DEF AwaitBroken, QuietVars
  <2> QED
    BY <2>1, QuietStep
<1>3. CASE AwaitCount
  <2>1. Quiet /\ pc = "count" /\ pc' = "shutdown"
    BY <1>0, <1>3 DEF AwaitCount, QuietVars
  <2> QED
    BY <2>1, QuietStep
<1>4. CASE Conclude
  <2>1. Quiet /\ pc = "verdict" /\ pc' = "done"
    BY <1>0, <1>4 DEF Conclude, QuietVars
  <2> QED
    BY <2>1, QuietStep
<1>5. CASE StartFails \/ PublishFails \/ DeadlineExpires \/ BudgetExceeded
  <2>1. Quiet /\ pc' = "failed"
    BY <1>0, <1>5 DEF StartFails, PublishFails, DeadlineExpires, BudgetExceeded, Fail,
                      MayFault, QuietVars
  <2> QED
    BY <2>1, QuietStep
<1>6. CASE RecorderConnectionLost
  <2>1. faults' \in 0 .. job.faults
    BY <1>0, <1>6 DEF RecorderConnectionLost, MayFault
  <2>2. UNCHANGED QuietVars /\ pc' = pc /\ recorderUp' = FALSE
    BY <1>6 DEF RecorderConnectionLost, QuietVars
  <2> QED
    BY <2>1, <2>2, QuietStep
<1>7. CASE Poll \/ Ended
  <2>1. Quiet /\ pc' = pc
    BY <1>0, <1>7 DEF Poll, Ended, vars, QuietVars
  <2> QED
    BY <2>1, QuietStep
<1> QED
  BY <1>1, <1>2, <1>3, <1>4, <1>5, <1>6, <1>7

-----------------------------------------------------------------------------
(* The clients connect *)

LEMMA InitInvariant == Init => ScenarioInvariant
<1> SUFFICES ASSUME Init PROVE ScenarioInvariant
  OBVIOUS
<1>0. job \in Jobs /\ NumRobots \in Nat \ {0} /\ job.samples \in Nat \ {0} /\ job.faults \in Nat
  BY Numbers DEF Init
<1>1. TypeOK
  <2>1. sample \in 1 .. job.samples + 1 /\ faults \in 0 .. job.faults
    BY <1>0 DEF Init
  <2>2. link \in [Clients -> Seq(Messages \cup {Disconnect})] /\ captured \in Seq(Messages)
    BY DEF Init
  <2> QED
    BY <2>1, <2>2 DEF Init, TypeOK, Stages
<1>2. LinkInv /\ CaptureInv
  BY DEF Init, LinkInv, CaptureInv, EpochsAreTrue, CaptureIsCausal
<1>3. StageInv
  <2>1. sample <= job.samples
    BY <1>0 DEF Init
  <2>2. Robots \subseteq Clients
    BY DEF Clients
  <2> QED
    BY <2>1, <2>2 DEF Init, StageInv, Starting, Driving, Away, Second
<1>4. BreakInv
  BY DEF Init, BreakInv, Growing, Away, Victim, Clients, Robots, BrokenIn
<1>5. OrderInv
  BY DEF Init, OrderInv
<1> QED
  BY <1>1, <1>2, <1>3, <1>4, <1>5 DEF ScenarioInvariant

(* What the recorder first hears of a reused broker are connection messages. *)
LEMMA StartRecorderKeeps == ScenarioInvariant /\ StartRecorder => ScenarioInvariant'
<1> SUFFICES ASSUME ScenarioInvariant, StartRecorder PROVE ScenarioInvariant'
  OBVIOUS
<1>0. /\ NumRobots \in Nat \ {0} /\ job.samples \in Nat \ {0} /\ Victim \in Robots
      /\ Robots = 1 .. NumRobots
  BY Numbers DEF ScenarioInvariant, TypeOK, Robots
<1>1. /\ pc = "recorder" /\ pc' = "fleet" /\ recorderUp' = TRUE
      /\ UNCHANGED <<job, sample, up, session, link, ordered, exceeded, faults>>
      /\ captured = << >> /\ ordered = {} /\ session = 1
      /\ \A r \in Robots : up[r] = "none"
      /\ \A c \in Clients : link[c] = << >>
  <2>1. session \in {1, 2} /\ session # 2
    BY DEF ScenarioInvariant, TypeOK, StageInv, Second, StartRecorder
  <2> QED
    BY <2>1 DEF ScenarioInvariant, StartRecorder, StageInv, Starting
<1>2. captured' \in Seq(Messages) /\ (Fresh => captured' = << >>)
      /\ \A i \in DOMAIN captured' : captured'[i].topic = "connection"
  <2>1. CASE job.kept = "nothing"
    BY <1>1, <2>1 DEF StartRecorder
  <2>2. CASE job.kept # "nothing"
    <3>1. PICK order \in Bijection(Robots, Robots) :
              captured' = [i \in Robots |-> Retained(order[i])]
      BY <2>2 DEF StartRecorder
    <3>2. \A r \in Robots : Retained(r) \in Messages /\ Retained(r).topic = "connection"
      <4>1. \A r \in Robots : Retained(r) \in Messages
        BY MessageTypes, 0 \in 0 .. 2 DEF Retained
      <4>2. \A r \in Robots : Retained(r).topic = "connection"
        BY DEF Retained, Connection, Message
      <4> QED
        BY <4>1, <4>2
    <3>3. \A i \in 1 .. NumRobots : order[i] \in Robots
      BY <1>0, <3>1 DEF Bijection, Injection, IsInjective
    <3>4. captured' \in [1 .. NumRobots -> Messages]
      BY <1>0, <3>1, <3>2, <3>3
    <3>5. captured' \in Seq(Messages)
      BY <1>0, <3>4, SeqDef
    <3>6. \A i \in DOMAIN captured' : captured'[i].topic = "connection"
      BY <1>0, <3>1, <3>2, <3>3
    <3> QED
      BY <2>2, <3>5, <3>6 DEF Fresh
  <2> QED
    BY <2>1, <2>2
<1>3. TypeOK'
  BY <1>1, <1>2 DEF ScenarioInvariant, TypeOK, Stages
<1>4. LinkInv'
  BY <1>1, LinkFrame DEF ScenarioInvariant
<1>5. StageInv'
  BY <1>1, <1>2 DEF ScenarioInvariant, StageInv, Starting, Driving, Away, Second, Fresh
<1>6. BreakInv'
  BY <1>0, <1>1, <1>2 DEF BreakInv, Away, Fresh
<1>7. OrderInv'
  BY <1>1 DEF OrderInv
<1>8. CaptureInv'
  BY <1>1, <1>2 DEF CaptureInv, EpochsAreTrue, CaptureIsCausal, Fresh
<1> QED
  BY <1>3, <1>4, <1>5, <1>6, <1>7, <1>8 DEF ScenarioInvariant

LEMMA StartClientsKeeps ==
    ASSUME ScenarioInvariant, StartFleet \/ StartRobots
    PROVE  ScenarioInvariant'
<1>0. /\ NumRobots \in Nat \ {0} /\ job.samples \in Nat \ {0}
      /\ Victim \in Robots /\ Fleet \notin Robots
  BY Numbers DEF ScenarioInvariant, TypeOK
<1>1. /\ pc \in Starting
      /\ \/ pc' = "robots" /\ up' = [up EXCEPT ![Fleet] = "up"]
         \/ pc' = "greet" /\ up' = [c \in Clients |-> IF c \in Robots THEN "up" ELSE up[c]]
      /\ UNCHANGED <<job, sample, session, link, ordered, recorderUp, captured, exceeded, faults>>
      /\ session = 1 /\ (Fresh => captured = << >>)
      /\ \A r \in Robots : up[r] = "none"
      /\ \A c \in Clients : link[c] = << >>
  <2>1. pc \in Starting
    BY DEF StartFleet, StartRobots, Starting
  <2>2. session \in {1, 2} /\ session # 2
    BY <2>1 DEF ScenarioInvariant, TypeOK, StageInv, Second, Starting
  <2> QED
    BY <2>1, <2>2 DEF ScenarioInvariant, StartFleet, StartRobots, StageInv
<1>2. up' \in [Clients -> {"none", "up", "dead"}]
  BY <1>0, <1>1 DEF ScenarioInvariant, TypeOK, Clients
<1>3. TypeOK'
  BY <1>1, <1>2 DEF ScenarioInvariant, TypeOK, Stages
<1>4. LinkInv'
  BY <1>1 DEF LinkInv
<1>5. \/ pc' = "robots" /\ \A r \in Robots : up'[r] = "none"
      \/ pc' = "greet" /\ up'[Victim] = "up"
  BY <1>0, <1>1 DEF ScenarioInvariant, TypeOK, Clients
<1>6. StageInv'
  BY <1>0, <1>1, <1>5 DEF ScenarioInvariant, StageInv, Starting, Driving, Away, Second, Fresh
<1>7. BreakInv'
  BY <1>0, <1>1, <1>5 DEF BreakInv, Away, Fresh
<1>8. OrderInv' /\ CaptureInv'
  BY <1>1, OrderFrame, CaptureFrame DEF ScenarioInvariant
<1> QED
  BY <1>3, <1>4, <1>6, <1>7, <1>8 DEF ScenarioInvariant

-----------------------------------------------------------------------------
(* The scenario publishes *)

Sendable == Messages \cup {Disconnect}

LEMMA LinkShape ==
    ASSUME TypeOK, NEW c \in Clients
    PROVE  link[c] \in Seq(Sendable) /\ Len(link[c]) \in Nat /\ DOMAIN link[c] = 1 .. Len(link[c])
BY LenProperties DEF TypeOK, Sendable

LEMMA Joined ==
    ASSUME NEW S, NEW s \in Seq(S), NEW t \in Seq(S)
    PROVE  /\ s \o t \in Seq(S)
           /\ \A i \in DOMAIN (s \o t) :
                  \/ i \in DOMAIN s /\ (s \o t)[i] = s[i]
                  \/ \E j \in DOMAIN t : (s \o t)[i] = t[j]
<1>1. /\ s \o t \in Seq(S) /\ Len(s \o t) = Len(s) + Len(t)
      /\ \A i \in 1 .. Len(s) + Len(t) :
             (s \o t)[i] = IF i <= Len(s) THEN s[i] ELSE t[i - Len(s)]
  BY ConcatProperties
<1>2. /\ DOMAIN (s \o t) = 1 .. Len(s) + Len(t)
      /\ DOMAIN s = 1 .. Len(s) /\ DOMAIN t = 1 .. Len(t)
      /\ Len(s) \in Nat /\ Len(t) \in Nat
  BY <1>1, LenProperties
<1> SUFFICES ASSUME NEW i \in 1 .. Len(s) + Len(t), i > Len(s)
             PROVE  i - Len(s) \in 1 .. Len(t)
  BY <1>1, <1>2
<1> QED
  BY <1>2

(* What a client that is up may say. *)
Speech(c, output) ==
    /\ up[c] = "up"
    /\ output \in Seq(Messages)
    /\ \A i \in DOMAIN output :
           /\ FromClient(c, output[i])
           /\ output[i].value # "CONNECTION_BROKEN"
           /\ output[i].topic = "state" => ordered = Robots

LEMMA PublishStep ==
    ASSUME ScenarioInvariant, NEW speakers \in SUBSET Clients, NEW output,
           \A c \in speakers : Speech(c, output[c]),
           link' = [c \in Clients |->
                        IF c \in speakers THEN link[c] \o output[c] ELSE link[c]],
           UNCHANGED <<job, up, session, ordered, recorderUp, captured, exceeded, faults>>,
           pc' \notin Away
    PROVE  /\ link' \in [Clients -> Seq(Messages \cup {Disconnect})]
           /\ LinkInv' /\ BreakInv' /\ OrderInv' /\ CaptureInv'
<1>1. \A c \in Clients \ speakers : link'[c] = link[c]
  OBVIOUS
<1>2. \A c \in speakers :
          /\ c \in Clients /\ up[c] = "up" /\ link'[c] = link[c] \o output[c]
          /\ link'[c] \in Seq(Sendable)
          /\ \A i \in DOMAIN link'[c] :
                 \/ i \in DOMAIN link[c] /\ link'[c][i] = link[c][i]
                 \/ \E j \in DOMAIN output[c] : link'[c][i] = output[c][j]
  <2> TAKE c \in speakers
  <2>1. c \in Clients /\ up[c] = "up" /\ link'[c] = link[c] \o output[c]
    BY DEF Speech
  <2>2. output[c] \in Seq(Sendable)
    BY SeqMonotonic DEF Speech, Sendable
  <2>3. link[c] \in Seq(Sendable)
    BY <2>1, LinkShape DEF ScenarioInvariant
  <2>4. \A s, t \in Seq(Sendable) :
            /\ s \o t \in Seq(Sendable)
            /\ \A i \in DOMAIN (s \o t) :
                   \/ i \in DOMAIN s /\ (s \o t)[i] = s[i]
                   \/ \E j \in DOMAIN t : (s \o t)[i] = t[j]
    BY Joined
  <2> QED
    BY <2>1, <2>2, <2>3, <2>4
<1>3. link' \in [Clients -> Seq(Sendable)]
  BY <1>1, <1>2, LinkShape DEF ScenarioInvariant
<1>4. LinkInv'
  <2>1. \A c, m : FromClient(c, m)' <=> FromClient(c, m)
    BY DEF FromClient, SessionOfClient, Order, Disconnect, Message
  <2>2. SUFFICES ASSUME NEW c \in Clients, NEW i \in DOMAIN link'[c]
                 PROVE  /\ FromClient(c, link'[c][i])
                        /\ link'[c][i].value = "CONNECTION_BROKEN" =>
                               i = Len(link'[c]) /\ up[c] # "up"
                        /\ link'[c][i].topic = "state" => ordered = Robots
    BY <2>1 DEF LinkInv
  <2>3. CASE c \notin speakers
    BY <1>1, <2>3 DEF ScenarioInvariant, LinkInv
  <2>4. CASE c \in speakers /\ i \in DOMAIN link[c] /\ link'[c][i] = link[c][i]
    <3>1. /\ FromClient(c, link[c][i])
          /\ link[c][i].value = "CONNECTION_BROKEN" => up[c] # "up"
          /\ link[c][i].topic = "state" => ordered = Robots
      BY <2>4 DEF ScenarioInvariant, LinkInv
    <3>2. up[c] = "up"
      BY <1>2, <2>4
    <3> QED
      BY <2>4, <3>1, <3>2
  <2>5. CASE c \in speakers /\ \E j \in DOMAIN output[c] : link'[c][i] = output[c][j]
    BY <2>5 DEF Speech
  <2> QED
    BY <1>2, <2>3, <2>4, <2>5
<1>5. BreakInv'
  <2>1. \A r \in Clients : up[r] # "up" => link'[r] = link[r]
    BY <1>1, <1>2
  <2>2. Victim \in Robots /\ Robots \subseteq Clients
    BY Numbers DEF ScenarioInvariant, TypeOK, Clients
  <2>3. /\ Growing' <=> Growing
        /\ Captured(Break)' <=> Captured(Break)
        /\ Fresh' <=> Fresh
        /\ \A j, r : BrokenIn(captured, j, r)' <=> BrokenIn(captured, j, r)
        /\ \A r : SessionOfClient(r)' = SessionOfClient(r)
    BY DEF Growing, MessageBudget, Captured, Break, Fresh, BrokenIn, SessionOfClient,
           Connection, Message
  <2>4. up[Victim] = "dead" => (BreakOnItsWay' <=> BreakOnItsWay)
    BY <2>1, <2>2 DEF BreakOnItsWay, Break, Connection, Message
  <2> QED
    BY <2>1, <2>2, <2>3, <2>4 DEF ScenarioInvariant, BreakInv
<1>6. OrderInv' /\ CaptureInv'
  BY OrderFrame, CaptureFrame DEF ScenarioInvariant
<1> QED
  BY <1>3, <1>4, <1>5, <1>6 DEF Sendable

LEMMA PublishKeeps ==
    ASSUME ScenarioInvariant,
           NEW stage, NEW next, NEW speakers \in SUBSET Clients, NEW output,
           Publish(stage, next, speakers, output),
           \A c \in speakers : up[c] = "up" => Speech(c, output[c]),
           \/ stage = "greet" /\ next = "orders"
           \/ stage \in {"moving", "drive"} /\ next = "drive"
           \/ stage = "drive" /\ next = "arrived"
           \/ stage = "arrived" /\ next = "crash"
           \/ stage = "report" /\ next = "count",
           sample' \in 1 .. job.samples + 1,
           next \in {"orders", "drive"} => sample' <= job.samples
    PROVE  ScenarioInvariant'
<1>1. /\ pc = stage /\ pc' = next
      /\ \A c \in speakers : Speech(c, output[c])
      /\ link' = [c \in Clients |->
                      IF c \in speakers THEN link[c] \o output[c] ELSE link[c]]
      /\ UNCHANGED <<job, up, session, ordered, recorderUp, captured, exceeded, faults>>
  BY DEF Publish
<1>2. pc' \notin Away
  BY <1>1 DEF Away
<1>3. /\ link' \in [Clients -> Seq(Messages \cup {Disconnect})]
      /\ LinkInv' /\ BreakInv' /\ OrderInv' /\ CaptureInv'
  BY <1>1, <1>2, PublishStep
<1>4. TypeOK'
  BY <1>1, <1>3 DEF ScenarioInvariant, TypeOK, Stages
<1>5. StageInv'
  BY <1>1 DEF ScenarioInvariant, StageInv, Starting, Driving, Away, Second
<1> QED
  BY <1>3, <1>4, <1>5 DEF ScenarioInvariant

(* The robots say one message each, of their first session. *)
LEMMA RobotsSpeak ==
    ASSUME ScenarioInvariant, pc \in {"greet", "moving", "drive", "arrived"},
           NEW r \in Robots, NEW m \in Messages, m.robot = r, m.session = 1,
           m.topic \in {"connection", "state", "visualization"},
           m.value # "CONNECTION_BROKEN", m.topic = "state" => pc # "greet", up[r] = "up"
    PROVE  Speech(r, <<m>>)
<1>1. session = 1
  BY DEF ScenarioInvariant, TypeOK, StageInv, Second
<1>2. FromClient(r, m)
  BY <1>1 DEF FromClient, SessionOfClient
<1>3. m.topic = "state" => ordered = Robots
  BY DEF ScenarioInvariant, StageInv
<1>4. <<m>> \in Seq(Messages) /\ \A i \in DOMAIN <<m>> : <<m>>[i] = m
  OBVIOUS
<1> QED
  BY <1>2, <1>3, <1>4 DEF Speech

LEMMA GreetKeeps == ScenarioInvariant /\ Greet => ScenarioInvariant'
<1> SUFFICES ASSUME ScenarioInvariant, Greet PROVE ScenarioInvariant'
  OBVIOUS
<1> DEFINE out == [c \in Clients |-> IF c = Fleet THEN [r \in Robots |-> Order(r)]
                                     ELSE <<Connection(c, 1, "ONLINE", 1)>>]
<1>0. /\ job.samples \in Nat \ {0} /\ NumRobots \in Nat /\ Robots = 1 .. NumRobots
      /\ Fleet \notin Robots
  BY Numbers DEF ScenarioInvariant, TypeOK, Robots
<1>1. Publish("greet", "orders", Clients, out) /\ sample' = sample /\ pc = "greet"
  BY DEF Greet, Publish
<1>2. sample \in 1 .. job.samples + 1 /\ sample <= job.samples
  BY <1>1 DEF ScenarioInvariant, TypeOK, StageInv, Driving
<1>3. ASSUME NEW c \in Clients, up[c] = "up" PROVE Speech(c, out[c])
  <2>1. CASE c = Fleet
    <3>1. [r \in Robots |-> Order(r)] \in [1 .. NumRobots -> Messages]
      BY <1>0, MessageTypes, 0 \in 0 .. 2
    <3>2. [r \in Robots |-> Order(r)] \in Seq(Messages)
      BY <1>0, <3>1, SeqDef
    <3>3. \A r \in Robots : /\ FromClient(Fleet, Order(r))
                            /\ Order(r).value # "CONNECTION_BROKEN"
                            /\ Order(r).topic # "state"
      BY DEF FromClient, Order, Message
    <3> QED
      BY <1>3, <2>1, <3>2, <3>3 DEF Speech
  <2>2. CASE c # Fleet
    <3> DEFINE m == Connection(c, 1, "ONLINE", 1)
    <3>1. c \in Robots
      BY <2>2 DEF Clients
    <3>2. m \in Messages
      BY <3>1, MessageTypes, 1 \in 0 .. 2
    <3>3. /\ m.robot = c /\ m.session = 1 /\ m.topic = "connection"
          /\ m.value # "CONNECTION_BROKEN"
      BY DEF Connection, Message
    <3>4. out[c] = <<m>>
      BY <2>2
    <3> HIDE DEF m, out
    <3>5. Speech(c, <<m>>)
      BY <1>1, <1>3, <3>1, <3>2, <3>3, RobotsSpeak
    <3> QED
      BY <3>4, <3>5
  <2> QED
    BY <2>1, <2>2
<1> HIDE DEF out
<1> QED
  BY <1>1, <1>2, <1>3, PublishKeeps

LEMMA RobotsReportKeep ==
    ASSUME ScenarioInvariant, ReportMoving \/ ReportArrived
    PROVE  ScenarioInvariant'
<1>0. job.samples \in Nat \ {0} /\ Robots \in SUBSET Clients
  BY Numbers DEF ScenarioInvariant, TypeOK, Clients
<1> DEFINE report(h, v) == [r \in Robots |-> <<State(r, h, v, 1)>>]
<1>1. PICK h \in {1, 2}, v \in {"moving", "arrived"} :
          /\ \/ Publish("moving", "drive", Robots, report(h, v)) /\ pc = "moving"
             \/ Publish("arrived", "crash", Robots, report(h, v)) /\ pc = "arrived"
          /\ sample' = sample
  <2>1. CASE ReportMoving
    BY <2>1 DEF ReportMoving, Publish
  <2>2. CASE ReportArrived
    BY <2>2 DEF ReportArrived, Publish
  <2> QED
    BY <2>1, <2>2
<1>2. sample \in 1 .. job.samples + 1 /\ (pc = "moving" => sample <= job.samples)
  BY DEF ScenarioInvariant, TypeOK, StageInv, Driving
<1> DEFINE out == report(h, v)
<1>3. ASSUME NEW c \in Robots, up[c] = "up" PROVE Speech(c, out[c])
  <2> DEFINE m == State(c, h, v, 1)
  <2>1. m \in Messages
    BY MessageTypes, 1 \in 0 .. 2
  <2>2. m.robot = c /\ m.session = 1 /\ m.topic = "state" /\ m.value # "CONNECTION_BROKEN"
    BY DEF State, Message
  <2>3. out[c] = <<m>>
    OBVIOUS
  <2> HIDE DEF m, out
  <2>4. Speech(c, <<m>>)
    BY <1>1, <1>3, <2>1, <2>2, RobotsSpeak
  <2> QED
    BY <2>3, <2>4
<1> HIDE DEF report
<1>4. CASE Publish("moving", "drive", Robots, out) /\ pc = "moving"
  BY <1>0, <1>1, <1>2, <1>3, <1>4, PublishKeeps
<1>5. CASE Publish("arrived", "crash", Robots, out) /\ pc = "arrived"
  BY <1>0, <1>1, <1>2, <1>3, <1>5, PublishKeeps
<1> QED
  BY <1>1, <1>4, <1>5

LEMMA DriveKeeps == ScenarioInvariant /\ Drive => ScenarioInvariant'
<1> SUFFICES ASSUME ScenarioInvariant, Drive PROVE ScenarioInvariant'
  OBVIOUS
<1>0. job.samples \in Nat \ {0} /\ Robots \in SUBSET Clients
  BY Numbers DEF ScenarioInvariant, TypeOK, Clients
<1> DEFINE next == IF sample = job.samples THEN "arrived" ELSE "drive"
           out == [r \in Robots |-> <<Visualization(r, sample)>>]
<1>1. Publish("drive", next, Robots, out) /\ sample' = sample + 1 /\ pc = "drive"
  BY DEF Drive, Publish
<1>2. sample \in 1 .. job.samples
  BY <1>0, <1>1 DEF ScenarioInvariant, TypeOK, StageInv, Driving
<1>3. sample' \in 1 .. job.samples + 1 /\ (next = "drive" => sample' <= job.samples)
      /\ next \in {"arrived", "drive"}
  BY <1>0, <1>1, <1>2
<1>4. ASSUME NEW c \in Robots, up[c] = "up" PROVE Speech(c, out[c])
  <2> DEFINE m == Visualization(c, sample)
  <2>1. m \in Messages
    BY <1>0, <1>2, MessageTypes, 1 \in 0 .. 2
  <2>2. /\ m.robot = c /\ m.session = 1 /\ m.topic = "visualization"
        /\ m.value # "CONNECTION_BROKEN"
    BY DEF Visualization, Message
  <2>3. out[c] = <<m>>
    OBVIOUS
  <2> HIDE DEF m, out
  <2>4. Speech(c, <<m>>)
    BY <1>1, <1>4, <2>1, <2>2, RobotsSpeak
  <2> QED
    BY <2>3, <2>4
<1> HIDE DEF next, out
<1> QED
  BY <1>0, <1>1, <1>3, <1>4, PublishKeeps

(* The victim says its second session's ONLINE, or not, and its request. *)
LEMMA RequestKeeps == ScenarioInvariant /\ ReportRequest => ScenarioInvariant'
<1> SUFFICES ASSUME ScenarioInvariant, ReportRequest PROVE ScenarioInvariant'
  OBVIOUS
<1>0. job.samples \in Nat \ {0} /\ Victim \in Robots /\ {Victim} \in SUBSET Clients
  BY Numbers DEF ScenarioInvariant, TypeOK, Clients
<1> DEFINE request == State(Victim, 3, "request", 2)
           said == Append(SecondOnline, request)
           out == [c \in {Victim} |-> said]
<1>1. Publish("report", "count", {Victim}, out) /\ sample' = sample /\ pc = "report"
  BY DEF ReportRequest, Publish
<1>2. sample \in 1 .. job.samples + 1 /\ session = 2 /\ ordered = Robots
  BY <1>1 DEF ScenarioInvariant, TypeOK, StageInv, Second
<1> DEFINE Said(m) == /\ m \in Messages /\ FromClient(Victim, m)
                      /\ m.value # "CONNECTION_BROKEN"
<1>3. Said(request) /\ Said(Connection(Victim, 3, "ONLINE", 2))
  <2>1. request \in Messages /\ Connection(Victim, 3, "ONLINE", 2) \in Messages
    BY <1>0, MessageTypes, 2 \in 0 .. 2
  <2>2. /\ FromClient(Victim, request)
        /\ FromClient(Victim, Connection(Victim, 3, "ONLINE", 2))
    BY <1>0, <1>2 DEF FromClient, SessionOfClient, State, Connection, Message
  <2>3. /\ request.value # "CONNECTION_BROKEN"
        /\ Connection(Victim, 3, "ONLINE", 2).value # "CONNECTION_BROKEN"
    BY DEF State, Connection, Message
  <2> QED
    BY <2>1, <2>2, <2>3
<1>4. said \in Seq(Messages) /\ \A i \in DOMAIN said : Said(said[i])
  <2> HIDE DEF request, Said
  <2>0. Said(request) => request \in Messages
    BY DEF Said
  <2>1. CASE SecondOnline = << >>
    <3>1. said = <<request>>
      BY <2>1
    <3> QED
      BY <1>3, <2>0, <3>1
  <2>2. CASE SecondOnline = <<Connection(Victim, 3, "ONLINE", 2)>>
    <3> DEFINE online == Connection(Victim, 3, "ONLINE", 2)
    <3>1. online \in Messages /\ request \in Messages /\ Said(online)
      BY <1>3, <2>0 DEF Said
    <3> HIDE DEF online
    <3>2. <<online>> \in Seq(Messages) /\ Len(<<online>>) = 1 /\ <<online>>[1] = online
      BY <3>1
    <3>3. /\ Append(<<online>>, request) \in Seq(Messages)
          /\ Len(Append(<<online>>, request)) = 1 + 1
          /\ \A i \in 1 .. 1 + 1 : Append(<<online>>, request)[i] =
                 IF i <= 1 THEN <<online>>[i] ELSE request
      BY <3>1, <3>2, AppendProperties
    <3>4. said = Append(<<online>>, request)
      BY <2>2 DEF online
    <3> HIDE DEF said
    <3>5. \A i \in DOMAIN said : said[i] = online \/ said[i] = request
      BY <3>2, <3>3, <3>4, LenProperties
    <3> QED
      BY <1>3, <3>1, <3>3, <3>4, <3>5
  <2> QED
    BY <2>1, <2>2 DEF SecondOnline
<1>5. ASSUME NEW c \in {Victim}, up[c] = "up" PROVE Speech(c, out[c])
  <2>1. out[c] = said /\ c = Victim
    BY <1>5
  <2> HIDE DEF out, said, request
  <2> QED
    BY <1>2, <1>4, <1>5, <2>1 DEF Speech
<1> HIDE DEF out
<1> QED
  BY <1>0, <1>1, <1>2, <1>5, PublishKeeps

-----------------------------------------------------------------------------
(* Connections end, and the victim's comes back *)

(* The connection of c ends without a DISCONNECT: the broker got k messages.  *)
LEMMA SeverStep ==
    ASSUME ScenarioInvariant, NEW c \in Clients, NEW k \in 0 .. Len(link[c]), up[c] = "up",
           NEW u \in {"none", "dead"}, up' = [up EXCEPT ![c] = u],
           link' = [link EXCEPT ![c] = Cut(c, k)],
           UNCHANGED <<job, session, ordered, recorderUp, captured>>,
           pc' \in Away => pc \in Away \/ c = Victim
    PROVE  /\ up' \in [Clients -> {"none", "up", "dead"}]
           /\ link' \in [Clients -> Seq(Messages \cup {Disconnect})]
           /\ LinkInv' /\ BreakInv' /\ OrderInv' /\ CaptureInv'
<1>0. /\ Victim \in Robots /\ Robots \subseteq Clients /\ Fleet \notin Robots
      /\ session \in {1, 2} /\ \A r \in Robots : SessionOfClient(r) \in {1, 2}
  BY Numbers, SessionType DEF ScenarioInvariant, TypeOK, Clients
<1>1. /\ link \in [Clients -> Seq(Sendable)]
      /\ up \in [Clients -> {"none", "up", "dead"}]
      /\ link[c] \in Seq(Sendable) /\ Len(link[c]) \in Nat
      /\ DOMAIN link[c] = 1 .. Len(link[c])
  BY LinkShape DEF ScenarioInvariant, TypeOK, Sendable
<1> DEFINE got == SubSeq(link[c], 1, k)
           rest == IF c = Fleet THEN << >> ELSE <<Will(c)>>
<1>2. /\ got \in Seq(Sendable)
      /\ \A i \in DOMAIN got : i \in DOMAIN link[c] /\ got[i] = link[c][i]
  <2>1. k \in Int /\ 1 \in Int /\ \A i \in 1 .. k : link[c][i] \in Sendable
    BY <1>1, ElementOfSeq
  <2>2. /\ got \in Seq(Sendable)
        /\ Len(got) = IF 1 <= k THEN k - 1 + 1 ELSE 0
        /\ \A i \in 1 .. k - 1 + 1 : got[i] = link[c][1 + i - 1]
    BY <2>1, SubSeqProperties
  <2>3. Len(got) = k /\ DOMAIN got = 1 .. k
    BY <2>2, LenProperties
  <2> QED
    BY <1>1, <2>2, <2>3
<1>3. /\ rest \in Seq(Sendable)
      /\ \/ rest = << >> /\ c = Fleet
         \/ rest = <<Will(c)>> /\ c \in Robots
      /\ c \in Robots => /\ Will(c) \in Messages /\ FromClient(c, Will(c))
                         /\ Will(c).topic = "connection"
  <2>1. ASSUME c \in Robots
        PROVE  /\ Will(c) \in Messages /\ FromClient(c, Will(c))
               /\ Will(c).topic = "connection"
    <3>1. SessionOfClient(c) \in 0 .. 2
      BY <1>0, <2>1
    <3>2. Will(c) \in Messages
      BY <2>1, <3>1, MessageTypes DEF Will
    <3> QED
      BY <2>1, <3>2 DEF Will, FromClient, Connection, Message
  <2>2. CASE c = Fleet
    <3>1. rest = << >> /\ << >> \in Seq(Sendable)
      BY <2>2
    <3> QED
      BY <1>0, <2>2, <3>1
  <2>3. CASE c \in Robots
    <3>1. rest = <<Will(c)>> /\ Will(c) \in Sendable
      BY <1>0, <2>1, <2>3 DEF Sendable
    <3> HIDE DEF rest
    <3> QED
      BY <2>1, <2>3, <3>1
  <2> QED
    BY <2>2, <2>3 DEF Clients
<1>4. /\ link' = [link EXCEPT ![c] = got \o rest]
      /\ got \o rest \in Seq(Sendable)
  <2>1. \A s, t \in Seq(Sendable) : s \o t \in Seq(Sendable)
    BY Joined
  <2> QED
    BY <1>2, <1>3, <2>1 DEF Cut
<1>5. /\ \A i \in DOMAIN (got \o rest) :
             \/ i \in DOMAIN link[c] /\ (got \o rest)[i] = link[c][i]
             \/ i = Len(got \o rest) /\ c \in Robots /\ (got \o rest)[i] = Will(c)
      /\ c \in Robots => got \o rest # << >> /\ (got \o rest)[Len(got \o rest)] = Will(c)
  <2> HIDE DEF got, rest
  <2>1. CASE rest = << >>
    <3>1. got \o rest = got
      BY <1>2, <2>1, ConcatEmptySeq
    <3> QED
      BY <1>0, <1>2, <1>3, <2>1, <3>1
  <2>2. CASE rest = <<Will(c)>> /\ c \in Robots
    <3>0. rest \in Seq(Sendable) /\ got \in Seq(Sendable) /\ Len(rest) = 1
          /\ rest[1] = Will(c)
      BY <1>2, <1>3, <2>2
    <3>1. /\ got \o rest \in Seq(Sendable) /\ Len(got \o rest) = Len(got) + Len(rest)
          /\ \A i \in 1 .. Len(got) + Len(rest) : (got \o rest)[i] =
                 IF i <= Len(got) THEN got[i] ELSE rest[i - Len(got)]
      BY <3>0, ConcatProperties
    <3>2. Len(got) \in Nat /\ DOMAIN got = 1 .. Len(got)
          /\ DOMAIN (got \o rest) = 1 .. Len(got) + 1 /\ Len(got \o rest) = Len(got) + 1
      BY <3>0, <3>1, LenProperties
    <3>3. (got \o rest)[Len(got) + 1] = Will(c)
          /\ \A i \in 1 .. Len(got) : (got \o rest)[i] = got[i]
      BY <3>0, <3>1, <3>2
    <3>4. got \o rest # << >>
      BY <3>2
    <3> QED
      BY <1>2, <2>2, <3>2, <3>3, <3>4
  <2> QED
    BY <1>3, <2>1, <2>2
<1> HIDE DEF got, rest
<1>6. /\ up' \in [Clients -> {"none", "up", "dead"}]
      /\ link' \in [Clients -> Seq(Sendable)]
      /\ link'[c] = got \o rest /\ up'[c] = u
      /\ \A d \in Clients \ {c} : link'[d] = link[d] /\ up'[d] = up[d]
  BY <1>1, <1>4
<1>7. LinkInv'
  <2>1. \A d, m : FromClient(d, m)' <=> FromClient(d, m)
    BY DEF FromClient, SessionOfClient, Order, Disconnect, Message
  <2>2. SUFFICES ASSUME NEW d \in Clients, NEW i \in DOMAIN link'[d]
                 PROVE  /\ FromClient(d, link'[d][i])
                        /\ link'[d][i].value = "CONNECTION_BROKEN" =>
                               i = Len(link'[d]) /\ up'[d] # "up"
                        /\ link'[d][i].topic = "state" => ordered = Robots
    BY <2>1 DEF LinkInv
  <2>3. CASE d # c
    <3>1. link'[d] = link[d] /\ up'[d] = up[d]
      BY <1>6, <2>3
    <3> QED
      BY <3>1 DEF ScenarioInvariant, LinkInv
  <2>4. CASE d = c /\ i \in DOMAIN link[c] /\ link'[d][i] = link[c][i]
    <3>1. /\ FromClient(c, link[c][i])
          /\ link[c][i].value = "CONNECTION_BROKEN" => up[c] # "up"
          /\ link[c][i].topic = "state" => ordered = Robots
      BY <2>4 DEF ScenarioInvariant, LinkInv
    <3> QED
      BY <2>4, <3>1
  <2>5. CASE d = c /\ i = Len(link'[c]) /\ c \in Robots /\ link'[d][i] = Will(c)
    BY <1>3, <1>6, <2>5
  <2> QED
    BY <1>5, <1>6, <2>3, <2>4, <2>5
<1>8. BreakInv'
  <2>1. /\ Growing' <=> Growing
        /\ Captured(Break)' <=> Captured(Break)
        /\ Fresh' <=> Fresh
        /\ \A j, r : BrokenIn(captured, j, r)' <=> BrokenIn(captured, j, r)
        /\ \A r : SessionOfClient(r)' = SessionOfClient(r)
    BY DEF Growing, MessageBudget, Captured, Break, Fresh, BrokenIn, SessionOfClient,
           Connection, Message
  <2>2. session = 2 /\ Growing => Captured(Break)
    BY DEF ScenarioInvariant, BreakInv
  <2>3. ASSUME c = Victim, session = 1 PROVE BreakOnItsWay'
    <3>1. Will(Victim) = Break
      BY <2>3 DEF Will, SessionOfClient, Break
    <3>2. link'[Victim] # << >> /\ link'[Victim][Len(link'[Victim])] = Break
      BY <1>0, <1>5, <1>6, <2>3, <3>1
    <3> QED
      BY <3>2 DEF BreakOnItsWay, Break, Connection, Message
  <2>4. ASSUME c # Victim, up'[Victim] = "dead" \/ pc' \in Away, session = 1, Growing
        PROVE  Captured(Break) \/ BreakOnItsWay'
    <3>1. link'[Victim] = link[Victim] /\ up'[Victim] = up[Victim]
      BY <1>0, <1>6, <2>4
    <3>2. Captured(Break) \/ BreakOnItsWay
      BY <2>4, <3>1 DEF ScenarioInvariant, BreakInv
    <3> QED
      BY <3>1, <3>2 DEF BreakOnItsWay, Break, Connection, Message
  <2>5. ASSUME Fresh, NEW r \in Robots, SessionOfClient(r) = 1,
               \E j \in DOMAIN captured : BrokenIn(captured, j, r)
        PROVE  link'[r] = << >> /\ up'[r] # "up"
    <3>1. link[r] = << >> /\ up[r] # "up"
      BY <2>5 DEF ScenarioInvariant, BreakInv
    <3>2. r # c /\ r \in Clients
      BY <1>0, <3>1
    <3> QED
      BY <1>6, <3>1, <3>2
  <2> QED
    BY <2>1, <2>2, <2>3, <2>4, <2>5 DEF BreakInv
<1>9. OrderInv' /\ CaptureInv'
  BY OrderFrame, CaptureFrame DEF ScenarioInvariant
<1> QED
  BY <1>6, <1>7, <1>8, <1>9 DEF Sendable

(* The client of c is stopped: when its worker had stopped before nothing more *)
(* is sent; otherwise a DISCONNECT ends the link.                              *)
LEMMA StopStep ==
    ASSUME ScenarioInvariant, NEW c \in Clients, up[c] # "none",
           up' = [up EXCEPT ![c] = "none"],
           link' = [link EXCEPT ![c] = IF up[c] = "up" THEN Append(@, Disconnect) ELSE @],
           UNCHANGED <<job, session, ordered, recorderUp, captured>>,
           pc' \in Away => pc \in Away \/ (c = Victim /\ up[c] = "dead")
    PROVE  /\ up' \in [Clients -> {"none", "up", "dead"}]
           /\ link' \in [Clients -> Seq(Messages \cup {Disconnect})]
           /\ LinkInv' /\ BreakInv' /\ OrderInv' /\ CaptureInv'
<1>0. /\ Victim \in Clients /\ Robots \subseteq Clients
      /\ link \in [Clients -> Seq(Sendable)]
      /\ up \in [Clients -> {"none", "up", "dead"}]
      /\ link[c] \in Seq(Sendable) /\ Len(link[c]) \in Nat
      /\ DOMAIN link[c] = 1 .. Len(link[c]) /\ Disconnect \in Sendable
  BY Numbers, LinkShape DEF ScenarioInvariant, TypeOK, Sendable, Clients
<1>1. LET longer == Append(link[c], Disconnect)
      IN  /\ longer \in Seq(Sendable)
          /\ DOMAIN longer = 1 .. Len(link[c]) + 1
          /\ \A i \in 1 .. Len(link[c]) : longer[i] = link[c][i]
          /\ longer[Len(link[c]) + 1] = Disconnect
  BY <1>0, AppendProperties, LenProperties
<1>2. /\ up' \in [Clients -> {"none", "up", "dead"}]
      /\ link' \in [Clients -> Seq(Sendable)] /\ up'[c] = "none"
      /\ up[c] # "up" => link' = link
      /\ up[c] = "up" => link'[c] = Append(link[c], Disconnect)
      /\ \A d \in Clients \ {c} : link'[d] = link[d] /\ up'[d] = up[d]
  <2>1. CASE up[c] = "up"
    BY <1>0, <1>1, <2>1
  <2>2. CASE up[c] # "up"
    BY <1>0, <2>2
  <2> QED
    BY <2>1, <2>2
<1>3. LinkInv'
  <2>1. \A d, m : FromClient(d, m)' <=> FromClient(d, m)
    BY DEF FromClient, SessionOfClient, Order, Disconnect, Message
  <2>2. SUFFICES ASSUME NEW d \in Clients, NEW i \in DOMAIN link'[d]
                 PROVE  /\ FromClient(d, link'[d][i])
                        /\ link'[d][i].value = "CONNECTION_BROKEN" =>
                               i = Len(link'[d]) /\ up'[d] # "up"
                        /\ link'[d][i].topic = "state" => ordered = Robots
    BY <2>1 DEF LinkInv
  <2>3. CASE link'[d] = link[d]
    <3>1. up'[d] = "up" => up[d] = "up"
      BY <1>2
    <3> QED
      BY <2>3, <3>1 DEF ScenarioInvariant, LinkInv
  <2>4. CASE d = c /\ up[c] = "up"
    <3>1. link'[c] = Append(link[c], Disconnect)
      BY <1>2, <2>4
    <3>2. CASE i \in DOMAIN link[c] /\ link'[c][i] = link[c][i]
      <4>1. /\ FromClient(c, link[c][i])
            /\ link[c][i].value = "CONNECTION_BROKEN" => up[c] # "up"
            /\ link[c][i].topic = "state" => ordered = Robots
        BY <3>2 DEF ScenarioInvariant, LinkInv
      <4> QED
        BY <2>4, <3>2, <4>1
    <3>3. CASE link'[c][i] = Disconnect
      <4>1. FromClient(d, Disconnect)
        BY DEF FromClient
      <4>2. Disconnect.value # "CONNECTION_BROKEN" /\ Disconnect.topic # "state"
        BY DEF Disconnect, Message
      <4>3. link'[d][i] = Disconnect
        BY <2>4, <3>3
      <4> QED
        BY <4>1, <4>2, <4>3
    <3> QED
      BY <1>0, <1>1, <2>4, <3>1, <3>2, <3>3
  <2> QED
    BY <1>2, <2>3, <2>4
<1>4. BreakInv'
  <2>1. /\ Growing' <=> Growing
        /\ Captured(Break)' <=> Captured(Break)
        /\ Fresh' <=> Fresh
        /\ \A j, r : BrokenIn(captured, j, r)' <=> BrokenIn(captured, j, r)
        /\ \A r : SessionOfClient(r)' = SessionOfClient(r)
    BY DEF Growing, MessageBudget, Captured, Break, Fresh, BrokenIn, SessionOfClient,
           Connection, Message
  <2>2. session = 2 /\ Growing => Captured(Break)
    BY DEF ScenarioInvariant, BreakInv
  <2>3. ASSUME up'[Victim] = "dead" \/ pc' \in Away, session = 1, Growing
        PROVE  Captured(Break) \/ BreakOnItsWay'
    <3>1. link'[Victim] = link[Victim]
      <4>1. CASE c # Victim
        BY <1>0, <1>2, <4>1
      <4>2. CASE c = Victim
        <5>1. pc' \in Away /\ up[c] # "up"
          <6>1. up'[Victim] # "dead"
            BY <1>2, <4>2
          <6>2. pc \in Away => up[Victim] = "none"
            BY DEF ScenarioInvariant, StageInv
          <6> QED
            BY <2>3, <4>2, <6>1, <6>2
        <5> QED
          BY <1>2, <5>1
      <4> QED
        BY <4>1, <4>2
    <3>2. up[Victim] = "dead" \/ pc \in Away
      <4>1. CASE c = Victim
        <5>1. up'[Victim] # "dead"
          BY <1>2, <4>1
        <5> QED
          BY <2>3, <4>1, <5>1
      <4>2. CASE c # Victim
        <5>1. up'[Victim] = up[Victim]
          BY <1>0, <1>2, <4>2
        <5> QED
          BY <2>3, <4>2, <5>1
      <4> QED
        BY <4>1, <4>2
    <3>3. Captured(Break) \/ BreakOnItsWay
      BY <2>3, <3>2 DEF ScenarioInvariant, BreakInv
    <3> QED
      BY <3>1, <3>3 DEF BreakOnItsWay, Break, Connection, Message
  <2>4. ASSUME Fresh, NEW r \in Robots, SessionOfClient(r) = 1,
               \E j \in DOMAIN captured : BrokenIn(captured, j, r)
        PROVE  link'[r] = << >> /\ up'[r] # "up"
    <3>1. link[r] = << >> /\ up[r] # "up" /\ r \in Clients
      BY <1>0, <2>4 DEF ScenarioInvariant, BreakInv
    <3>2. CASE r = c
      BY <1>2, <3>1, <3>2
    <3>3. CASE r # c
      BY <1>2, <3>1, <3>3
    <3> QED
      BY <3>2, <3>3
  <2> QED
    BY <2>1, <2>2, <2>3, <2>4 DEF BreakInv
<1>5. OrderInv' /\ CaptureInv'
  BY OrderFrame, CaptureFrame DEF ScenarioInvariant
<1> QED
  BY <1>2, <1>3, <1>4, <1>5 DEF Sendable

LEMMA ConnectionLostKeeps ==
    ASSUME ScenarioInvariant, NEW c \in Clients, ConnectionLost(c)
    PROVE  ScenarioInvariant'
<1>0. /\ job.samples \in Nat \ {0} /\ job.faults \in Nat /\ faults \in 0 .. job.faults
      /\ Victim \in Clients /\ Robots \subseteq Clients
  BY Numbers DEF ScenarioInvariant, TypeOK, Clients
<1>1. PICK k \in 0 .. Len(link[c]) :
          /\ link' = [link EXCEPT ![c] = Cut(c, k)] /\ up[c] = "up"
          /\ up' = [up EXCEPT ![c] = "dead"]
          /\ UNCHANGED <<job, pc, sample, session, ordered, recorderUp, captured, exceeded>>
  BY DEF ConnectionLost
<1>2. faults' \in 0 .. job.faults
  BY <1>0 DEF ConnectionLost, MayFault
<1>3. /\ up' \in [Clients -> {"none", "up", "dead"}]
      /\ link' \in [Clients -> Seq(Messages \cup {Disconnect})]
      /\ LinkInv' /\ BreakInv' /\ OrderInv' /\ CaptureInv'
  BY <1>1, SeverStep
<1>4. TypeOK'
  BY <1>1, <1>2, <1>3 DEF ScenarioInvariant, TypeOK
<1>5. StageInv'
  <2>1. up \in [Clients -> {"none", "up", "dead"}]
    BY DEF ScenarioInvariant, TypeOK
  <2>2. \A d \in Clients : up'[d] = "none" <=> up[d] = "none"
    BY <1>1, <2>1
  <2>3. pc \in Starting => \A d \in Clients : link'[d] = link[d]
    <3> SUFFICES ASSUME pc \in Starting PROVE \A d \in Clients : link'[d] = link[d]
      OBVIOUS
    <3>1. c = Fleet /\ link[c] = << >>
      BY <1>1 DEF ScenarioInvariant, StageInv, Clients
    <3>2. Cut(c, k) = << >>
      <4>1. k = 0
        BY <1>1, <3>1
      <4>2. SubSeq(<< >>, 1, 0) = << >>
        BY SubSeqEmpty
      <4> QED
        BY <3>1, <4>1, <4>2, ConcatEmptySeq DEF Cut
    <3> QED
      BY <1>1, <3>1, <3>2 DEF ScenarioInvariant, TypeOK
  <2> QED
    BY <1>0, <1>1, <2>2, <2>3 DEF ScenarioInvariant, StageInv, Starting, Driving, Away,
                                  Second, Fresh
<1> QED
  BY <1>3, <1>4, <1>5 DEF ScenarioInvariant

LEMMA CrashKeeps == ScenarioInvariant /\ Crash => ScenarioInvariant'
<1> SUFFICES ASSUME ScenarioInvariant, Crash PROVE ScenarioInvariant'
  OBVIOUS
<1>0. /\ job.samples \in Nat \ {0} /\ Victim \in Clients
      /\ up \in [Clients -> {"none", "up", "dead"}] /\ Len(link[Victim]) \in Nat
      /\ link \in [Clients -> Seq(Messages \cup {Disconnect})]
  BY Numbers, LinkShape DEF ScenarioInvariant, TypeOK, Clients
<1>1. /\ pc = "crash" /\ pc' = "broken" /\ up' = [up EXCEPT ![Victim] = "none"]
      /\ UNCHANGED <<job, sample, session, ordered, recorderUp, captured, exceeded, faults>>
  BY DEF Crash
<1>2. /\ up' \in [Clients -> {"none", "up", "dead"}]
      /\ link' \in [Clients -> Seq(Messages \cup {Disconnect})]
      /\ LinkInv' /\ BreakInv' /\ OrderInv' /\ CaptureInv'
  <2>1. CASE up[Victim] = "up"
    <3>1. PICK k \in 0 .. Len(link[Victim]) :
              link' = [link EXCEPT ![Victim] = Cut(Victim, k)]
      BY <1>0, <2>1 DEF Crash, Flushed
    <3> QED
      BY <1>0, <1>1, <2>1, <3>1, SeverStep
  <2>2. CASE up[Victim] # "up"
    <3>1. up[Victim] = "dead"
      BY <1>0, <1>1, <2>2 DEF ScenarioInvariant, StageInv, Driving
    <3>2. link' = [link EXCEPT ![Victim] = IF up[Victim] = "up"
                                           THEN Append(@, Disconnect) ELSE @]
      BY <1>0, <2>2 DEF Crash
    <3> QED
      BY <1>0, <1>1, <3>1, <3>2, StopStep
  <2> QED
    BY <2>1, <2>2
<1>3. TypeOK'
  BY <1>1, <1>2 DEF ScenarioInvariant, TypeOK, Stages
<1>4. StageInv'
  <2>1. up'[Victim] = "none"
    BY <1>0, <1>1
  <2> QED
    BY <1>1, <2>1 DEF ScenarioInvariant, StageInv, Starting, Driving, Away, Second
<1> QED
  BY <1>2, <1>3, <1>4 DEF ScenarioInvariant

LEMMA ShutdownKeeps ==
    ASSUME ScenarioInvariant, NEW c \in Clients, Shutdown(c), pc' \in {"shutdown", "verdict"}
    PROVE  ScenarioInvariant'
<1>1. /\ pc = "shutdown" /\ up[c] # "none" /\ up' = [up EXCEPT ![c] = "none"]
      /\ UNCHANGED <<job, sample, session, ordered, recorderUp, captured, exceeded, faults>>
      /\ pc' \notin Away
  BY DEF Shutdown, Away
<1>2. /\ up' \in [Clients -> {"none", "up", "dead"}]
      /\ link' \in [Clients -> Seq(Messages \cup {Disconnect})]
      /\ LinkInv' /\ BreakInv' /\ OrderInv' /\ CaptureInv'
  <2>1. CASE link' = [link EXCEPT ![c] = IF up[c] = "up" THEN Append(@, Disconnect) ELSE @]
    BY <1>1, <2>1, StopStep
  <2>2. CASE up[c] = "up" /\ \E k \in 0 .. Len(link[c]) :
                                 link' = [link EXCEPT ![c] = Cut(c, k)]
    <3>1. PICK k \in 0 .. Len(link[c]) : link' = [link EXCEPT ![c] = Cut(c, k)]
      BY <2>2
    <3> QED
      BY <1>1, <2>2, <3>1, SeverStep
  <2> QED
    BY <2>1, <2>2 DEF Shutdown
<1>3. TypeOK'
  BY <1>1, <1>2 DEF ScenarioInvariant, TypeOK, Stages
<1>4. StageInv'
  BY <1>1 DEF ScenarioInvariant, StageInv, Starting, Driving, Away, Second
<1> QED
  BY <1>2, <1>3, <1>4 DEF ScenarioInvariant

LEMMA ReconnectKeeps == ScenarioInvariant /\ Reconnect => ScenarioInvariant'
<1> SUFFICES ASSUME ScenarioInvariant, Reconnect PROVE ScenarioInvariant'
  OBVIOUS
<1>0. /\ job.samples \in Nat \ {0} /\ Victim \in Clients /\ Robots \subseteq Clients
      /\ up \in [Clients -> {"none", "up", "dead"}] /\ session \in {1, 2}
  BY Numbers DEF ScenarioInvariant, TypeOK, Clients
<1>1. /\ pc = "reconnect" /\ link[Victim] = << >> /\ pc' = "report" /\ session' = 2
      /\ up' = [up EXCEPT ![Victim] = "up"]
      /\ UNCHANGED <<job, sample, link, ordered, recorderUp, captured, exceeded, faults>>
      /\ session = 1
  BY <1>0 DEF Reconnect, ScenarioInvariant, StageInv, Second
<1>2. /\ up' \in [Clients -> {"none", "up", "dead"}] /\ up'[Victim] = "up"
      /\ \A d \in Clients \ {Victim} : up'[d] = up[d] /\ SessionOfClient(d)' = SessionOfClient(d)
  BY <1>0, <1>1 DEF SessionOfClient
<1>3. TypeOK'
  BY <1>1, <1>2 DEF ScenarioInvariant, TypeOK, Stages
<1>4. LinkInv'
  <2>1. SUFFICES ASSUME NEW c \in Clients, NEW i \in DOMAIN link[c]
                 PROVE  /\ FromClient(c, link[c][i])'
                        /\ link[c][i].value = "CONNECTION_BROKEN" =>
                               i = Len(link[c]) /\ up'[c] # "up"
                        /\ link[c][i].topic = "state" => ordered = Robots
    BY <1>1 DEF LinkInv
  <2>2. c # Victim
    BY <1>1
  <2>3. FromClient(c, link[c][i]) => FromClient(c, link[c][i])'
    BY <1>1, <1>2, <2>2 DEF FromClient, Order, Disconnect, Message
  <2> QED
    BY <1>2, <2>2, <2>3 DEF ScenarioInvariant, LinkInv
<1>5. StageInv'
  BY <1>1 DEF ScenarioInvariant, StageInv, Starting, Driving, Away, Second
<1>6. BreakInv'
  <2>1. Growing' <=> Growing
    BY <1>1 DEF Growing, MessageBudget
  <2>2. Growing => Captured(Break)'
    BY <1>1 DEF ScenarioInvariant, BreakInv, BreakOnItsWay, Captured, Away, Break,
                Connection, Message
  <2>3. ASSUME Fresh', NEW r \in Robots, SessionOfClient(r)' = 1,
               \E j \in DOMAIN captured' : BrokenIn(captured, j, r)'
        PROVE  link'[r] = << >> /\ up'[r] # "up"
    <3>1. r # Victim
      BY <1>1, <2>3 DEF SessionOfClient
    <3>2. SessionOfClient(r) = 1 /\ r \in Clients
      BY <1>0, <1>2, <2>3, <3>1
    <3>3. Fresh /\ \E j \in DOMAIN captured : BrokenIn(captured, j, r)
      BY <1>1, <2>3 DEF Fresh, BrokenIn
    <3>4. link[r] = << >> /\ up[r] # "up"
      BY <3>2, <3>3 DEF ScenarioInvariant, BreakInv
    <3> QED
      BY <1>1, <1>2, <3>1, <3>2, <3>4
  <2> QED
    BY <1>1, <2>1, <2>2, <2>3 DEF BreakInv
<1>7. OrderInv' /\ CaptureInv'
  BY <1>1, OrderFrame, CaptureFrame DEF ScenarioInvariant
<1> QED
  BY <1>3, <1>4, <1>5, <1>6, <1>7 DEF ScenarioInvariant

-----------------------------------------------------------------------------
(* The broker routes the head of a link *)

(* What is left of the link, and who may have lost what. *)
LEMMA RouteShape ==
    ASSUME ScenarioInvariant, NEW c \in Clients, Route(c)
    PROVE  /\ link \in [Clients -> Seq(Sendable)] /\ link[c] # << >>
           /\ DOMAIN link[c] = 1 .. Len(link[c]) /\ Len(link[c]) \in Nat \ {0}
           /\ Head(link[c]) = link[c][1] /\ link[c][1] \in Sendable
           /\ link' \in [Clients -> Seq(Sendable)]
           /\ \A d \in Clients \ {c} : link'[d] = link[d]
           /\ Len(link'[c]) = Len(link[c]) - 1
           /\ DOMAIN link'[c] = 1 .. Len(link[c]) - 1
           /\ \A i \in 1 .. Len(link[c]) - 1 : link'[c][i] = link[c][i + 1]
           /\ Len(link[c]) = 1 => link'[c] = << >>
           /\ UNCHANGED <<job, pc, sample, up, session, recorderUp>>
<1>1. /\ link \in [Clients -> Seq(Sendable)] /\ link[c] # << >>
      /\ link[c] \in Seq(Sendable) /\ Len(link[c]) \in Nat
      /\ DOMAIN link[c] = 1 .. Len(link[c])
      /\ link' = [link EXCEPT ![c] = Tail(link[c])]
      /\ UNCHANGED <<job, pc, sample, up, session, recorderUp>>
  BY LinkShape DEF ScenarioInvariant, TypeOK, Sendable, Route
<1>2. Len(link[c]) # 0
  BY <1>1, EmptySeq
<1>3. /\ Tail(link[c]) \in Seq(Sendable) /\ Len(Tail(link[c])) = Len(link[c]) - 1
      /\ \A i \in 1 .. Len(Tail(link[c])) : Tail(link[c])[i] = link[c][i + 1]
  BY <1>1, HeadTailProperties
<1>4. DOMAIN Tail(link[c]) = 1 .. Len(link[c]) - 1
  BY <1>3, LenProperties
<1>5. Head(link[c]) = link[c][1] /\ link[c][1] \in Sendable
  <2>1. 1 \in 1 .. Len(link[c])
    BY <1>1, <1>2
  <2> QED
    BY <1>1, <2>1, ElementOfSeq
<1>6. Len(link[c]) = 1 => Tail(link[c]) = << >>
  BY <1>3, EmptySeq
<1>7. link' \in [Clients -> Seq(Sendable)] /\ link'[c] = Tail(link[c])
      /\ \A d \in Clients \ {c} : link'[d] = link[d]
  BY <1>1, <1>3
<1> QED
  BY <1>1, <1>2, <1>3, <1>4, <1>5, <1>6, <1>7

LEMMA RouteOutcome ==
    ASSUME ScenarioInvariant, NEW c \in Clients, Route(c)
    PROVE  LET m == link[c][1]
           IN  /\ faults' \in 0 .. job.faults /\ exceeded' \in BOOLEAN
               /\ \/ captured' = captured
                  \/ /\ captured' = Append(captured, m) /\ Growing /\ m \in Messages
                     /\ m # Disconnect
               /\ \/ ordered' = ordered
                  \/ ordered' = ordered \cup {m.robot} /\ m.topic = "order" /\ m \in Messages
               /\ m # Disconnect /\ Growing /\ (m.topic = "connection" \/ job.faults = 0) =>
                      captured' = Append(captured, m)
               /\ m = Disconnect => captured' = captured /\ ordered' = ordered
<1> DEFINE m == link[c][1]
<1>0. /\ Head(link[c]) = m /\ m \in Sendable
      /\ job.faults \in Nat /\ faults \in 0 .. job.faults /\ exceeded \in BOOLEAN
      /\ MessageBudget \in Nat /\ Len(captured) \in Nat
      /\ UNCHANGED <<job, recorderUp>>
  BY RouteShape, Numbers, LenProperties DEF ScenarioInvariant, TypeOK
<1>1. CASE m = Disconnect
  <2>1. UNCHANGED <<captured, exceeded, ordered, faults>>
    BY <1>0, <1>1 DEF Route
  <2> QED
    BY <1>0, <1>1, <2>1
<1>2. CASE m # Disconnect
  <2>1. m \in Messages
    BY <1>0, <1>2 DEF Sendable
  <2>2. PICK missed \in MayMiss(m) :
            /\ Capture(m, missed) /\ Inbox(m, missed)
            /\ faults' = IF missed = "nobody" THEN faults ELSE faults + 1
    BY <1>0, <1>2 DEF Route, Deliver
  <2>3. m.topic = "connection" \/ job.faults = 0 => missed = "nobody"
    BY <1>0, <2>2 DEF MayMiss, MayFault
  <2>4. faults' \in 0 .. job.faults
    BY <1>0, <2>2 DEF MayMiss, MayFault
  <2>5. /\ \/ captured' = captured
           \/ captured' = Append(captured, m) /\ Growing
        /\ exceeded' \in BOOLEAN
        /\ Growing /\ missed = "nobody" => captured' = Append(captured, m)
    <3>1. CASE missed = "recorder" \/ ~recorderUp
      BY <1>0, <2>2, <3>1 DEF Capture, Growing
    <3>2. CASE ~(missed = "recorder" \/ ~recorderUp) /\ Len(captured) >= MessageBudget
      <4>1. exceeded' = TRUE /\ captured' = captured
        BY <2>2, <3>2 DEF Capture
      <4>2. ~Growing
        BY <1>0, <3>2 DEF Growing
      <4> QED
        BY <4>1, <4>2
    <3>3. CASE ~(missed = "recorder" \/ ~recorderUp) /\ ~(Len(captured) >= MessageBudget)
      <4>1. exceeded' = exceeded /\ captured' = Append(captured, m)
        BY <2>2, <3>3 DEF Capture
      <4>2. Len(captured) < MessageBudget
        BY <1>0, <3>3
      <4> QED
        BY <1>0, <3>3, <4>1, <4>2 DEF Growing
    <3> QED
      BY <3>1, <3>2, <3>3
  <2>6. ordered' = ordered \/ (ordered' = ordered \cup {m.robot} /\ m.topic = "order")
    BY <2>2 DEF Inbox
  <2> QED
    BY <1>2, <2>1, <2>3, <2>4, <2>5, <2>6
<1> QED
  BY <1>1, <1>2

LEMMA RouteKeepsLinks ==
    ASSUME ScenarioInvariant, NEW c \in Clients, Route(c)
    PROVE  LinkInv' /\ StageInv' /\ TypeOK'
<1> DEFINE m == link[c][1]
<1>0. /\ link \in [Clients -> Seq(Sendable)] /\ link[c] # << >>
      /\ DOMAIN link[c] = 1 .. Len(link[c]) /\ Len(link[c]) \in Nat \ {0}
      /\ link' \in [Clients -> Seq(Sendable)]
      /\ \A d \in Clients \ {c} : link'[d] = link[d]
      /\ Len(link'[c]) = Len(link[c]) - 1 /\ DOMAIN link'[c] = 1 .. Len(link[c]) - 1
      /\ \A i \in 1 .. Len(link[c]) - 1 : link'[c][i] = link[c][i + 1]
      /\ UNCHANGED <<job, pc, sample, up, session, recorderUp>>
  BY RouteShape
<1>1. /\ faults' \in 0 .. job.faults /\ exceeded' \in BOOLEAN
      /\ captured' = captured \/ (captured' = Append(captured, m) /\ m \in Messages)
      /\ ordered' = ordered \/ (ordered' = ordered \cup {m.robot} /\ m \in Messages)
  BY RouteOutcome
<1> HIDE DEF m
<1>2. ordered' \in SUBSET Robots /\ (ordered = Robots => ordered' = Robots)
  <2>1. m \in Messages => m.robot \in Robots
    BY DEF Messages
  <2>2. ordered \in SUBSET Robots
    BY DEF ScenarioInvariant, TypeOK
  <2> QED
    BY <1>1, <2>1, <2>2
<1>3. captured' \in Seq(Messages)
  <2>1. captured \in Seq(Messages)
    BY DEF ScenarioInvariant, TypeOK
  <2> QED
    BY <1>1, <2>1, AppendProperties
<1>4. TypeOK'
  BY <1>0, <1>1, <1>2, <1>3 DEF ScenarioInvariant, TypeOK, Sendable
<1>5. StageInv'
  <2>1. pc \notin Starting
    BY <1>0 DEF ScenarioInvariant, StageInv
  <2> QED
    BY <1>0, <1>2, <2>1 DEF ScenarioInvariant, StageInv, Starting
<1>6. LinkInv'
  <2>1. \A d, x : FromClient(d, x)' <=> FromClient(d, x)
    BY <1>0 DEF FromClient, SessionOfClient, Order, Disconnect, Message
  <2>2. SUFFICES ASSUME NEW d \in Clients, NEW i \in DOMAIN link'[d]
                 PROVE  /\ FromClient(d, link'[d][i])
                        /\ link'[d][i].value = "CONNECTION_BROKEN" =>
                               i = Len(link'[d]) /\ up[d] # "up"
                        /\ link'[d][i].topic = "state" => ordered' = Robots
    BY <1>0, <2>1 DEF LinkInv
  <2>3. CASE d # c
    <3>1. link'[d] = link[d]
      BY <1>0, <2>3
    <3> QED
      BY <1>2, <3>1 DEF ScenarioInvariant, LinkInv
  <2>4. CASE d = c
    <3>1. i + 1 \in DOMAIN link[d] /\ link'[d][i] = link[d][i + 1]
          /\ (i + 1 = Len(link[d]) => i = Len(link'[d]))
      BY <1>0, <2>4
    <3>2. /\ FromClient(d, link[d][i + 1])
          /\ link[d][i + 1].value = "CONNECTION_BROKEN" =>
                 i + 1 = Len(link[d]) /\ up[d] # "up"
          /\ link[d][i + 1].topic = "state" => ordered = Robots
      BY <3>1 DEF ScenarioInvariant, LinkInv
    <3> QED
      BY <1>2, <3>1, <3>2
  <2> QED
    BY <2>3, <2>4
<1> QED
  BY <1>4, <1>5, <1>6

(* The captured messages after a step that routed m: those before, and m where *)
(* it was captured.                                                           *)
LEMMA Grown ==
    ASSUME TypeOK, NEW m \in Messages
    PROVE  LET n == Len(captured) + 1
           IN  /\ Len(captured) \in Nat /\ DOMAIN captured = 1 .. Len(captured)
               /\ DOMAIN Append(captured, m) = 1 .. n
               /\ \A i \in 1 .. Len(captured) : Append(captured, m)[i] = captured[i]
               /\ Append(captured, m)[n] = m
               /\ Len(Append(captured, m)) = n
BY AppendProperties, LenProperties DEF TypeOK

LEMMA RouteGrows ==
    ASSUME ScenarioInvariant, NEW c \in Clients, Route(c)
    PROVE  /\ Growing' => Growing
           /\ \A x : Captured(x) => \E i \in DOMAIN captured' : captured'[i] = x
<1>1. \/ captured' = captured
      \/ captured' = Append(captured, link[c][1]) /\ link[c][1] \in Messages
  BY RouteOutcome
<1>2. /\ Len(captured') >= Len(captured)
      /\ Len(captured) \in Nat /\ Len(captured') \in Nat
  BY <1>1, Grown DEF ScenarioInvariant
<1>3. MessageBudget' = MessageBudget /\ MessageBudget \in Nat /\ recorderUp' = recorderUp
  BY RouteShape, Numbers DEF MessageBudget, ScenarioInvariant, TypeOK
<1>4. Growing' => Growing
  BY <1>2, <1>3 DEF Growing
<1>5. \A x : Captured(x) => \E i \in DOMAIN captured' : captured'[i] = x
  BY <1>1, Grown DEF ScenarioInvariant, Captured
<1> QED
  BY <1>4, <1>5

LEMMA RouteKeepsBreak ==
    ASSUME ScenarioInvariant, NEW c \in Clients, Route(c)
    PROVE  BreakInv'
<1> DEFINE m == link[c][1]
<1>0. /\ link[c] # << >> /\ Len(link[c]) \in Nat \ {0} /\ m \in Sendable
      /\ DOMAIN link[c] = 1 .. Len(link[c])
      /\ \A d \in Clients \ {c} : link'[d] = link[d]
      /\ Len(link'[c]) = Len(link[c]) - 1
      /\ \A i \in 1 .. Len(link[c]) - 1 : link'[c][i] = link[c][i + 1]
      /\ Len(link[c]) = 1 => link'[c] = << >>
      /\ UNCHANGED <<job, pc, sample, up, session, recorderUp>>
      /\ Victim \in Robots /\ Robots \subseteq Clients /\ Fleet \notin Robots
      /\ MessageBudget \in Nat
  BY RouteShape, Numbers DEF ScenarioInvariant, TypeOK, Clients
<1>1. /\ \/ captured' = captured
         \/ captured' = Append(captured, m) /\ Growing /\ m \in Messages
      /\ m # Disconnect /\ Growing /\ m.topic = "connection" =>
             captured' = Append(captured, m)
  BY RouteOutcome
<1>2. /\ FromClient(c, m)
      /\ m.value = "CONNECTION_BROKEN" => 1 = Len(link[c]) /\ up[c] # "up"
  <2>1. 1 \in DOMAIN link[c]
    BY <1>0
  <2> QED
    BY <2>1 DEF ScenarioInvariant, LinkInv
<1>3. /\ Break \in Messages /\ Break # Disconnect /\ Break.topic = "connection"
  <2>1. Break \in Messages
    BY <1>0, MessageTypes, 1 \in 0 .. 2 DEF Break
  <2> QED
    BY <2>1, DisconnectIsNone DEF Break, Connection, Message
<1> HIDE DEF m
<1>4. Growing' => Growing
  BY RouteGrows
<1>5. Captured(Break) => Captured(Break)'
  BY RouteGrows DEF Captured, Break, Connection, Message
<1>6. ASSUME BreakOnItsWay, Growing PROVE Captured(Break)' \/ BreakOnItsWay'
  <2>1. CASE c # Victim
    <3>1. link'[Victim] = link[Victim]
      BY <1>0, <2>1
    <3> QED
      BY <1>6, <3>1 DEF BreakOnItsWay, Break, Connection, Message
  <2>2. CASE c = Victim /\ Len(link[c]) = 1
    <3>1. m = Break
      BY <1>6, <2>2 DEF BreakOnItsWay, m
    <3>2. captured' = Append(captured, Break)
      BY <1>1, <1>3, <1>6, <3>1
    <3>3. /\ Len(captured) + 1 \in DOMAIN captured'
          /\ captured'[Len(captured) + 1] = Break
      BY <1>3, <3>2, Grown DEF ScenarioInvariant
    <3> QED
      BY <3>3 DEF Captured, Break, Connection, Message
  <2>3. CASE c = Victim /\ Len(link[c]) # 1
    <3>1. /\ Len(link[c]) - 1 \in 1 .. Len(link[c]) - 1
          /\ (Len(link[c]) - 1) + 1 = Len(link[c])
      <4>1. \A n \in Nat \ {0} : n # 1 => n - 1 \in 1 .. n - 1 /\ (n - 1) + 1 = n
        OBVIOUS
      <4> QED
        BY <1>0, <2>3, <4>1
    <3>2. link'[c][Len(link'[c])] = Break
      BY <1>0, <1>6, <2>3, <3>1 DEF BreakOnItsWay
    <3>3. link'[c] # << >>
      BY <1>0, <3>1
    <3> QED
      BY <2>3, <3>2, <3>3 DEF BreakOnItsWay, Break, Connection, Message
  <2> QED
    BY <2>1, <2>2, <2>3
<1>7. ASSUME Fresh, NEW r \in Robots, SessionOfClient(r) = 1,
             NEW j \in DOMAIN captured', BrokenIn(captured', j, r)
      PROVE  link'[r] = << >> /\ up[r] # "up"
  <2>1. CASE j \in DOMAIN captured /\ captured'[j] = captured[j]
    <3>1. BrokenIn(captured, j, r)
      BY <1>7, <2>1 DEF BrokenIn
    <3>2. link[r] = << >> /\ up[r] # "up"
      BY <1>7, <2>1, <3>1 DEF ScenarioInvariant, BreakInv
    <3> QED
      BY <1>0, <3>2
  <2>2. CASE captured'[j] = m /\ m \in Messages
    <3>1. m.robot = r /\ m.value = "CONNECTION_BROKEN"
      BY <1>7, <2>2 DEF BrokenIn
    <3>2. m # Disconnect /\ \A q \in Robots : m # Order(q)
      BY <2>2, <3>1, DisconnectIsNone DEF Order, Message
    <3>3. r = c
      BY <1>2, <3>1, <3>2 DEF FromClient
    <3> QED
      BY <1>0, <1>2, <3>1, <3>3
  <2> QED
    BY <1>1, <2>1, <2>2, Grown DEF ScenarioInvariant
<1>8. /\ \A r : SessionOfClient(r)' = SessionOfClient(r)
      /\ Fresh' <=> Fresh
      /\ \A j, r : BrokenIn(captured, j, r)' <=> BrokenIn(captured', j, r)
  BY <1>0 DEF SessionOfClient, Fresh, BrokenIn
<1>9. session = 2 /\ Growing => Captured(Break)
  BY DEF ScenarioInvariant, BreakInv
<1>10. (up[Victim] = "dead" \/ pc \in Away) /\ session = 1 /\ Growing =>
           Captured(Break) \/ BreakOnItsWay
  BY DEF ScenarioInvariant, BreakInv
<1> QED
  BY <1>0, <1>4, <1>5, <1>6, <1>7, <1>8, <1>9, <1>10 DEF BreakInv

LEMMA RouteKeepsOrder ==
    ASSUME ScenarioInvariant, NEW c \in Clients, Route(c)
    PROVE  OrderInv'
<1> DEFINE m == link[c][1]
<1>1. /\ ordered' = ordered \/ (ordered' = ordered \cup {m.robot} /\ m.topic = "order")
      /\ m # Disconnect /\ Growing /\ job.faults = 0 => captured' = Append(captured, m)
      /\ job' = job
  BY RouteOutcome, RouteShape
<1>2. FromClient(c, m)
  <2>1. 1 \in DOMAIN link[c]
    BY RouteShape
  <2> QED
    BY <2>1 DEF ScenarioInvariant, LinkInv
<1> HIDE DEF m
<1>3. SUFFICES ASSUME job.faults = 0, Growing', NEW r \in ordered'
               PROVE  \E i \in DOMAIN captured' : captured'[i] = Order(r)
  BY <1>1 DEF OrderInv, Captured, Order, Message
<1>4. Growing
  BY <1>3, RouteGrows
<1>5. CASE r \in ordered
  <2>1. Captured(Order(r))
    BY <1>3, <1>4, <1>5 DEF ScenarioInvariant, OrderInv
  <2> QED
    BY <2>1, RouteGrows
<1>6. CASE r = m.robot /\ m.topic = "order"
  <2>1. m # Disconnect
    <3>1. Disconnect.topic # "order"
      BY DEF Disconnect, Message
    <3> QED
      BY <1>6, <3>1
  <2>2. PICK q \in Robots : m = Order(q)
    BY <1>2, <1>6, <2>1 DEF FromClient
  <2>3. m = Order(r) /\ m \in Messages
    <3>1. Order(q).robot = q
      BY DEF Order, Message
    <3> QED
      BY <1>6, <2>2, <3>1, MessageTypes, 0 \in 0 .. 2
  <2>4. captured' = Append(captured, m)
    BY <1>1, <1>3, <1>4, <2>1
  <2> QED
    BY <2>3, <2>4, Grown DEF ScenarioInvariant
<1> QED
  BY <1>1, <1>5, <1>6

LEMMA RouteKeepsCapture ==
    ASSUME ScenarioInvariant, NEW c \in Clients, Route(c)
    PROVE  CaptureInv'
<1> DEFINE m == link[c][1]
           n == Len(captured) + 1
<1>1. /\ \/ captured' = captured
         \/ captured' = Append(captured, m) /\ Growing /\ m \in Messages /\ m # Disconnect
      /\ job' = job
  BY RouteOutcome, RouteShape
<1>2. FromClient(c, m) /\ (m.topic = "state" => ordered = Robots) /\ link[c] # << >>
  <2>1. 1 \in DOMAIN link[c] /\ link[c] # << >>
    BY RouteShape
  <2> QED
    BY <2>1 DEF ScenarioInvariant, LinkInv
<1>3. CASE captured' = captured
  BY <1>1, <1>3, CaptureFrame DEF ScenarioInvariant
<1>4. CASE captured' = Append(captured, m) /\ Growing /\ m \in Messages /\ m # Disconnect
  <2> HIDE DEF m
  <2>1. /\ Len(captured) \in Nat /\ DOMAIN captured = 1 .. Len(captured)
        /\ DOMAIN captured' = 1 .. n
        /\ \A i \in 1 .. Len(captured) : captured'[i] = captured[i]
        /\ captured'[n] = m
    BY <1>4, Grown DEF ScenarioInvariant
  <2>2. c \in Robots => SessionOfClient(c) \in {1, 2}
    BY SessionType DEF ScenarioInvariant, TypeOK
  <2>3. ASSUME m.session = 2, c \in Robots, m.session = SessionOfClient(c)
        PROVE  c = Victim /\ \E j \in 1 .. Len(captured) : captured[j] = Break
    <3>1. c = Victim /\ session = 2
      BY <2>3 DEF SessionOfClient
    <3>2. Captured(Break)
      BY <1>4, <3>1 DEF ScenarioInvariant, BreakInv
    <3> QED
      BY <2>1, <3>1, <3>2 DEF Captured
  <2>4. (\A q \in Robots : m # Order(q)) => c \in Robots /\ m.robot = c
                                            /\ m.session = SessionOfClient(c)
    BY <1>2, <1>4 DEF FromClient
  <2>5. EpochsAreTrue'
    <3>1. SUFFICES ASSUME Fresh, NEW i \in 1 .. n, ~FromFleet(captured'[i])
                   PROVE  SessionOf(captured', i) = captured'[i].session
      BY <1>1, <2>1 DEF EpochsAreTrue, Fresh, FromFleet, SessionOf, BrokenIn
    <3>2. \A j \in 1 .. i - 1 : j \in 1 .. Len(captured) /\ captured'[j] = captured[j]
      BY <2>1, <3>1
    <3>3. CASE i \in 1 .. Len(captured)
      <4>1. captured'[i] = captured[i]
        BY <2>1, <3>3
      <4>2. SessionOf(captured, i) = captured[i].session
        BY <2>1, <3>1, <3>3, <4>1 DEF ScenarioInvariant, CaptureInv, EpochsAreTrue
      <4>3. SessionOf(captured', i) = SessionOf(captured, i)
        BY <3>2, <4>1 DEF SessionOf, BrokenIn
      <4> QED
        BY <4>1, <4>2, <4>3
    <3>4. CASE i = n
      <4>1. m.robot = c /\ c \in Robots /\ m.session = SessionOfClient(c)
        <5>1. \A q \in Robots : m # Order(q)
          BY <2>1, <3>1, <3>4 DEF FromFleet, Order, Message
        <5> QED
          BY <2>4, <5>1
      <4>2. SessionOf(captured', i) =
                IF \E j \in 1 .. Len(captured) : BrokenIn(captured, j, c) THEN 2 ELSE 1
        <5>1. captured'[i].robot = c /\ i - 1 = Len(captured)
          BY <2>1, <3>4, <4>1
        <5> QED
          BY <2>1, <3>2, <5>1 DEF SessionOf, BrokenIn
      <4>3. CASE SessionOfClient(c) = 1
        <5>1. ~ \E j \in DOMAIN captured : BrokenIn(captured, j, c)
          BY <1>2, <3>1, <4>1, <4>3 DEF ScenarioInvariant, BreakInv
        <5> QED
          BY <2>1, <3>4, <4>1, <4>2, <4>3, <5>1
      <4>4. CASE SessionOfClient(c) = 2
        <5>1. c = Victim /\ \E j \in 1 .. Len(captured) : captured[j] = Break
          BY <2>3, <4>1, <4>4
        <5>2. \E j \in 1 .. Len(captured) : BrokenIn(captured, j, c)
          BY <5>1 DEF BrokenIn, Break, Connection, Message
        <5> QED
          BY <2>1, <3>4, <4>1, <4>2, <4>4, <5>2
      <4> QED
        BY <2>2, <4>1, <4>3, <4>4
    <3> QED
      BY <2>1, <3>1, <3>3, <3>4
  <2>6. CaptureIsCausal'
    <3>1. SUFFICES ASSUME NEW i \in 1 .. n, captured'[i].topic = "state"
                   PROVE  /\ job.faults = 0 => \A r \in Robots :
                                 \E j \in 1 .. i - 1 : captured'[j] = Order(r)
                          /\ captured'[i].session = 2 =>
                                 \E j \in 1 .. i - 1 : captured'[j] = Break
      BY <1>1, <2>1 DEF CaptureIsCausal, Order, Break, Connection, Message
    <3>2. \A j \in 1 .. i - 1 : j \in 1 .. Len(captured) /\ captured'[j] = captured[j]
      BY <2>1, <3>1
    <3>3. CASE i \in 1 .. Len(captured)
      <4>1. captured'[i] = captured[i]
        BY <2>1, <3>3
      <4>2. /\ job.faults = 0 => \A r \in Robots :
                   \E j \in 1 .. i - 1 : captured[j] = Order(r)
            /\ captured[i].session = 2 =>
                   \E j \in 1 .. i - 1 : captured[j] = Break
        BY <2>1, <3>1, <3>3, <4>1 DEF ScenarioInvariant, CaptureInv, CaptureIsCausal, Break
      <4> QED
        BY <3>2, <4>1, <4>2
    <3>4. CASE i = n
      <4>1. captured'[i] = m /\ m.topic = "state" /\ i - 1 = Len(captured)
        BY <2>1, <3>1, <3>4
      <4>2. ASSUME job.faults = 0, NEW r \in Robots
            PROVE  \E j \in 1 .. Len(captured) : captured[j] = Order(r)
        <5>1. r \in ordered
          BY <1>2, <4>1
        <5>2. Captured(Order(r))
          BY <1>4, <4>2, <5>1 DEF ScenarioInvariant, OrderInv
        <5> QED
          BY <2>1, <5>2 DEF Captured
      <4>3. ASSUME m.session = 2
            PROVE  \E j \in 1 .. Len(captured) : captured[j] = Break
        <5>1. \A q \in Robots : m # Order(q)
          BY <4>1 DEF Order, Message
        <5> QED
          BY <2>3, <2>4, <4>3, <5>1
      <4> QED
        BY <2>1, <4>1, <4>2, <4>3
    <3> QED
      BY <2>1, <3>1, <3>3, <3>4
  <2> QED
    BY <2>5, <2>6 DEF CaptureInv
<1> QED
  BY <1>1, <1>3, <1>4

LEMMA RouteKeeps ==
    ASSUME ScenarioInvariant, NEW c \in Clients, Route(c)
    PROVE  ScenarioInvariant'
BY RouteKeepsLinks, RouteKeepsBreak, RouteKeepsOrder, RouteKeepsCapture DEF ScenarioInvariant

-----------------------------------------------------------------------------
(* Every step, and the theorems *)

LEMMA StutterInvariant ==
    ASSUME ScenarioInvariant, UNCHANGED vars PROVE ScenarioInvariant'
<1>1. UNCHANGED QuietVars /\ recorderUp' = recorderUp /\ faults' = faults /\ pc' = pc
  BY DEF vars, QuietVars
<1>2. recorderUp' \in BOOLEAN /\ (recorderUp' => recorderUp) /\ faults' \in 0 .. job.faults
  BY <1>1 DEF ScenarioInvariant, TypeOK
<1> QED
  BY <1>1, <1>2, QuietStep

LEMMA NextInvariant == ScenarioInvariant /\ [Next]_vars => ScenarioInvariant'
<1> SUFFICES ASSUME ScenarioInvariant, [Next]_vars PROVE ScenarioInvariant'
  OBVIOUS
<1>1. CASE StartRecorder \/ StartFleet \/ StartRobots
  BY <1>1, StartRecorderKeeps, StartClientsKeeps
<1>2. CASE Greet \/ ReportMoving \/ Drive \/ ReportArrived \/ ReportRequest
  BY <1>2, GreetKeeps, RobotsReportKeep, DriveKeeps, RequestKeeps
<1>3. CASE Crash \/ Reconnect
  BY <1>3, CrashKeeps, ReconnectKeeps
<1>4. CASE (\E r \in Robots : ShutdownRobot(r)) \/ ShutdownFleet
  <2>1. PICK c \in Clients : Shutdown(c) /\ pc' \in {"shutdown", "verdict"}
    BY <1>4 DEF ShutdownRobot, ShutdownFleet, Shutdown, Clients
  <2> QED
    BY <2>1, ShutdownKeeps
<1>5. CASE \E c \in Clients : ConnectionLost(c)
  BY <1>5, ConnectionLostKeeps
<1>6. CASE Broker
  BY <1>6, RouteKeeps DEF Broker
<1>7. CASE \/ AwaitOrders \/ AwaitBroken \/ AwaitCount \/ Conclude
           \/ StartFails \/ PublishFails \/ DeadlineExpires \/ BudgetExceeded
           \/ RecorderConnectionLost \/ Poll \/ Ended
  BY <1>7, GoesOn
<1>8. CASE UNCHANGED vars
  BY <1>8, StutterInvariant
<1> QED
  BY <1>1, <1>2, <1>3, <1>4, <1>5, <1>6, <1>7, <1>8 DEF Next, Scenario, Faults

(* The invariant of the scenario, its clients, the broker and the recorder.  *)
THEOREM InvariantHolds == Spec => []ScenarioInvariant
<1>1. Init => ScenarioInvariant
  BY InitInvariant
<1>2. ScenarioInvariant /\ [Next]_vars => ScenarioInvariant'
  BY NextInvariant
<1> QED
  BY <1>1, <1>2, PTL DEF Spec

(* Every variable keeps its type: the samples do not pass their number, the   *)
(* faults their bound.                                                        *)
THEOREM TypeCorrect == Spec => []TypeOK
<1>1. ScenarioInvariant => TypeOK
  BY DEF ScenarioInvariant
<1> QED
  BY <1>1, InvariantHolds, PTL

(* On a fresh broker the connection epoch canonical_trace writes for a robot  *)
(* message (live.rs 819-825) is the one it was published in, for any number   *)
(* of robots and whatever connections and messages are lost.                  *)
THEOREM EpochsHold == Spec => []EpochsAreTrue
<1>1. ScenarioInvariant => EpochsAreTrue
  BY DEF ScenarioInvariant, CaptureInv
<1> QED
  BY <1>1, InvariantHolds, PTL

(* No robot's report is captured before every order, unless something was     *)
(* lost, and none of the victim's second session before the break of the first *)
(* (live.rs 430-438, 510).                                                    *)
THEOREM CausalityHolds == Spec => []CaptureIsCausal
<1>1. ScenarioInvariant => CaptureIsCausal
  BY DEF ScenarioInvariant, CaptureInv
<1> QED
  BY <1>1, InvariantHolds, PTL

-----------------------------------------------------------------------------
(* What a run publishes *)

(* Two messages of one topic and one robot, and their order in the scenario.   *)
SameStream(m, n) == m.topic = n.topic /\ m.robot = n.robot /\ m.topic # "disconnect"

Rank(m) ==
    IF m.topic = "connection"
    THEN 2 * m.session + (IF m.value = "CONNECTION_BROKEN" THEN 1 ELSE 0)
    ELSE m.header

Rising(s) ==
    \A i, j \in DOMAIN s : i < j /\ SameStream(s[i], s[j]) => Rank(s[i]) < Rank(s[j])

(* The robots' clients have greeted, reported and, the victim, asked. *)
BeforeMoving == Starting \cup {"greet", "orders", "moving"}
BeforeArrived == BeforeMoving \cup {"drive", "arrived"}
Greeted == pc \notin Starting \cup {"greet"}
Moved == pc \notin BeforeMoving
Arrived == pc \notin BeforeArrived
Asked == pc \notin BeforeArrived \cup {"crash", "broken", "reconnect", "report"}

(* What robot r may have said until now, or the fleet to it, or a reused broker *)
(* retained of it.                                                             *)
Story(r) ==
    {m \in Messages :
        \/ m = Retained(r) /\ ~Fresh
        \/ m \in {Connection(r, 1, "ONLINE", 1), Order(r)} /\ Greeted
        \/ m = State(r, 1, "moving", 1) /\ Moved
        \/ m \in {Visualization(r, h) : h \in 1 .. sample - 1}
        \/ m = State(r, 2, "arrived", 1) /\ Arrived
        \/ /\ m = Connection(r, 2, "CONNECTION_BROKEN", 1)
           /\ pc \notin Starting /\ ~(up[r] = "up" /\ SessionOfClient(r) = 1)
           /\ r = Victim \/ job.faults # 0 \/ job.slow
        \/ /\ r = Victim /\ session = 2
           /\ \/ m = Connection(r, 3, "ONLINE", 2) /\ job.online /\ Asked
              \/ m = State(r, 3, "request", 2) /\ Asked
              \/ /\ m = Connection(r, 2, "CONNECTION_BROKEN", 2)
                 /\ up[r] # "up" /\ (job.faults # 0 \/ job.slow)}

Said == UNION {Story(r) : r \in Robots}

WaitingInv ==
    \A c \in Clients :
        Rising(link[c]) /\ \A k \in DOMAIN link[c] : link[c][k] \in Said \cup {Disconnect}

CapturedInv == Rising(captured) /\ \A i \in DOMAIN captured : captured[i] \in Said

CapturedIsBehind ==
    \A i \in DOMAIN captured : \A c \in Clients : \A k \in DOMAIN link[c] :
        SameStream(captured[i], link[c][k]) => Rank(captured[i]) < Rank(link[c][k])

(* Without faults only the scenario stops a client. *)
UpInv ==
    job.faults = 0 =>
        /\ \A c \in Clients : up[c] # "dead"
        /\ pc \in Driving \cup Away \cup {"report", "count"} =>
               \A r \in Robots : up[r] = "up" \/ (r = Victim /\ pc \in Away)

(* The whole scenario, but for what only a fault makes of it. *)
Promised ==
    {Connection(r, 1, "ONLINE", 1) : r \in Robots} \cup {Order(r) : r \in Robots}
    \cup {State(r, 1, "moving", 1) : r \in Robots}
    \cup {State(r, 2, "arrived", 1) : r \in Robots}
    \cup {Visualization(q[1], q[2]) : q \in Robots \X (1 .. job.samples)}
    \cup {Break, State(Victim, 3, "request", 2)}
    \cup (IF job.online THEN {Connection(Victim, 3, "ONLINE", 2)} ELSE {})

(* The barrier: the second session ends only after everything was captured.    *)
BarrierInv ==
    job.faults = 0 /\ Fresh /\ pc \in {"shutdown", "verdict", "done"} =>
        \A m \in Promised : Captured(m)

StoryInv ==
    WaitingInv /\ CapturedInv /\ CapturedIsBehind /\ UpInv /\ BarrierInv /\ BudgetSuffices

StoryInvariant == ScenarioInvariant /\ StoryInv

LEMMA RisingJoined ==
    ASSUME NEW S, NEW s \in Seq(S), NEW t \in Seq(S), Rising(s), Rising(t),
           \A i \in DOMAIN s : \A j \in DOMAIN t :
               SameStream(s[i], t[j]) => Rank(s[i]) < Rank(t[j])
    PROVE  Rising(s \o t)
<1>1. /\ s \o t \in Seq(S) /\ Len(s \o t) = Len(s) + Len(t)
      /\ \A i \in 1 .. Len(s) + Len(t) :
             (s \o t)[i] = IF i <= Len(s) THEN s[i] ELSE t[i - Len(s)]
  BY ConcatProperties
<1>2. /\ DOMAIN (s \o t) = 1 .. Len(s) + Len(t)
      /\ DOMAIN s = 1 .. Len(s) /\ DOMAIN t = 1 .. Len(t)
      /\ Len(s) \in Nat /\ Len(t) \in Nat
  BY <1>1, LenProperties
<1> SUFFICES ASSUME NEW i \in 1 .. Len(s) + Len(t), NEW j \in 1 .. Len(s) + Len(t), i < j,
                    SameStream((s \o t)[i], (s \o t)[j])
             PROVE  Rank((s \o t)[i]) < Rank((s \o t)[j])
  BY <1>2 DEF Rising
<1> PICK m, n : m = (s \o t)[i] /\ n = (s \o t)[j]
  OBVIOUS
<1>3. CASE j <= Len(s)
  <2>1. i \in DOMAIN s /\ j \in DOMAIN s /\ m = s[i] /\ n = s[j]
    BY <1>1, <1>2, <1>3
  <2> QED
    BY <2>1 DEF Rising
<1>4. CASE i <= Len(s) /\ j > Len(s)
  <2>1. i \in DOMAIN s /\ j - Len(s) \in DOMAIN t /\ m = s[i] /\ n = t[j - Len(s)]
    BY <1>1, <1>2, <1>4
  <2> QED
    BY <2>1
<1>5. CASE i > Len(s)
  <2>1. /\ i - Len(s) \in DOMAIN t /\ j - Len(s) \in DOMAIN t
        /\ m = t[i - Len(s)] /\ n = t[j - Len(s)] /\ i - Len(s) < j - Len(s)
    BY <1>1, <1>2, <1>5
  <2> QED
    BY <2>1 DEF Rising
<1> QED
  BY <1>2, <1>3, <1>4, <1>5

LEMMA RisingSmall ==
    /\ Rising(<< >>)
    /\ \A m : Rising(<<m>>)
BY DEF Rising

LEMMA NothingIsADisconnect ==
    \A m : SameStream(m, Disconnect) => FALSE
BY DEF SameStream, Disconnect, Message

(* Each link keeps part of what it had and gets what is ahead of all that was  *)
(* said.                                                                      *)
LinksContinue(kept, output) ==
    \A c \in Clients :
        /\ kept[c] \in Seq(Sendable) /\ output[c] \in Seq(Sendable)
        /\ link'[c] = kept[c] \o output[c]
        /\ Rising(kept[c]) /\ Rising(output[c])
        /\ \A k \in DOMAIN kept[c] : \E i \in DOMAIN link[c] : kept[c][k] = link[c][i]
        /\ \A k \in DOMAIN output[c] :
               \/ output[c][k] = Disconnect
               \/ /\ output[c][k] \in Said'
                  /\ \A m \in Said : SameStream(m, output[c][k]) => Rank(m) < Rank(output[c][k])

LEMMA LinksKeepStory ==
    ASSUME TypeOK, WaitingInv, CapturedInv, CapturedIsBehind, NEW kept, NEW output,
           captured' = captured, Said \subseteq Said', LinksContinue(kept, output)
    PROVE  WaitingInv' /\ CapturedInv' /\ CapturedIsBehind'
<1>0. /\ \A c \in Clients :
             /\ kept[c] \in Seq(Sendable) /\ output[c] \in Seq(Sendable)
             /\ link'[c] = kept[c] \o output[c]
             /\ Rising(kept[c]) /\ Rising(output[c])
      /\ \A c \in Clients : \A k \in DOMAIN kept[c] :
             \E i \in DOMAIN link[c] : kept[c][k] = link[c][i]
      /\ \A c \in Clients : \A k \in DOMAIN output[c] :
             \/ output[c][k] = Disconnect
             \/ /\ output[c][k] \in Said'
                /\ \A m \in Said : SameStream(m, output[c][k]) => Rank(m) < Rank(output[c][k])
  BY DEF LinksContinue
<1> USE <1>0
<1>1. ASSUME NEW c \in Clients, NEW k \in DOMAIN link'[c]
      PROVE  \/ \E i \in DOMAIN link[c] : link'[c][k] = link[c][i]
             \/ \E i \in DOMAIN output[c] : link'[c][k] = output[c][i]
  <2>1. \A s, t \in Seq(Sendable) : \A i \in DOMAIN (s \o t) :
            (i \in DOMAIN s /\ (s \o t)[i] = s[i]) \/ \E j \in DOMAIN t : (s \o t)[i] = t[j]
    BY Joined
  <2>2. \A i \in DOMAIN (kept[c] \o output[c]) :
            \/ i \in DOMAIN kept[c] /\ (kept[c] \o output[c])[i] = kept[c][i]
            \/ \E j \in DOMAIN output[c] : (kept[c] \o output[c])[i] = output[c][j]
    BY <2>1
  <2>3. link'[c] = kept[c] \o output[c]
    OBVIOUS
  <2>4. \/ k \in DOMAIN kept[c] /\ link'[c][k] = kept[c][k]
        \/ \E j \in DOMAIN output[c] : link'[c][k] = output[c][j]
    BY <1>1, <2>2, <2>3
  <2>5. ASSUME k \in DOMAIN kept[c], link'[c][k] = kept[c][k]
        PROVE  \E i \in DOMAIN link[c] : link'[c][k] = link[c][i]
    <3>1. \E i \in DOMAIN link[c] : kept[c][k] = link[c][i]
      BY <2>5
    <3> QED
      BY <2>5, <3>1
  <2> QED
    BY <2>4, <2>5
<1>2. Disconnect' = Disconnect
  BY DEF Disconnect, Message
<1>3. WaitingInv'
  <2> SUFFICES ASSUME NEW c \in Clients
               PROVE  /\ Rising(link'[c])
                      /\ \A k \in DOMAIN link'[c] : link'[c][k] \in Said' \cup {Disconnect}
    BY <1>2 DEF WaitingInv
  <2>1. Rising(link'[c])
    <3> PICK s, t \in Seq(Sendable) : s = kept[c] /\ t = output[c]
      OBVIOUS
    <3>1. Rising(s) /\ Rising(t)
      OBVIOUS
    <3>2. ASSUME NEW i \in DOMAIN s, NEW j \in DOMAIN t, SameStream(s[i], t[j])
          PROVE  Rank(s[i]) < Rank(t[j])
      <4>1. t[j] # Disconnect /\ s[i] # Disconnect
        BY <3>2, NothingIsADisconnect DEF SameStream, Disconnect, Message
      <4>2. s[i] \in Said
        BY <4>1 DEF WaitingInv
      <4> QED
        BY <3>2, <4>1, <4>2
    <3>3. link'[c] = s \o t
      OBVIOUS
    <3> QED
      BY <3>1, <3>2, <3>3, RisingJoined
  <2>2. ASSUME NEW k \in DOMAIN link'[c] PROVE link'[c][k] \in Said' \cup {Disconnect}
    <3> PICK m : m = link'[c][k]
      OBVIOUS
    <3>1. m \in Said' \cup {Disconnect}
      BY <1>1, <2>2 DEF WaitingInv
    <3> QED
      BY <3>1
  <2> QED
    BY <2>1, <2>2
<1>4. CapturedInv'
  <2>1. \A i \in DOMAIN captured : captured[i] \in Said'
    BY DEF CapturedInv
  <2> QED
    BY <2>1 DEF CapturedInv
<1>5. CapturedIsBehind'
  <2> SUFFICES ASSUME NEW i \in DOMAIN captured, NEW c \in Clients, NEW k \in DOMAIN link'[c],
                      SameStream(captured[i], link'[c][k])
               PROVE  Rank(captured[i]) < Rank(link'[c][k])
    BY DEF CapturedIsBehind
  <2>1. CASE \E j \in DOMAIN link[c] : link'[c][k] = link[c][j]
    BY <2>1 DEF CapturedIsBehind
  <2>2. CASE \E j \in DOMAIN output[c] : link'[c][k] = output[c][j]
    BY <2>2, NothingIsADisconnect DEF CapturedInv
  <2> QED
    BY <1>1, <2>1, <2>2
<1> QED
  BY <1>3, <1>4, <1>5

LEMMA StoryFrame ==
    ASSUME WaitingInv, CapturedInv, CapturedIsBehind, UNCHANGED <<link, captured>>,
           Said \subseteq Said'
    PROVE  WaitingInv' /\ CapturedInv' /\ CapturedIsBehind'
<1>1. Disconnect' = Disconnect
  BY DEF Disconnect, Message
<1> QED
  BY <1>1 DEF WaitingInv, CapturedInv, CapturedIsBehind

(* A client that is up in its first session has not broken yet, nor has the    *)
(* victim in its second.                                                       *)
Broke(r, s) ==
    /\ pc \notin Starting
    /\ IF s = 1 THEN ~(up[r] = "up" /\ SessionOfClient(r) = 1)
       ELSE r = Victim /\ session = 2 /\ up[r] # "up"

LEMMA StoryGrows ==
    ASSUME job' = job, sample \in Nat, sample' \in Nat, sample <= sample',
           pc \notin Starting => pc' \notin Starting,
           Greeted => Greeted', Moved => Moved', Arrived => Arrived', Asked => Asked',
           session = 2 => session' = 2 /\ pc \notin Starting,
           \A r \in Robots : /\ Broke(r, 1) => Broke(r, 1)'
                             /\ Broke(r, 2) => Broke(r, 2)'
    PROVE  Said \subseteq Said'
<1> SUFFICES ASSUME NEW r \in Robots, NEW m \in Story(r) PROVE m \in Story(r)'
  BY DEF Said
<1>0. sample \in Nat /\ sample' \in Nat /\ sample <= sample'
  OBVIOUS
<1>1. m \in Messages /\ Messages' = Messages
  BY DEF Story, Messages
<1>2. CASE m = Retained(r) /\ ~Fresh
  <2>1. Retained(r)' = Retained(r) /\ (Fresh' <=> Fresh)
    BY DEF Retained, Fresh, Connection, Message
  <2> QED
    BY <1>1, <1>2, <2>1 DEF Story
<1>3. CASE m \in {Connection(r, 1, "ONLINE", 1), Order(r)} /\ Greeted
  BY <1>1, <1>3 DEF Story, Connection, Order, Message
<1>4. CASE m = State(r, 1, "moving", 1) /\ Moved
  BY <1>1, <1>4 DEF Story, State, Message
<1>5. CASE m \in {Visualization(r, h) : h \in 1 .. sample - 1}
  <2> PICK h \in Int : 1 <= h /\ h <= sample - 1 /\ m = Visualization(r, h)
    BY <1>5
  <2>1. h \in Int /\ 1 <= h /\ h <= sample - 1
    OBVIOUS
  <2> PICK a, b \in Nat : a = sample /\ b = sample'
    BY <1>0
  <2>2. h \in 1 .. b - 1
    <3>1. a <= b
      BY <1>0
    <3>2. h <= a - 1
      BY <2>1
    <3>3. 1 <= h
      OBVIOUS
    <3> QED
      BY ONLY <3>1, <3>2, <3>3
  <2>3. h \in 1 .. sample' - 1
    BY <2>2
  <2> QED
    BY <1>1, <2>3 DEF Story, Visualization, Message
<1>6. CASE m = State(r, 2, "arrived", 1) /\ Arrived
  BY <1>1, <1>6 DEF Story, State, Message
<1>7. CASE /\ m = Connection(r, 2, "CONNECTION_BROKEN", 1) /\ Broke(r, 1)
           /\ r = Victim \/ job.faults # 0 \/ job.slow
  <2>1. Broke(r, 1)'
    BY <1>7
  <2>2. pc' \notin Starting /\ ~(up'[r] = "up" /\ SessionOfClient(r)' = 1)
    BY <2>1 DEF Broke
  <2> QED
    BY <1>1, <1>7, <2>2 DEF Story, Connection, Message
<1>8. CASE r = Victim /\ session = 2 /\ m = Connection(r, 3, "ONLINE", 2) /\ job.online /\ Asked
  BY <1>1, <1>8 DEF Story, Connection, Message, Victim
<1>9. CASE r = Victim /\ session = 2 /\ m = State(r, 3, "request", 2) /\ Asked
  BY <1>1, <1>9 DEF Story, State, Message, Victim
<1>10. CASE /\ r = Victim /\ session = 2 /\ m = Connection(r, 2, "CONNECTION_BROKEN", 2)
            /\ up[r] # "up" /\ (job.faults # 0 \/ job.slow)
  <2>1. Broke(r, 2)
    BY <1>10 DEF Broke
  <2>2. Broke(r, 2)'
    BY <2>1
  <2>3. up'[r] # "up" /\ session' = 2
    BY <2>2 DEF Broke
  <2> QED
    BY <1>1, <1>10, <2>3 DEF Story, Connection, Message, Victim
<1> QED
  BY <1>2, <1>3, <1>4, <1>5, <1>6, <1>7, <1>8, <1>9, <1>10 DEF Story, Broke

StoryCore == WaitingInv /\ CapturedInv /\ CapturedIsBehind

StageVars == <<job, sample, up, session>>

(* The scenario goes on or gives up, and nobody says anything. *)
LEMMA QuietStory ==
    ASSUME ScenarioInvariant, StoryCore, UNCHANGED <<StageVars, link, captured>>,
           \/ pc' = pc
           \/ pc' = "failed"
           \/ pc = "orders" /\ pc' = "moving"
           \/ pc = "broken" /\ pc' = "reconnect"
           \/ pc = "count" /\ pc' = "shutdown"
           \/ pc = "verdict" /\ pc' = "done"
           \/ pc = "crash" /\ pc' = "broken"
           \/ pc = "shutdown" /\ pc' = "verdict"
           \/ pc = "fleet" /\ pc' = "robots"
    PROVE  StoryCore'
<1>1. sample \in Nat /\ (session = 2 => pc \notin Starting)
  <2>1. sample \in 1 .. job.samples + 1 /\ job.samples \in Nat
    BY Numbers DEF ScenarioInvariant, TypeOK
  <2>2. session = 2 => pc \notin Starting
    BY DEF ScenarioInvariant, StageInv, Starting, Second
  <2> QED
    BY <2>1, <2>2
<1>2. pc \notin Starting => pc' \notin Starting
  BY DEF Starting
<1>3. /\ Greeted => Greeted'
      /\ Moved => Moved'
      /\ Arrived => Arrived'
      /\ Asked => Asked'
  BY DEF Greeted, Moved, Arrived, Asked, BeforeMoving, BeforeArrived, Starting
<1>4. \A r \in Robots : /\ Broke(r, 1) => Broke(r, 1)'
                        /\ Broke(r, 2) => Broke(r, 2)'
  BY <1>2 DEF Broke, SessionOfClient, StageVars
<1>5. Said \subseteq Said'
  BY <1>1, <1>2, <1>3, <1>4, StoryGrows DEF StageVars
<1> QED
  BY <1>5, StoryFrame DEF StoryCore

LEMMA SaidShape ==
    ASSUME NEW m \in Said, session \in {1, 2}
    PROVE  /\ m \in Messages /\ m.robot \in Robots /\ m # Disconnect
           /\ m \in Story(m.robot)
           /\ m.topic \in {"connection", "order", "state", "visualization"}
<1> PICK r \in Robots : m \in Story(r)
  BY DEF Said
<1>1. m \in Messages
  BY DEF Story
<1>2. m.robot = r
  BY DEF Story, Retained, Connection, Order, State, Visualization, Message
<1> QED
  BY <1>1, <1>2, DisconnectIsNone DEF Messages

(* What was said on a topic before the stage at hand. *)
LEMMA SaidBefore ==
    ASSUME TypeOK, NEW r \in Robots, NEW m \in Said, m.robot = r
    PROVE  /\ m.topic = "connection" =>
                  \/ Rank(m) \in {0, 1} /\ ~Fresh
                  \/ Rank(m) = 2 /\ Greeted
                  \/ Rank(m) = 3 /\ Broke(r, 1)
                  \/ Rank(m) = 4 /\ Asked /\ session = 2 /\ r = Victim
                  \/ Rank(m) = 5 /\ up[r] # "up" /\ session = 2 /\ r = Victim
           /\ m.topic = "order" => Greeted
           /\ m.topic = "state" => \/ m.header = 1 /\ Moved
                                   \/ m.header = 2 /\ Arrived
                                   \/ m.header = 3 /\ Asked /\ session = 2 /\ r = Victim
           /\ m.topic = "visualization" => m.header \in 1 .. sample - 1
<1>1. m \in Story(r)
  BY SaidShape DEF TypeOK
<1>2. CASE m = Retained(r) /\ ~Fresh
  <2>1. \/ m = Connection(r, 2, "CONNECTION_BROKEN", 0)
        \/ m = Connection(r, 1, "ONLINE", 0)
    BY <1>2 DEF Retained
  <2>2. m.topic = "connection" /\ m.session = 0
    BY <2>1 DEF Connection, Message
  <2>3. Rank(m) = 2 * 0 + (IF m.value = "CONNECTION_BROKEN" THEN 1 ELSE 0)
    BY <2>2 DEF Rank
  <2>4. Rank(m) \in {0, 1}
    BY <2>3
  <2> QED
    BY <1>2, <2>2, <2>4
<1>3. CASE m = Connection(r, 1, "ONLINE", 1) /\ Greeted
  <2>1. m.topic = "connection" /\ Rank(m) = 2
    BY <1>3 DEF Rank, Connection, Message
  <2> QED
    BY <1>3, <2>1
<1>4. CASE m = Order(r) /\ Greeted
  BY <1>4 DEF Order, Message
<1>5. CASE m = State(r, 1, "moving", 1) /\ Moved
  BY <1>5 DEF State, Message
<1>6. CASE m \in {Visualization(r, h) : h \in 1 .. sample - 1}
  <2> PICK h \in 1 .. sample - 1 : m = Visualization(r, h)
    BY <1>6
  <2>1. m.topic = "visualization" /\ m.header = h
    BY DEF Visualization, Message
  <2> QED
    BY <2>1
<1>7. CASE m = State(r, 2, "arrived", 1) /\ Arrived
  BY <1>7 DEF State, Message
<1>8. CASE m = Connection(r, 2, "CONNECTION_BROKEN", 1) /\ Broke(r, 1)
  <2>1. m.topic = "connection" /\ Rank(m) = 3
    BY <1>8 DEF Rank, Connection, Message
  <2> QED
    BY <1>8, <2>1
<1>9. CASE m = Connection(r, 3, "ONLINE", 2) /\ Asked /\ session = 2 /\ r = Victim
  <2>1. m.topic = "connection" /\ Rank(m) = 4
    BY <1>9 DEF Rank, Connection, Message
  <2> QED
    BY <1>9, <2>1
<1>10. CASE m = State(r, 3, "request", 2) /\ Asked /\ session = 2 /\ r = Victim
  BY <1>10 DEF State, Message
<1>11. CASE /\ m = Connection(r, 2, "CONNECTION_BROKEN", 2)
            /\ up[r] # "up" /\ session = 2 /\ r = Victim
  <2>1. m.topic = "connection" /\ Rank(m) = 5
    BY <1>11 DEF Rank, Connection, Message
  <2> QED
    BY <1>11, <2>1
<1> QED
  BY <1>1, <1>2, <1>3, <1>4, <1>5, <1>6, <1>7, <1>8, <1>9, <1>10, <1>11 DEF Story, Broke

LEMMA PublishStory ==
    ASSUME ScenarioInvariant, StoryCore,
           NEW stage, NEW next, NEW speakers \in SUBSET Clients, NEW output,
           Publish(stage, next, speakers, output), Said \subseteq Said',
           \A c \in speakers :
               /\ output[c] \in Seq(Messages) /\ Rising(output[c])
               /\ \A k \in DOMAIN output[c] :
                      /\ output[c][k] \in Said'
                      /\ \A m \in Said :
                             SameStream(m, output[c][k]) => Rank(m) < Rank(output[c][k])
    PROVE  StoryCore'
<1> PICK said : said = [c \in Clients |-> IF c \in speakers THEN output[c] ELSE << >>]
  OBVIOUS
<1>0. TypeOK /\ link \in [Clients -> Seq(Sendable)] /\ captured' = captured
  BY DEF ScenarioInvariant, TypeOK, Sendable, Publish
<1>1. ASSUME NEW c \in Clients
      PROVE  /\ link[c] \in Seq(Sendable) /\ said[c] \in Seq(Sendable)
             /\ link'[c] = link[c] \o said[c] /\ Rising(said[c])
  <2>1. link'[c] = IF c \in speakers THEN link[c] \o output[c] ELSE link[c]
    BY DEF Publish
  <2>2. CASE c \in speakers
    <3>1. output[c] \in Seq(Sendable)
      BY <2>2, SeqMonotonic DEF Sendable
    <3> QED
      BY <1>0, <2>1, <2>2, <3>1
  <2>3. CASE c \notin speakers
    <3>1. \A s \in Seq(Sendable) : s \o << >> = s
      OBVIOUS
    <3>2. said[c] = << >> /\ link'[c] = link[c] /\ link[c] \in Seq(Sendable)
      BY <1>0, <2>1, <2>3
    <3>3. << >> \in Seq(Sendable)
      OBVIOUS
    <3> QED
      BY <3>1, <3>2, <3>3, RisingSmall
  <2> QED
    BY <2>2, <2>3
<1>2. \A c \in Clients : /\ link[c] \in Seq(Sendable) /\ said[c] \in Seq(Sendable)
                         /\ link'[c] = link[c] \o said[c]
                         /\ Rising(link[c]) /\ Rising(said[c])
  BY <1>1 DEF StoryCore, WaitingInv
<1>3. \A c \in Clients : \A k \in DOMAIN link[c] : \E i \in DOMAIN link[c] : link[c][k] = link[c][i]
  OBVIOUS
<1>4. ASSUME NEW c \in Clients, NEW k \in DOMAIN said[c]
      PROVE  c \in speakers /\ k \in DOMAIN output[c] /\ said[c][k] = output[c][k]
  BY <1>4
<1>5. \A c \in Clients : \A k \in DOMAIN said[c] :
          \/ said[c][k] = Disconnect
          \/ /\ said[c][k] \in Said'
             /\ \A m \in Said : SameStream(m, said[c][k]) => Rank(m) < Rank(said[c][k])
  BY <1>4
<1>6. WaitingInv /\ CapturedInv /\ CapturedIsBehind /\ Said \subseteq Said'
  BY DEF StoryCore
<1>7. WaitingInv' /\ CapturedInv' /\ CapturedIsBehind'
  <2>1. LinksContinue(link, said)
    BY ONLY <1>2, <1>3, <1>5 DEF LinksContinue
  <2> QED
    BY <1>0, <1>6, <2>1, LinksKeepStory
<1> QED
  BY <1>7 DEF StoryCore

(* Said grows as the scenario publishes. *)
LEMMA PublishGrows ==
    ASSUME ScenarioInvariant,
           NEW stage, NEW next, NEW speakers, NEW output,
           Publish(stage, next, speakers, output),
           sample' \in Nat, sample <= sample',
           \/ stage = "greet" /\ next = "orders"
           \/ stage \in {"moving", "drive"} /\ next = "drive"
           \/ stage = "drive" /\ next = "arrived"
           \/ stage = "arrived" /\ next = "crash"
           \/ stage = "report" /\ next = "count"
    PROVE  Said \subseteq Said'
<1>1. sample \in Nat /\ (session = 2 => pc \notin Starting)
  <2>1. sample \in 1 .. job.samples + 1 /\ job.samples \in Nat
    BY Numbers DEF ScenarioInvariant, TypeOK
  <2>2. session = 2 => pc \notin Starting
    BY DEF ScenarioInvariant, StageInv, Starting, Second
  <2> QED
    BY <2>1, <2>2
<1>2. pc = stage /\ pc' = next /\ UNCHANGED <<job, up, session>>
  BY DEF Publish
<1>3. pc \notin Starting => pc' \notin Starting
  BY <1>2 DEF Starting
<1>4. /\ Greeted => Greeted'
      /\ Moved => Moved'
      /\ Arrived => Arrived'
      /\ Asked => Asked'
  BY <1>2 DEF Greeted, Moved, Arrived, Asked, BeforeMoving, BeforeArrived, Starting
<1>5. \A r \in Robots : /\ Broke(r, 1) => Broke(r, 1)'
                        /\ Broke(r, 2) => Broke(r, 2)'
  BY <1>2, <1>3 DEF Broke, SessionOfClient
<1> QED
  BY <1>1, <1>2, <1>3, <1>4, <1>5, StoryGrows

LEMMA GreetStory == ScenarioInvariant /\ StoryCore /\ Greet => StoryCore'
<1> SUFFICES ASSUME ScenarioInvariant, StoryCore, Greet PROVE StoryCore'
  OBVIOUS
<1> PICK out : out = [c \in Clients |-> IF c = Fleet THEN [r \in Robots |-> Order(r)]
                                        ELSE <<Connection(c, 1, "ONLINE", 1)>>]
  OBVIOUS
<1>0. /\ TypeOK /\ NumRobots \in Nat /\ Robots = 1 .. NumRobots /\ Fleet \notin Robots
      /\ sample \in Nat
  <2>1. sample \in 1 .. job.samples + 1 /\ job.samples \in Nat
    BY Numbers DEF ScenarioInvariant, TypeOK
  <2> QED
    BY <2>1, Numbers DEF ScenarioInvariant, TypeOK, Robots
<1>1. /\ Publish("greet", "orders", Clients, out) /\ sample' = sample
      /\ pc = "greet" /\ pc' = "orders" /\ session = 1
      /\ \A c \in Clients : up[c] = "up"
  BY <1>0 DEF Greet, Publish, ScenarioInvariant, TypeOK, StageInv, Second
<1>2. Said \subseteq Said'
  BY <1>0, <1>1, PublishGrows
<1>3. ASSUME NEW r \in Robots, NEW m \in {Connection(r, 1, "ONLINE", 1), Order(r)}
      PROVE  /\ m \in Messages /\ m \in Said'
             /\ \A n \in Said : SameStream(n, m) => Rank(n) < Rank(m)
  <2>1. m \in Messages
    BY <1>3, MessageTypes
  <2>2. Greeted' /\ ~Greeted /\ ~Broke(r, 1) /\ ~Asked
    BY <1>1 DEF Greeted, Starting, Broke, SessionOfClient, Asked, BeforeArrived, BeforeMoving,
                Clients
  <2>3. m \in Said'
    BY <1>3, <2>1, <2>2 DEF Said, Story, Messages, Connection, Order, Message
  <2>4. ASSUME NEW n \in Said, SameStream(n, m) PROVE Rank(n) < Rank(m)
    <3>1. n.robot = r
      BY <1>3, <2>4 DEF SameStream, Connection, Order, Message
    <3>2. CASE m = Order(r)
      <4>1. n.topic = "order"
        BY <2>4, <3>2 DEF SameStream, Order, Message
      <4> QED
        BY <1>0, <2>2, <3>1, <4>1, SaidBefore
    <3>3. CASE m = Connection(r, 1, "ONLINE", 1)
      <4>1. n.topic = "connection" /\ Rank(m) = 2
        BY <2>4, <3>3 DEF SameStream, Connection, Message, Rank
      <4>2. Rank(n) \in {0, 1}
        BY <1>0, <1>1, <2>2, <3>1, <4>1, SaidBefore
      <4> QED
        BY <4>1, <4>2
    <3> QED
      BY <1>3, <3>2, <3>3
  <2> QED
    BY <2>1, <2>3, <2>4
<1>4. ASSUME NEW c \in Clients
      PROVE  /\ out[c] \in Seq(Messages) /\ Rising(out[c])
             /\ \A k \in DOMAIN out[c] :
                    /\ out[c][k] \in Said'
                    /\ \A m \in Said : SameStream(m, out[c][k]) => Rank(m) < Rank(out[c][k])
  <2>1. CASE c = Fleet
    <3>1. out[c] = [r \in 1 .. NumRobots |-> Order(r)]
      BY <1>0, <2>1
    <3>2. \A r \in 1 .. NumRobots : Order(r) \in Messages
      BY <1>0, <1>3
    <3>3. out[c] \in Seq(Messages) /\ DOMAIN out[c] = Robots
      <4>1. out[c] \in [1 .. NumRobots -> Messages]
        BY <3>1, <3>2
      <4> QED
        BY <1>0, <3>1, <4>1, SeqDef
    <3>4. Rising(out[c])
      <4>0. ASSUME NEW i \in Robots PROVE out[c][i].robot = i
        <5>1. out[c][i] = Order(i)
          BY <1>0, <3>1
        <5> QED
          BY <5>1 DEF Order, Message
      <4>1. \A i, j \in Robots : i # j => ~SameStream(out[c][i], out[c][j])
        BY <4>0 DEF SameStream
      <4> QED
        BY <1>0, <3>3, <4>1 DEF Rising
    <3>5. \A k \in DOMAIN out[c] : out[c][k] = Order(k)
      BY <1>0, <3>1
    <3> QED
      BY <1>3, <3>3, <3>4, <3>5
  <2>2. CASE c \in Robots
    <3> PICK m : m = Connection(c, 1, "ONLINE", 1)
      OBVIOUS
    <3>1. out[c] = <<m>>
      BY <1>0, <2>2
    <3>2. m \in Messages
      BY <1>3, <2>2
    <3>3. out[c] \in Seq(Messages) /\ \A k \in DOMAIN out[c] : out[c][k] = m
      BY <3>1, <3>2
    <3> QED
      BY <1>3, <2>2, <3>1, <3>3, RisingSmall
  <2> QED
    BY <2>1, <2>2 DEF Clients
<1>5. \A c \in Clients :
          /\ out[c] \in Seq(Messages) /\ Rising(out[c])
          /\ \A k \in DOMAIN out[c] :
                 /\ out[c][k] \in Said'
                 /\ \A m \in Said : SameStream(m, out[c][k]) => Rank(m) < Rank(out[c][k])
  BY <1>4
<1>6. Clients \in SUBSET Clients /\ ScenarioInvariant /\ StoryCore
  OBVIOUS
<1> QED
  BY ONLY <1>1, <1>2, <1>5, <1>6, PublishStory

LEMMA ReportStory ==
    ASSUME ScenarioInvariant, StoryCore, NEW stage, NEW next, NEW out, NEW word,
           Publish(stage, next, Robots, out), Said \subseteq Said',
           \A r \in Robots :
               /\ out[r] = <<word[r]>>
               /\ word[r] \in Messages /\ word[r] \in Said'
               /\ \A m \in Said : SameStream(m, word[r]) => Rank(m) < Rank(word[r])
    PROVE  StoryCore'
<1>1. \A r \in Robots :
          /\ out[r] \in Seq(Messages) /\ Rising(out[r])
          /\ \A k \in DOMAIN out[r] :
                 /\ out[r][k] \in Said'
                 /\ \A m \in Said : SameStream(m, out[r][k]) => Rank(m) < Rank(out[r][k])
  <2> TAKE r \in Robots
  <2> PICK w : w = word[r]
    OBVIOUS
  <2>1. out[r] = <<w>> /\ w \in Messages
    OBVIOUS
  <2>2. out[r] \in Seq(Messages) /\ \A k \in DOMAIN out[r] : out[r][k] = w
    BY <2>1
  <2>3. Rising(out[r])
    BY <2>1, RisingSmall
  <2>4. w \in Said' /\ \A m \in Said : SameStream(m, w) => Rank(m) < Rank(w)
    OBVIOUS
  <2> QED
    BY <2>2, <2>3, <2>4
<1>2. /\ Robots \in SUBSET Clients /\ ScenarioInvariant /\ StoryCore
      /\ Publish(stage, next, Robots, out) /\ Said \subseteq Said'
  BY DEF Clients
<1> QED
  BY ONLY <1>1, <1>2, PublishStory

LEMMA RobotsReportStory ==
    ASSUME ScenarioInvariant, StoryCore, ReportMoving \/ ReportArrived
    PROVE  StoryCore'
<1>0. /\ TypeOK /\ sample \in Nat /\ session \in {1, 2}
  <2>1. sample \in 1 .. job.samples + 1 /\ job.samples \in Nat
    BY Numbers DEF ScenarioInvariant, TypeOK
  <2> QED
    BY <2>1 DEF ScenarioInvariant, TypeOK
<1> PICK h, v : /\ h \in {1, 2}
                /\ IF h = 1 THEN v = "moving" ELSE v = "arrived"
                /\ IF h = 1 THEN ReportMoving ELSE ReportArrived
  OBVIOUS
<1> PICK out : out = [r \in Robots |-> <<State(r, h, v, 1)>>]
  OBVIOUS
<1> PICK word : word = [r \in Robots |-> State(r, h, v, 1)]
  OBVIOUS
<1> PICK stage, next : /\ IF h = 1 THEN stage = "moving" /\ next = "drive"
                          ELSE stage = "arrived" /\ next = "crash"
  OBVIOUS
<1>1. Publish(stage, next, Robots, out) /\ sample' = sample
  BY DEF ReportMoving, ReportArrived
<1>2. /\ pc = stage /\ pc' = next /\ session = 1
      /\ IF h = 1 THEN ~Moved /\ Moved' ELSE ~Arrived /\ Arrived'
      /\ ~Arrived /\ ~Asked
  <2>1. pc = stage /\ pc' = next
    BY <1>1 DEF Publish
  <2> QED
    BY <1>0, <2>1 DEF ScenarioInvariant, StageInv, Second, Moved, Arrived, Asked, BeforeMoving,
                   BeforeArrived, Starting
<1>3. Said \subseteq Said'
  BY <1>0, <1>1, PublishGrows
<1>4. ASSUME NEW r \in Robots
      PROVE  /\ out[r] = <<word[r]>>
             /\ word[r] \in Messages /\ word[r] \in Said'
             /\ \A m \in Said : SameStream(m, word[r]) => Rank(m) < Rank(word[r])
  <2> PICK w : w = State(r, h, v, 1)
    OBVIOUS
  <2>1. out[r] = <<w>> /\ word[r] = w
    OBVIOUS
  <2>2. w \in Messages
    BY MessageTypes, 1 \in 0 .. 2
  <2>3. w \in Said'
    BY <1>2, <2>2 DEF Said, Story, Messages, State, Message
  <2>4. w.topic = "state" /\ w.robot = r /\ w.header = h /\ Rank(w) = h
    BY DEF State, Message, Rank
  <2>5. ASSUME NEW m \in Said, SameStream(m, w) PROVE Rank(m) < Rank(w)
    <3>1. m.topic = "state" /\ m.robot = r
      BY <2>4, <2>5 DEF SameStream
    <3>2. \/ m.header = 1 /\ Moved
          \/ m.header = 2 /\ Arrived
          \/ m.header = 3 /\ Asked
      BY <1>0, <3>1, SaidBefore
    <3>3. m.header = 1 /\ h = 2
      BY <1>2, <3>2
    <3>4. Rank(m) = m.header
      BY <3>1 DEF Rank
    <3> QED
      BY <2>4, <3>3, <3>4
  <2> QED
    BY <2>1, <2>2, <2>3, <2>5
<1>5. \A r \in Robots :
          /\ out[r] = <<word[r]>>
          /\ word[r] \in Messages /\ word[r] \in Said'
          /\ \A m \in Said : SameStream(m, word[r]) => Rank(m) < Rank(word[r])
  BY <1>4
<1>6. ScenarioInvariant /\ StoryCore
  OBVIOUS
<1> QED
  BY ONLY <1>1, <1>3, <1>5, <1>6, ReportStory

LEMMA DriveStory == ScenarioInvariant /\ StoryCore /\ Drive => StoryCore'
<1> SUFFICES ASSUME ScenarioInvariant, StoryCore, Drive PROVE StoryCore'
  OBVIOUS
<1>0. TypeOK /\ sample \in Nat /\ sample > 0
  <2>1. sample \in 1 .. job.samples + 1 /\ job.samples \in Nat
    BY Numbers DEF ScenarioInvariant, TypeOK
  <2> QED
    BY <2>1 DEF ScenarioInvariant
<1> PICK n \in Nat : n = sample /\ n > 0
  BY <1>0
<1> PICK out : out = [r \in Robots |-> <<Visualization(r, n)>>]
  OBVIOUS
<1> PICK word : word = [r \in Robots |-> Visualization(r, n)]
  OBVIOUS
<1> PICK next : next \in {"arrived", "drive"} /\ Publish("drive", next, Robots, out)
                /\ sample' = n + 1
  BY DEF Drive
<1>1. sample' \in Nat /\ sample <= sample' /\ 1 .. sample' - 1 = 1 .. n
  OBVIOUS
<1>2. Said \subseteq Said'
  BY <1>1, PublishGrows
<1>3. ASSUME NEW r \in Robots
      PROVE  /\ out[r] = <<word[r]>>
             /\ word[r] \in Messages /\ word[r] \in Said'
             /\ \A m \in Said : SameStream(m, word[r]) => Rank(m) < Rank(word[r])
  <2> PICK w : w = Visualization(r, n)
    OBVIOUS
  <2>1. out[r] = <<w>> /\ word[r] = w
    OBVIOUS
  <2>2. w \in Messages
    BY MessageTypes, 1 \in 0 .. 2
  <2>3. n \in 1 .. sample' - 1
    BY <1>1
  <2>4. w \in {Visualization(r, h) : h \in 1 .. sample' - 1}
    BY <2>3
  <2>5. w \in Said'
    BY <2>2, <2>4 DEF Said, Story, Messages, Visualization, Message
  <2>6. w.topic = "visualization" /\ w.robot = r /\ Rank(w) = n
    BY DEF Visualization, Message, Rank
  <2>7. ASSUME NEW m \in Said, SameStream(m, w) PROVE Rank(m) < Rank(w)
    <3>1. m.topic = "visualization" /\ m.robot = r
      BY <2>6, <2>7 DEF SameStream
    <3>2. m.header \in 1 .. n - 1
      BY <1>0, <3>1, SaidBefore
    <3>3. Rank(m) = m.header
      BY <3>1 DEF Rank
    <3> QED
      BY <2>6, <3>2, <3>3
  <2> QED
    BY <2>1, <2>2, <2>5, <2>7
<1>4. \A r \in Robots :
          /\ out[r] = <<word[r]>>
          /\ word[r] \in Messages /\ word[r] \in Said'
          /\ \A m \in Said : SameStream(m, word[r]) => Rank(m) < Rank(word[r])
  BY <1>3
<1>5. ScenarioInvariant /\ StoryCore /\ Publish("drive", next, Robots, out)
  OBVIOUS
<1> QED
  BY ONLY <1>2, <1>4, <1>5, ReportStory

LEMMA RequestStory == ScenarioInvariant /\ StoryCore /\ ReportRequest => StoryCore'
<1> SUFFICES ASSUME ScenarioInvariant, StoryCore, ReportRequest PROVE StoryCore'
  OBVIOUS
<1>0. TypeOK /\ sample \in Nat /\ Victim \in Robots /\ job.online \in BOOLEAN
  <2>1. sample \in 1 .. job.samples + 1 /\ job.samples \in Nat
    BY Numbers DEF ScenarioInvariant, TypeOK
  <2> QED
    BY <2>1, Numbers DEF ScenarioInvariant, TypeOK
<1> PICK o, w : o = Connection(Victim, 3, "ONLINE", 2) /\ w = State(Victim, 3, "request", 2)
  OBVIOUS
<1> PICK said : said = IF job.online THEN <<o, w>> ELSE <<w>>
  OBVIOUS
<1> PICK out : out = [c \in {Victim} |-> Append(SecondOnline, w)]
  OBVIOUS
<1>1. out[Victim] = said
  BY DEF SecondOnline
<1>2. Publish("report", "count", {Victim}, out) /\ sample' = sample
  BY DEF ReportRequest
<1>3. pc = "report" /\ pc' = "count" /\ session = 2 /\ session' = 2 /\ up[Victim] = "up"
      /\ job' = job
  BY <1>2 DEF Publish, ScenarioInvariant, StageInv, Second
<1>4. Said \subseteq Said'
  BY <1>0, <1>2, PublishGrows
<1>5. o \in Messages /\ w \in Messages
  BY <1>0, MessageTypes, 2 \in 0 .. 2
<1>6. Asked' /\ ~Asked
  BY <1>3 DEF Asked, BeforeArrived, BeforeMoving, Starting
<1>7. w \in Said' /\ (job.online => o \in Said')
  BY <1>0, <1>3, <1>5, <1>6 DEF Said, Story, Messages, State, Connection, Message, Victim
<1>8. ASSUME NEW m \in Said, SameStream(m, w) PROVE Rank(m) < Rank(w)
  <2>1. m.topic = "state" /\ m.robot = Victim /\ Rank(w) = 3
    BY <1>8 DEF SameStream, State, Message, Rank
  <2>2. m.header \in {1, 2}
    BY <1>0, <1>6, <2>1, SaidBefore
  <2>3. Rank(m) = m.header
    BY <2>1 DEF Rank
  <2> QED
    BY <2>1, <2>2, <2>3
<1>9. ASSUME NEW m \in Said, SameStream(m, o) PROVE Rank(m) < Rank(o)
  <2>1. m.topic = "connection" /\ m.robot = Victim /\ Rank(o) = 4
    BY <1>9 DEF SameStream, Connection, Message, Rank
  <2>2. Rank(m) \in {0, 1, 2, 3}
    BY <1>0, <1>3, <1>6, <2>1, SaidBefore
  <2> QED
    BY <2>1, <2>2
<1>10. said \in Seq(Messages) /\ Rising(said)
  <2>1. CASE job.online
    <3>1. said = <<o, w>>
      BY <2>1
    <3>2. ~SameStream(o, w)
      BY DEF SameStream, Connection, State, Message
    <3> QED
      BY <1>5, <3>1, <3>2 DEF Rising
  <2>2. CASE ~job.online
    BY <1>5, <2>2, RisingSmall
  <2> QED
    BY <2>1, <2>2
<1>11. \A k \in DOMAIN said : said[k] = w \/ (said[k] = o /\ job.online)
  <2>1. CASE job.online
    BY <2>1
  <2>2. CASE ~job.online
    BY <2>2
  <2> QED
    BY <2>1, <2>2
<1>12. \A c \in {Victim} :
          /\ out[c] \in Seq(Messages) /\ Rising(out[c])
          /\ \A k \in DOMAIN out[c] :
                 /\ out[c][k] \in Said'
                 /\ \A m \in Said : SameStream(m, out[c][k]) => Rank(m) < Rank(out[c][k])
  BY <1>1, <1>7, <1>8, <1>9, <1>10, <1>11
<1>13. {Victim} \in SUBSET Clients /\ ScenarioInvariant /\ StoryCore
  BY <1>0 DEF Clients
<1> QED
  BY ONLY <1>2, <1>4, <1>12, <1>13, PublishStory

(* The link of one client changes: part of it stays, and what follows is ahead *)
(* of all that was said.                                                       *)
LEMMA OneLinkStory ==
    ASSUME TypeOK, StoryCore, NEW c \in Clients,
           NEW got, NEW rest, got \in Seq(Sendable), rest \in Seq(Sendable),
           link' = [link EXCEPT ![c] = got \o rest], captured' = captured,
           Said \subseteq Said', Rising(rest),
           \A i \in DOMAIN got : i \in DOMAIN link[c] /\ got[i] = link[c][i],
           \A i \in DOMAIN rest :
               \/ rest[i] = Disconnect
               \/ /\ rest[i] \in Said'
                  /\ \A m \in Said : SameStream(m, rest[i]) => Rank(m) < Rank(rest[i])
    PROVE  StoryCore'
<1> PICK kept, output : /\ kept = [d \in Clients |-> IF d = c THEN got ELSE link[d]]
                        /\ output = [d \in Clients |-> IF d = c THEN rest ELSE << >>]
  OBVIOUS
<1>0. link \in [Clients -> Seq(Sendable)]
  BY DEF TypeOK, Sendable
<1>1. Rising(got)
  BY DEF StoryCore, WaitingInv, Rising
<1>2. ASSUME NEW d \in Clients
      PROVE  /\ kept[d] \in Seq(Sendable) /\ output[d] \in Seq(Sendable)
             /\ link'[d] = kept[d] \o output[d]
             /\ Rising(kept[d]) /\ Rising(output[d])
  <2>1. CASE d = c
    <3>1. kept[d] = got /\ output[d] = rest /\ link'[d] = got \o rest
      BY <1>0, <2>1
    <3> QED
      BY <1>1, <3>1
  <2>2. CASE d # c
    <3>1. kept[d] = link[d] /\ output[d] = << >> /\ link'[d] = link[d]
          /\ link[d] \in Seq(Sendable)
      BY <1>0, <2>2
    <3>2. << >> \in Seq(Sendable) /\ \A s \in Seq(Sendable) : s \o << >> = s
      OBVIOUS
    <3>3. Rising(link[d])
      BY DEF StoryCore, WaitingInv
    <3> QED
      BY <3>1, <3>2, <3>3, RisingSmall
  <2> QED
    BY <2>1, <2>2
<1>3. \A d \in Clients : /\ kept[d] \in Seq(Sendable) /\ output[d] \in Seq(Sendable)
                         /\ link'[d] = kept[d] \o output[d]
                         /\ Rising(kept[d]) /\ Rising(output[d])
  BY <1>2
<1>4. ASSUME NEW d \in Clients, NEW k \in DOMAIN kept[d]
      PROVE  \E i \in DOMAIN link[d] : kept[d][k] = link[d][i]
  <2>1. CASE d = c
    <3>1. kept[d] = got
      BY <2>1
    <3>2. k \in DOMAIN got
      BY <1>4, <3>1
    <3> QED
      BY <2>1, <3>1, <3>2
  <2>2. CASE d # c
    <3>1. kept[d] = link[d]
      BY <2>2
    <3> QED
      BY <1>4, <3>1
  <2> QED
    BY <2>1, <2>2
<1>5. ASSUME NEW d \in Clients, NEW k \in DOMAIN output[d]
      PROVE  k \in DOMAIN rest /\ output[d][k] = rest[k]
  <2>1. d = c
    <3>1. CASE d # c
      <4>1. output[d] = << >>
        BY <3>1
      <4> QED
        BY <1>5, <4>1
    <3> QED
      BY <3>1
  <2>2. output[d] = rest
    BY <2>1
  <2> QED
    BY <1>5, <2>2
<1>6. \A d \in Clients : \A k \in DOMAIN kept[d] : \E i \in DOMAIN link[d] : kept[d][k] = link[d][i]
  BY <1>4
<1>7. \A d \in Clients : \A k \in DOMAIN output[d] :
          \/ output[d][k] = Disconnect
          \/ /\ output[d][k] \in Said'
             /\ \A m \in Said : SameStream(m, output[d][k]) => Rank(m) < Rank(output[d][k])
  BY <1>5
<1>8. WaitingInv /\ CapturedInv /\ CapturedIsBehind /\ Said \subseteq Said'
  BY DEF StoryCore
<1>9. TypeOK /\ captured' = captured
  OBVIOUS
<1>10. WaitingInv' /\ CapturedInv' /\ CapturedIsBehind'
  <2>1. LinksContinue(kept, output)
    BY ONLY <1>3, <1>6, <1>7 DEF LinksContinue
  <2> QED
    BY <1>8, <1>9, <2>1, LinksKeepStory
<1> QED
  BY <1>10 DEF StoryCore

(* What was said stays said when one client goes. *)
LEMMA GoneGrows ==
    ASSUME ScenarioInvariant, NEW c \in Clients, UNCHANGED <<job, sample, session>>,
           \A d \in Clients : up'[d] = "up" => up[d] = "up",
           \/ pc' = pc
           \/ pc = "crash" /\ pc' = "broken"
           \/ pc = "shutdown" /\ pc' = "verdict"
    PROVE  Said \subseteq Said'
<1>1. sample \in Nat /\ (session = 2 => pc \notin Starting)
  <2>1. sample \in 1 .. job.samples + 1 /\ job.samples \in Nat
    BY Numbers DEF ScenarioInvariant, TypeOK
  <2>2. session = 2 => pc \notin Starting
    BY DEF ScenarioInvariant, StageInv, Starting, Second
  <2> QED
    BY <2>1, <2>2
<1>2. pc \notin Starting => pc' \notin Starting
  BY DEF Starting
<1>3. /\ Greeted => Greeted'
      /\ Moved => Moved'
      /\ Arrived => Arrived'
      /\ Asked => Asked'
  BY DEF Greeted, Moved, Arrived, Asked, BeforeMoving, BeforeArrived, Starting
<1>4. \A r \in Robots : /\ Broke(r, 1) => Broke(r, 1)'
                        /\ Broke(r, 2) => Broke(r, 2)'
  BY <1>2 DEF Broke, SessionOfClient, Clients
<1> QED
  BY <1>1, <1>2, <1>3, <1>4, StoryGrows

LEMMA SeverStory ==
    ASSUME ScenarioInvariant, StoryCore,
           NEW c \in Clients, NEW k \in 0 .. Len(link[c]), up[c] = "up",
           NEW u \in {"none", "dead"}, up' = [up EXCEPT ![c] = u],
           link' = [link EXCEPT ![c] = Cut(c, k)],
           UNCHANGED <<job, sample, session, captured>>,
           (c = Victim /\ session = 1) \/ job.faults # 0 \/ job.slow,
           \/ pc' = pc
           \/ pc = "crash" /\ pc' = "broken"
           \/ pc = "shutdown" /\ pc' = "verdict"
    PROVE  StoryCore'
<1>0. /\ TypeOK /\ Robots \subseteq Clients /\ Fleet \notin Robots
      /\ session \in {1, 2} /\ \A r \in Robots : SessionOfClient(r) \in {1, 2}
      /\ up \in [Clients -> {"none", "up", "dead"}]
      /\ link[c] \in Seq(Sendable) /\ Len(link[c]) \in Nat
      /\ DOMAIN link[c] = 1 .. Len(link[c])
  BY Numbers, SessionType, LinkShape DEF ScenarioInvariant, TypeOK, Clients
<1>1. /\ up'[c] # "up" /\ \A d \in Clients : up'[d] = "up" => up[d] = "up"
  BY <1>0
<1>2. Said \subseteq Said'
  BY <1>1, GoneGrows
<1> PICK got : got = SubSeq(link[c], 1, k)
  OBVIOUS
<1> PICK will : will = Will(c)
  OBVIOUS
<1> PICK rest : rest = IF c = Fleet THEN << >> ELSE <<will>>
  OBVIOUS
<1>3. /\ got \in Seq(Sendable)
      /\ \A i \in DOMAIN got : i \in DOMAIN link[c] /\ got[i] = link[c][i]
  <2>1. k \in Int /\ 1 \in Int /\ \A i \in 1 .. k : link[c][i] \in Sendable
    BY <1>0, ElementOfSeq
  <2>2. /\ got \in Seq(Sendable)
        /\ Len(got) = IF 1 <= k THEN k - 1 + 1 ELSE 0
        /\ \A i \in 1 .. k - 1 + 1 : got[i] = link[c][1 + i - 1]
    BY <2>1, SubSeqProperties
  <2>3. Len(got) = k /\ DOMAIN got = 1 .. k
    BY <2>2, LenProperties
  <2> QED
    BY <1>0, <2>2, <2>3
<1>4. ASSUME c # Fleet
      PROVE  /\ will \in Messages /\ will \in Said'
             /\ \A m \in Said : SameStream(m, will) => Rank(m) < Rank(will)
  <2>0. c \in Robots
    BY <1>4 DEF Clients
  <2> PICK s : s = SessionOfClient(c)
    OBVIOUS
  <2>1. s \in {1, 2} /\ will = Connection(c, 2, "CONNECTION_BROKEN", s)
        /\ (s = 2 => c = Victim /\ session = 2)
    BY <1>0, <2>0 DEF Will, SessionOfClient
  <2>2. will \in Messages
    BY <2>0, <2>1, MessageTypes, s \in 0 .. 2
  <2>3. pc \notin Starting /\ pc' \notin Starting
    BY <2>0 DEF ScenarioInvariant, StageInv, Starting
  <2>4. will.topic = "connection" /\ will.robot = c
        /\ will.session = s /\ will.value = "CONNECTION_BROKEN"
    BY <2>1 DEF Connection, Message
  <2>5. Rank(will) = 2 * s + 1
    BY <2>4 DEF Rank
  <2>6. will \in Said'
    <3>1. CASE s = 1
      <4>0. c = Victim \/ job'.faults # 0 \/ job'.slow
        OBVIOUS
      <4>1. will \in Story(c)'
        BY <1>1, <2>1, <2>2, <2>3, <3>1, <4>0 DEF Story, Messages, Connection, Message
      <4> QED
        BY <2>0, <4>1 DEF Said
    <3>2. CASE s = 2
      <4>1. job.faults # 0 \/ job.slow
        BY <2>1, <3>2
      <4>2. session' = 2 /\ c = Victim
        BY <2>1, <3>2
      <4>3. will \in Story(c)'
        BY <1>1, <2>1, <2>2, <3>2, <4>1, <4>2 DEF Story, Messages, Connection, Message, Victim
      <4> QED
        BY <2>0, <4>3 DEF Said
    <3> QED
      BY <2>1, <3>1, <3>2
  <2>7. ASSUME NEW m \in Said, SameStream(m, will) PROVE Rank(m) < Rank(will)
    <3>1. m.topic = "connection" /\ m.robot = c
      BY <2>4, <2>7 DEF SameStream
    <3>2. \/ Rank(m) \in {0, 1, 2}
          \/ Rank(m) = 3 /\ Broke(c, 1)
          \/ Rank(m) = 4 /\ session = 2 /\ c = Victim
      BY <1>0, <2>0, <3>1, SaidBefore
    <3>3. CASE s = 1
      <4>1. ~Broke(c, 1) /\ ~(session = 2 /\ c = Victim)
        BY <3>3 DEF Broke, SessionOfClient
      <4> QED
        BY <2>5, <3>2, <3>3, <4>1
    <3>4. CASE s = 2
      BY <2>5, <3>2, <3>4
    <3> QED
      BY <2>1, <3>3, <3>4
  <2> QED
    BY <2>2, <2>6, <2>7
<1>5. /\ rest \in Seq(Sendable) /\ Rising(rest)
      /\ \A i \in DOMAIN rest : c # Fleet /\ rest[i] = will
  <2>1. CASE c = Fleet
    <3>1. rest = << >>
      BY <2>1
    <3> QED
      BY <3>1, RisingSmall
  <2>2. CASE c # Fleet
    <3>1. rest = <<will>> /\ will \in Sendable
      BY <1>4, <2>2 DEF Sendable
    <3>2. rest \in Seq(Sendable) /\ \A i \in DOMAIN rest : rest[i] = will
      BY <3>1
    <3> QED
      BY <2>2, <3>1, <3>2, RisingSmall
  <2> QED
    BY <2>1, <2>2
<1>6. link' = [link EXCEPT ![c] = got \o rest]
  BY DEF Cut
<1>7. \A i \in DOMAIN rest :
          /\ rest[i] \in Said'
          /\ \A m \in Said : SameStream(m, rest[i]) => Rank(m) < Rank(rest[i])
  BY <1>4, <1>5
<1>8. TypeOK /\ StoryCore /\ c \in Clients /\ captured' = captured
  BY <1>0
<1> QED
  BY ONLY <1>2, <1>3, <1>5, <1>6, <1>7, <1>8, OneLinkStory

LEMMA StopStory ==
    ASSUME ScenarioInvariant, StoryCore, NEW c \in Clients,
           up' = [up EXCEPT ![c] = "none"],
           link' = [link EXCEPT ![c] = IF up[c] = "up" THEN Append(@, Disconnect) ELSE @],
           UNCHANGED <<job, sample, session, captured>>,
           \/ pc' = pc
           \/ pc = "crash" /\ pc' = "broken"
           \/ pc = "shutdown" /\ pc' = "verdict"
    PROVE  StoryCore'
<1>0. /\ TypeOK /\ up \in [Clients -> {"none", "up", "dead"}]
      /\ link \in [Clients -> Seq(Sendable)]
      /\ link[c] \in Seq(Sendable) /\ Disconnect \in Sendable
  BY LinkShape DEF ScenarioInvariant, TypeOK, Sendable
<1>1. \A d \in Clients : up'[d] = "up" => up[d] = "up"
  BY <1>0
<1>2. Said \subseteq Said'
  BY <1>1, GoneGrows
<1> PICK rest : rest = IF up[c] = "up" THEN <<Disconnect>> ELSE << >>
  OBVIOUS
<1>3. /\ rest \in Seq(Sendable) /\ Rising(rest)
      /\ \A i \in DOMAIN rest : rest[i] = Disconnect
      /\ link' = [link EXCEPT ![c] = link[c] \o rest]
  <2> PICK d : d = Disconnect
    OBVIOUS
  <2>0. \A s \in Seq(Sendable) : s \o << >> = s /\ (d \in Sendable => Append(s, d) = s \o <<d>>)
    OBVIOUS
  <2>1. CASE up[c] = "up"
    <3>1. rest = <<d>> /\ d \in Sendable
      BY <1>0, <2>1
    <3>2. Append(link[c], Disconnect) = link[c] \o rest
      BY <1>0, <2>0, <3>1
    <3>3. rest \in Seq(Sendable) /\ \A i \in DOMAIN rest : rest[i] = d
      BY <3>1
    <3> QED
      BY <2>1, <3>1, <3>2, <3>3, RisingSmall
  <2>2. CASE up[c] # "up"
    <3>1. rest = << >>
      BY <2>2
    <3>2. link[c] \o rest = link[c]
      BY <1>0, <2>0, <3>1
    <3> QED
      BY <2>2, <3>1, <3>2, RisingSmall
  <2> QED
    BY <2>1, <2>2
<1>4. \A i \in DOMAIN link[c] : i \in DOMAIN link[c] /\ link[c][i] = link[c][i]
  OBVIOUS
<1>5. TypeOK /\ StoryCore /\ c \in Clients /\ captured' = captured /\ link[c] \in Seq(Sendable)
  BY <1>0
<1> QED
  BY ONLY <1>2, <1>3, <1>4, <1>5, OneLinkStory

(* The clients connect, and the victim's comes back. *)
LEMMA ConnectStory ==
    ASSUME ScenarioInvariant, StoryCore, StartFleet \/ StartRobots \/ Reconnect
    PROVE  StoryCore'
<1>1. /\ sample \in Nat /\ sample' = sample /\ job' = job /\ UNCHANGED <<link, captured>>
      /\ (session = 2 => pc \notin Starting) /\ session \in {1, 2}
      /\ up \in [Clients -> {"none", "up", "dead"}] /\ Victim \in Robots
      /\ Robots \subseteq Clients
  <2>1. sample \in 1 .. job.samples + 1 /\ job.samples \in Nat /\ Victim \in Robots
    BY Numbers DEF ScenarioInvariant, TypeOK
  <2>2. session = 2 => pc \notin Starting
    BY DEF ScenarioInvariant, StageInv, Starting, Second
  <2>3. sample' = sample /\ job' = job /\ UNCHANGED <<link, captured>>
    BY DEF StartFleet, StartRobots, Reconnect
  <2> QED
    BY <2>1, <2>2, <2>3 DEF ScenarioInvariant, TypeOK, Clients
<1>2. pc \notin Starting => pc' \notin Starting
  BY DEF StartFleet, StartRobots, Reconnect, Starting
<1>3. /\ Greeted => Greeted'
      /\ Moved => Moved'
      /\ Arrived => Arrived'
      /\ Asked => Asked'
  BY DEF StartFleet, StartRobots, Reconnect, Greeted, Moved, Arrived, Asked, BeforeMoving,
         BeforeArrived, Starting
<1>4. ASSUME NEW r \in Robots
      PROVE  /\ Broke(r, 1) => Broke(r, 1)'
             /\ Broke(r, 2) => Broke(r, 2)'
  <2>1. CASE StartFleet \/ StartRobots
    BY <2>1 DEF StartFleet, StartRobots, Broke, Starting
  <2>2. CASE Reconnect
    <3>1. /\ session' = 2 /\ session = 1 /\ pc' = "report"
          /\ up' = [up EXCEPT ![Victim] = "up"]
      BY <1>1, <2>2 DEF Reconnect, ScenarioInvariant, StageInv, Second
    <3>2. ~Broke(r, 2)
      BY <3>1 DEF Broke
    <3>3. CASE r = Victim
      <4>1. Broke(r, 1)'
        BY <3>1, <3>3 DEF Broke, SessionOfClient, Starting
      <4> QED
        BY <3>2, <4>1
    <3>4. CASE r # Victim
      <4>1. up'[r] = up[r] /\ SessionOfClient(r)' = SessionOfClient(r)
        BY <1>1, <3>1, <3>4 DEF SessionOfClient
      <4> QED
        BY <1>2, <3>2, <4>1 DEF Broke
    <3> QED
      BY <3>3, <3>4
  <2> QED
    BY <2>1, <2>2
<1>5. session = 2 => session' = 2
  BY DEF StartFleet, StartRobots, Reconnect
<1>6. Said \subseteq Said'
  BY <1>1, <1>2, <1>3, <1>4, <1>5, StoryGrows
<1> QED
  BY <1>1, <1>6, StoryFrame DEF StoryCore

(* A reused broker's retained messages are one for each robot. *)
LEMMA StartRecorderStory == ScenarioInvariant /\ StoryCore /\ StartRecorder => StoryCore'
<1> SUFFICES ASSUME ScenarioInvariant, StoryCore, StartRecorder PROVE StoryCore'
  OBVIOUS
<1>1. /\ sample \in Nat /\ session = 1 /\ pc = "recorder" /\ pc' = "fleet"
      /\ \A c \in Clients : link[c] = << >>
      /\ UNCHANGED <<job, sample, up, session, link>>
  <2>1. sample \in 1 .. job.samples + 1 /\ job.samples \in Nat /\ session \in {1, 2}
    BY Numbers DEF ScenarioInvariant, TypeOK
  <2>2. pc = "recorder" /\ pc' = "fleet" /\ UNCHANGED <<job, sample, up, session, link>>
    BY DEF StartRecorder
  <2> QED
    BY <2>1, <2>2 DEF ScenarioInvariant, StageInv, Starting, Second
<1>2. Said \subseteq Said'
  <2>1. pc \in Starting /\ pc' \in Starting
    BY <1>1 DEF Starting
  <2>2. /\ Greeted => Greeted'
        /\ Moved => Moved'
        /\ Arrived => Arrived'
        /\ Asked => Asked'
    BY <1>1 DEF Greeted, Moved, Arrived, Asked, BeforeMoving, BeforeArrived, Starting
  <2>3. \A r \in Robots : ~Broke(r, 1) /\ ~Broke(r, 2)
    BY <2>1 DEF Broke
  <2> QED
    BY <1>1, <2>1, <2>2, <2>3, StoryGrows
<1>3. CASE captured' = captured
  BY <1>1, <1>2, <1>3, StoryFrame DEF StoryCore
<1>4. CASE captured' # captured
  <2>1. ~Fresh
    BY <1>4 DEF StartRecorder, Fresh
  <2>2. PICK order \in Bijection(Robots, Robots) :
            captured' = [i \in Robots |-> Retained(order[i])]
    BY <1>4 DEF StartRecorder
  <2>3. \A i, j \in Robots : order[i] \in Robots /\ (order[i] = order[j] => i = j)
    BY DEF Bijection, Injection, Surjection, IsInjective
  <2>4. \A r \in Robots : Retained(r).robot = r /\ Retained(r) \in Messages
    <3> TAKE r \in Robots
    <3>1. PICK n \in {<<2, "CONNECTION_BROKEN">>, <<1, "ONLINE">>} :
              Retained(r) = Connection(r, n[1], n[2], 0)
      BY DEF Retained
    <3> QED
      BY <3>1 DEF Connection, Message, Messages
  <2>5. DOMAIN captured' = Robots /\ \A i \in Robots : captured'[i] = Retained(order[i])
    BY <2>2
  <2>6. ASSUME NEW i \in Robots PROVE captured'[i] \in Said'
    <3>1. Retained(order[i])' = Retained(order[i]) /\ ~Fresh'
      BY <1>1, <2>1 DEF Retained, Fresh, Connection, Message
    <3>2. Retained(order[i]) \in Story(order[i])'
      BY <2>3, <2>4, <3>1 DEF Story, Messages
    <3> QED
      BY <2>3, <2>5, <3>2 DEF Said
  <2>7. \A i, j \in Robots : i # j => ~SameStream(captured'[i], captured'[j])
    BY <2>3, <2>4, <2>5 DEF SameStream
  <2>8. \A i, j \in Robots : i < j => i # j
    BY DEF Robots
  <2>9. Rising(captured')
    BY <2>5, <2>7, <2>8 DEF Rising
  <2>10. CapturedInv'
    BY <2>5, <2>6, <2>9 DEF CapturedInv
  <2>11. \A c \in Clients : link'[c] = << >>
    BY <1>1
  <2>12. CapturedIsBehind'
    BY <2>11 DEF CapturedIsBehind
  <2>13. WaitingInv'
    BY <2>11, RisingSmall DEF WaitingInv
  <2> QED
    BY <2>10, <2>12, <2>13 DEF StoryCore
<1> QED
  BY <1>3, <1>4

(* The broker only takes from the head of a link, and what it takes is captured *)
(* at the end or never.                                                         *)
LEMMA RouteStory ==
    ASSUME ScenarioInvariant, StoryCore, NEW c \in Clients, Route(c)
    PROVE  StoryCore'
<1> PICK m : m = link[c][1]
  OBVIOUS
<1>0. /\ TypeOK /\ captured \in Seq(Messages) /\ LinkInv /\ Fleet \notin Robots
  BY Numbers DEF ScenarioInvariant, TypeOK
<1>1. /\ link[c] # << >> /\ 1 \in DOMAIN link[c] /\ m \in Sendable
      /\ DOMAIN link[c] = 1 .. Len(link[c]) /\ Len(link[c]) \in Nat \ {0}
      /\ \A d \in Clients \ {c} : link'[d] = link[d]
      /\ DOMAIN link'[c] = 1 .. Len(link[c]) - 1
      /\ \A i \in 1 .. Len(link[c]) - 1 : link'[c][i] = link[c][i + 1]
      /\ UNCHANGED <<job, pc, sample, up, session>>
  BY RouteShape
<1>2. \/ captured' = captured
      \/ captured' = Append(captured, m) /\ m \in Messages /\ m # Disconnect
  BY RouteOutcome
<1>3. m \in Messages =>
          /\ DOMAIN captured = 1 .. Len(captured) /\ Len(captured) \in Nat
          /\ DOMAIN Append(captured, m) = 1 .. Len(captured) + 1
          /\ \A i \in 1 .. Len(captured) : Append(captured, m)[i] = captured[i]
          /\ Append(captured, m)[Len(captured) + 1] = m
  BY <1>0, Grown
<1>5. Said' = Said /\ Disconnect' = Disconnect
  BY <1>1 DEF Said, Story, Messages, Retained, Fresh, Greeted, Moved, Arrived, Asked,
              SessionOfClient, Connection, Order, State, Visualization, Disconnect, Message
<1>6. m \in Said \cup {Disconnect}
  BY <1>1 DEF StoryCore, WaitingInv
<1>7. ASSUME NEW d \in Clients, NEW k \in DOMAIN link'[d]
      PROVE  /\ link'[d][k] \in Said \cup {Disconnect}
             /\ \A i \in DOMAIN captured : SameStream(captured[i], link'[d][k]) =>
                    Rank(captured[i]) < Rank(link'[d][k])
             /\ SameStream(m, link'[d][k]) => Rank(m) < Rank(link'[d][k])
  <2>1. CASE d = c
    <3>0. k \in 1 .. Len(link[c]) - 1 /\ Len(link[c]) \in Nat
      BY <1>1, <1>7, <2>1
    <3>1. k + 1 \in DOMAIN link[c] /\ link'[c][k] = link[c][k + 1] /\ 1 < k + 1
      BY <1>1, <3>0
    <3>2. SameStream(m, link[c][k + 1]) => Rank(m) < Rank(link[c][k + 1])
      BY <1>1, <3>1 DEF StoryCore, WaitingInv, Rising
    <3> QED
      BY <2>1, <3>1, <3>2 DEF StoryCore, WaitingInv, CapturedIsBehind
  <2>2. CASE d # c
    <3>1. link'[d] = link[d] /\ k \in DOMAIN link[d]
      BY <1>1, <1>7, <2>2
    <3> PICK n : n = link[d][k]
      OBVIOUS
    <3>2. ~SameStream(m, n)
      <4> SUFFICES ASSUME SameStream(m, n) PROVE FALSE
        OBVIOUS
      <4>1. FromClient(c, m) /\ FromClient(d, n)
        BY <1>0, <1>1, <3>1 DEF LinkInv
      <4>2. m.topic = n.topic /\ m.robot = n.robot /\ m # Disconnect /\ n # Disconnect
        <5>1. Disconnect.topic = "disconnect"
          BY DEF Disconnect, Message
        <5> QED
          BY <5>1 DEF SameStream
      <4>3. \A r : Order(r).topic = "order"
        BY DEF Order, Message
      <4> QED
        BY <2>2, <4>1, <4>2, <4>3 DEF FromClient
    <3> QED
      BY <3>1, <3>2 DEF StoryCore, WaitingInv, CapturedIsBehind
  <2> QED
    BY <2>1, <2>2
<1>8. WaitingInv'
  <2>1. ASSUME NEW d \in Clients PROVE Rising(link'[d])
    <3>1. CASE d # c
      BY <1>1, <3>1 DEF StoryCore, WaitingInv
    <3>2. CASE d = c
      <4> SUFFICES ASSUME NEW i \in DOMAIN link'[c], NEW j \in DOMAIN link'[c], i < j,
                          SameStream(link'[c][i], link'[c][j])
                   PROVE  Rank(link'[c][i]) < Rank(link'[c][j])
        BY <3>2 DEF Rising
      <4>1. /\ i + 1 \in DOMAIN link[c] /\ j + 1 \in DOMAIN link[c] /\ i + 1 < j + 1
            /\ link'[c][i] = link[c][i + 1] /\ link'[c][j] = link[c][j + 1]
        BY <1>1
      <4> QED
        BY <4>1 DEF StoryCore, WaitingInv, Rising
    <3> QED
      BY <3>1, <3>2
  <2> QED
    BY <1>5, <1>7, <2>1 DEF WaitingInv
<1>9. CASE captured' = captured
  <2>1. CapturedInv'
    BY <1>5, <1>9 DEF StoryCore, CapturedInv
  <2>2. CapturedIsBehind'
    BY <1>7, <1>9 DEF CapturedIsBehind
  <2> QED
    BY <1>8, <2>1, <2>2 DEF StoryCore
<1>10. CASE captured' = Append(captured, m) /\ m \in Messages /\ m # Disconnect
  <2>1. \A i \in DOMAIN captured' :
            \/ i \in DOMAIN captured /\ captured'[i] = captured[i]
            \/ i = Len(captured) + 1 /\ captured'[i] = m
    BY <1>3, <1>10
  <2>2. ASSUME NEW i \in DOMAIN captured', NEW j \in DOMAIN captured', i < j,
               SameStream(captured'[i], captured'[j])
        PROVE  Rank(captured'[i]) < Rank(captured'[j])
    <3>1. i \in DOMAIN captured /\ captured'[i] = captured[i]
      BY <1>3, <1>10, <2>1, <2>2
    <3>2. CASE j \in DOMAIN captured /\ captured'[j] = captured[j]
      BY <2>2, <3>1, <3>2 DEF StoryCore, CapturedInv, Rising
    <3>3. CASE captured'[j] = m
      BY <1>1, <2>2, <3>1, <3>3 DEF StoryCore, CapturedIsBehind
    <3> QED
      BY <2>1, <3>2, <3>3
  <2>3. Rising(captured')
    BY <2>2 DEF Rising
  <2>4. \A i \in DOMAIN captured' : captured'[i] \in Said
    BY <1>6, <1>10, <2>1 DEF StoryCore, CapturedInv
  <2>5. \A i \in DOMAIN captured' : \A d \in Clients : \A k \in DOMAIN link'[d] :
            SameStream(captured'[i], link'[d][k]) => Rank(captured'[i]) < Rank(link'[d][k])
    BY <1>7, <2>1
  <2> QED
    BY <1>5, <1>8, <2>3, <2>4, <2>5 DEF StoryCore, CapturedInv, CapturedIsBehind
<1> QED
  BY <1>2, <1>9, <1>10

LEMMA ShutdownStory ==
    ASSUME ScenarioInvariant, StoryCore, NEW c \in Clients, Shutdown(c),
           pc' \in {"shutdown", "verdict"}
    PROVE  StoryCore'
<1>1. /\ pc = "shutdown" /\ up' = [up EXCEPT ![c] = "none"]
      /\ UNCHANGED <<job, sample, session, captured>>
      /\ pc' = pc \/ (pc = "shutdown" /\ pc' = "verdict")
  BY DEF Shutdown
<1>2. CASE link' = [link EXCEPT ![c] = IF up[c] = "up" THEN Append(@, Disconnect) ELSE @]
  BY <1>1, <1>2, StopStory
<1>3. CASE /\ job.slow /\ up[c] = "up"
           /\ \E k \in 0 .. Len(link[c]) : link' = [link EXCEPT ![c] = Cut(c, k)]
  <2>1. PICK k \in 0 .. Len(link[c]) : link' = [link EXCEPT ![c] = Cut(c, k)]
    BY <1>3
  <2> QED
    BY <1>1, <1>3, <2>1, SeverStory
<1> QED
  BY <1>2, <1>3 DEF Shutdown

LEMMA CrashStory == ScenarioInvariant /\ StoryCore /\ Crash => StoryCore'
<1> SUFFICES ASSUME ScenarioInvariant, StoryCore, Crash PROVE StoryCore'
  OBVIOUS
<1>0. Victim \in Clients /\ Len(link[Victim]) \in Nat /\ link \in [Clients -> Seq(Sendable)]
  BY Numbers, LinkShape DEF ScenarioInvariant, TypeOK, Clients, Sendable
<1>1. /\ pc = "crash" /\ pc' = "broken" /\ up' = [up EXCEPT ![Victim] = "none"]
      /\ UNCHANGED <<job, sample, session, captured>> /\ session = 1
  BY DEF Crash, ScenarioInvariant, TypeOK, StageInv, Second
<1>2. CASE up[Victim] = "up"
  <2>1. PICK k \in 0 .. Len(link[Victim]) : link' = [link EXCEPT ![Victim] = Cut(Victim, k)]
    BY <1>0, <1>2 DEF Crash, Flushed
  <2> QED
    BY <1>0, <1>1, <1>2, <2>1, SeverStory
<1>3. CASE up[Victim] # "up"
  <2>1. link' = [link EXCEPT ![Victim] = IF up[Victim] = "up"
                                         THEN Append(@, Disconnect) ELSE @]
    BY <1>0, <1>3 DEF Crash
  <2> QED
    BY <1>0, <1>1, <2>1, StopStory
<1> QED
  BY <1>2, <1>3

LEMMA LostStory ==
    ASSUME ScenarioInvariant, StoryCore, NEW c \in Clients, ConnectionLost(c)
    PROVE  StoryCore'
<1>1. job.faults # 0
  <2>1. job.faults \in Nat /\ faults \in 0 .. job.faults
    BY Numbers DEF ScenarioInvariant, TypeOK
  <2> QED
    BY <2>1 DEF ConnectionLost, MayFault
<1>2. /\ up[c] = "up" /\ up' = [up EXCEPT ![c] = "dead"]
      /\ UNCHANGED <<job, pc, sample, session, captured>>
  BY DEF ConnectionLost
<1>3. PICK k \in 0 .. Len(link[c]) : link' = [link EXCEPT ![c] = Cut(c, k)]
  BY DEF ConnectionLost
<1> QED
  BY <1>1, <1>2, <1>3, SeverStory

LEMMA WaitStory ==
    ASSUME ScenarioInvariant, StoryCore,
           \/ AwaitOrders \/ AwaitBroken \/ AwaitCount \/ Conclude
           \/ StartFails \/ PublishFails \/ DeadlineExpires \/ BudgetExceeded
           \/ RecorderConnectionLost \/ Poll \/ Ended \/ UNCHANGED vars
    PROVE  StoryCore'
<1>1. UNCHANGED <<StageVars, link, captured>>
  BY DEF AwaitOrders, AwaitBroken, AwaitCount, Conclude, StartFails, PublishFails,
         DeadlineExpires, BudgetExceeded, RecorderConnectionLost, Poll, Ended, vars, Fail,
         StageVars
<1>2. \/ pc' = pc
      \/ pc' = "failed"
      \/ pc = "orders" /\ pc' = "moving"
      \/ pc = "broken" /\ pc' = "reconnect"
      \/ pc = "count" /\ pc' = "shutdown"
      \/ pc = "verdict" /\ pc' = "done"
  BY DEF AwaitOrders, AwaitBroken, AwaitCount, Conclude, StartFails, PublishFails,
         DeadlineExpires, BudgetExceeded, RecorderConnectionLost, Poll, Ended, vars, Fail
<1> QED
  BY <1>1, <1>2, QuietStory

LEMMA NextStory == ScenarioInvariant /\ StoryCore /\ [Next]_vars => StoryCore'
<1> SUFFICES ASSUME ScenarioInvariant, StoryCore, [Next]_vars PROVE StoryCore'
  OBVIOUS
<1>1. CASE StartRecorder \/ StartFleet \/ StartRobots \/ Reconnect
  BY <1>1, StartRecorderStory, ConnectStory
<1>2. CASE Greet \/ ReportMoving \/ Drive \/ ReportArrived \/ ReportRequest
  BY <1>2, GreetStory, RobotsReportStory, DriveStory, RequestStory
<1>3. CASE Crash
  BY <1>3, CrashStory
<1>4. CASE (\E r \in Robots : ShutdownRobot(r)) \/ ShutdownFleet
  <2>1. PICK c \in Clients : Shutdown(c) /\ pc' \in {"shutdown", "verdict"}
    BY <1>4 DEF ShutdownRobot, ShutdownFleet, Shutdown, Clients
  <2> QED
    BY <2>1, ShutdownStory
<1>5. CASE \E c \in Clients : ConnectionLost(c)
  BY <1>5, LostStory
<1>6. CASE Broker
  BY <1>6, RouteStory DEF Broker
<1>7. CASE \/ AwaitOrders \/ AwaitBroken \/ AwaitCount \/ Conclude
           \/ StartFails \/ PublishFails \/ DeadlineExpires \/ BudgetExceeded
           \/ RecorderConnectionLost \/ Poll \/ Ended \/ UNCHANGED vars
  BY <1>7, WaitStory
<1> QED
  BY <1>1, <1>2, <1>3, <1>4, <1>5, <1>6, <1>7 DEF Next, Scenario, Faults

-----------------------------------------------------------------------------
(* How much a run publishes, and the barrier *)

(* The messages of a run, numbered: of robot r by <<r, place>>, and those of   *)
(* the victim's break and second session by <<0, place>>.                      *)
Tell(r, p) ==
    IF r = 0
    THEN CASE p = 1 -> Break
           [] p = 2 -> State(Victim, 3, "request", 2)
           [] p = 3 -> Connection(Victim, 3, "ONLINE", 2)
           [] OTHER -> Connection(Victim, 2, "CONNECTION_BROKEN", 2)
    ELSE CASE p = 1 -> Order(r)
           [] p = 2 -> Connection(r, 1, "ONLINE", 1)
           [] p = 3 -> State(r, 1, "moving", 1)
           [] p = 4 -> State(r, 2, "arrived", 1)
           [] p = 5 + job.samples -> Retained(r)
           [] p = 6 + job.samples -> Connection(r, 2, "CONNECTION_BROKEN", 1)
           [] OTHER -> Visualization(r, p - 4)

(* The places of p messages of every robot and q of the victim. *)
Places(p, q) == (Robots \X (1 .. p)) \cup ({0} \X (1 .. q))

LEMMA IntervalSize ==
    ASSUME NEW n \in Nat
    PROVE  IsFiniteSet(1 .. n) /\ Cardinality(1 .. n) = n
<1>1. IsFiniteSet(1 .. n) /\ Cardinality(1 .. n) = IF 1 > n THEN 0 ELSE n - 1 + 1
  BY FS_Interval
<1> QED
  BY <1>1

LEMMA PlacesSize ==
    ASSUME NEW p \in Nat, NEW q \in Nat, job \in Jobs
    PROVE  /\ IsFiniteSet(Places(p, q))
           /\ Cardinality(Places(p, q)) = NumRobots * p + q
           /\ NumRobots * p \in Nat
<1>0. NumRobots \in Nat /\ 0 \notin Robots /\ Robots = 1 .. NumRobots
  BY Numbers DEF Robots, Fleet
<1> PICK S, T, U, Z : S = Robots /\ T = 1 .. p /\ U = 1 .. q /\ Z = {0}
  OBVIOUS
<1>1. /\ IsFiniteSet(S) /\ Cardinality(S) = NumRobots
      /\ IsFiniteSet(T) /\ Cardinality(T) = p
      /\ IsFiniteSet(U) /\ Cardinality(U) = q
  BY <1>0, IntervalSize
<1>2. IsFiniteSet(Z) /\ Cardinality(Z) = 1
  BY FS_Singleton
<1>3. IsFiniteSet(S \X T) /\ Cardinality(S \X T) = Cardinality(S) * Cardinality(T)
  BY ONLY <1>1, FS_Product
<1>4. IsFiniteSet(Z \X U) /\ Cardinality(Z \X U) = Cardinality(Z) * Cardinality(U)
  BY ONLY <1>1, <1>2, FS_Product
<1>5. NumRobots * p \in Nat /\ 1 * q = q
  BY <1>0
<1>6. Cardinality(S \X T) = NumRobots * p /\ Cardinality(Z \X U) = q
  BY <1>1, <1>2, <1>3, <1>4, <1>5
<1>7. (S \X T) \cap (Z \X U) = {}
  BY <1>0
<1> PICK X, Y : X = S \X T /\ Y = Z \X U
  OBVIOUS
<1>8. /\ IsFiniteSet(X \cup Y)
      /\ Cardinality(X \cup Y) = Cardinality(X) + Cardinality(Y) - Cardinality(X \cap Y)
  <2>1. IsFiniteSet(X) /\ IsFiniteSet(Y)
    BY <1>3, <1>4
  <2> QED
    BY ONLY <2>1, FS_Union
<1>9. Cardinality(X \cap Y) = 0
  BY <1>7, FS_EmptySet
<1>10. Places(p, q) = X \cup Y
  BY DEF Places
<1> QED
  BY <1>5, <1>6, <1>8, <1>9, <1>10

LEMMA SaidIsTold ==
    ASSUME TypeOK, NEW m \in Said
    PROVE  \E k \in Places(6 + job.samples, 4) : m = Tell(k[1], k[2])
<1>0. /\ job.samples \in Nat \ {0} /\ Victim \in Robots /\ 0 \notin Robots
      /\ sample \in 1 .. job.samples + 1
  BY Numbers DEF TypeOK, Fleet
<1> PICK n \in Nat \ {0} : n = job.samples
  BY <1>0
<1> PICK r \in Robots : m \in Story(r)
  BY DEF Said
<1>1. /\ r # 0
      /\ \A p \in 1 .. 6 + n : <<r, p>> \in Places(6 + n, 4)
      /\ \A p \in 1 .. 4 : <<0, p>> \in Places(6 + n, 4)
  BY <1>0 DEF Places
<1>2. /\ Tell(r, 1) = Order(r) /\ Tell(r, 2) = Connection(r, 1, "ONLINE", 1)
      /\ Tell(r, 3) = State(r, 1, "moving", 1) /\ Tell(r, 4) = State(r, 2, "arrived", 1)
      /\ Tell(r, 5 + n) = Retained(r)
      /\ Tell(r, 6 + n) = Connection(r, 2, "CONNECTION_BROKEN", 1)
      /\ \A h \in 1 .. n : Tell(r, 4 + h) = Visualization(r, h)
  BY <1>1 DEF Tell
<1>3. /\ Tell(0, 2) = State(Victim, 3, "request", 2)
      /\ Tell(0, 3) = Connection(Victim, 3, "ONLINE", 2)
      /\ Tell(0, 4) = Connection(Victim, 2, "CONNECTION_BROKEN", 2)
  BY DEF Tell
<1>4. /\ {1, 2, 3, 4, 5 + n, 6 + n} \subseteq 1 .. 6 + n
      /\ \A h \in 1 .. n : 4 + h \in 1 .. 6 + n
  OBVIOUS
<1>5. CASE m \in {Visualization(r, h) : h \in 1 .. sample - 1}
  <2>1. PICK h \in 1 .. n : m = Visualization(r, h)
    BY <1>0, <1>5
  <2> QED
    BY <1>1, <1>2, <1>4, <2>1
<1>6. CASE m \in {Retained(r), Connection(r, 1, "ONLINE", 1), Order(r),
                  State(r, 1, "moving", 1), State(r, 2, "arrived", 1),
                  Connection(r, 2, "CONNECTION_BROKEN", 1)}
  BY <1>1, <1>2, <1>4, <1>6
<1>7. CASE m \in {Connection(Victim, 3, "ONLINE", 2), State(Victim, 3, "request", 2),
                  Connection(Victim, 2, "CONNECTION_BROKEN", 2)}
  BY <1>1, <1>3, <1>7
<1> QED
  BY <1>5, <1>6, <1>7 DEF Story

(* Two captured messages are never the same. *)
LEMMA CapturedDiffer ==
    ASSUME TypeOK, CapturedInv, NEW i \in DOMAIN captured, NEW j \in DOMAIN captured,
           captured[i] = captured[j]
    PROVE  i = j
<1>1. /\ i \in Nat /\ j \in Nat /\ captured[i] \in Messages
  <2>1. captured \in Seq(Messages)
    BY DEF TypeOK
  <2> QED
    BY <2>1, LenProperties, ElementOfSeq
<1> PICK m : m = captured[i]
  OBVIOUS
<1>2. SameStream(m, m) /\ Rank(m) \in Int
  BY <1>1 DEF SameStream, Rank, Messages
<1>3. ~(i < j) /\ ~(j < i)
  BY <1>2 DEF CapturedInv, Rising
<1> QED
  BY <1>1, <1>3

LEMMA CaptureFits ==
    ASSUME TypeOK, CapturedInv
    PROVE  Len(captured) < MessageBudget
<1>0. /\ job \in Jobs /\ job.samples \in Nat /\ NumRobots \in Nat
      /\ Len(captured) \in Nat /\ DOMAIN captured = 1 .. Len(captured)
  BY Numbers, LenProperties DEF TypeOK
<1> PICK S, K : S = 1 .. Len(captured) /\ K = Places(6 + job.samples, 4)
  OBVIOUS
<1>1. /\ IsFiniteSet(K) /\ Cardinality(K) = NumRobots * (6 + job.samples) + 4
      /\ NumRobots * (6 + job.samples) \in Nat
  <2>1. 6 + job.samples \in Nat
    BY <1>0
  <2> QED
    BY <1>0, <2>1, PlacesSize
<1>2. IsFiniteSet(S) /\ Cardinality(S) = Len(captured)
  BY <1>0, IntervalSize
<1> PICK f : f = [i \in S |-> CHOOSE k \in K : captured[i] = Tell(k[1], k[2])]
  OBVIOUS
<1>3. ASSUME NEW i \in S PROVE f[i] \in K /\ captured[i] = Tell(f[i][1], f[i][2])
  <2>1. captured[i] \in Said
    BY <1>0 DEF CapturedInv
  <2>2. \E k \in K : captured[i] = Tell(k[1], k[2])
    BY <2>1, SaidIsTold
  <2> QED
    BY <2>2
<1>4. f \in [S -> K]
  BY <1>3
<1>5. ~ \E i, j \in S : i # j /\ f[i] = f[j]
  <2> SUFFICES ASSUME NEW i \in S, NEW j \in S, f[i] = f[j] PROVE i = j
    OBVIOUS
  <2>1. captured[i] = captured[j]
    BY <1>3
  <2> QED
    BY <1>0, <2>1, CapturedDiffer
<1>6. ~ (Cardinality(K) < Cardinality(S))
  BY ONLY <1>1, <1>2, <1>4, <1>5, FS_PigeonHole
<1> QED
  BY <1>0, <1>1, <1>2, <1>6 DEF MessageBudget

(* What is promised, by place; and all that can be captured when the count is  *)
(* awaited on a fresh broker without faults.                                   *)
BarrierPlaces == Places(4 + job.samples, IF job.online THEN 3 ELSE 2)

LEMMA PromisedIsTold ==
    ASSUME TypeOK, NEW m,
           \/ m \in Promised
           \/ m \in Said /\ job.faults = 0 /\ Fresh /\ pc = "count" /\ UpInv
    PROVE  \E k \in BarrierPlaces : m = Tell(k[1], k[2])
<1>0. /\ job.samples \in Nat \ {0} /\ Victim \in Robots /\ 0 \notin Robots
      /\ sample \in 1 .. job.samples + 1 /\ job.online \in BOOLEAN
  BY Numbers DEF TypeOK, Fleet
<1> PICK n \in Nat \ {0} : n = job.samples
  BY <1>0
<1>1. /\ \A r \in Robots : \A p \in 1 .. 4 + n : <<r, p>> \in BarrierPlaces
      /\ \A p \in 1 .. 2 : <<0, p>> \in BarrierPlaces
      /\ job.online => <<0, 3>> \in BarrierPlaces
  BY <1>0 DEF BarrierPlaces, Places
<1>2. ASSUME NEW r \in Robots
      PROVE  /\ Tell(r, 1) = Order(r) /\ Tell(r, 2) = Connection(r, 1, "ONLINE", 1)
             /\ Tell(r, 3) = State(r, 1, "moving", 1) /\ Tell(r, 4) = State(r, 2, "arrived", 1)
             /\ \A h \in 1 .. n : Tell(r, 4 + h) = Visualization(r, h)
  <2>1. r # 0
    BY <1>0
  <2> QED
    BY <2>1 DEF Tell
<1>3. /\ Tell(0, 1) = Break /\ Tell(0, 2) = State(Victim, 3, "request", 2)
      /\ Tell(0, 3) = Connection(Victim, 3, "ONLINE", 2)
  BY DEF Tell
<1>4. /\ {1, 2, 3, 4} \subseteq 1 .. 4 + n
      /\ \A h \in 1 .. n : 4 + h \in 1 .. 4 + n
  OBVIOUS
<1>5. ASSUME NEW r \in Robots, NEW h \in 1 .. n, m = Visualization(r, h)
      PROVE  \E k \in BarrierPlaces : m = Tell(k[1], k[2])
  <2>1. <<r, 4 + h>> \in BarrierPlaces /\ m = Tell(r, 4 + h)
    BY <1>1, <1>2, <1>4, <1>5
  <2> QED
    BY <2>1
<1>6. ASSUME NEW r \in Robots,
             m \in {Connection(r, 1, "ONLINE", 1), Order(r),
                    State(r, 1, "moving", 1), State(r, 2, "arrived", 1)}
      PROVE  \E k \in BarrierPlaces : m = Tell(k[1], k[2])
  <2>1. PICK p \in {1, 2, 3, 4} : m = Tell(r, p)
    BY <1>2, <1>6
  <2>2. <<r, p>> \in BarrierPlaces
    BY <1>1, <1>4
  <2> QED
    BY <2>1, <2>2
<1>7. ASSUME \/ m \in {Break, State(Victim, 3, "request", 2)}
             \/ m = Connection(Victim, 3, "ONLINE", 2) /\ job.online
      PROVE  \E k \in BarrierPlaces : m = Tell(k[1], k[2])
  <2>1. PICK p \in {1, 2, 3} : m = Tell(0, p) /\ (p = 3 => job.online)
    BY <1>3, <1>7
  <2>2. <<0, p>> \in BarrierPlaces
    BY <1>1, <2>1
  <2> QED
    BY <2>1, <2>2
<1>8. CASE m \in Promised
  <2>1. \/ \E r \in Robots : \/ m \in {Connection(r, 1, "ONLINE", 1), Order(r)}
                             \/ m \in {State(r, 1, "moving", 1), State(r, 2, "arrived", 1)}
        \/ \E q \in Robots \X (1 .. n) : m = Visualization(q[1], q[2])
        \/ m \in {Break, State(Victim, 3, "request", 2)}
        \/ m = Connection(Victim, 3, "ONLINE", 2) /\ job.online
    BY <1>8 DEF Promised
  <2>2. \A q \in Robots \X (1 .. n) : q[1] \in Robots /\ q[2] \in 1 .. n
    OBVIOUS
  <2> QED
    BY <1>5, <1>6, <1>7, <2>1, <2>2
<1>9. CASE m \in Said /\ job.faults = 0 /\ Fresh /\ pc = "count" /\ UpInv
  <2> PICK r \in Robots : m \in Story(r)
    BY <1>9 DEF Said
  <2>1. up[r] = "up"
    BY <1>9 DEF UpInv, Away
  <2>2. CASE m \in {Visualization(r, h) : h \in 1 .. sample - 1}
    <3>1. PICK h \in 1 .. n : m = Visualization(r, h)
      BY <1>0, <2>2
    <3> QED
      BY <1>5, <3>1
  <2>3. CASE m = Connection(r, 2, "CONNECTION_BROKEN", 1) /\ SessionOfClient(r) # 1
    <3>1. r = Victim
      BY <2>3 DEF SessionOfClient
    <3> QED
      BY <1>7, <2>3, <3>1 DEF Break
  <2>4. CASE /\ r = Victim
             /\ \/ m = Connection(r, 3, "ONLINE", 2) /\ job.online
                \/ m = State(r, 3, "request", 2)
    BY <1>7, <2>4
  <2>5. CASE m \in {Connection(r, 1, "ONLINE", 1), Order(r),
                    State(r, 1, "moving", 1), State(r, 2, "arrived", 1)}
    BY <1>6, <2>5
  <2> QED
    BY <1>9, <2>1, <2>2, <2>3, <2>4, <2>5 DEF Story
<1> QED
  BY <1>8, <1>9

(* When as many are captured as were expected, all that is promised is. *)
LEMMA CountTells ==
    ASSUME TypeOK, CapturedInv, UpInv, job.faults = 0, Fresh, pc = "count",
           Len(captured) >= Expected
    PROVE  \A m \in Promised : Captured(m)
<1>0. /\ job \in Jobs /\ job.samples \in Nat /\ NumRobots \in Nat /\ job.online \in BOOLEAN
      /\ Len(captured) \in Nat /\ DOMAIN captured = 1 .. Len(captured)
  BY Numbers, LenProperties DEF TypeOK
<1> PICK S, K : S = 1 .. Len(captured) /\ K = BarrierPlaces
  OBVIOUS
<1>1. IsFiniteSet(K) /\ Cardinality(K) = Expected /\ Expected \in Nat
  <2>1. 4 + job.samples \in Nat /\ (IF job.online THEN 3 ELSE 2) \in Nat
    BY <1>0
  <2>2. /\ IsFiniteSet(K) /\ NumRobots * (4 + job.samples) \in Nat
        /\ Cardinality(K) = NumRobots * (4 + job.samples) + (IF job.online THEN 3 ELSE 2)
    BY <1>0, <2>1, PlacesSize DEF BarrierPlaces
  <2> QED
    BY <2>1, <2>2 DEF Expected
<1>2. IsFiniteSet(S) /\ Cardinality(S) = Len(captured)
  BY <1>0, IntervalSize
<1> SUFFICES ASSUME NEW m \in Promised, ~Captured(m) PROVE FALSE
  OBVIOUS
<1>3. PICK missing \in K : m = Tell(missing[1], missing[2])
  BY PromisedIsTold
<1> PICK T : T = K \ {missing}
  OBVIOUS
<1>4. IsFiniteSet(T) /\ Cardinality(T) = Cardinality(K) - 1
  BY <1>1, FS_RemoveElement
<1> PICK f : f = [i \in S |-> CHOOSE k \in K : captured[i] = Tell(k[1], k[2])]
  OBVIOUS
<1>5. ASSUME NEW i \in S PROVE f[i] \in T /\ captured[i] = Tell(f[i][1], f[i][2])
  <2>1. captured[i] \in Said /\ captured[i] # m
    BY <1>0 DEF CapturedInv, Captured
  <2>2. \E k \in K : captured[i] = Tell(k[1], k[2])
    BY <2>1, PromisedIsTold
  <2>3. f[i] \in K /\ captured[i] = Tell(f[i][1], f[i][2])
    BY <2>2
  <2> QED
    BY <1>3, <2>1, <2>3
<1>6. f \in [S -> T]
  BY <1>5
<1>7. ~ \E i, j \in S : i # j /\ f[i] = f[j]
  <2> SUFFICES ASSUME NEW i \in S, NEW j \in S, f[i] = f[j] PROVE i = j
    OBVIOUS
  <2>1. captured[i] = captured[j]
    BY <1>5
  <2> QED
    BY <1>0, <2>1, CapturedDiffer
<1>8. ~ (Cardinality(T) < Cardinality(S))
  BY ONLY <1>2, <1>4, <1>6, <1>7, FS_PigeonHole
<1> QED
  BY <1>0, <1>1, <1>2, <1>4, <1>8

-----------------------------------------------------------------------------
(* The steps *)

LEMMA NextUp ==
    ASSUME TypeOK, StageInv, UpInv, [Next]_vars
    PROVE  UpInv'
<1> SUFFICES ASSUME job.faults = 0 PROVE UpInv'
  <2>1. job' = job
    BY DEF Next, Scenario, Broker, Faults, StartRecorder, StartFleet, StartRobots, Greet,
           AwaitOrders, ReportMoving, Drive, ReportArrived, Crash, AwaitBroken, Reconnect,
           ReportRequest, AwaitCount, ShutdownRobot, ShutdownFleet, Shutdown, Conclude,
           PublishFails, DeadlineExpires, BudgetExceeded, StartFails, RecorderConnectionLost,
           ConnectionLost, Route, Poll, Ended, Publish, Fail, vars
  <2> QED
    BY <2>1 DEF UpInv
<1>0. /\ ~MayFault /\ up \in [Clients -> {"none", "up", "dead"}] /\ Victim \in Clients
      /\ Robots \subseteq Clients /\ Fleet \notin Robots /\ Victim \in Robots
  BY Numbers DEF TypeOK, MayFault, Clients
<1>1. CASE StartRecorder \/ StartFleet
  BY <1>0, <1>1 DEF UpInv, StartRecorder, StartFleet, Driving, Away
<1>2. CASE StartRobots
  BY <1>0, <1>2 DEF UpInv, StartRobots, Driving, Away
<1>3. CASE Greet \/ ReportMoving \/ Drive \/ ReportArrived \/ ReportRequest
  <2>1. PICK stage, next, speakers, output : Publish(stage, next, speakers, output) /\
            \/ stage \in Driving /\ next \in Driving
            \/ stage = "report" /\ next = "count"
    BY <1>3 DEF Greet, ReportMoving, Drive, ReportArrived, ReportRequest, Driving
  <2>2. up' = up /\ job' = job /\ pc = stage /\ pc' = next
    BY <2>1 DEF Publish
  <2> QED
    BY <2>1, <2>2 DEF UpInv, Driving, Away
<1>4. CASE Crash
  BY <1>0, <1>4 DEF UpInv, Crash, Driving, Away
<1>5. CASE Reconnect
  BY <1>0, <1>5 DEF UpInv, Reconnect, Driving, Away
<1>6. CASE (\E r \in Robots : ShutdownRobot(r)) \/ ShutdownFleet
  <2>1. PICK c \in Clients : Shutdown(c) /\ pc' \in {"shutdown", "verdict"}
    BY <1>6 DEF ShutdownRobot, ShutdownFleet, Shutdown, Clients
  <2> QED
    BY <1>0, <2>1 DEF UpInv, Shutdown, Driving, Away
<1>7. CASE Broker
  <2>1. UNCHANGED <<job, up, pc>>
    BY <1>7 DEF Broker, Route
  <2> QED
    BY <2>1 DEF UpInv
<1>8. CASE \/ AwaitOrders \/ AwaitBroken \/ AwaitCount \/ Conclude
           \/ PublishFails \/ DeadlineExpires \/ BudgetExceeded
           \/ Poll \/ Ended \/ UNCHANGED vars
  <2>1. UNCHANGED <<job, up>>
    BY <1>8 DEF AwaitOrders, AwaitBroken, AwaitCount, Conclude, PublishFails,
                DeadlineExpires, BudgetExceeded, Poll, Ended, vars, Fail
  <2>2. \/ pc' = pc
        \/ pc = "orders" /\ pc' = "moving"
        \/ pc = "broken" /\ pc' = "reconnect"
        \/ pc' \in {"shutdown", "done", "failed"}
    BY <1>8 DEF AwaitOrders, AwaitBroken, AwaitCount, Conclude, PublishFails,
                DeadlineExpires, BudgetExceeded, Poll, Ended, vars, Fail
  <2> QED
    BY <2>1, <2>2 DEF UpInv, Driving, Away
<1>9. CASE StartFails \/ RecorderConnectionLost \/ (\E c \in Clients : ConnectionLost(c))
  BY <1>0, <1>9 DEF StartFails, RecorderConnectionLost, ConnectionLost
<1> QED
  BY <1>1, <1>2, <1>3, <1>4, <1>5, <1>6, <1>7, <1>8, <1>9 DEF Next, Scenario, Faults

LEMMA NextBudget ==
    ASSUME TypeOK, CapturedInv, BudgetSuffices, [Next]_vars
    PROVE  BudgetSuffices'
<1>1. Len(captured) < MessageBudget /\ Len(captured) \in Nat /\ MessageBudget \in Nat
  BY CaptureFits, Numbers, LenProperties DEF TypeOK
<1>2. exceeded' = exceeded
  <2>1. CASE Broker
    <3> PICK c \in Clients : Route(c)
      BY <2>1 DEF Broker
    <3>1. \/ UNCHANGED exceeded
          \/ \E missed : Capture(Head(link[c]), missed)
      BY DEF Route, Deliver
    <3>2. ~(Len(captured) >= MessageBudget)
      BY <1>1
    <3> QED
      BY <3>1, <3>2 DEF Capture
  <2>2. CASE ~Broker
    BY <2>2 DEF Next, Scenario, Faults, StartRecorder, StartFleet, StartRobots, Greet,
           AwaitOrders, ReportMoving, Drive, ReportArrived, Crash, AwaitBroken, Reconnect,
           ReportRequest, AwaitCount, ShutdownRobot, ShutdownFleet, Shutdown, Conclude,
           PublishFails, DeadlineExpires, BudgetExceeded, StartFails, RecorderConnectionLost,
           ConnectionLost, Poll, Ended, Publish, Fail, vars
  <2> QED
    BY <2>1, <2>2
<1> QED
  BY <1>2 DEF BudgetSuffices

LEMMA PromisedFrame ==
    ASSUME job' = job PROVE Promised' = Promised
BY DEF Promised, Break, Connection, Order, State, Visualization, Message

LEMMA NextBarrier ==
    ASSUME ScenarioInvariant, CapturedInv, UpInv, BarrierInv, [Next]_vars
    PROVE  BarrierInv'
<1>0. /\ job' = job /\ TypeOK
      /\ \/ captured' = captured
         \/ StartRecorder
         \/ \E c \in Clients : Route(c)
  BY DEF ScenarioInvariant, Next, Scenario, Broker, Faults, StartRecorder, StartFleet,
         StartRobots, Greet, AwaitOrders, ReportMoving, Drive, ReportArrived, Crash,
         AwaitBroken, Reconnect, ReportRequest, AwaitCount, ShutdownRobot, ShutdownFleet,
         Shutdown, Conclude, PublishFails, DeadlineExpires, BudgetExceeded, StartFails,
         RecorderConnectionLost, ConnectionLost, Route, Poll, Ended, Publish, Fail, vars
<1>1. \/ pc' = pc
      \/ AwaitCount
      \/ pc = "shutdown" /\ pc' = "verdict"
      \/ pc = "verdict" /\ pc' = "done"
      \/ pc' \notin {"shutdown", "verdict", "done"}
  BY DEF Next, Scenario, Broker, Faults, StartRecorder, StartFleet,
         StartRobots, Greet, AwaitOrders, ReportMoving, Drive, ReportArrived, Crash,
         AwaitBroken, Reconnect, ReportRequest, AwaitCount, ShutdownRobot, ShutdownFleet,
         Shutdown, Conclude, PublishFails, DeadlineExpires, BudgetExceeded, StartFails,
         RecorderConnectionLost, ConnectionLost, Route, Poll, Ended, Publish, Fail, vars
<1> SUFFICES ASSUME job.faults = 0, Fresh, pc' \in {"shutdown", "verdict", "done"},
                    NEW m \in Promised
             PROVE  \E i \in DOMAIN captured' : captured'[i] = m
  <2>1. Fresh' <=> Fresh
    BY <1>0 DEF Fresh
  <2> QED
    BY <1>0, <2>1, PromisedFrame DEF BarrierInv, Captured
<1>2. CASE AwaitCount
  <2>1. pc = "count" /\ Len(captured) >= Expected /\ captured' = captured
    BY <1>2 DEF AwaitCount
  <2>2. Captured(m)
    BY <1>0, <2>1, CountTells
  <2> QED
    BY <2>1, <2>2 DEF Captured
<1>3. CASE ~AwaitCount
  <2>1. pc \in {"shutdown", "verdict", "done"}
    BY <1>1, <1>3
  <2>2. Captured(m)
    BY <2>1 DEF BarrierInv
  <2>3. ~StartRecorder
    BY <2>1 DEF StartRecorder
  <2> QED
    BY <1>0, <2>2, <2>3, RouteGrows DEF Captured
<1> QED
  BY <1>2, <1>3

LEMMA InitStory == Init => StoryInv
<1> SUFFICES ASSUME Init PROVE StoryInv
  OBVIOUS
<1>1. \A c \in Clients : link[c] = << >> /\ up[c] = "none"
  BY DEF Init
<1>2. WaitingInv
  BY <1>1, RisingSmall DEF WaitingInv
<1>3. CapturedInv /\ CapturedIsBehind
  BY RisingSmall DEF Init, CapturedInv, CapturedIsBehind
<1>4. UpInv
  BY <1>1 DEF Init, UpInv, Driving, Away
<1>5. BarrierInv /\ BudgetSuffices
  BY DEF Init, BarrierInv, BudgetSuffices
<1> QED
  BY <1>2, <1>3, <1>4, <1>5 DEF StoryInv

LEMMA NextStoryInvariant == StoryInvariant /\ [Next]_vars => StoryInvariant'
<1> SUFFICES ASSUME StoryInvariant, [Next]_vars PROVE StoryInvariant'
  OBVIOUS
<1>0. /\ ScenarioInvariant /\ StoryCore /\ TypeOK /\ StageInv /\ CapturedInv /\ UpInv
      /\ BarrierInv /\ BudgetSuffices
  BY DEF StoryInvariant, StoryInv, ScenarioInvariant, StoryCore
<1>1. ScenarioInvariant'
  BY <1>0, NextInvariant
<1>2. StoryCore'
  BY <1>0, NextStory
<1>3. UpInv' /\ BarrierInv' /\ BudgetSuffices'
  BY <1>0, NextUp, NextBarrier, NextBudget
<1> QED
  BY <1>1, <1>2, <1>3 DEF StoryInvariant, StoryInv, StoryCore

-----------------------------------------------------------------------------
(* The theorems about what a run publishes *)

(* What a run publishes, link by link and in the capture, is an invariant.     *)
THEOREM StoryInvariantHolds == Spec => []StoryInvariant
<1>1. Init => StoryInvariant
  BY InitInvariant, InitStory DEF StoryInvariant
<1>2. StoryInvariant /\ [Next]_vars => StoryInvariant'
  BY NextStoryInvariant
<1> QED
  BY <1>1, <1>2, PTL DEF Spec

(* In a calm run the header ids of a stream rise with the order of the scenario. *)
LEMMA RankIsHeader ==
    ASSUME TypeOK, Calm, NEW m \in Said, NEW n \in Said, SameStream(m, n), Rank(m) < Rank(n)
    PROVE  m.header < n.header
<1>0. session \in {1, 2} /\ Fresh /\ job.faults = 0 /\ ~job.slow
  BY DEF TypeOK, Calm
<1>1. CASE m.topic # "connection"
  BY <1>1 DEF SameStream, Rank
<1>2. CASE m.topic = "connection"
  <2>1. ASSUME NEW x \in Said, x.topic = "connection"
        PROVE  \/ Rank(x) = 2 /\ x.header = 1
               \/ Rank(x) = 3 /\ x.header = 2
               \/ Rank(x) = 4 /\ x.header = 3
    <3> PICK r \in Robots : x \in Story(r)
      BY DEF Said
    <3>1. \/ x = Connection(r, 1, "ONLINE", 1)
          \/ x = Connection(r, 2, "CONNECTION_BROKEN", 1)
          \/ x = Connection(r, 3, "ONLINE", 2)
      BY <1>0, <2>1 DEF Story, Order, State, Visualization, Message
    <3> QED
      BY <3>1 DEF Connection, Message, Rank
  <2>2. n.topic = "connection"
    BY <1>2 DEF SameStream
  <2> PICK p, q : p = Rank(m) /\ q = Rank(n)
    OBVIOUS
  <2>3. /\ <<p, m.header>> \in {<<2, 1>>, <<3, 2>>, <<4, 3>>}
        /\ <<q, n.header>> \in {<<2, 1>>, <<3, 2>>, <<4, 3>>} /\ p < q
    BY <1>2, <2>1, <2>2
  <2> QED
    BY ONLY <2>3
<1> QED
  BY <1>1, <1>2

(* The fixed header ids of each topic of a robot rise across its two sessions, *)
(* in every run without losses, delays or a broker's past (live.rs 393, 424,   *)
(* 446, 471, 496, 516, 532).                                                   *)
THEOREM HeadersRise == Spec => []HeaderIdsIncrease
<1>1. StoryInvariant => HeaderIdsIncrease
  <2> SUFFICES ASSUME StoryInvariant, Calm,
                      NEW i \in DOMAIN captured, NEW j \in DOMAIN captured, i < j,
                      captured[i].topic = captured[j].topic,
                      captured[i].robot = captured[j].robot
               PROVE  captured[i].header < captured[j].header
    BY DEF HeaderIdsIncrease
  <2>1. TypeOK /\ CapturedInv /\ session \in {1, 2}
    BY DEF StoryInvariant, StoryInv, ScenarioInvariant, TypeOK
  <2>2. captured[i] \in Said /\ captured[j] \in Said
    BY <2>1 DEF CapturedInv
  <2>3. captured[i].topic # "disconnect"
    BY <2>1, <2>2, SaidShape
  <2>4. SameStream(captured[i], captured[j])
    BY <2>3 DEF SameStream
  <2>5. Rank(captured[i]) < Rank(captured[j])
    BY <2>1, <2>4 DEF CapturedInv, Rising
  <2> QED
    BY <2>1, <2>2, <2>4, <2>5, RankIsHeader
<1> QED
  BY <1>1, StoryInvariantHolds, PTL

(* The recorder's budget is never met, whatever a reused broker still retains  *)
(* and cut connections add: every message is numbered with fewer numbers than  *)
(* the budget has room (lib.rs 147-153).                                        *)
THEOREM BudgetHolds == Spec => []BudgetSuffices
<1>1. StoryInvariant => BudgetSuffices
  BY DEF StoryInvariant, StoryInv
<1> QED
  BY <1>1, StoryInvariantHolds, PTL

LEMMA BarrierIsWritten == StoryInvariant => WrittenIsComplete
<1> SUFFICES ASSUME StoryInvariant, Done, Fresh, job.faults = 0
             PROVE  /\ \A r \in Robots :
                        /\ Captured(Connection(r, 1, "ONLINE", 1)) /\ Captured(Order(r))
                        /\ Captured(State(r, 1, "moving", 1))
                        /\ Captured(State(r, 2, "arrived", 1))
                        /\ \A h \in 1 .. job.samples : Captured(Visualization(r, h))
                    /\ Captured(Connection(Victim, 2, "CONNECTION_BROKEN", 1))
                    /\ Captured(State(Victim, 3, "request", 2))
                    /\ Captured(Connection(Victim, 3, "ONLINE", 2)) <=> job.online
  BY DEF WrittenIsComplete
<1>1. /\ CapturedInv /\ \A m \in Promised : Captured(m)
      /\ job.online \in BOOLEAN /\ job.samples \in Nat
  BY Numbers DEF StoryInvariant, StoryInv, BarrierInv, Done, ScenarioInvariant, TypeOK
<1>2. ASSUME NEW r \in Robots
      PROVE  /\ Connection(r, 1, "ONLINE", 1) \in Promised /\ Order(r) \in Promised
             /\ State(r, 1, "moving", 1) \in Promised
             /\ State(r, 2, "arrived", 1) \in Promised
  BY DEF Promised
<1>3. ASSUME NEW r \in Robots, NEW h \in 1 .. job.samples
      PROVE  Visualization(r, h) \in Promised
  <2>1. <<r, h>> \in Robots \X (1 .. job.samples)
    OBVIOUS
  <2>2. Visualization(r, h) \in {Visualization(q[1], q[2]) : q \in Robots \X (1 .. job.samples)}
    BY <2>1
  <2> QED
    BY <2>2 DEF Promised
<1>4. /\ Break \in Promised /\ State(Victim, 3, "request", 2) \in Promised
      /\ job.online => Connection(Victim, 3, "ONLINE", 2) \in Promised
  BY DEF Promised
<1>5. ASSUME Captured(Connection(Victim, 3, "ONLINE", 2)) PROVE job.online
  <2>1. Connection(Victim, 3, "ONLINE", 2) \in Said
    BY <1>1, <1>5 DEF CapturedInv, Captured
  <2> PICK r \in Robots : Connection(Victim, 3, "ONLINE", 2) \in Story(r)
    BY <2>1 DEF Said
  <2> QED
    BY DEF Story, Retained, Connection, Order, State, Visualization, Message
<1> QED
  BY <1>1, <1>2, <1>3, <1>4, <1>5 DEF Break

(* The count of publications is a barrier: what a run without faults on a      *)
(* fresh broker writes is the whole scenario, for as many different messages   *)
(* as were expected were captured and only those expected can be               *)
(* (live.rs 551-557).                                                          *)
THEOREM WrittenComplete == Spec => []WrittenIsComplete
BY BarrierIsWritten, StoryInvariantHolds, PTL

-----------------------------------------------------------------------------
(* The diagnosis *)

(* Once the end of a robot's present session is captured, nothing of it is left *)
(* to come.                                                                    *)
NothingFollows ==
    \A i \in DOMAIN captured : \A r \in Robots :
        BrokenIn(captured, i, r) /\ captured[i].session = SessionOfClient(r) => link[r] = << >>

(* A captured Last Will is the last a robot says in that session. *)
WillIsLast ==
    \A i, j \in DOMAIN captured :
        (/\ i < j /\ captured[i].value = "CONNECTION_BROKEN"
         /\ ~FromFleet(captured[j]) /\ captured[j].robot = captured[i].robot)
            => captured[i].session < captured[j].session

(* The victim comes back after a break was seen. *)
BreakIsSeen == pc \in {"reconnect"} \cup Second => BrokenCaptured

EndingInv == NothingFollows /\ WillIsLast /\ BreakIsSeen

EndingInvariant == StoryInvariant /\ EndingInv

(* What a robot said at its end: which session, and that its client is gone. *)
LEMMA WillShape ==
    ASSUME TypeOK, NEW m \in Said, m.value = "CONNECTION_BROKEN"
    PROVE  /\ m.topic = "connection" /\ m.robot \in Robots
           /\ \/ m = Retained(m.robot) /\ m.session = 0 /\ m.robot = Victim /\ ~Fresh
              \/ /\ m = Connection(m.robot, 2, "CONNECTION_BROKEN", 1) /\ pc \notin Starting
                 /\ ~(up[m.robot] = "up" /\ SessionOfClient(m.robot) = 1)
              \/ /\ m = Connection(m.robot, 2, "CONNECTION_BROKEN", 2) /\ m.robot = Victim
                 /\ session = 2 /\ up[m.robot] # "up" /\ (job.faults # 0 \/ job.slow)
<1> PICK r \in Robots : m \in Story(r)
  BY DEF Said
<1>1. CASE m = Retained(r) /\ ~Fresh
  <2>1. \/ m = Connection(r, 2, "CONNECTION_BROKEN", 0) /\ r = Victim
        \/ m = Connection(r, 1, "ONLINE", 0)
    BY <1>1 DEF Retained
  <2> QED
    BY <1>1, <2>1 DEF Connection, Message
<1>2. CASE /\ m = Connection(r, 2, "CONNECTION_BROKEN", 1)
           /\ pc \notin Starting /\ ~(up[r] = "up" /\ SessionOfClient(r) = 1)
  BY <1>2 DEF Connection, Message
<1>3. CASE /\ r = Victim /\ session = 2 /\ m = Connection(r, 2, "CONNECTION_BROKEN", 2)
           /\ up[r] # "up" /\ (job.faults # 0 \/ job.slow)
  BY <1>3 DEF Connection, Message
<1> QED
  BY <1>1, <1>2, <1>3 DEF Story, Connection, Order, State, Visualization, Message

(* Nobody speaks of a later session than his own. *)
LEMMA SaidSession ==
    ASSUME TypeOK, NEW m \in Said
    PROVE  /\ m.session \in 0 .. 2 /\ SessionOfClient(m.robot) \in {1, 2}
           /\ m.session <= SessionOfClient(m.robot)
<1>1. /\ session \in {1, 2} /\ m \in Messages /\ m.robot \in Robots /\ m \in Story(m.robot)
  BY SaidShape DEF TypeOK
<1>2. m.session \in 0 .. 2 /\ SessionOfClient(m.robot) \in {1, 2}
  BY <1>1, SessionType DEF Messages, TypeOK
<1>3. m.session \in {0, 1} \/ (m.session = 2 /\ m.robot = Victim /\ session = 2)
  <2> PICK r : r = m.robot
    OBVIOUS
  <2> QED
    BY <1>1 DEF Story, Retained, Connection, Order, State, Visualization, Message
<1> QED
  BY <1>1, <1>2, <1>3 DEF SessionOfClient

LEMMA InitEnding == Init => EndingInv
BY DEF Init, EndingInv, NothingFollows, WillIsLast, BreakIsSeen, Second

(* A step of the scenario captures nothing and leaves the link of a client that *)
(* is not up as it is.                                                         *)
LEMMA ScenarioEnding ==
    ASSUME StoryInvariant, StoryInvariant', EndingInv, captured' = captured, job' = job,
           \A c \in Clients : up[c] # "up" => link'[c] = link[c],
           session' = session \/ pc = "reconnect",
           \/ pc' = pc
           \/ AwaitBroken
           \/ pc' \notin {"reconnect"} \cup Second
           \/ pc \in {"reconnect"} \cup Second
    PROVE  EndingInv'
<1>0. /\ TypeOK /\ TypeOK' /\ CapturedInv /\ CapturedInv' /\ Robots \subseteq Clients
      /\ session \in {1, 2} /\ session' \in {1, 2}
  BY DEF StoryInvariant, StoryInv, ScenarioInvariant, TypeOK, Clients
<1>1. NothingFollows'
  <2> SUFFICES ASSUME NEW i \in DOMAIN captured, NEW r \in Robots, BrokenIn(captured, i, r),
                      captured[i].session = SessionOfClient(r)'
               PROVE  link'[r] = << >>
    BY DEF NothingFollows, BrokenIn
  <2> PICK m : m = captured[i]
    OBVIOUS
  <2>1. m \in Said /\ m.value = "CONNECTION_BROKEN" /\ m.robot = r
    BY <1>0 DEF CapturedInv, BrokenIn
  <2>2. m.session <= SessionOfClient(r) /\ m.session \in 0 .. 2 /\ SessionOfClient(r) \in {1, 2}
    BY <1>0, <2>1, SaidSession
  <2>3. SessionOfClient(r)' = SessionOfClient(r)
    <3>1. CASE session' = session
      BY <3>1 DEF SessionOfClient
    <3>2. CASE r # Victim
      BY <3>2 DEF SessionOfClient
    <3>3. CASE session' # session /\ r = Victim
      <4>1. session = 1 /\ session' = 2
        BY <1>0, <3>3 DEF StoryInvariant, ScenarioInvariant, StageInv, Second
      <4>2. SessionOfClient(r) = 1 /\ SessionOfClient(r)' = 2
        BY <3>3, <4>1 DEF SessionOfClient
      <4> QED
        BY <2>2, <4>2
    <3> QED
      BY <3>1, <3>2, <3>3
  <2>4. link[r] = << >>
    BY <2>3 DEF EndingInv, NothingFollows
  <2>5. up[r] # "up"
    <3>1. \/ m.session = 0
          \/ m.session = 1 /\ ~(up[r] = "up" /\ SessionOfClient(r) = 1)
          \/ m.session = 2 /\ up[r] # "up"
      BY <1>0, <2>1, WillShape DEF Connection, Message
    <3> QED
      BY <2>2, <2>3, <3>1
  <2> QED
    BY <1>0, <2>4, <2>5
<1>2. WillIsLast'
  BY DEF EndingInv, WillIsLast
<1>3. BreakIsSeen'
  BY DEF EndingInv, BreakIsSeen, BrokenCaptured, AwaitBroken
<1> QED
  BY <1>1, <1>2, <1>3 DEF EndingInv

LEMMA StartRecorderEnding ==
    ASSUME StoryInvariant, EndingInv, StartRecorder PROVE EndingInv'
<1>1. /\ pc' = "fleet" /\ captured = << >>
      /\ \A c \in Clients : link'[c] = << >>
  BY DEF StoryInvariant, ScenarioInvariant, StageInv, Starting, StartRecorder
<1>2. NothingFollows'
  BY <1>1 DEF NothingFollows, Clients
<1>3. WillIsLast'
  <2>1. CASE captured' = captured
    BY <1>1, <2>1 DEF WillIsLast
  <2>2. CASE captured' # captured
    <3>1. PICK order \in Bijection(Robots, Robots) :
              captured' = [i \in Robots |-> Retained(order[i])]
      BY <2>2 DEF StartRecorder
    <3>2. \A i, j \in Robots : order[i] = order[j] => i = j
      BY DEF Bijection, Injection, IsInjective
    <3>3. \A r : Retained(r).robot = r
      BY DEF Retained, Connection, Message
    <3>4. DOMAIN captured' = Robots /\ \A i \in Robots : captured'[i].robot = order[i]
      BY <3>1, <3>3
    <3>5. \A i, j \in Robots : i < j => i # j
      BY DEF Robots
    <3> QED
      BY <3>2, <3>4, <3>5 DEF WillIsLast
  <2> QED
    BY <2>1, <2>2
<1>4. BreakIsSeen'
  BY <1>1 DEF BreakIsSeen, Second
<1> QED
  BY <1>2, <1>3, <1>4 DEF EndingInv

LEMMA RouteEnding ==
    ASSUME StoryInvariant, EndingInv, NEW c \in Clients, Route(c) PROVE EndingInv'
<1> PICK m : m = link[c][1]
  OBVIOUS
<1>0. /\ ScenarioInvariant /\ TypeOK /\ CapturedInv /\ WaitingInv /\ LinkInv
      /\ link \in [Clients -> Seq(Sendable)]
      /\ DOMAIN link[c] = 1 .. Len(link[c]) /\ Len(link[c]) \in Nat \ {0}
      /\ link[c] # << >> /\ 1 \in DOMAIN link[c]
      /\ \A d \in Clients \ {c} : link'[d] = link[d]
      /\ Len(link[c]) = 1 => link'[c] = << >>
      /\ UNCHANGED <<job, pc, sample, up, session, recorderUp>>
      /\ Robots \subseteq Clients /\ Fleet \notin Robots
  <2>1. ScenarioInvariant
    BY DEF StoryInvariant
  <2>2. /\ link \in [Clients -> Seq(Sendable)]
        /\ DOMAIN link[c] = 1 .. Len(link[c]) /\ Len(link[c]) \in Nat \ {0}
        /\ link[c] # << >>
        /\ \A d \in Clients \ {c} : link'[d] = link[d]
        /\ Len(link[c]) = 1 => link'[c] = << >>
        /\ UNCHANGED <<job, pc, sample, up, session, recorderUp>>
    BY <2>1, RouteShape
  <2>3. 1 \in DOMAIN link[c]
    BY <2>2
  <2>4. TypeOK /\ CapturedInv /\ WaitingInv /\ LinkInv
    BY DEF StoryInvariant, StoryInv, ScenarioInvariant
  <2>5. Robots \subseteq Clients /\ Fleet \notin Robots
    BY <2>4, Numbers DEF TypeOK, Clients
  <2> QED
    BY <2>1, <2>2, <2>3, <2>4, <2>5
<1>1. \/ captured' = captured
      \/ captured' = Append(captured, m) /\ m \in Messages /\ m # Disconnect
  BY <1>0, RouteOutcome
<1>2. /\ FromClient(c, m)
      /\ m.value = "CONNECTION_BROKEN" => 1 = Len(link[c])
  BY <1>0 DEF LinkInv
<1>3. \A r : SessionOfClient(r)' = SessionOfClient(r)
  BY <1>0 DEF SessionOfClient
<1>4. m # Disconnect /\ ~FromFleet(m) =>
          c \in Robots /\ m.robot = c /\ m.session = SessionOfClient(c)
  <2>1. \A r : FromFleet(Order(r))
    BY DEF FromFleet, Order, Message
  <2> QED
    BY <1>2, <2>1 DEF FromClient
<1>5. \A r \in Robots : link[r] = << >> => link'[r] = << >>
  BY <1>0
<1>6. CASE captured' = captured
  <2>1. NothingFollows'
    BY <1>3, <1>5, <1>6 DEF EndingInv, NothingFollows, BrokenIn
  <2> QED
    BY <1>0, <1>6, <2>1 DEF EndingInv, WillIsLast, BreakIsSeen, BrokenCaptured
<1>7. CASE captured' = Append(captured, m) /\ m \in Messages /\ m # Disconnect
  <2> PICK n : n = Len(captured) + 1
    OBVIOUS
  <2>1. /\ n = Len(captured) + 1 /\ n \in Nat /\ DOMAIN captured = 1 .. n - 1
        /\ DOMAIN captured' = 1 .. n
        /\ \A i \in 1 .. n - 1 : captured'[i] = captured[i]
        /\ captured'[n] = m
    BY <1>0, <1>7, Grown
  <2>2. \A i \in DOMAIN captured : BrokenIn(captured, i, c) /\ c \in Robots =>
            captured[i].session # SessionOfClient(c)
    BY <1>0 DEF EndingInv, NothingFollows
  <2>3. NothingFollows'
    <3> SUFFICES ASSUME NEW i \in DOMAIN captured', NEW r \in Robots, BrokenIn(captured', i, r),
                        captured'[i].session = SessionOfClient(r)
                 PROVE  link'[r] = << >>
      BY <1>3 DEF NothingFollows, BrokenIn
    <3>1. CASE i \in 1 .. n - 1
      <4>1. BrokenIn(captured, i, r) /\ captured[i].session = SessionOfClient(r)
            /\ i \in DOMAIN captured
        BY <2>1, <3>1 DEF BrokenIn
      <4>2. link[r] = << >>
        BY <4>1 DEF EndingInv, NothingFollows
      <4> QED
        BY <1>5, <4>2
    <3>2. CASE i = n
      <4>1. m.robot = r /\ m.value = "CONNECTION_BROKEN"
        BY <2>1, <3>2 DEF BrokenIn
      <4>2. ~FromFleet(m)
        <5>1. \A q : Order(q).value = "order"
          BY DEF Order, Message
        <5>2. \A q : m # Order(q)
          BY <4>1, <5>1
        <5> QED
          BY <1>2, <1>7, <5>2 DEF FromClient, FromFleet
      <4>3. c = r /\ Len(link[c]) = 1
        BY <1>2, <1>4, <1>7, <4>1, <4>2
      <4> QED
        BY <1>0, <4>3
    <3> QED
      BY <2>1, <3>1, <3>2
  <2>4. WillIsLast'
    <3> SUFFICES ASSUME NEW i \in DOMAIN captured', NEW j \in DOMAIN captured', i < j,
                        captured'[i].value = "CONNECTION_BROKEN",
                        ~FromFleet(captured'[j]), captured'[j].robot = captured'[i].robot
                 PROVE  captured'[i].session < captured'[j].session
      BY DEF WillIsLast, FromFleet
    <3>1. i \in 1 .. n - 1 /\ captured'[i] = captured[i] /\ i \in DOMAIN captured
      BY <2>1
    <3>2. CASE j \in 1 .. n - 1
      <4>1. captured'[j] = captured[j] /\ j \in DOMAIN captured
        BY <2>1, <3>2
      <4> QED
        BY <3>1, <4>1 DEF EndingInv, WillIsLast
    <3>3. CASE j = n
      <4>1. c \in Robots /\ m.robot = c /\ m.session = SessionOfClient(c) /\ captured'[j] = m
        BY <1>4, <1>7, <2>1, <3>3
      <4> PICK x : x = captured[i]
        OBVIOUS
      <4>2. BrokenIn(captured, i, c) /\ x.robot = c
        BY <3>1, <4>1 DEF BrokenIn
      <4>3. x.session # SessionOfClient(c)
        BY <2>2, <3>1, <4>1, <4>2
      <4>4. x \in Said
        BY <1>0, <3>1 DEF CapturedInv
      <4>5. /\ x.session \in 0 .. 2 /\ SessionOfClient(c) \in {1, 2}
            /\ x.session <= SessionOfClient(c)
        BY <1>0, <4>2, <4>4, SaidSession
      <4>6. x.session < SessionOfClient(c)
        BY <4>3, <4>5
      <4> QED
        BY <3>1, <4>1, <4>6
    <3> QED
      BY <2>1, <3>2, <3>3
  <2>5. BreakIsSeen'
    BY <1>0, <2>1 DEF EndingInv, BreakIsSeen, BrokenCaptured
  <2> QED
    BY <2>3, <2>4, <2>5 DEF EndingInv
<1> QED
  BY <1>1, <1>6, <1>7

LEMMA NextEnding ==
    ASSUME StoryInvariant, StoryInvariant', EndingInv, [Next]_vars PROVE EndingInv'
<1>0. TypeOK
  BY DEF StoryInvariant, ScenarioInvariant
<1>1. CASE StartRecorder
  BY <1>1, StartRecorderEnding
<1>2. CASE Broker
  BY <1>2, RouteEnding DEF Broker
<1>3. CASE ~StartRecorder /\ ~Broker
  <2>1. captured' = captured /\ job' = job /\ (session' = session \/ pc = "reconnect")
    BY <1>3 DEF Next, Scenario, Faults, StartFleet, StartRobots, Greet,
           AwaitOrders, ReportMoving, Drive, ReportArrived, Crash, AwaitBroken, Reconnect,
           ReportRequest, AwaitCount, ShutdownRobot, ShutdownFleet, Shutdown, Conclude,
           PublishFails, DeadlineExpires, BudgetExceeded, StartFails, RecorderConnectionLost,
           ConnectionLost, Poll, Ended, Publish, Fail, vars
  <2>2. \/ pc' = pc
        \/ AwaitBroken
        \/ pc' \notin {"reconnect"} \cup Second
        \/ pc \in {"reconnect"} \cup Second
    BY <1>3 DEF Next, Scenario, Faults, StartFleet, StartRobots, Greet,
           AwaitOrders, ReportMoving, Drive, ReportArrived, Crash, Reconnect,
           ReportRequest, AwaitCount, ShutdownRobot, ShutdownFleet, Shutdown, Conclude,
           PublishFails, DeadlineExpires, BudgetExceeded, StartFails, RecorderConnectionLost,
           ConnectionLost, Poll, Ended, Publish, Fail, vars, Second
  <2>3. ASSUME NEW c \in Clients, up[c] # "up" PROVE link'[c] = link[c]
    <3>0. link \in [Clients -> Seq(Sendable)]
      BY <1>0 DEF TypeOK, Sendable
    <3>1. CASE Greet \/ ReportMoving \/ Drive \/ ReportArrived \/ ReportRequest
      <4>1. PICK stage, next, speakers, output : Publish(stage, next, speakers, output)
        BY <3>1 DEF Greet, ReportMoving, Drive, ReportArrived, ReportRequest
      <4> QED
        BY <2>3, <4>1 DEF Publish
    <3>2. CASE Crash
      BY <2>3, <3>0, <3>2 DEF Crash
    <3>3. CASE (\E r \in Robots : ShutdownRobot(r)) \/ ShutdownFleet
      <4>1. PICK d \in Clients : Shutdown(d)
        BY <3>3 DEF ShutdownRobot, ShutdownFleet, Clients
      <4> QED
        BY <2>3, <3>0, <4>1 DEF Shutdown
    <3>4. CASE \E d \in Clients : ConnectionLost(d)
      BY <2>3, <3>0, <3>4 DEF ConnectionLost
    <3>5. CASE \/ StartFleet \/ StartRobots \/ Reconnect
               \/ AwaitOrders \/ AwaitBroken \/ AwaitCount \/ Conclude
               \/ StartFails \/ PublishFails \/ DeadlineExpires \/ BudgetExceeded
               \/ RecorderConnectionLost \/ Poll \/ Ended \/ UNCHANGED vars
      BY <3>5 DEF StartFleet, StartRobots, AwaitOrders, AwaitBroken, Reconnect,
             AwaitCount, Conclude, PublishFails, DeadlineExpires, BudgetExceeded, StartFails,
             RecorderConnectionLost, Poll, Ended, Fail, vars
    <3> QED
      BY <1>3, <3>1, <3>2, <3>3, <3>4, <3>5 DEF Next, Scenario, Faults
  <2> QED
    BY <2>1, <2>2, <2>3, ScenarioEnding
<1> QED
  BY <1>1, <1>2, <1>3

(* What ends a session is the last of it: an invariant.                        *)
THEOREM EndingInvariantHolds == Spec => []EndingInvariant
<1>1. Init => EndingInv
  BY InitEnding
<1>2. EndingInv /\ StoryInvariant /\ StoryInvariant' /\ [Next]_vars => EndingInv'
  BY NextEnding
<1> QED
  BY <1>1, <1>2, StoryInvariantHolds, PTL DEF Spec, EndingInvariant

(* Who stays silent is the victim, of whose second session no ONLINE came.      *)
LEMMA SilentIsVictim ==
    ASSUME EndingInvariant, NEW i, StaysSilent(captured, i)
    PROVE  /\ i \in DOMAIN captured /\ captured[i].robot = Victim
           /\ ~Captured(Connection(Victim, 3, "ONLINE", 2))
<1>0. /\ TypeOK /\ CapturedInv /\ WillIsLast /\ session \in {1, 2}
  BY DEF EndingInvariant, EndingInv, StoryInvariant, StoryInv, ScenarioInvariant, TypeOK
<1>1. /\ i \in DOMAIN captured /\ captured[i].value \in {"OFFLINE", "CONNECTION_BROKEN"}
      /\ captured[i].topic = "connection"
  BY DEF StaysSilent
<1> PICK m : m = captured[i]
  OBVIOUS
<1>2. m \in Said /\ m.value = "CONNECTION_BROKEN" /\ m.topic = "connection"
  <2>1. m \in Said /\ m \in Messages
    BY <1>0, <1>1, SaidShape DEF CapturedInv
  <2>2. m.value # "OFFLINE"
    BY <2>1 DEF Messages
  <2> QED
    BY <1>1, <2>1, <2>2
<1>3. PICK j \in DOMAIN captured :
          j > i /\ ~FromFleet(captured[j]) /\ captured[j].robot = m.robot
  BY DEF StaysSilent
<1> PICK n : n = captured[j]
  OBVIOUS
<1>4. m.session < n.session
  <2>1. i \in Nat /\ j \in Nat
    <3>1. DOMAIN captured = 1 .. Len(captured)
      BY <1>0, LenProperties DEF TypeOK
    <3> QED
      BY <1>1, <3>1
  <2>2. i < j
    BY <1>3, <2>1
  <2> QED
    BY <1>0, <1>1, <1>2, <1>3, <2>2 DEF WillIsLast
<1>5. n \in Said /\ n.robot = m.robot
  BY <1>0, <1>3 DEF CapturedInv
<1>6. n.session \in 0 .. 2 /\ n.session <= SessionOfClient(m.robot)
      /\ SessionOfClient(m.robot) \in {1, 2}
  BY <1>0, <1>5, SaidSession
<1>7. m.session \in {0, 1, 2} /\ (m.session # 1 => m.robot = Victim) /\ m.session # 2
  BY <1>0, <1>2, <1>4, <1>6, WillShape DEF Connection, Message
<1>8. m.robot = Victim
  BY <1>4, <1>6, <1>7 DEF SessionOfClient
<1>9. ASSUME Captured(Connection(Victim, 3, "ONLINE", 2)) PROVE FALSE
  <2>1. PICK k \in DOMAIN captured : captured[k] = Connection(Victim, 3, "ONLINE", 2)
    BY <1>9 DEF Captured
  <2> PICK x : x = captured[k]
    OBVIOUS
  <2>2. x.topic = "connection" /\ x.value = "ONLINE" /\ x.robot = Victim /\ x.session = 2
    BY <2>1 DEF Connection, Message
  <2>3. ~(k > i)
    BY <1>8, <2>2 DEF StaysSilent
  <2>4. k < i
    <3>1. DOMAIN captured = 1 .. Len(captured)
      BY <1>0, LenProperties DEF TypeOK
    <3>2. k # i
      BY <1>2, <2>2
    <3> QED
      BY <1>1, <2>3, <3>1, <3>2
  <2>5. Rank(x) < Rank(m)
    BY <1>0, <1>1, <1>2, <1>8, <2>2, <2>4 DEF CapturedInv, Rising, SameStream
  <2>6. Rank(x) = 4 /\ Rank(m) = 2 * m.session + 1
    BY <1>2, <2>2 DEF Rank
  <2> QED
    BY <1>7, <2>5, <2>6
<1> QED
  BY <1>1, <1>8, <1>9

LEMMA IncidentIsDiagnosed == EndingInvariant => FaultIsDiagnosed
<1> SUFFICES ASSUME EndingInvariant, Done, Fresh, ~job.online PROVE
        /\ Captured(State(Victim, 3, "request", 2)) =>
            \E f \in Findings(EvidenceTrace) :
                f.verdict = "FAIL" /\ f.target = "MOBILE_ROBOT"
        /\ \E f \in ReconnectFindings(PassiveTrace) :
            f.verdict = "INCONCLUSIVE" /\ f.target = "UNRESOLVED"
  BY DEF FaultIsDiagnosed
<1>0. /\ TypeOK /\ CapturedInv /\ EpochsAreTrue /\ CaptureIsCausal /\ BreakIsSeen
      /\ DOMAIN captured = 1 .. Len(captured) /\ Len(captured) \in Nat
  <2>1. TypeOK
    BY DEF EndingInvariant, StoryInvariant, ScenarioInvariant
  <2> QED
    BY <2>1, LenProperties DEF EndingInvariant, EndingInv, StoryInvariant, StoryInv,
           ScenarioInvariant, CaptureInv, TypeOK
<1>1. ASSUME Captured(State(Victim, 3, "request", 2))
      PROVE  \E f \in Findings(EvidenceTrace) :
                 f.verdict = "FAIL" /\ f.target = "MOBILE_ROBOT"
  <2>1. PICK j \in DOMAIN captured : captured[j] = State(Victim, 3, "request", 2)
    BY <1>1 DEF Captured
  <2>2. captured[j].topic = "state" /\ captured[j].session = 2 /\ captured[j].robot = Victim
    BY <2>1 DEF State, Message
  <2>3. PICK i \in 1 .. j - 1 : captured[i] = Connection(Victim, 2, "CONNECTION_BROKEN", 1)
    BY <1>0, <2>2 DEF CaptureIsCausal
  <2>4. i \in DOMAIN captured /\ i < j
    BY <1>0
  <2>5. /\ captured[i].topic = "connection" /\ captured[i].value = "CONNECTION_BROKEN"
        /\ captured[i].robot = Victim /\ captured[i].session = 1
    BY <2>3 DEF Connection, Message
  <2>6. ASSUME NEW k \in DOMAIN captured, k > i, captured[k].topic = "connection",
               captured[k].value = "ONLINE", captured[k].robot = Victim
        PROVE  FALSE
    <3> PICK m, n : m = captured[i] /\ n = captured[k]
      OBVIOUS
    <3>1. i < k
      BY <1>0, <2>4, <2>6
    <3>2. Rank(m) < Rank(n)
      BY <1>0, <2>4, <2>5, <2>6, <3>1 DEF CapturedInv, Rising, SameStream
    <3>4. n \in Said /\ n.topic = "connection" /\ n.value = "ONLINE"
      BY <1>0, <2>6 DEF CapturedInv
    <3>5. n.session \in {0, 1}
      <4> PICK r \in Robots : n \in Story(r)
        BY <3>4 DEF Said
      <4> QED
        BY <3>4 DEF Story, Retained, Connection, Order, State, Visualization, Message
    <3>6. Rank(m) = 3 /\ Rank(n) \in {0, 2}
      BY <2>5, <3>4, <3>5 DEF Rank
    <3> QED
      BY <3>2, <3>6
  <2>7. SessionOf(captured, j) = 2
    BY <2>2, <2>4, <2>5 DEF SessionOf, BrokenIn
  <2>8. SessionOf(captured, i) = 1
    BY <1>0, <2>4, <2>5 DEF EpochsAreTrue, FromFleet
  <2>9. StaysSilent(captured, i)
    <3>1. ~FromFleet(captured[j]) /\ captured[j].robot = captured[i].robot /\ j > i
      BY <1>0, <2>2, <2>4, <2>5 DEF FromFleet
    <3> QED
      BY <2>1, <2>4, <2>5, <2>6, <2>7, <2>8, <3>1 DEF StaysSilent
  <2>10. \E f \in ReconnectFindings(EvidenceTrace) :
            f.verdict = "FAIL" /\ f.target = "MOBILE_ROBOT"
    BY <2>9, ReconnectVerdict DEF EvidenceTrace
  <2> QED
    BY <2>10 DEF Findings
<1>2. \E f \in ReconnectFindings(PassiveTrace) :
          f.verdict = "INCONCLUSIVE" /\ f.target = "UNRESOLVED"
  <2>1. PICK i \in DOMAIN captured : captured[i].value = "CONNECTION_BROKEN"
    BY <1>0 DEF BreakIsSeen, BrokenCaptured, Done, Second
  <2>2. captured[i].topic = "connection"
    BY <1>0, <2>1, WillShape DEF CapturedInv
  <2> QED
    BY <2>1, <2>2, PassiveVerdict DEF PassiveTrace
<1> QED
  BY <1>1, <1>2

(* In a calm run the victim's connection says ONLINE, CONNECTION_BROKEN and     *)
(* ONLINE, the others' ONLINE alone.                                           *)
LEMMA CalmConnections ==
    ASSUME TypeOK, Calm, NEW m \in Said, m.topic = "connection"
    PROVE  \/ m = Connection(m.robot, 1, "ONLINE", 1)
           \/ m.robot = Victim /\ m = Connection(Victim, 2, "CONNECTION_BROKEN", 1)
           \/ m.robot = Victim /\ m = Connection(Victim, 3, "ONLINE", 2)
<1> PICK r \in Robots : m \in Story(r)
  BY DEF Said
<1>1. \/ m = Connection(r, 1, "ONLINE", 1)
      \/ r = Victim /\ m = Connection(r, 2, "CONNECTION_BROKEN", 1)
      \/ r = Victim /\ m = Connection(r, 3, "ONLINE", 2)
  BY DEF Calm, Fresh, Story, Order, State, Visualization, Message
<1>2. m.robot = r
  BY <1>1 DEF Connection, Message
<1> QED
  BY <1>1, <1>2

LEMMA ControlHasNoFinding == EndingInvariant => ControlIsClean
<1> SUFFICES ASSUME EndingInvariant, Done, Calm, job.online
             PROVE  /\ ReconnectFindings(EvidenceTrace) = {}
                    /\ \E i, j, k \in DOMAIN captured :
                        /\ i < j /\ j < k /\ VictimStates = {i, j, k}
                        /\ captured[i] = Connection(Victim, 1, "ONLINE", 1)
                        /\ captured[j] = Connection(Victim, 2, "CONNECTION_BROKEN", 1)
                        /\ captured[k] = Connection(Victim, 3, "ONLINE", 2)
  BY DEF ControlIsClean
<1>0. /\ TypeOK /\ CapturedInv /\ WrittenIsComplete
      /\ \A i \in DOMAIN captured : i \in Nat
      /\ Victim \in Robots
  <2>1. TypeOK
    BY DEF EndingInvariant, StoryInvariant, ScenarioInvariant
  <2>2. WrittenIsComplete
    BY BarrierIsWritten DEF EndingInvariant
  <2>3. DOMAIN captured = 1 .. Len(captured)
    BY <2>1, LenProperties DEF TypeOK
  <2> QED
    BY <2>1, <2>2, <2>3, Numbers DEF EndingInvariant, StoryInvariant, StoryInv, TypeOK
<1>1. PICK i, j, k \in DOMAIN captured :
          /\ captured[i] = Connection(Victim, 1, "ONLINE", 1)
          /\ captured[j] = Connection(Victim, 2, "CONNECTION_BROKEN", 1)
          /\ captured[k] = Connection(Victim, 3, "ONLINE", 2)
  <2>1. /\ Captured(Connection(Victim, 1, "ONLINE", 1))
        /\ Captured(Connection(Victim, 2, "CONNECTION_BROKEN", 1))
        /\ Captured(Connection(Victim, 3, "ONLINE", 2))
    BY <1>0 DEF WrittenIsComplete, Calm
  <2> QED
    BY <2>1 DEF Captured
(* Among the victim's connection messages a higher rank is a later place. *)
<1>2. ASSUME NEW p \in DOMAIN captured, NEW q \in DOMAIN captured,
             SameStream(captured[p], captured[q]), Rank(captured[p]) < Rank(captured[q]),
             Rank(captured[p]) \in Nat, Rank(captured[q]) \in Nat
      PROVE  p < q
  <2>1. p \in Nat /\ q \in Nat
    BY <1>0
  <2>2. p # q
    BY <1>2
  <2>3. ~(q < p)
    <3>1. ASSUME q < p PROVE FALSE
      <4>1. SameStream(captured[q], captured[p])
        BY <1>2 DEF SameStream
      <4>2. Rank(captured[q]) < Rank(captured[p])
        BY <1>0, <3>1, <4>1 DEF CapturedInv, Rising
      <4> PICK a, b \in Nat : a = Rank(captured[p]) /\ b = Rank(captured[q])
        BY <1>2
      <4> QED
        BY <1>2, <4>2
    <3> QED
      BY <3>1
  <2> QED
    BY <2>1, <2>2, <2>3
<1>3. /\ Rank(captured[i]) = 2 /\ Rank(captured[j]) = 3 /\ Rank(captured[k]) = 4
      /\ SameStream(captured[i], captured[j]) /\ SameStream(captured[j], captured[k])
  BY <1>1 DEF Connection, Message, Rank, SameStream
<1>4. i < j
  BY <1>2, <1>3
<1>5. j < k
  BY <1>2, <1>3
<1>6. ASSUME NEW p \in DOMAIN captured, captured[p].topic = "connection"
      PROVE  \/ captured[p].robot = Victim /\ captured[p] \in {captured[i], captured[j], captured[k]}
             \/ captured[p].robot # Victim /\ captured[p].value = "ONLINE"
  <2> PICK m : m = captured[p]
    OBVIOUS
  <2>1. m \in Said /\ m.topic = "connection"
    BY <1>0, <1>6 DEF CapturedInv
  <2>2. \/ m = Connection(m.robot, 1, "ONLINE", 1)
        \/ m.robot = Victim /\ m = Connection(Victim, 2, "CONNECTION_BROKEN", 1)
        \/ m.robot = Victim /\ m = Connection(Victim, 3, "ONLINE", 2)
    BY <1>0, <2>1, CalmConnections
  <2>3. \A r : Connection(r, 1, "ONLINE", 1).value = "ONLINE"
    BY DEF Connection, Message
  <2>4. m.robot # Victim => m.value = "ONLINE"
    BY <2>2, <2>3
  <2>5. m.robot = Victim => m \in {captured[i], captured[j], captured[k]}
    BY <1>1, <2>2
  <2> QED
    BY <2>4, <2>5
<1>7. ASSUME NEW p \in DOMAIN captured, NEW q \in DOMAIN captured,
             captured[p] = captured[q], captured[q].topic = "connection"
      PROVE  p = q
  <2>1. SameStream(captured[p], captured[q])
    BY <1>7 DEF SameStream
  <2>2. SameStream(captured[q], captured[p])
    BY <1>7 DEF SameStream
  <2> PICK a : a = Rank(captured[p]) /\ a = Rank(captured[q])
    BY <1>7
  <2>3. a \in {2, 3, 4}
    <3>1. captured[p] \in Said /\ captured[p].topic = "connection"
      BY <1>0, <1>7 DEF CapturedInv
    <3> PICK m : m = captured[p]
      OBVIOUS
    <3>2. \/ m = Connection(m.robot, 1, "ONLINE", 1)
          \/ m.robot = Victim /\ m = Connection(Victim, 2, "CONNECTION_BROKEN", 1)
          \/ m.robot = Victim /\ m = Connection(Victim, 3, "ONLINE", 2)
      BY <1>0, <3>1, CalmConnections
    <3>3. Rank(m) \in {2, 3, 4}
      BY <3>2 DEF Connection, Message, Rank
    <3> QED
      BY <3>3
  <2>4. ~(a < a)
    BY <2>3
  <2>5. ~(p < q) /\ ~(q < p)
    BY <1>0, <2>1, <2>2, <2>4 DEF CapturedInv, Rising
  <2>6. p \in Nat /\ q \in Nat
    BY <1>0
  <2> QED
    BY <2>5, <2>6
<1>8. VictimStates = {i, j, k}
  <2>1. \A p \in VictimStates : p \in {i, j, k}
    <3> SUFFICES ASSUME NEW p \in DOMAIN captured, captured[p].topic = "connection",
                        captured[p].robot = Victim
                 PROVE  p \in {i, j, k}
      BY DEF VictimStates
    <3>1. captured[i].topic = "connection" /\ captured[j].topic = "connection"
          /\ captured[k].topic = "connection"
      BY <1>1 DEF Connection, Message
    <3>2. captured[p] \in {captured[i], captured[j], captured[k]}
      BY <1>6
    <3> QED
      BY <1>7, <3>1, <3>2
  <2>2. i \in VictimStates /\ j \in VictimStates /\ k \in VictimStates
    BY <1>1 DEF VictimStates, Connection, Message
  <2> QED
    BY <2>1, <2>2
<1>9. ReconnectFindings(EvidenceTrace) = {}
  <2>1. ASSUME NEW p \in DOMAIN captured, captured[p].topic = "connection",
               captured[p].value \in {"OFFLINE", "CONNECTION_BROKEN"}
        PROVE  \E q \in DOMAIN captured :
                   /\ q > p /\ captured[q].topic = "connection"
                   /\ captured[q].value = "ONLINE" /\ captured[q].robot = captured[p].robot
    <3>1. captured[p].robot = Victim
      BY <1>6, <2>1
    <3>2. p \in {i, j, k}
      BY <1>8, <2>1, <3>1 DEF VictimStates
    <3>3. p = j
      BY <1>1, <2>1, <3>2 DEF Connection, Message
    <3>4. captured[k].topic = "connection" /\ captured[k].value = "ONLINE"
          /\ captured[k].robot = Victim
      BY <1>1 DEF Connection, Message
    <3>5. k > p
      BY <1>0, <1>5, <3>3
    <3> QED
      BY <3>1, <3>4, <3>5
  <2> QED
    BY <2>1, CleanVerdict DEF EvidenceTrace
<1> QED
  BY <1>1, <1>4, <1>5, <1>8, <1>9

LEMMA NobodyIsWronged == EndingInvariant => NoFalseBlame
<1> SUFFICES ASSUME EndingInvariant, Done
             PROVE  /\ \A f \in Findings(PassiveTrace) : f.verdict # "FAIL"
                    /\ \A f \in Findings(EvidenceTrace) : f.verdict = "FAIL" =>
                        \/ /\ f.target = "MOBILE_ROBOT" /\ captured[f.event].robot = Victim
                           /\ ~Captured(Connection(Victim, 3, "ONLINE", 2))
                           /\ Fresh /\ job.faults = 0 => ~job.online
                        \/ /\ f.target = "FLEET_CONTROL"
                           /\ captured[f.event] = State(Victim, 3, "request", 2)
  BY DEF NoFalseBlame
<1>0. TypeOK /\ CapturedInv /\ WrittenIsComplete
  <2>1. WrittenIsComplete
    BY BarrierIsWritten DEF EndingInvariant
  <2> QED
    BY <2>1 DEF EndingInvariant, StoryInvariant, StoryInv, ScenarioInvariant
<1>1. \A f \in Findings(PassiveTrace) : f.verdict # "FAIL"
  <2>1. \A f \in ReconnectFindings(PassiveTrace) : f.verdict # "FAIL"
    <3>1. "INCONCLUSIVE" # "FAIL"
      OBVIOUS
    <3> QED
      BY <3>1, PassiveVerdict DEF PassiveTrace
  <2>2. \A f \in BaseRequestFindings(PassiveTrace) : f.verdict # "FAIL"
    BY RequestVerdict DEF PassiveTrace
  <2> QED
    BY <2>1, <2>2 DEF Findings
<1>2. ASSUME NEW f \in ReconnectFindings(EvidenceTrace), f.verdict = "FAIL"
      PROVE  /\ f.target = "MOBILE_ROBOT" /\ captured[f.event].robot = Victim
             /\ ~Captured(Connection(Victim, 3, "ONLINE", 2))
             /\ Fresh /\ job.faults = 0 => ~job.online
  <2>1. f.target = "MOBILE_ROBOT"
    BY <1>2, FindingFields DEF ReconnectFindings, GatedFinding
  <2>2. StaysSilent(captured, f.event)
    BY <1>2, ReconnectVerdict DEF EvidenceTrace
  <2>3. captured[f.event].robot = Victim /\ ~Captured(Connection(Victim, 3, "ONLINE", 2))
    BY <2>2, SilentIsVictim
  <2>4. Fresh /\ job.faults = 0 => ~job.online
    BY <1>0, <2>3 DEF WrittenIsComplete
  <2> QED
    BY <2>1, <2>3, <2>4
<1>3. ASSUME NEW f \in BaseRequestFindings(EvidenceTrace), f.verdict = "FAIL"
      PROVE  /\ f.target = "FLEET_CONTROL"
             /\ captured[f.event] = State(Victim, 3, "request", 2)
  <2>1. /\ f.target = "FLEET_CONTROL" /\ f.event \in DOMAIN captured
        /\ captured[f.event].topic = "state" /\ captured[f.event].value = "request"
    BY <1>3, RequestVerdict DEF EvidenceTrace
  <2> PICK m : m = captured[f.event]
    OBVIOUS
  <2>2. m \in Said /\ m.value = "request"
    BY <1>0, <2>1 DEF CapturedInv
  <2> PICK r \in Robots : m \in Story(r)
    BY <2>2 DEF Said
  <2>3. m = State(Victim, 3, "request", 2)
    BY <2>2 DEF Story, Retained, Connection, Order, State, Visualization, Message
  <2> QED
    BY <2>1, <2>3
<1> QED
  BY <1>1, <1>2, <1>3 DEF Findings

(* The two reports of a run that ended well say what the scenario did, whatever *)
(* was lost, late or retained: the incident is diagnosed, the control is clean  *)
(* and who is blamed was not heard to come back (docs/DEMO.md 195-199, 224-227). *)
THEOREM DiagnosisHolds == Spec => []DiagnosisIsTrue
<1>1. EndingInvariant => DiagnosisIsTrue
  BY IncidentIsDiagnosed, ControlHasNoFinding, NobodyIsWronged DEF DiagnosisIsTrue
<1> QED
  BY <1>1, EndingInvariantHolds, PTL
=============================================================================
