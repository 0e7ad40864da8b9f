-------------------------- MODULE LiveCockpitProofs --------------------------
(***************************************************************************)
(* Proofs about LiveCockpit for every number of robots, every set of jobs,   *)
(* all limits and periods and every number of faults.                       *)
(*                                                                          *)
(* The invariant follows a message from the client that publishes it over    *)
(* the broker and the recorder's inbox to the capture.  Wherever it waits it *)
(* is true of the job, and what must come before it in the capture is        *)
(* captured, in the inbox before it or on its link before it.               *)
(***************************************************************************)
EXTENDS LiveCockpit, DoctorProofs, SequenceTheorems, FiniteSetTheorems

Online(r, s) == Connection(r, "ONLINE", s)
Broken(r) == Connection(r, "CONNECTION_BROKEN", 1)

(* The first n elements of s. *)
Elements(s, n) == {s[i] : i \in 1 .. n}

(* What the recorder has before the entry i of its inbox, and all it has. *)
HeardBefore(i) == Elements(captured, Len(captured)) \cup Elements(recIn, i - 1)
Heard == HeardBefore(Len(recIn) + 1)

(* What the recorder has when the last message of the link of r reaches it. *)
HeardOf(r) == Heard \cup Elements(link[r], Len(link[r]))

(* What a message says is so. *)
Truthful(m) ==
    /\ m.session = 2 => m.robot = Target
    /\ m.session = 2 /\ m.value = "ONLINE" => ~OmitOnline
    /\ m.value = "arrived" =>
           finalSent[m.robot] /\ (m.session = 2 <=> m.robot = Target)

(* S holds all that comes before what robot r says of its order in session s. *)
Ready(r, s, S) ==
    /\ \A q \in Robots : Online(q, 1) \in S
    /\ s = 2 /\ ~OmitOnline => Online(r, 2) \in S
    /\ faults = 0 => Order(r) \in S

(* The message m may follow the messages in S. *)
Justified(m, S) ==
    /\ m.topic # "order" => (m.session = 2 <=> Broken(m.robot) \in S)
    /\ m.topic \in {"state", "visualization"} => Ready(m.robot, m.session, S)
    /\ m.topic = "order" => \A q \in Robots : Online(q, 1) \in S

(* The robots are connected in turn; the target crosses once, and is in its    *)
(* second session when it is back.                                            *)
SimInv ==
    /\ simPc \in {"connect", "orders", "shutdown"} => cursor \in Robots
    /\ simPc \in {"connect", "orders"} => ~faultInjected
    /\ simPc = "connect" =>
           \A r \in Robots : r >= cursor => client[r] = "none" /\ link[r] = << >>
    /\ \A r \in Robots : session[r] = 2 => r = Target /\ faultInjected
    /\ faultInjected /\ client[Target] = "up" => session[Target] = 2
    /\ reconnectAt # 0 => faultInjected
    /\ simPc = "tick" => tick # 0
    /\ simPc = "tick" /\ (IF Target < cursor THEN CrossTick <= tick ELSE CrossTick < tick) =>
           faultInjected

LinkInv ==
    \A r \in Robots : \A i \in DOMAIN link[r] : link[r][i] # Disconnect =>
        /\ link[r][i].robot = r /\ link[r][i].session = session[r]
        /\ Truthful(link[r][i])
        /\ link[r][i].value = "CONNECTION_BROKEN" => i = Len(link[r]) /\ client[r] # "up"

(* Robot r has its order. *)
HasOrder(r) ==
    \/ simPc = "orders" /\ r < cursor
    \/ simPc \in {"tick", "shutdown"}

(* Nothing is sent of an order before every robot was seen online. *)
DispatchInv ==
    \/ online = Robots
    \/ /\ fleetPc # "arrived" /\ fleetLink = << >>
       /\ \A r \in Robots : orderIn[r] = << >> /\ ~HasOrder(r) /\ session[r] = 1

(* The completion message is sent when the fleet has seen every arrival. *)
CompletionInv ==
    /\ \/ completion
       \/ \E i \in DOMAIN recIn : recIn[i] = Control
       \/ \E i \in DOMAIN fleetLink : fleetLink[i] = Control
       => fleetPc = "done"
    /\ \A r \in finals :
           \E i \in DOMAIN captured : captured[i].robot = r /\ captured[i].value = "arrived"
    /\ recPc = "sealed" => RunObserved

CapturedInv ==
    \A i \in DOMAIN captured :
        Truthful(captured[i]) /\ Justified(captured[i], Elements(captured, i - 1))

InboxInv ==
    \A i \in DOMAIN recIn :
        recIn[i] # Control => Truthful(recIn[i]) /\ Justified(recIn[i], HeardBefore(i))

(* The recorder receives what the broker forwards. *)
Listening == recPc = "record" /\ recUp

(* What waits on the links will follow what it must. *)
WireInv ==
    \A r \in Robots : \A i \in DOMAIN link[r] : link[r][i] # Disconnect =>
        Justified(link[r][i], Heard \cup Elements(link[r], i - 1))

(* The client of r was started, and the simulation still needs it. *)
Started(r) ==
    \/ simPc = "connect" /\ r < cursor
    \/ simPc \in {"orders", "tick"}

(* The end of a first session is heard before the second begins, and is the    *)
(* last that is heard of it.                                                  *)
BreakInv ==
    \A r \in Robots :
        /\ session[r] = 2 => Broken(r) \in Heard
        /\ session[r] = 1 /\ Broken(r) \in Heard =>
               /\ client[r] # "up" /\ link[r] = << >>
               /\ ~(simPc = "connect" /\ r >= cursor)
        /\ Started(r) /\ client[r] # "up" => Broken(r) \in HeardOf(r)

(* Whom the fleet has seen or will see online was heard to be, the second ONLINE *)
(* is heard or first on its link, and so is an order that has arrived.         *)
GreetingInv ==
    /\ \A r \in online : Online(r, 1) \in Heard
    /\ \A i \in DOMAIN fleetIn :
           fleetIn[i].value = "ONLINE" => Online(fleetIn[i].robot, 1) \in Heard
    /\ \A r \in Robots :
           /\ retained[r].value = "ONLINE" => Online(retained[r].robot, 1) \in Heard
           /\ client[r] = "up" /\ session[r] = 2 /\ ~OmitOnline => Online(r, 2) \in HeardOf(r)
           /\ faults = 0 /\ (orderIn[r] # << >> \/ HasOrder(r)) => Order(r) \in Heard

RecorderInv == Listening => WireInv /\ BreakInv /\ GreetingInv

(* The ONLINE of a connected robot is retained or on its way. *)
RetainedInv ==
    \A r \in Robots :
        client[r] = "up" /\ (session[r] = 1 \/ ~OmitOnline) =>
            \/ retained[r] = Online(r, session[r])
            \/ Online(r, session[r]) \in Elements(link[r], Len(link[r]))

JobInv ==
    /\ SimInv /\ LinkInv /\ DispatchInv /\ CompletionInv
    /\ CapturedInv /\ InboxInv /\ RecorderInv /\ RetainedInv

JobInvariant == TypeOK /\ JobInv

-----------------------------------------------------------------------------
(* Operators *)

LEMMA Numbers ==
    ASSUME job \in Jobs
    PROVE  /\ job.omitOnline \in BOOLEAN /\ job.deadlines \in BOOLEAN /\ job.slow \in BOOLEAN
           /\ job.outage \in Nat \ {0} /\ job.messages \in Nat /\ job.faults \in Nat
           /\ NumRobots \in Nat \ {0} /\ Robots = 1 .. NumRobots /\ Robots \subseteq Nat
           /\ Target \in Robots
           /\ ArriveTick \in [Robots -> Nat \ {0}] /\ CrossTick \in Nat \ {0}
           /\ CrossTick < ArriveTick[Target] /\ MaxTick \in Nat \ {0}
<1>1. job \in JobType
  BY ConstantsAssumption
<1>2. /\ job.omitOnline \in BOOLEAN /\ job.deadlines \in BOOLEAN /\ job.slow \in BOOLEAN
      /\ job.outage \in Nat \ {0} /\ job.messages \in Nat /\ job.faults \in Nat
  BY <1>1 DEF JobType
<1>3. /\ NumRobots \in Nat \ {0} /\ Robots = 1 .. NumRobots /\ Robots \subseteq Nat
      /\ Target \in Robots
      /\ ArriveTick \in [Robots -> Nat \ {0}] /\ CrossTick \in Nat \ {0}
      /\ CrossTick < ArriveTick[Target] /\ MaxTick \in Nat \ {0}
  BY ConstantsAssumption DEF Robots
<1> QED
  BY <1>2, <1>3

LEMMA MessageShape ==
    /\ \A m \in RobotMessages :
           /\ m.robot \in Robots /\ m.session \in {1, 2}
           /\ m.topic \in {"connection", "state", "visualization"}
           /\ m.topic = "connection" =>
                  /\ m.value \in {"ONLINE", "CONNECTION_BROKEN"}
                  /\ m = Connection(m.robot, m.value, m.session)
           /\ m.topic = "state" =>
                  m.value \in {"moving", "arrived"} /\ m = State(m.robot, m.value, m.session)
           /\ m.topic = "visualization" => m.value = "pose"
    /\ \A m \in Orders : /\ m.topic = "order" /\ m.robot \in Robots /\ m = Order(m.robot)
                         /\ m.session = 0 /\ m.value = "order"
    /\ \A r \in Robots, s \in {1, 2} :
           /\ Connection(r, "ONLINE", s) \in RobotMessages
           /\ Connection(r, "CONNECTION_BROKEN", s) \in RobotMessages
           /\ State(r, "moving", s) \in RobotMessages /\ State(r, "arrived", s) \in RobotMessages
           /\ Visualization(r, s) \in RobotMessages
           /\ Order(r) \in Orders
<1>1. \A m \in RobotMessages :
          \/ \E r \in Robots, v \in {"ONLINE", "CONNECTION_BROKEN"}, s \in {1, 2} :
                 m = Message("connection", r, v, s)
          \/ \E r \in Robots, v \in {"moving", "arrived"}, s \in {1, 2} :
                 m = Message("state", r, v, s)
          \/ \E r \in Robots, s \in {1, 2} : m = Message("visualization", r, "pose", s)
  BY DEF RobotMessages, Sessions, Connection, State, Visualization
<1>2. \A m \in RobotMessages :
           /\ m.robot \in Robots /\ m.session \in {1, 2}
           /\ m.topic \in {"connection", "state", "visualization"}
           /\ m.topic = "connection" =>
                  /\ m.value \in {"ONLINE", "CONNECTION_BROKEN"}
                  /\ m = Connection(m.robot, m.value, m.session)
           /\ m.topic = "state" =>
                  m.value \in {"moving", "arrived"} /\ m = State(m.robot, m.value, m.session)
           /\ m.topic = "visualization" => m.value = "pose"
  BY <1>1 DEF Message, Connection, State
<1>3. \A m \in Orders : /\ m.topic = "order" /\ m.robot \in Robots /\ m = Order(m.robot)
                        /\ m.session = 0 /\ m.value = "order"
  BY DEF Orders, Order, Message
<1>4. \A r \in Robots, s \in {1, 2} :
           /\ Connection(r, "ONLINE", s) \in RobotMessages
           /\ Connection(r, "CONNECTION_BROKEN", s) \in RobotMessages
           /\ State(r, "moving", s) \in RobotMessages /\ State(r, "arrived", s) \in RobotMessages
           /\ Visualization(r, s) \in RobotMessages
           /\ Order(r) \in Orders
  BY DEF RobotMessages, Orders, Sessions
<1> QED
  BY <1>2, <1>3, <1>4

(* The messages that others wait for are told apart. *)
LEMMA Distinct ==
    /\ \A r, s, v : /\ Connection(r, v, s).topic = "connection" /\ Connection(r, v, s).robot = r
                    /\ Connection(r, v, s).session = s /\ Connection(r, v, s).value = v
    /\ \A r, s, v : /\ State(r, v, s).topic = "state" /\ State(r, v, s).robot = r
                    /\ State(r, v, s).session = s /\ State(r, v, s).value = v
    /\ \A r, s : /\ Visualization(r, s).topic = "visualization" /\ Visualization(r, s).robot = r
                 /\ Visualization(r, s).session = s /\ Visualization(r, s).value = "pose"
    /\ \A r : /\ Order(r).topic = "order" /\ Order(r).robot = r /\ Order(r).session = 0
              /\ Order(r).value = "order"
    /\ Control.topic = "control" /\ Control.value = "complete"
    /\ Disconnect.topic = "disconnect" /\ NoMessage.topic = "none"
    /\ Disconnect.value = "" /\ NoMessage.value = ""
BY DEF Connection, State, Visualization, Order, Control, Disconnect, NoMessage, Message

LEMMA Evidence ==
    \A r, s : /\ Online(r, s).topic = "connection" /\ Online(r, s).robot = r
              /\ Online(r, s).session = s /\ Online(r, s).value = "ONLINE"
              /\ Broken(r).topic = "connection" /\ Broken(r).robot = r
              /\ Broken(r).session = 1 /\ Broken(r).value = "CONNECTION_BROKEN"
BY DEF Online, Broken, Connection, Message

LEMMA SequenceShape ==
    ASSUME NEW S, NEW s \in Seq(S)
    PROVE  /\ Len(s) \in Nat /\ DOMAIN s = 1 .. Len(s)
           /\ \A i \in DOMAIN s : s[i] \in S
           /\ s = << >> <=> Len(s) = 0
           /\ s # << >> => 1 \in DOMAIN s /\ Len(s) \in DOMAIN s
BY LenProperties, EmptySeq

LEMMA Appended ==
    ASSUME NEW S, NEW s \in Seq(S), NEW x \in S
    PROVE  /\ Append(s, x) \in Seq(S) /\ Len(Append(s, x)) = Len(s) + 1
           /\ DOMAIN Append(s, x) = 1 .. Len(s) + 1
           /\ \A i \in 1 .. Len(s) : Append(s, x)[i] = s[i]
           /\ Append(s, x)[Len(s) + 1] = x
           /\ \A n \in 0 .. Len(s) : Elements(Append(s, x), n) = Elements(s, n)
           /\ Elements(Append(s, x), Len(s) + 1) = Elements(s, Len(s)) \cup {x}
<1>1. /\ Append(s, x) \in Seq(S) /\ Len(Append(s, x)) = Len(s) + 1
      /\ \A i \in 1 .. Len(s) : Append(s, x)[i] = s[i]
      /\ Append(s, x)[Len(s) + 1] = x
      /\ Len(s) \in Nat
  BY AppendProperties, SequenceShape
<1>2. DOMAIN Append(s, x) = 1 .. Len(s) + 1
  BY <1>1, SequenceShape
<1>3. \A n \in 0 .. Len(s) : Elements(Append(s, x), n) = Elements(s, n)
  BY <1>1 DEF Elements
<1>4. Elements(Append(s, x), Len(s) + 1) = Elements(s, Len(s)) \cup {x}
  <2>1. 1 .. Len(s) + 1 = 1 .. Len(s) \cup {Len(s) + 1}
    BY <1>1
  <2> QED
    BY <1>1, <2>1 DEF Elements
<1> QED
  BY <1>1, <1>2, <1>3, <1>4

LEMMA Tailed ==
    ASSUME NEW S, NEW s \in Seq(S), s # << >>
    PROVE  /\ Tail(s) \in Seq(S) /\ Head(s) \in S /\ Head(s) = s[1]
           /\ Len(Tail(s)) = Len(s) - 1
           /\ DOMAIN Tail(s) = 1 .. Len(s) - 1
           /\ \A i \in DOMAIN Tail(s) : i + 1 \in DOMAIN s /\ Tail(s)[i] = s[i + 1]
           /\ \A n \in 0 .. Len(s) - 1 :
                  Elements(s, n + 1) = {Head(s)} \cup Elements(Tail(s), n)
<1>0. Len(s) \in Nat \ {0} /\ DOMAIN s = 1 .. Len(s) /\ 1 \in DOMAIN s
  BY SequenceShape
<1>1. /\ Tail(s) \in Seq(S) /\ Head(s) \in S /\ Head(s) = s[1]
      /\ Len(Tail(s)) = Len(s) - 1
      /\ \A i \in 1 .. Len(Tail(s)) : Tail(s)[i] = s[i + 1]
  BY <1>0, HeadTailProperties, SequenceShape
<1>2. DOMAIN Tail(s) = 1 .. Len(s) - 1
  BY <1>1, SequenceShape
<1>3. ASSUME NEW n \in 0 .. Len(s) - 1
      PROVE  Elements(s, n + 1) = {Head(s)} \cup Elements(Tail(s), n)
  <2>1. ASSUME NEW i \in 1 .. n + 1 PROVE s[i] \in {Head(s)} \cup Elements(Tail(s), n)
    <3>1. CASE i = 1
      BY <1>1, <3>1
    <3>2. CASE i # 1
      <4>1. i - 1 \in 1 .. n /\ i - 1 \in 1 .. Len(Tail(s)) /\ (i - 1) + 1 = i
        BY <1>0, <1>1, <3>2
      <4>2. Tail(s)[i - 1] = s[i]
        BY <1>1, <4>1
      <4> QED
        BY <4>1, <4>2 DEF Elements
    <3> QED
      BY <3>1, <3>2
  <2>2. ASSUME NEW i \in 1 .. n PROVE Tail(s)[i] \in Elements(s, n + 1)
    <3>1. i \in 1 .. Len(Tail(s)) /\ i + 1 \in 1 .. n + 1
      BY <1>0, <1>1
    <3> QED
      BY <1>1, <3>1 DEF Elements
  <2>3. Head(s) \in Elements(s, n + 1)
    BY <1>0, <1>1 DEF Elements
  <2> QED
    BY <2>1, <2>2, <2>3 DEF Elements
<1> QED
  BY <1>0, <1>1, <1>2, <1>3

-----------------------------------------------------------------------------
(* What stays so *)

(* As evidence for m, S may be replaced by T. *)
Carries(m, S, T) ==
    /\ Broken(m.robot) \in S <=> Broken(m.robot) \in T
    /\ \A q, s : Online(q, s) \in S => Online(q, s) \in T
    /\ faults' = 0 /\ Order(m.robot) \in S => Order(m.robot) \in T

(* What was said remains so, and faults are not undone. *)
Lasting ==
    /\ job' = job
    /\ faults' = 0 => faults = 0
    /\ \A r \in Robots : finalSent[r] => finalSent'[r]

LEMMA Constants ==
    ASSUME job' = job
    PROVE  OmitOnline' = OmitOnline
BY DEF OmitOnline

LEMMA TruthLasts ==
    ASSUME Lasting
    PROVE  \A m : m.robot \in Robots /\ Truthful(m) => Truthful(m)'
BY DEF Lasting, Truthful, OmitOnline

LEMMA JustificationLasts ==
    ASSUME Lasting
    PROVE  \A m, S, T : Carries(m, S, T) /\ Justified(m, S) => Justified(m, T)'
<1> SUFFICES ASSUME NEW m, NEW S, NEW T, Carries(m, S, T), Justified(m, S)
             PROVE  Justified(m, T)'
  OBVIOUS
<1>1. job' = job /\ (faults' = 0 => faults = 0)
  BY DEF Lasting
<1>2. /\ Broken(m.robot) \in S <=> Broken(m.robot) \in T
      /\ \A q, s : Online(q, s) \in S => Online(q, s) \in T
      /\ faults' = 0 /\ Order(m.robot) \in S => Order(m.robot) \in T
  BY DEF Carries
<1>3. \A r, s : Ready(r, s, S) /\ r = m.robot => Ready(r, s, T)'
  BY <1>1, <1>2 DEF Ready, OmitOnline
<1> QED
  BY <1>2, <1>3 DEF Justified

LEMMA SameEvidence == \A m, S : Carries(m, S, S)
BY DEF Carries

LEMMA SameRecord ==
    ASSUME captured' = captured, recIn' = recIn
    PROVE  Heard' = Heard /\ \A i : HeardBefore(i)' = HeardBefore(i)
BY DEF Heard, HeardBefore, Elements

LEMMA HeardRobots ==
    ASSUME TypeOK
    PROVE  /\ \A i \in DOMAIN captured : captured[i] \in Captures /\ captured[i].robot \in Robots
           /\ \A i \in DOMAIN recIn :
                  /\ recIn[i] \in Captures \cup {Control}
                  /\ recIn[i] # Control => recIn[i] \in Captures /\ recIn[i].robot \in Robots
           /\ \A r \in Robots : \A i \in DOMAIN link[r] :
                  /\ link[r][i] \in RobotMessages \cup {Disconnect}
                  /\ link[r][i] # Disconnect =>
                         link[r][i] \in RobotMessages /\ link[r][i].robot \in Robots
           /\ \A r \in Robots : link[r] \in Seq(RobotMessages \cup {Disconnect})
           /\ captured \in Seq(Captures) /\ recIn \in Seq(Captures \cup {Control})
<1>1. /\ captured \in Seq(Captures) /\ recIn \in Seq(Captures \cup {Control})
      /\ \A r \in Robots : link[r] \in Seq(RobotMessages \cup {Disconnect})
  BY DEF TypeOK
<1>2. \A m \in Captures : m.robot \in Robots
  BY MessageShape DEF Captures
<1>3. \A m \in RobotMessages : m.robot \in Robots
  BY MessageShape
<1>4. /\ \A i \in DOMAIN captured : captured[i] \in Captures
      /\ \A i \in DOMAIN recIn : recIn[i] \in Captures \cup {Control}
      /\ \A r \in Robots : \A i \in DOMAIN link[r] : link[r][i] \in RobotMessages \cup {Disconnect}
  BY <1>1, SequenceShape
<1> QED
  BY <1>1, <1>2, <1>3, <1>4

LEMMA RecordFrame ==
    ASSUME TypeOK, Lasting, captured' = captured, recIn' = recIn
    PROVE  (CapturedInv => CapturedInv') /\ (InboxInv => InboxInv')
<1>1. /\ \A m : m.robot \in Robots /\ Truthful(m) => Truthful(m)'
      /\ \A m, S : Justified(m, S) => Justified(m, S)'
  BY TruthLasts, JustificationLasts, SameEvidence
<1>2. Heard' = Heard /\ \A i : HeardBefore(i)' = HeardBefore(i)
  BY SameRecord
<1>3. /\ \A i \in DOMAIN captured : captured[i].robot \in Robots
      /\ \A i \in DOMAIN recIn : recIn[i] # Control => recIn[i].robot \in Robots
  BY HeardRobots
<1>4. CapturedInv => CapturedInv'
  BY <1>1, <1>3 DEF CapturedInv, Elements
<1>5. InboxInv => InboxInv'
  BY <1>1, <1>2, <1>3 DEF InboxInv, Control, Message
<1> QED
  BY <1>4, <1>5

-----------------------------------------------------------------------------
(* Links *)

LEMMA Joined ==
    ASSUME NEW S, NEW s \in Seq(S), NEW t \in Seq(S)
    PROVE  /\ s \o t \in Seq(S) /\ Len(s \o t) = Len(s) + Len(t)
           /\ \A i \in DOMAIN (s \o t) :
                  \/ /\ i \in DOMAIN s /\ (s \o t)[i] = s[i]
                     /\ Elements(s \o t, i - 1) = Elements(s, i - 1)
                  \/ \E j \in DOMAIN t :
                         /\ (s \o t)[i] = t[j]
                         /\ Elements(s \o t, i - 1)
                                = Elements(s, Len(s)) \cup Elements(t, j - 1)
           /\ Elements(s \o t, Len(s \o t)) = Elements(s, Len(s)) \cup Elements(t, Len(t))
<1>1. /\ s \o t \in Seq(S) /\ Len(s \o t) = Len(s) + Len(t)
      /\ \A i \in 1 .. Len(s) + Len(t) :
             (s \o t)[i] = IF i <= Len(s) THEN s[i] ELSE t[i - Len(s)]
  BY ConcatProperties
<1>2. /\ DOMAIN (s \o t) = 1 .. Len(s) + Len(t)
      /\ DOMAIN s = 1 .. Len(s) /\ DOMAIN t = 1 .. Len(t)
      /\ Len(s) \in Nat /\ Len(t) \in Nat
  BY <1>1, SequenceShape
<1>3. ASSUME NEW n \in 0 .. Len(s)
      PROVE  Elements(s \o t, n) = Elements(s, n)
  <2>1. \A i \in 1 .. n : (s \o t)[i] = s[i]
    BY <1>1, <1>2
  <2> QED
    BY <2>1 DEF Elements
<1>4. ASSUME NEW n \in 0 .. Len(t)
      PROVE  Elements(s \o t, Len(s) + n) = Elements(s, Len(s)) \cup Elements(t, n)
  <2>1. \A i \in 1 .. Len(s) : i \in 1 .. Len(s) + n /\ (s \o t)[i] = s[i]
    BY <1>1, <1>2
  <2>2. \A i \in 1 .. n : Len(s) + i \in 1 .. Len(s) + n /\ (s \o t)[Len(s) + i] = t[i]
    BY <1>1, <1>2
  <2>3. \A i \in 1 .. Len(s) + n : i \in 1 .. Len(s) \/ \E j \in 1 .. n : i = Len(s) + j
    <3> TAKE i \in 1 .. Len(s) + n
    <3>1. CASE i <= Len(s)
      BY <3>1
    <3>2. CASE i > Len(s)
      <4>1. i - Len(s) \in 1 .. n /\ i = Len(s) + (i - Len(s))
        BY <1>2, <3>2
      <4> QED
        BY <4>1
    <3> QED
      BY <1>2, <3>1, <3>2
  <2>4. Elements(s \o t, Len(s) + n) \subseteq Elements(s, Len(s)) \cup Elements(t, n)
    BY <2>1, <2>2, <2>3 DEF Elements
  <2>5. Elements(s, Len(s)) \cup Elements(t, n) \subseteq Elements(s \o t, Len(s) + n)
    BY <2>1, <2>2 DEF Elements
  <2> QED
    BY <2>4, <2>5
<1>5. ASSUME NEW i \in DOMAIN (s \o t)
      PROVE  \/ /\ i \in DOMAIN s /\ (s \o t)[i] = s[i]
                /\ Elements(s \o t, i - 1) = Elements(s, i - 1)
             \/ \E j \in DOMAIN t :
                    /\ (s \o t)[i] = t[j]
                    /\ Elements(s \o t, i - 1) = Elements(s, Len(s)) \cup Elements(t, j - 1)
  <2>1. CASE i <= Len(s)
    BY <1>1, <1>2, <1>3, <2>1
  <2>2. CASE i > Len(s)
    <3>1. i - Len(s) \in DOMAIN t /\ (s \o t)[i] = t[i - Len(s)]
          /\ (i - Len(s)) - 1 \in 0 .. Len(t) /\ Len(s) + ((i - Len(s)) - 1) = i - 1
      BY <1>1, <1>2, <2>2
    <3>2. Elements(s \o t, Len(s) + ((i - Len(s)) - 1))
              = Elements(s, Len(s)) \cup Elements(t, (i - Len(s)) - 1)
      BY <1>4, <3>1
    <3> QED
      BY <3>1, <3>2
  <2> QED
    BY <1>2, <2>1, <2>2
<1>6. Elements(s \o t, Len(s \o t)) = Elements(s, Len(s)) \cup Elements(t, Len(t))
  BY <1>1, <1>2, <1>4
<1> QED
  BY <1>1, <1>5, <1>6

(* What robot r may say on its present session. *)
Speech(r, m) ==
    /\ m \in RobotMessages /\ m.robot = r /\ m.session = session'[r]
    /\ m.value # "CONNECTION_BROKEN"
    /\ Truthful(m)'
    /\ Listening => Justified(m, HeardOf(r))

LEMMA SpeakStep ==
    ASSUME TypeOK, JobInv, NEW r \in Robots, NEW output \in Seq(RobotMessages),
           \A j \in DOMAIN output : Speech(r, output[j]),
           link' = [link EXCEPT ![r] = link[r] \o output],
           Lasting, faults' = faults,
           UNCHANGED <<captured, recIn, recPc, recUp>>,
           \A q \in Robots : q # r => client'[q] = client[q] /\ session'[q] = session[q],
           link[r] = << >> \/ (client[r] = "up" /\ session'[r] = session[r])
    PROVE  /\ link' \in [Robots -> Seq(RobotMessages \cup {Disconnect})]
           /\ LinkInv' /\ CapturedInv' /\ InboxInv'
           /\ Listening => WireInv'
           /\ Heard' = Heard
           /\ HeardOf(r)' = HeardOf(r) \cup Elements(output, Len(output))
           /\ \A q \in Robots : q # r => link'[q] = link[q] /\ HeardOf(q)' = HeardOf(q)
<1> DEFINE M == RobotMessages \cup {Disconnect}
<1>1. output \in Seq(M) /\ link[r] \in Seq(M) /\ link \in [Robots -> Seq(M)]
  BY DEF TypeOK
<1>2. link'[r] = link[r] \o output /\ \A q \in Robots : q # r => link'[q] = link[q]
  BY <1>1
<1>3. /\ link'[r] \in Seq(M)
      /\ \A i \in DOMAIN link'[r] :
             \/ /\ i \in DOMAIN link[r] /\ link'[r][i] = link[r][i]
                /\ Elements(link'[r], i - 1) = Elements(link[r], i - 1)
             \/ \E j \in DOMAIN output :
                    /\ link'[r][i] = output[j]
                    /\ Elements(link'[r], i - 1)
                           = Elements(link[r], Len(link[r])) \cup Elements(output, j - 1)
      /\ Elements(link'[r], Len(link'[r]))
             = Elements(link[r], Len(link[r])) \cup Elements(output, Len(output))
  BY <1>1, <1>2, Joined
<1> HIDE DEF M
<1>4. link' \in [Robots -> Seq(M)]
  BY <1>1, <1>2, <1>3
<1>5. Heard' = Heard /\ CapturedInv' /\ InboxInv'
  BY SameRecord, RecordFrame DEF JobInv
<1>6. /\ HeardOf(r)' = HeardOf(r) \cup Elements(output, Len(output))
      /\ \A q \in Robots : q # r => HeardOf(q)' = HeardOf(q)
  BY <1>2, <1>3, <1>5 DEF HeardOf
<1>7. \A m : m.robot \in Robots /\ Truthful(m) => Truthful(m)'
  BY TruthLasts
<1>8. LinkInv'
  <2>1. SUFFICES ASSUME NEW q \in Robots, NEW i \in DOMAIN link'[q], link'[q][i] # Disconnect
                 PROVE  /\ link'[q][i].robot = q /\ link'[q][i].session = session'[q]
                        /\ Truthful(link[q][i])'
                        /\ link'[q][i].value = "CONNECTION_BROKEN" =>
                               i = Len(link'[q]) /\ client'[q] # "up"
    BY DEF LinkInv, Disconnect, Message
  <2>2. CASE q # r
    BY <1>2, <1>7, <2>1, <2>2 DEF JobInv, LinkInv
  <2>3. CASE q = r /\ i \in DOMAIN link[r] /\ link'[r][i] = link[r][i]
    <3>1. client[r] = "up" /\ session'[r] = session[r]
      BY <2>3, EmptySeq
    <3>2. /\ link[r][i].robot = r /\ link[r][i].session = session[r]
          /\ Truthful(link[r][i]) /\ link[r][i].value # "CONNECTION_BROKEN"
      BY <2>1, <2>3, <3>1 DEF JobInv, LinkInv
    <3>3. Truthful(link[r][i])'
      BY <1>7, <2>3, <3>2
    <3> QED
      BY <2>3, <3>1, <3>2, <3>3
  <2>4. CASE q = r /\ \E j \in DOMAIN output : link'[r][i] = output[j]
    BY <2>4 DEF Speech
  <2> QED
    BY <1>3, <2>1, <2>2, <2>3, <2>4
<1>9. ASSUME Listening PROVE WireInv'
  <2>1. SUFFICES ASSUME NEW q \in Robots, NEW i \in DOMAIN link'[q], link'[q][i] # Disconnect
                 PROVE  Justified(link[q][i], Heard \cup Elements(link[q], i - 1))'
    BY <1>5 DEF WireInv, Disconnect, Message, Elements
  <2>2. WireInv
    BY <1>9 DEF JobInv, RecorderInv
  <2>3. /\ \A m, S, T : Carries(m, S, T) /\ Justified(m, S) => Justified(m, T)'
        /\ \A m, S : Justified(m, S) => Justified(m, S)'
    BY JustificationLasts, SameEvidence
  <2>4. CASE q # r
    BY <1>2, <1>5, <2>1, <2>2, <2>3, <2>4 DEF WireInv
  <2>5. CASE q = r /\ i \in DOMAIN link[r] /\ link'[r][i] = link[r][i]
                   /\ Elements(link'[r], i - 1) = Elements(link[r], i - 1)
    BY <1>5, <2>1, <2>2, <2>3, <2>5 DEF WireInv
  <2>6. ASSUME q = r, NEW j \in DOMAIN output, link'[r][i] = output[j],
               Elements(link'[r], i - 1)
                   = Elements(link[r], Len(link[r])) \cup Elements(output, j - 1)
        PROVE  Justified(link[q][i], Heard \cup Elements(link[q], i - 1))'
    <3>0. PICK T : T = Heard \cup (Elements(link[r], Len(link[r])) \cup Elements(output, j - 1))
      OBVIOUS
    <3>1. T = HeardOf(r) \cup Elements(output, j - 1)
      BY <3>0 DEF HeardOf
    <3>2. Justified(output[j], HeardOf(r)) /\ output[j].robot = r
      BY <1>9 DEF Speech
    <3>3. Broken(r) \notin Elements(output, j - 1)
      <4>1. \A n \in 1 .. j - 1 : n \in DOMAIN output
        BY SequenceShape
      <4> QED
        BY <4>1, Evidence DEF Elements, Speech
    <3>4. Carries(output[j], HeardOf(r), T)
      BY <3>1, <3>2, <3>3 DEF Carries
    <3>5. Justified(output[j], T)'
      BY <2>3, <3>2, <3>4
    <3> QED
      BY <1>5, <2>6, <3>0, <3>5
  <2> QED
    BY <1>3, <2>4, <2>5, <2>6
<1> QED
  BY <1>2, <1>4, <1>5, <1>6, <1>8, <1>9 DEF M

LEMMA CutShape ==
    ASSUME TypeOK, NEW r \in Robots, NEW k \in 0 .. Len(link[r])
    PROVE  /\ Cut(r, k) \in Seq(RobotMessages \cup {Disconnect})
           /\ Len(Cut(r, k)) = k + 1 /\ DOMAIN Cut(r, k) = 1 .. k + 1
           /\ \A i \in DOMAIN Cut(r, k) :
                  /\ Elements(Cut(r, k), i - 1) = Elements(link[r], i - 1)
                  /\ \/ i \in DOMAIN link[r] /\ Cut(r, k)[i] = link[r][i] /\ i # k + 1
                     \/ i = k + 1 /\ Cut(r, k)[i] = Connection(r, "CONNECTION_BROKEN", session[r])
           /\ Elements(Cut(r, k), k + 1)
                  = Elements(link[r], k) \cup {Connection(r, "CONNECTION_BROKEN", session[r])}
<1> DEFINE M == RobotMessages \cup {Disconnect}
<1>1. PICK s : s = SubSeq(link[r], 1, k)
  OBVIOUS
<1>2. PICK w : w = Connection(r, "CONNECTION_BROKEN", session[r])
  OBVIOUS
<1>3. w \in M
  BY <1>2, MessageShape DEF TypeOK, Sessions
<1>4. link[r] \in Seq(M)
  BY DEF TypeOK
<1> HIDE DEF M
<1>5. Len(link[r]) \in Nat /\ DOMAIN link[r] = 1 .. Len(link[r])
  BY <1>4, SequenceShape
<1>6. s \in Seq(M) /\ Len(s) = k /\ \A i \in 1 .. k : s[i] = link[r][i]
  <2>1. 1 .. k \subseteq 1 .. Len(link[r]) /\ k \in Nat
    BY <1>5
  <2>2. s = [i \in 1 .. k |-> link[r][i]]
    BY <1>1, <1>5
  <2>3. \A i \in 1 .. k : link[r][i] \in M
    BY <1>4, <1>5, <2>1, SequenceShape
  <2>4. s \in [1 .. k -> M]
    BY <2>2, <2>3
  <2> QED
    BY <2>1, <2>2, <2>4, LenProperties
<1>7. \A n \in 0 .. k : Elements(s, n) = Elements(link[r], n)
  BY <1>6 DEF Elements
<1>8. /\ Append(s, w) \in Seq(M) /\ Len(Append(s, w)) = k + 1
      /\ DOMAIN Append(s, w) = 1 .. k + 1
      /\ \A i \in 1 .. k : Append(s, w)[i] = s[i]
      /\ Append(s, w)[k + 1] = w
      /\ \A n \in 0 .. k : Elements(Append(s, w), n) = Elements(s, n)
      /\ Elements(Append(s, w), k + 1) = Elements(s, k) \cup {w}
  <2>1. /\ Append(s, w) \in Seq(M) /\ Len(Append(s, w)) = Len(s) + 1
        /\ DOMAIN Append(s, w) = 1 .. Len(s) + 1
        /\ \A i \in 1 .. Len(s) : Append(s, w)[i] = s[i]
        /\ Append(s, w)[Len(s) + 1] = w
        /\ \A n \in 0 .. Len(s) : Elements(Append(s, w), n) = Elements(s, n)
        /\ Elements(Append(s, w), Len(s) + 1) = Elements(s, Len(s)) \cup {w}
    <3>1. s \in Seq(M)
      BY <1>6
    <3>2. \A t \in Seq(M), x \in M :
              /\ Append(t, x) \in Seq(M) /\ Len(Append(t, x)) = Len(t) + 1
              /\ DOMAIN Append(t, x) = 1 .. Len(t) + 1
              /\ \A i \in 1 .. Len(t) : Append(t, x)[i] = t[i]
              /\ Append(t, x)[Len(t) + 1] = x
              /\ \A n \in 0 .. Len(t) : Elements(Append(t, x), n) = Elements(t, n)
              /\ Elements(Append(t, x), Len(t) + 1) = Elements(t, Len(t)) \cup {x}
      BY Appended
    <3> QED
      BY <1>3, <3>1, <3>2
  <2> QED
    BY <1>6, <2>1
<1>9. Cut(r, k) = Append(s, w)
  BY <1>1, <1>2 DEF Cut
<1>10. \A i \in 1 .. k + 1 : i - 1 \in 0 .. k /\ (i = k + 1 \/ i \in 1 .. k)
  OBVIOUS
<1>11. \A i \in 1 .. k : i \in DOMAIN link[r] /\ i # k + 1
  BY <1>5
<1> QED
  BY <1>2, <1>6, <1>7, <1>8, <1>9, <1>10, <1>11 DEF M

(* The robots in Lost lose their connections, or drop them. *)
Severs(Lost, kept) ==
    /\ link' = [q \in Robots |-> IF q \in Lost THEN Cut(q, kept[q]) ELSE link[q]]
    /\ \A q \in Lost : /\ q \in Robots /\ client[q] = "up" /\ client'[q] # "up"
                       /\ kept[q] \in 0 .. Len(link[q])
    /\ \A q \in Robots \ Lost :
           /\ client'[q] = "up" => client[q] = "up"
           /\ Started(q)' /\ client[q] = "up" => client'[q] = "up"

LEMMA SeverStep ==
    ASSUME TypeOK, JobInv, NEW Lost, NEW kept, Severs(Lost, kept), Lasting,
           UNCHANGED <<session, fleetLink, retained, orderIn, fleetVars, recVars>>,
           \A q \in Robots : /\ Started(q)' => Started(q)
                             /\ HasOrder(q)' => HasOrder(q)
                             /\ simPc' = "connect" /\ q >= cursor' =>
                                    simPc = "connect" /\ q >= cursor
    PROVE  /\ link' \in [Robots -> Seq(RobotMessages \cup {Disconnect})]
           /\ SimInv' => JobInv'
<1> USE DEF fleetVars, recVars
<1>1. /\ \A q \in Robots : q \in Lost => link'[q] = Cut(q, kept[q])
      /\ \A q \in Robots : q \notin Lost => link'[q] = link[q]
  BY DEF Severs
<1>2. link' \in [Robots -> Seq(RobotMessages \cup {Disconnect})]
  BY <1>1, CutShape, HeardRobots DEF Severs
<1>3. \A q \in Lost :
          /\ q \in Robots /\ client[q] = "up" /\ client'[q] # "up"
          /\ \A i \in DOMAIN link'[q] :
                 /\ Elements(link'[q], i - 1) = Elements(link[q], i - 1)
                 /\ \/ i \in DOMAIN link[q] /\ link'[q][i] = link[q][i]
                    \/ /\ i = Len(link'[q])
                       /\ link'[q][i] = Connection(q, "CONNECTION_BROKEN", session[q])
          /\ Connection(q, "CONNECTION_BROKEN", session[q])
                 \in Elements(link'[q], Len(link'[q]))
  <2> TAKE q \in Lost
  <2>1. PICK k \in 0 .. Len(link[q]) : k = kept[q]
    BY DEF Severs
  <2>2. link'[q] = Cut(q, k) /\ q \in Robots /\ client[q] = "up" /\ client'[q] # "up"
    BY <1>1, <2>1 DEF Severs
  <2> QED
    BY <2>1, <2>2, CutShape
<1>4. Heard' = Heard /\ CapturedInv' /\ InboxInv'
  BY SameRecord, RecordFrame DEF JobInv
<1>5. /\ \A m : m.robot \in Robots /\ Truthful(m) => Truthful(m)'
      /\ \A m, S : Justified(m, S) => Justified(m, S)'
  BY TruthLasts, JustificationLasts, SameEvidence
<1>6. \A q \in Robots : session[q] \in {1, 2} /\ (session[q] = 2 => q = Target)
  BY DEF TypeOK, Sessions, JobInv, SimInv
<1>7. LinkInv'
  <2>1. SUFFICES ASSUME NEW q \in Robots, NEW i \in DOMAIN link'[q], link'[q][i] # Disconnect
                 PROVE  /\ link'[q][i].robot = q /\ link'[q][i].session = session[q]
                        /\ Truthful(link[q][i])'
                        /\ link'[q][i].value = "CONNECTION_BROKEN" =>
                               i = Len(link'[q]) /\ client'[q] # "up"
    BY DEF LinkInv, Disconnect, Message
  <2>2. CASE q \notin Lost
    BY <1>1, <1>5, <2>1, <2>2 DEF JobInv, LinkInv, Severs
  <2>3. CASE q \in Lost /\ i \in DOMAIN link[q] /\ link'[q][i] = link[q][i]
    <3>1. /\ link[q][i].robot = q /\ link[q][i].session = session[q]
          /\ Truthful(link[q][i]) /\ link[q][i].value # "CONNECTION_BROKEN"
      BY <1>3, <2>1, <2>3 DEF JobInv, LinkInv
    <3>2. Truthful(link[q][i])'
      BY <1>5, <2>3, <3>1
    <3> QED
      BY <2>3, <3>1, <3>2
  <2>4. CASE q \in Lost /\ i = Len(link'[q])
             /\ link'[q][i] = Connection(q, "CONNECTION_BROKEN", session[q])
    <3>1. PICK m : m = Connection(q, "CONNECTION_BROKEN", session[q])
      OBVIOUS
    <3>2. m.robot = q /\ m.session = session[q] /\ m.value = "CONNECTION_BROKEN"
      BY <3>1 DEF Connection, Message
    <3>3. Truthful(m)'
      BY <1>6, <3>2 DEF Truthful
    <3> QED
      BY <1>3, <2>4, <3>1, <3>2, <3>3
  <2> QED
    BY <1>3, <2>1, <2>2, <2>3, <2>4
<1>8. ASSUME Listening PROVE WireInv' /\ BreakInv' /\ GreetingInv'
  <2>1. WireInv /\ BreakInv /\ GreetingInv
    BY <1>8 DEF JobInv, RecorderInv
  <2>2. WireInv'
    <3>1. SUFFICES ASSUME NEW q \in Robots, NEW i \in DOMAIN link'[q], link'[q][i] # Disconnect
                   PROVE  Justified(link[q][i], Heard \cup Elements(link[q], i - 1))'
      BY <1>4 DEF WireInv, Disconnect, Message, Elements
    <3>2. CASE q \notin Lost
      BY <1>1, <1>4, <1>5, <2>1, <3>1, <3>2 DEF WireInv
    <3>3. CASE q \in Lost /\ i \in DOMAIN link[q] /\ link'[q][i] = link[q][i]
               /\ Elements(link'[q], i - 1) = Elements(link[q], i - 1)
      BY <1>4, <1>5, <2>1, <3>1, <3>3 DEF WireInv
    <3>4. CASE q \in Lost /\ i = Len(link'[q])
               /\ Elements(link'[q], i - 1) = Elements(link[q], i - 1)
               /\ link'[q][i] = Connection(q, "CONNECTION_BROKEN", session[q])
      <4>1. PICK m : m = Connection(q, "CONNECTION_BROKEN", session[q])
        OBVIOUS
      <4>2. PICK T : T = Heard \cup Elements(link[q], i - 1)
        OBVIOUS
      <4>3. m.robot = q /\ m.session = session[q] /\ m.topic = "connection"
        BY <4>1 DEF Connection, Message
      <4>4. session[q] = 2 <=> Broken(q) \in Heard
        BY <1>3, <1>6, <2>1, <3>4 DEF BreakInv
      <4>5. Broken(q) \notin Elements(link[q], i - 1)
        <5>1. \A j \in 1 .. i - 1 : j \in DOMAIN link[q]
          <6>1. DOMAIN link[q] = 1 .. Len(link[q]) /\ Len(link[q]) \in Nat
            BY HeardRobots, SequenceShape
          <6>2. i = Len(Cut(q, kept[q])) /\ kept[q] \in 0 .. Len(link[q])
            BY <1>1, <3>4 DEF Severs
          <6>3. i = kept[q] + 1
            BY <6>2, CutShape
          <6> QED
            BY <6>1, <6>2, <6>3
        <5>2. \A j \in DOMAIN link[q] : link[q][j] # Broken(q)
          <6>1. \A j \in DOMAIN link[q] :
                    link[q][j] # Disconnect => link[q][j].value # "CONNECTION_BROKEN"
            BY <1>3, <3>4 DEF JobInv, LinkInv
          <6>2. Broken(q) # Disconnect /\ Broken(q).value = "CONNECTION_BROKEN"
            BY DEF Broken, Connection, Disconnect, Message
          <6> QED
            BY <6>1, <6>2
        <5> QED
          BY <5>1, <5>2 DEF Elements
      <4>6. Justified(m, T)'
        BY <4>2, <4>3, <4>4, <4>5 DEF Justified
      <4> QED
        BY <1>4, <3>4, <4>1, <4>2, <4>6
    <3> QED
      BY <1>3, <3>1, <3>2, <3>3, <3>4
  <2>3. /\ \A q \in Robots : q \notin Lost => HeardOf(q)' = HeardOf(q)
        /\ \A q \in Lost : Connection(q, "CONNECTION_BROKEN", session[q]) \in HeardOf(q)'
    BY <1>1, <1>3, <1>4 DEF HeardOf
  <2>4. BreakInv'
    <3>1. SUFFICES ASSUME NEW q \in Robots
                   PROVE  /\ session[q] = 2 => Broken(q) \in Heard
                          /\ session[q] = 1 /\ Broken(q) \in Heard =>
                                 /\ client'[q] # "up" /\ link'[q] = << >>
                                 /\ ~(simPc' = "connect" /\ q >= cursor')
                          /\ Started(q)' /\ client'[q] # "up" => Broken(q) \in HeardOf(q)'
      BY <1>4 DEF BreakInv
    <3>2. CASE q \notin Lost
      BY <1>1, <2>1, <2>3, <3>2 DEF BreakInv, Severs
    <3>3. CASE q \in Lost
      <4>1. Heard \subseteq HeardOf(q)'
        BY <1>4 DEF HeardOf
      <4>2. session[q] = 1 => Broken(q) \in HeardOf(q)'
        BY <2>3, <3>3 DEF Broken
      <4> QED
        BY <1>3, <1>6, <2>1, <3>3, <4>1, <4>2 DEF BreakInv
    <3> QED
      BY <3>2, <3>3
  <2>5. GreetingInv'
    <3>1. /\ Robots' = Robots /\ OmitOnline' = OmitOnline /\ (faults' = 0 => faults = 0)
      BY Constants DEF Lasting, Robots
    <3>2. \A q \in Robots : client'[q] = "up" => client[q] = "up" /\ HeardOf(q)' = HeardOf(q)
      BY <1>3, <2>3 DEF Severs
    <3> QED
      BY <1>4, <2>1, <3>1, <3>2 DEF GreetingInv
  <2> QED
    BY <2>2, <2>4, <2>5
<1>9. DispatchInv' /\ CompletionInv'
  BY DEF JobInv, DispatchInv, CompletionInv, RunObserved
<1>10. RetainedInv'
  <2>1. OmitOnline' = OmitOnline
    BY Constants DEF Lasting
  <2>2. \A q \in Robots : client'[q] = "up" => client[q] = "up" /\ link'[q] = link[q]
    BY <1>1 DEF Severs
  <2> QED
    BY <2>1, <2>2 DEF JobInv, RetainedInv
<1>11. Listening' <=> Listening
  BY DEF Listening
<1> QED
  BY <1>2, <1>4, <1>7, <1>8, <1>9, <1>10, <1>11 DEF JobInv, RecorderInv

-----------------------------------------------------------------------------
(* Links that stay as they are *)

LEMMA LinkFrame ==
    ASSUME LinkInv, Lasting, UNCHANGED <<link, client, session>>
    PROVE  LinkInv'
<1>1. \A x : x.robot \in Robots /\ Truthful(x) => Truthful(x)'
  BY TruthLasts
<1>2. SUFFICES ASSUME NEW r \in Robots, NEW i \in DOMAIN link[r], link[r][i] # Disconnect
               PROVE  /\ link[r][i].robot = r /\ link[r][i].session = session[r]
                      /\ Truthful(link[r][i])'
                      /\ link[r][i].value = "CONNECTION_BROKEN" =>
                             i = Len(link[r]) /\ client[r] # "up"
  BY DEF LinkInv, Disconnect, Message
<1>3. /\ link[r][i].robot = r /\ link[r][i].session = session[r] /\ Truthful(link[r][i])
      /\ link[r][i].value = "CONNECTION_BROKEN" => i = Len(link[r]) /\ client[r] # "up"
  BY <1>2 DEF LinkInv
<1> QED
  BY <1>1, <1>3

-----------------------------------------------------------------------------
(* The broker forwards a message *)

(* The recorder gets m, or m is no evidence for a message to come. *)
Passes(m) ==
    \/ Heard' = Heard \cup {m}
    \/ /\ Heard' = Heard
       /\ m.topic # "connection" /\ (m.topic = "order" => faults' # 0)

LEMMA PassedOn ==
    ASSUME NEW m, Passes(m)
    PROVE  /\ Heard \subseteq Heard' /\ Heard' \subseteq Heard \cup {m}
           /\ \A x, E : m # Broken(x.robot) => Carries(x, Heard \cup E, Heard' \cup E)
           /\ \A x, E, F : F = {m} \cup E => Carries(x, Heard \cup F, Heard' \cup E)
<1>1. \A q, s : Online(q, s).topic = "connection" /\ Broken(q).topic = "connection"
                /\ Order(q).topic = "order"
  BY DEF Online, Broken, Order, Connection, Message
<1>2. CASE Heard' = Heard \cup {m}
  BY <1>2 DEF Carries
<1>3. CASE Heard' = Heard /\ m.topic # "connection" /\ (m.topic = "order" => faults' # 0)
  BY <1>1, <1>3 DEF Carries
<1> QED
  BY <1>2, <1>3 DEF Passes

LEMMA InboxGrows ==
    ASSUME TypeOK, captured' = captured, NEW m \in Captures \cup {Control},
           recIn' = Append(recIn, m)
    PROVE  /\ recIn' \in Seq(Captures \cup {Control})
           /\ DOMAIN recIn' = 1 .. Len(recIn) + 1
           /\ Len(recIn) \in Nat /\ DOMAIN recIn = 1 .. Len(recIn)
           /\ \A i \in DOMAIN recIn : recIn'[i] = recIn[i]
           /\ \A i \in 1 .. Len(recIn) + 1 : HeardBefore(i)' = HeardBefore(i)
           /\ recIn'[Len(recIn) + 1] = m
           /\ Heard' = Heard \cup {m}
<1>0. PICK C : C = Captures \cup {Control}
  OBVIOUS
<1>1. PICK s : s = recIn
  OBVIOUS
<1>2. s \in Seq(C) /\ m \in C
  BY <1>0, <1>1, HeardRobots
<1>3. \A t \in Seq(C), x \in C :
          /\ Append(t, x) \in Seq(C)
          /\ Len(Append(t, x)) = Len(t) + 1
          /\ DOMAIN Append(t, x) = 1 .. Len(t) + 1
          /\ \A i \in 1 .. Len(t) : Append(t, x)[i] = t[i]
          /\ Append(t, x)[Len(t) + 1] = x
          /\ \A n \in 0 .. Len(t) : Elements(Append(t, x), n) = Elements(t, n)
          /\ Elements(Append(t, x), Len(t) + 1) = Elements(t, Len(t)) \cup {x}
  BY Appended
<1>4. /\ recIn' \in Seq(C) /\ Len(recIn') = Len(s) + 1
      /\ DOMAIN recIn' = 1 .. Len(s) + 1
      /\ \A i \in 1 .. Len(s) : recIn'[i] = s[i]
      /\ recIn'[Len(s) + 1] = m
      /\ \A n \in 0 .. Len(s) : Elements(recIn', n) = Elements(s, n)
      /\ Elements(recIn', Len(s) + 1) = Elements(s, Len(s)) \cup {m}
  BY <1>1, <1>2, <1>3
<1>5. Len(s) \in Nat /\ DOMAIN s = 1 .. Len(s)
  BY <1>2, SequenceShape
<1>6. \A i \in 1 .. Len(s) + 1 : HeardBefore(i)' = HeardBefore(i)
  <2> TAKE i \in 1 .. Len(s) + 1
  <2>1. i - 1 \in 0 .. Len(s)
    BY <1>5
  <2> QED
    BY <1>1, <1>4, <2>1 DEF HeardBefore
<1>8. Heard' = Heard \cup {m}
  <2>1. (Len(s) + 1) + 1 - 1 = Len(s) + 1 /\ Len(s) + 1 - 1 = Len(s)
    BY <1>5
  <2> QED
    BY <1>1, <1>4, <2>1 DEF Heard, HeardBefore
<1>9. /\ recIn' \in Seq(Captures \cup {Control}) /\ Len(recIn) \in Nat
      /\ DOMAIN recIn' = 1 .. Len(recIn) + 1 /\ DOMAIN recIn = 1 .. Len(recIn)
      /\ \A i \in DOMAIN recIn : recIn'[i] = recIn[i]
      /\ recIn'[Len(recIn) + 1] = m
  BY <1>0, <1>1, <1>4, <1>5
<1> QED
  BY <1>1, <1>6, <1>8, <1>9

LEMMA DeliverShape ==
    ASSUME TypeOK, captured' = captured, job' = job,
           NEW m \in RobotMessages \cup Orders \cup {Control}, Deliver(m)
    PROVE  /\ faults' \in 0 .. job.faults /\ (faults' = 0 => faults = 0)
           /\ recIn' = recIn \/ (Listening /\ recIn' = Append(recIn, m))
           /\ Listening => Passes(m)
           /\ retained' = IF m.topic = "connection"
                          THEN [retained EXCEPT ![m.robot] = m] ELSE retained
           /\ \/ fleetIn' = fleetIn
              \/ m.topic \in {"connection", "state"} /\ fleetIn' = Append(fleetIn, m)
           /\ \/ orderIn' = orderIn
              \/ /\ m.topic = "order"
                 /\ orderIn' = [orderIn EXCEPT ![m.robot] = Append(orderIn[m.robot], m)]
<1>1. PICK missed \in MayMiss(m) :
          /\ Egress(m, missed)
          /\ faults' = IF missed = "nobody" THEN faults ELSE faults + 1
  BY DEF Deliver
<1>2. job \in Jobs /\ faults \in 0 .. job.faults /\ job.faults \in Nat
  BY Numbers DEF TypeOK
<1>3. /\ missed \in {"nobody", "fleet", "recorder", "robot"}
      /\ missed # "nobody" =>
             faults < job.faults /\ m.topic \in {"order", "state", "visualization"}
  BY DEF MayMiss, MayFault
<1>4. faults' \in 0 .. job.faults /\ (faults' = 0 => faults = 0 /\ missed = "nobody")
  BY <1>1, <1>2, <1>3
<1>5. recIn' = IF Listening /\ missed # "recorder" THEN Append(recIn, m) ELSE recIn
  BY <1>1 DEF Egress, Listening
<1>6. Listening => Passes(m)
  <2>1. ASSUME Listening, missed = "recorder" PROVE Passes(m)
    <3>1. Heard' = Heard
      BY <1>5, <2>1, SameRecord
    <3> QED
      BY <1>3, <1>4, <2>1, <3>1 DEF Passes
  <2>2. ASSUME Listening, missed # "recorder" PROVE Passes(m)
    <3>1. m \in Captures \cup {Control}
      BY DEF Captures
    <3>2. Heard' = Heard \cup {m}
      BY <1>5, <2>2, <3>1, InboxGrows
    <3> QED
      BY <3>2 DEF Passes
  <2> QED
    BY <2>1, <2>2
<1> QED
  BY <1>1, <1>4, <1>5, <1>6 DEF Egress, FleetListens

LEMMA DeliveredRecord ==
    ASSUME TypeOK, JobInv, Lasting, captured' = captured,
           NEW m \in RobotMessages \cup Orders \cup {Control}, Deliver(m),
           Listening /\ m # Control => Truthful(m) /\ Justified(m, Heard)
    PROVE  recIn' \in Seq(Captures \cup {Control}) /\ CapturedInv' /\ InboxInv'
<1>1. recIn' = recIn \/ (Listening /\ recIn' = Append(recIn, m))
  BY DeliverShape DEF Lasting
<1>2. CASE recIn' = recIn
  BY <1>2, RecordFrame, HeardRobots DEF JobInv
<1>3. CASE Listening /\ recIn' = Append(recIn, m)
  <2>1. m \in Captures \cup {Control}
    BY DEF Captures
  <2>2. /\ recIn' \in Seq(Captures \cup {Control})
        /\ DOMAIN recIn' = 1 .. Len(recIn) + 1
        /\ Len(recIn) \in Nat /\ DOMAIN recIn = 1 .. Len(recIn)
        /\ \A i \in DOMAIN recIn : recIn'[i] = recIn[i]
        /\ \A i \in 1 .. Len(recIn) + 1 : HeardBefore(i)' = HeardBefore(i)
        /\ recIn'[Len(recIn) + 1] = m
    BY <1>3, <2>1, InboxGrows
  <2>3. /\ \A x : x.robot \in Robots /\ Truthful(x) => Truthful(x)'
        /\ \A x, S : Justified(x, S) => Justified(x, S)'
    BY TruthLasts, JustificationLasts, SameEvidence
  <2>4. /\ \A i \in DOMAIN captured : captured[i].robot \in Robots
        /\ \A i \in DOMAIN recIn : recIn[i] # Control => recIn[i].robot \in Robots
    BY HeardRobots
  <2>5. CapturedInv'
    BY <2>3, <2>4 DEF JobInv, CapturedInv, Elements
  <2>6. InboxInv'
    <3>1. SUFFICES ASSUME NEW i \in DOMAIN recIn', recIn'[i] # Control
                   PROVE  Truthful(recIn[i])' /\ Justified(recIn[i], HeardBefore(i))'
      BY DEF InboxInv, Control, Message
    <3>2. CASE i \in DOMAIN recIn
      <4>1. /\ recIn[i] # Control /\ Truthful(recIn[i]) /\ Justified(recIn[i], HeardBefore(i))
            /\ recIn[i].robot \in Robots
        BY <2>2, <2>4, <3>1, <3>2 DEF JobInv, InboxInv
      <4>2. HeardBefore(i)' = HeardBefore(i) /\ recIn'[i] = recIn[i]
        BY <2>2, <3>2
      <4> QED
        BY <2>3, <4>1, <4>2
    <3>3. CASE i = Len(recIn) + 1
      <4>1. i \in 1 .. Len(recIn) + 1
        BY <2>2, <3>3
      <4>2. recIn'[i] = m /\ HeardBefore(i)' = Heard
        BY <2>2, <3>3, <4>1 DEF Heard
      <4>3. Truthful(m) /\ Justified(m, Heard) /\ m.robot \in Robots
        BY <1>3, <3>1, <4>2, MessageShape
      <4> QED
        BY <2>3, <4>2, <4>3
    <3> QED
      BY <2>2, <3>1, <3>2, <3>3
  <2> QED
    BY <2>2, <2>5, <2>6
<1> QED
  BY <1>1, <1>2, <1>3

LEMMA RouteShape ==
    ASSUME TypeOK, JobInv, NEW r \in Robots, RouteRobot(r)
    PROVE  /\ Lasting /\ faults' \in 0 .. job.faults
           /\ UNCHANGED <<job, simVars, fleetLink, fleetPc, online, arrived, recPc, recUp,
                          captured, finals, completion, orderIn>>
           /\ link' \in [Robots -> Seq(RobotMessages \cup {Disconnect})]
           /\ \A q \in Robots : q # r => link'[q] = link[q]
           /\ \E m \in RobotMessages \cup {Disconnect} :
                  /\ \A i \in DOMAIN link'[r] :
                         /\ i + 1 \in DOMAIN link[r] /\ link'[r][i] = link[r][i + 1]
                         /\ i = Len(link'[r]) <=> i + 1 = Len(link[r])
                         /\ Elements(link[r], (i + 1) - 1) = {m} \cup Elements(link'[r], i - 1)
                  /\ Elements(link[r], Len(link[r])) = {m} \cup Elements(link'[r], Len(link'[r]))
                  /\ link[r] # << >>
                  /\ m # Disconnect =>
                         /\ m.robot = r /\ m.session = session[r] /\ Truthful(m)
                         /\ m.value = "CONNECTION_BROKEN" => link'[r] = << >> /\ client[r] # "up"
                         /\ Listening => Justified(m, Heard)
                  /\ Listening => Passes(m)
                  /\ recIn' = recIn \/ (recIn' = Append(recIn, m) /\ m # Disconnect)
                  /\ retained' = IF m.topic = "connection"
                                 THEN [retained EXCEPT ![m.robot] = m] ELSE retained
                  /\ \/ fleetIn' = fleetIn
                     \/ m \in RobotMessages /\ fleetIn' = Append(fleetIn, m)
           /\ recIn' \in Seq(Captures \cup {Control}) /\ CapturedInv' /\ InboxInv'
<1> USE DEF RouteRobot, BrokerUnchanged
<1>1. PICK M : M = RobotMessages \cup {Disconnect}
  OBVIOUS
<1>2. PICK m : m = Head(link[r])
  OBVIOUS
<1>3. link \in [Robots -> Seq(M)] /\ link[r] \in Seq(M) /\ link[r] # << >>
  BY <1>1 DEF TypeOK
<1>4. link'[r] = Tail(link[r]) /\ \A q \in Robots : q # r => link'[q] = link[q]
  BY <1>3
<1>5. \A s \in Seq(M) : s # << >> =>
          /\ Tail(s) \in Seq(M) /\ Head(s) \in M /\ Head(s) = s[1]
          /\ Len(Tail(s)) = Len(s) - 1
          /\ DOMAIN Tail(s) = 1 .. Len(s) - 1
          /\ \A i \in DOMAIN Tail(s) : i + 1 \in DOMAIN s /\ Tail(s)[i] = s[i + 1]
          /\ \A n \in 0 .. Len(s) - 1 :
                 Elements(s, n + 1) = {Head(s)} \cup Elements(Tail(s), n)
  BY Tailed
<1>6. /\ link'[r] \in Seq(M) /\ m \in M /\ m = link[r][1]
      /\ Len(link'[r]) = Len(link[r]) - 1
      /\ DOMAIN link'[r] = 1 .. Len(link[r]) - 1
      /\ \A i \in DOMAIN link'[r] : i + 1 \in DOMAIN link[r] /\ link'[r][i] = link[r][i + 1]
      /\ \A n \in 0 .. Len(link[r]) - 1 :
             Elements(link[r], n + 1) = {m} \cup Elements(link'[r], n)
  BY <1>2, <1>3, <1>4, <1>5
<1>7. Len(link[r]) \in Nat \ {0} /\ DOMAIN link[r] = 1 .. Len(link[r]) /\ 1 \in DOMAIN link[r]
  BY <1>3, SequenceShape
<1>8. link' \in [Robots -> Seq(M)]
  BY <1>3, <1>4, <1>6
<1>9. \A i \in DOMAIN link'[r] :
          /\ i + 1 \in DOMAIN link[r] /\ link'[r][i] = link[r][i + 1]
          /\ i = Len(link'[r]) <=> i + 1 = Len(link[r])
          /\ Elements(link[r], (i + 1) - 1) = {m} \cup Elements(link'[r], i - 1)
  <2> TAKE i \in DOMAIN link'[r]
  <2>1. i \in 1 .. Len(link[r]) - 1 /\ i - 1 \in 0 .. Len(link[r]) - 1 /\ (i - 1) + 1 = (i + 1) - 1
    BY <1>6, <1>7
  <2>2. i = Len(link'[r]) <=> i + 1 = Len(link[r])
    BY <1>6, <1>7, <2>1
  <2>3. Elements(link[r], (i - 1) + 1) = {m} \cup Elements(link'[r], i - 1)
    BY <1>6, <2>1
  <2> QED
    BY <1>6, <2>1, <2>2, <2>3
<1>10. Elements(link[r], Len(link[r])) = {m} \cup Elements(link'[r], Len(link'[r]))
  <2>1. Len(link[r]) - 1 \in 0 .. Len(link[r]) - 1 /\ (Len(link[r]) - 1) + 1 = Len(link[r])
    BY <1>7
  <2> QED
    BY <1>6, <2>1
<1>11. ASSUME m # Disconnect
       PROVE  /\ m.robot = r /\ m.session = session[r] /\ Truthful(m)
              /\ m.value = "CONNECTION_BROKEN" => link'[r] = << >> /\ client[r] # "up"
              /\ Listening => Justified(m, Heard)
  <2>1. /\ m.robot = r /\ m.session = session[r] /\ Truthful(m)
        /\ m.value = "CONNECTION_BROKEN" => 1 = Len(link[r]) /\ client[r] # "up"
    BY <1>6, <1>7, <1>11 DEF JobInv, LinkInv
  <2>2. 1 = Len(link[r]) => link'[r] = << >>
    <3>1. 1 = Len(link[r]) => Len(link'[r]) = 0
      BY <1>6
    <3> QED
      BY <1>6, <3>1, SequenceShape
  <2>3. Listening => Justified(m, Heard)
    <3>1. Listening => Justified(m, Heard \cup Elements(link[r], 1 - 1))
      BY <1>6, <1>7, <1>11 DEF JobInv, RecorderInv, WireInv
    <3>2. Elements(link[r], 1 - 1) = {}
      BY DEF Elements
    <3> QED
      BY <3>1, <3>2
  <2> QED
    BY <2>1, <2>2, <2>3
<1>12. UNCHANGED <<job, simVars, fleetLink, fleetPc, online, arrived, recPc, recUp,
                   captured, finals, completion>>
  OBVIOUS
<1>13. CASE m = Disconnect
  <2>1. UNCHANGED <<retained, fleetIn, recIn, orderIn, faults>>
    BY <1>2, <1>13
  <2>2. Lasting /\ faults' \in 0 .. job.faults
    BY <1>12, <2>1 DEF Lasting, simVars, TypeOK
  <2>3. recIn' \in Seq(Captures \cup {Control}) /\ CapturedInv' /\ InboxInv'
    BY <1>12, <2>1, <2>2, RecordFrame, HeardRobots DEF JobInv
  <2>4. m.topic # "connection" /\ m.topic # "order"
    BY <1>13 DEF Disconnect, Message
  <2>5. Passes(m)
    BY <1>12, <2>1, <2>4, SameRecord DEF Passes
  <2>6. /\ Listening => Passes(m)
        /\ recIn' = recIn
        /\ retained' = IF m.topic = "connection"
                       THEN [retained EXCEPT ![m.robot] = m] ELSE retained
        /\ fleetIn' = fleetIn
    BY <2>1, <2>4, <2>5
  <2>7. orderIn' = orderIn
    BY <2>1
  <2> QED
    BY <1>1, <1>3, <1>4, <1>6, <1>8, <1>9, <1>10, <1>11, <1>12, <2>2, <2>3, <2>6, <2>7
<1>14. CASE m # Disconnect
  <2>1. m \in RobotMessages /\ Deliver(m)
    BY <1>1, <1>2, <1>6, <1>14
  <2>2. m \in RobotMessages \cup Orders \cup {Control} /\ captured' = captured /\ job' = job
    BY <1>12, <2>1
  <2>3. m.topic # "order"
    BY <2>1, MessageShape
  <2>4. /\ faults' \in 0 .. job.faults /\ (faults' = 0 => faults = 0)
        /\ recIn' = recIn \/ (Listening /\ recIn' = Append(recIn, m))
        /\ Listening => Passes(m)
        /\ retained' = IF m.topic = "connection"
                       THEN [retained EXCEPT ![m.robot] = m] ELSE retained
        /\ \/ fleetIn' = fleetIn
           \/ m.topic \in {"connection", "state"} /\ fleetIn' = Append(fleetIn, m)
        /\ orderIn' = orderIn
    BY <2>1, <2>2, <2>3, DeliverShape
  <2>5. Lasting
    BY <1>12, <2>4 DEF Lasting, simVars
  <2>6. recIn' \in Seq(Captures \cup {Control}) /\ CapturedInv' /\ InboxInv'
    BY <1>11, <1>14, <2>1, <2>2, <2>5, DeliveredRecord
  <2> QED
    BY <1>1, <1>3, <1>4, <1>6, <1>8, <1>9, <1>10, <1>11, <1>12, <1>14, <2>1, <2>4, <2>5, <2>6
<1> QED
  BY <1>13, <1>14

LEMMA RouteRobotKeeps ==
    ASSUME JobInvariant, NEW r \in Robots, RouteRobot(r)
    PROVE  JobInvariant'
<1> USE DEF simVars
<1>0. TypeOK /\ JobInv
  BY DEF JobInvariant
<1>1. /\ Lasting /\ faults' \in 0 .. job.faults
      /\ UNCHANGED <<job, simVars, fleetLink, fleetPc, online, arrived, recPc, recUp,
                     captured, finals, completion, orderIn>>
      /\ link' \in [Robots -> Seq(RobotMessages \cup {Disconnect})]
      /\ \A q \in Robots : q # r => link'[q] = link[q]
      /\ recIn' \in Seq(Captures \cup {Control}) /\ CapturedInv' /\ InboxInv'
  BY <1>0, RouteShape
<1>2. PICK m \in RobotMessages \cup {Disconnect} :
          /\ \A i \in DOMAIN link'[r] :
                 /\ i + 1 \in DOMAIN link[r] /\ link'[r][i] = link[r][i + 1]
                 /\ i = Len(link'[r]) <=> i + 1 = Len(link[r])
                 /\ Elements(link[r], (i + 1) - 1) = {m} \cup Elements(link'[r], i - 1)
          /\ Elements(link[r], Len(link[r])) = {m} \cup Elements(link'[r], Len(link'[r]))
          /\ link[r] # << >>
          /\ m # Disconnect =>
                 /\ m.robot = r /\ m.session = session[r] /\ Truthful(m)
                 /\ m.value = "CONNECTION_BROKEN" => link'[r] = << >> /\ client[r] # "up"
                 /\ Listening => Justified(m, Heard)
          /\ Listening => Passes(m)
          /\ recIn' = recIn \/ (recIn' = Append(recIn, m) /\ m # Disconnect)
          /\ retained' = IF m.topic = "connection"
                         THEN [retained EXCEPT ![m.robot] = m] ELSE retained
          /\ \/ fleetIn' = fleetIn
             \/ m \in RobotMessages /\ fleetIn' = Append(fleetIn, m)
  BY <1>0, RouteShape
<1>3. /\ m # Disconnect => m \in RobotMessages
      /\ Disconnect.topic = "disconnect" /\ Disconnect.value = ""
      /\ \A x : Broken(x) # Disconnect /\ \A s : Online(x, s) # Disconnect
  BY <1>2 DEF Disconnect, Message, Broken, Online, Connection
<1>4. TypeOK'
  <2>1. retained' \in [Robots -> RobotMessages \cup {NoMessage}]
    <3>1. m.topic = "connection" => m \in RobotMessages /\ m.robot \in Robots
      BY <1>3, MessageShape
    <3> QED
      BY <1>0, <1>2, <3>1 DEF TypeOK
  <2>2. fleetIn' \in Seq(RobotMessages)
    <3>1. m \in RobotMessages => Append(fleetIn, m) \in Seq(RobotMessages)
      BY <1>0, AppendProperties DEF TypeOK
    <3> QED
      BY <1>0, <1>2, <3>1 DEF TypeOK
  <2> QED
    BY <1>0, <1>1, <2>1, <2>2 DEF TypeOK
<1>5. SimInv'
  BY <1>0, <1>1, <1>2 DEF JobInv, SimInv
<1>6. /\ \A x : x.robot \in Robots /\ Truthful(x) => Truthful(x)'
      /\ \A x, S, T : Carries(x, S, T) /\ Justified(x, S) => Justified(x, T)'
  BY <1>1, TruthLasts, JustificationLasts
<1>7. LinkInv'
  <2>1. SUFFICES ASSUME NEW q \in Robots, NEW i \in DOMAIN link'[q], link'[q][i] # Disconnect
                 PROVE  /\ link'[q][i].robot = q /\ link'[q][i].session = session[q]
                        /\ Truthful(link[q][i])'
                        /\ link'[q][i].value = "CONNECTION_BROKEN" =>
                               i = Len(link'[q]) /\ client[q] # "up"
    BY <1>1 DEF LinkInv, Disconnect, Message
  <2>2. CASE q # r
    BY <1>0, <1>1, <1>6, <2>1, <2>2 DEF JobInv, LinkInv
  <2>3. CASE q = r
    <3>1. PICK x : x = link'[r][i]
      OBVIOUS
    <3>2. /\ i + 1 \in DOMAIN link[r] /\ x = link[r][i + 1]
          /\ i = Len(link'[r]) <=> i + 1 = Len(link[r])
      BY <1>2, <2>1, <2>3, <3>1
    <3>3. /\ x.robot = r /\ x.session = session[r] /\ Truthful(x)
          /\ x.value = "CONNECTION_BROKEN" => i + 1 = Len(link[r]) /\ client[r] # "up"
      BY <1>0, <2>1, <2>3, <3>1, <3>2 DEF JobInv, LinkInv
    <3>4. Truthful(x)'
      BY <1>6, <3>3
    <3> QED
      BY <2>3, <3>1, <3>2, <3>3, <3>4
  <2> QED
    BY <2>2, <2>3
<1>8. DispatchInv'
  BY <1>0, <1>1 DEF JobInv, DispatchInv, HasOrder
<1>9. CompletionInv'
  <2>1. recIn' = Append(recIn, m) /\ m # Disconnect =>
            \A i \in DOMAIN recIn' : recIn'[i] = Control => \E j \in DOMAIN recIn : recIn[j] = Control
    <3>1. ASSUME recIn' = Append(recIn, m), m # Disconnect
          PROVE  m \in Captures \cup {Control} /\ m # Control
      BY <1>3, <3>1, MessageShape, Distinct DEF Captures
    <3> QED
      BY <1>0, <1>1, <3>1, InboxGrows
  <2> QED
    BY <1>0, <1>1, <1>2, <2>1 DEF JobInv, CompletionInv, RunObserved
<1>10. RetainedInv'
  <2>1. OmitOnline' = OmitOnline
    BY <1>1, Constants
  <2>2. SUFFICES ASSUME NEW q \in Robots, client[q] = "up", session[q] = 1 \/ ~OmitOnline
                 PROVE  \/ retained'[q] = Online(q, session[q])
                        \/ Online(q, session[q]) \in Elements(link'[q], Len(link'[q]))
    BY <1>1, <2>1 DEF RetainedInv
  <2>3. \/ retained[q] = Online(q, session[q])
        \/ Online(q, session[q]) \in Elements(link[q], Len(link[q]))
    BY <1>0, <2>2 DEF JobInv, RetainedInv
  <2>4. m.topic = "connection" => m \in RobotMessages /\ m.robot = r
    BY <1>2, <1>3
  <2>5. \A x : x # r => retained'[x] = retained[x]
    BY <1>0, <1>2, <2>4 DEF TypeOK
  <2>6. CASE q # r
    BY <1>1, <2>3, <2>5, <2>6
  <2>7. CASE q = r /\ m.topic = "connection"
    <3>1. m.value # "CONNECTION_BROKEN" /\ m.session = session[r]
      BY <1>2, <1>3, <2>2, <2>7
    <3>2. m = Connection(m.robot, "ONLINE", m.session)
      BY <2>4, <2>7, <3>1, MessageShape
    <3>3. m = Online(r, session[r])
      BY <2>4, <2>7, <3>1, <3>2 DEF Online
    <3>4. retained'[r] = m
      BY <1>0, <1>2, <2>4, <2>7 DEF TypeOK
    <3> QED
      BY <2>7, <3>3, <3>4
  <2>8. CASE q = r /\ m.topic # "connection"
    <3>1. Online(r, session[r]) # m
      BY <2>8, Evidence
    <3> QED
      BY <1>2, <2>3, <2>8, <3>1
  <2> QED
    BY <2>6, <2>7, <2>8
<1>11. ASSUME Listening PROVE WireInv' /\ BreakInv' /\ GreetingInv'
  <2>1. WireInv /\ BreakInv /\ GreetingInv
    BY <1>0, <1>11 DEF JobInv, RecorderInv
  <2>2. /\ Heard \subseteq Heard' /\ Heard' \subseteq Heard \cup {m}
        /\ \A x, E : m # Broken(x.robot) => Carries(x, Heard \cup E, Heard' \cup E)
        /\ \A x, E, F : F = {m} \cup E => Carries(x, Heard \cup F, Heard' \cup E)
    BY <1>2, <1>11, PassedOn
  <2>3. PICK H : H = Heard'
    OBVIOUS
  <2>4. WireInv'
    <3>1. SUFFICES ASSUME NEW q \in Robots, NEW i \in DOMAIN link'[q], link'[q][i] # Disconnect
                   PROVE  Justified(link[q][i], Heard \cup Elements(link[q], i - 1))'
      BY DEF WireInv, Disconnect, Message
    <3>2. PICK x, E : x = link'[q][i] /\ E = Elements(link'[q], i - 1)
      OBVIOUS
    <3>3. Justified(x, H \cup E)'
      <4>1. CASE q # r
        <5>1. Justified(x, Heard \cup E)
          BY <1>1, <2>1, <3>1, <3>2, <4>1 DEF WireInv
        <5>2. x.robot = q
          BY <1>0, <1>1, <3>1, <3>2, <4>1 DEF JobInv, LinkInv
        <5>3. m # Broken(x.robot)
          BY <1>2, <1>3, <4>1, <5>2, Evidence
        <5> QED
          BY <1>6, <2>2, <2>3, <5>1, <5>3
      <4>2. CASE q = r
        <5>1. PICK F : F = {m} \cup E
          OBVIOUS
        <5>2. i + 1 \in DOMAIN link[r] /\ x = link[r][i + 1]
              /\ Elements(link[r], (i + 1) - 1) = F
          BY <1>2, <3>1, <3>2, <4>2, <5>1
        <5>3. Justified(x, Heard \cup F)
          BY <2>1, <3>1, <3>2, <4>2, <5>2 DEF WireInv
        <5> QED
          BY <1>6, <2>2, <2>3, <5>1, <5>3
      <4> QED
        BY <4>1, <4>2
    <3> QED
      BY <2>3, <3>2, <3>3
  <2>5. /\ \A q \in Robots : q # r => HeardOf(q) \subseteq HeardOf(q)'
        /\ m \notin Heard' => HeardOf(r) \ {m} \subseteq HeardOf(r)'
        /\ m \in Heard' => HeardOf(r) \subseteq HeardOf(r)'
    BY <1>1, <1>2, <2>2 DEF HeardOf
  <2>6. /\ \A q, s : Online(q, s) = m => m \in Heard'
        /\ \A q : Broken(q) = m => m \in Heard'
    BY <1>2, <1>11, Evidence DEF Passes
  <2>7. /\ \A q \in Robots, s \in {1, 2} : Online(q, s) \in HeardOf(q) => Online(q, s) \in HeardOf(q)'
        /\ \A q \in Robots : Broken(q) \in HeardOf(q) => Broken(q) \in HeardOf(q)'
    BY <2>5, <2>6
  <2>8. BreakInv'
    <3>1. SUFFICES ASSUME NEW q \in Robots
                   PROVE  /\ session[q] = 2 => Broken(q) \in Heard'
                          /\ session[q] = 1 /\ Broken(q) \in Heard' =>
                                 /\ client[q] # "up" /\ link'[q] = << >>
                                 /\ ~(simPc = "connect" /\ q >= cursor)
                          /\ Started(q) /\ client[q] # "up" => Broken(q) \in HeardOf(q)'
      BY <1>1 DEF BreakInv, Started
    <3>2. /\ session[q] = 2 => Broken(q) \in Heard'
          /\ Started(q) /\ client[q] # "up" => Broken(q) \in HeardOf(q)'
      BY <2>1, <2>2, <2>7 DEF BreakInv
    <3>3. ASSUME session[q] = 1, Broken(q) \in Heard
          PROVE  /\ client[q] # "up" /\ link'[q] = << >>
                 /\ ~(simPc = "connect" /\ q >= cursor)
      <4>1. client[q] # "up" /\ link[q] = << >> /\ ~(simPc = "connect" /\ q >= cursor)
        BY <2>1, <3>3 DEF BreakInv
      <4>2. q # r
        BY <1>2, <4>1
      <4> QED
        BY <1>1, <4>1, <4>2
    <3>4. ASSUME session[q] = 1, Broken(q) = m
          PROVE  /\ client[q] # "up" /\ link'[q] = << >>
                 /\ ~(simPc = "connect" /\ q >= cursor)
      <4>1. q = r /\ client[q] # "up" /\ link'[q] = << >> /\ link[q] # << >>
        <5>1. m # Disconnect /\ m.robot = q /\ m.value = "CONNECTION_BROKEN"
          BY <1>3, <3>4, Evidence
        <5> QED
          BY <1>2, <5>1
      <4>2. ~(simPc = "connect" /\ q >= cursor)
        BY <1>0, <4>1 DEF JobInv, SimInv
      <4> QED
        BY <4>1, <4>2
    <3> QED
      BY <2>2, <3>2, <3>3, <3>4
  <2>9. GreetingInv'
    <3>1. m.value = "ONLINE" => Online(m.robot, 1) \in Heard'
      <4>1. ASSUME m.value = "ONLINE" PROVE Online(m.robot, 1) \in Heard'
        <5>1. m # Disconnect /\ m \in RobotMessages /\ m.robot = r /\ m.session = session[r]
          BY <1>2, <1>3, <4>1
        <5>2. CASE m.session = 1
          <6>1. m.topic = "connection"
            BY <4>1, <5>1, MessageShape
          <6>2. m = Online(m.robot, 1)
            BY <4>1, <5>1, <5>2, <6>1, MessageShape DEF Online
          <6> QED
            BY <2>6, <6>2
        <5>3. CASE m.session = 2
          <6>1. session[r] # 1
            BY <5>1, <5>3
          <6>2. DispatchInv
            BY <1>0 DEF JobInv
          <6>3. online = Robots
            BY <6>1, <6>2 DEF DispatchInv
          <6> QED
            BY <2>1, <2>2, <5>1, <6>3 DEF GreetingInv
        <5> QED
          BY <5>1, <5>2, <5>3, MessageShape
      <4> QED
        BY <4>1
    <3>2. \A q \in online : Online(q, 1) \in Heard'
      BY <2>1, <2>2 DEF GreetingInv
    <3>3. \A i \in DOMAIN fleetIn' :
              fleetIn'[i].value = "ONLINE" => Online(fleetIn'[i].robot, 1) \in Heard'
      <4>1. CASE fleetIn' = fleetIn
        BY <2>1, <2>2, <4>1 DEF GreetingInv
      <4>2. CASE m \in RobotMessages /\ fleetIn' = Append(fleetIn, m)
        <5>1. fleetIn \in Seq(RobotMessages)
          BY <1>0 DEF TypeOK
        <5>2. \A i \in DOMAIN fleetIn' :
                  \/ i \in DOMAIN fleetIn /\ fleetIn'[i] = fleetIn[i]
                  \/ fleetIn'[i] = m
          BY <4>2, <5>1, AppendProperties, SequenceShape
        <5> QED
          BY <2>1, <2>2, <3>1, <5>2 DEF GreetingInv
      <4> QED
        BY <1>2, <4>1, <4>2
    <3>4. \A q \in Robots : retained'[q].value = "ONLINE" => Online(retained'[q].robot, 1) \in Heard'
      <4>1. \A q \in Robots : retained'[q] = retained[q] \/ retained'[q] = m
        BY <1>0, <1>2 DEF TypeOK
      <4> QED
        BY <2>1, <2>2, <3>1, <4>1 DEF GreetingInv
    <3>5. \A q \in Robots :
              /\ client[q] = "up" /\ session[q] = 2 /\ ~OmitOnline => Online(q, 2) \in HeardOf(q)'
              /\ faults' = 0 /\ (orderIn[q] # << >> \/ HasOrder(q)) => Order(q) \in Heard'
      BY <1>1, <2>1, <2>2, <2>7 DEF GreetingInv, Lasting
    <3>6. OmitOnline' = OmitOnline /\ \A q : HasOrder(q)' <=> HasOrder(q)
      BY <1>1, Constants DEF HasOrder
    <3>7. Robots' = Robots
      BY DEF Robots
    <3> QED
      BY <1>1, <3>2, <3>3, <3>4, <3>5, <3>6, <3>7 DEF GreetingInv
  <2> QED
    BY <2>4, <2>8, <2>9
<1>12. Listening' <=> Listening
  BY <1>1 DEF Listening
<1> QED
  BY <1>1, <1>4, <1>5, <1>7, <1>8, <1>9, <1>10, <1>11, <1>12 DEF JobInvariant, JobInv, RecorderInv

LEMMA RouteFleetKeeps ==
    ASSUME JobInvariant, RouteFleet
    PROVE  JobInvariant'
<1> USE DEF simVars, RouteFleet, BrokerUnchanged
<1>0. TypeOK /\ JobInv
  BY DEF JobInvariant
<1>1. PICK C : C = Orders \cup {Control}
  OBVIOUS
<1>2. PICK m : m = Head(fleetLink)
  OBVIOUS
<1>3. /\ fleetLink' \in Seq(C) /\ m \in C /\ fleetLink # << >>
      /\ \A i \in DOMAIN fleetLink' : \E j \in DOMAIN fleetLink : fleetLink'[i] = fleetLink[j]
      /\ \E j \in DOMAIN fleetLink : fleetLink[j] = m
  <2>1. fleetLink \in Seq(C) /\ fleetLink # << >> /\ fleetLink' = Tail(fleetLink)
    BY <1>0, <1>1 DEF TypeOK
  <2>2. /\ Tail(fleetLink) \in Seq(C) /\ Head(fleetLink) \in C /\ Head(fleetLink) = fleetLink[1]
        /\ \A i \in DOMAIN Tail(fleetLink) :
               i + 1 \in DOMAIN fleetLink /\ Tail(fleetLink)[i] = fleetLink[i + 1]
        /\ 1 \in DOMAIN fleetLink
    BY <2>1, Tailed, SequenceShape
  <2> QED
    BY <1>2, <2>1, <2>2
<1>4. /\ UNCHANGED <<job, simVars, fleetPc, online, arrived, recPc, recUp,
                     captured, finals, completion, link>>
      /\ Deliver(m)
  BY <1>2
<1>5. /\ m = Control \/ (m \in Orders /\ m = Order(m.robot) /\ m.robot \in Robots)
      /\ m.topic \in {"order", "control"} /\ m.value # "ONLINE"
      /\ m.topic = "order" => m \in Orders
      /\ \A x : Broken(x) # m /\ \A s : Online(x, s) # m
  BY <1>1, <1>3, MessageShape DEF Broken, Online, Connection, Control, Order, Message
<1>6. m \in RobotMessages \cup Orders \cup {Control}
  BY <1>1, <1>3
<1>7. /\ faults' \in 0 .. job.faults /\ (faults' = 0 => faults = 0)
      /\ recIn' = recIn \/ (Listening /\ recIn' = Append(recIn, m))
      /\ Listening => Passes(m)
      /\ retained' = retained
      /\ fleetIn' = fleetIn
      /\ \/ orderIn' = orderIn
         \/ /\ m.topic = "order"
            /\ orderIn' = [orderIn EXCEPT ![m.robot] = Append(orderIn[m.robot], m)]
  <2>1. /\ faults' \in 0 .. job.faults /\ (faults' = 0 => faults = 0)
        /\ recIn' = recIn \/ (Listening /\ recIn' = Append(recIn, m))
        /\ Listening => Passes(m)
        /\ retained' = IF m.topic = "connection"
                       THEN [retained EXCEPT ![m.robot] = m] ELSE retained
        /\ \/ fleetIn' = fleetIn
           \/ m.topic \in {"connection", "state"} /\ fleetIn' = Append(fleetIn, m)
        /\ \/ orderIn' = orderIn
           \/ /\ m.topic = "order"
              /\ orderIn' = [orderIn EXCEPT ![m.robot] = Append(orderIn[m.robot], m)]
    BY <1>0, <1>4, <1>6, DeliverShape
  <2> QED
    BY <1>5, <2>1
<1>8. Lasting
  BY <1>4, <1>7 DEF Lasting
<1>9. online = Robots
  BY <1>0, <1>3 DEF JobInv, DispatchInv
<1>10. recIn' \in Seq(Captures \cup {Control}) /\ CapturedInv' /\ InboxInv'
  <2>1. ASSUME Listening, m # Control PROVE Truthful(m) /\ Justified(m, Heard)
    <3>1. m.topic = "order" /\ m.session = 0 /\ m.value = "order"
      BY <1>5, <2>1, MessageShape
    <3>2. \A q \in Robots : Online(q, 1) \in Heard
      BY <1>0, <1>9, <2>1 DEF JobInv, RecorderInv, GreetingInv
    <3> QED
      BY <3>1, <3>2 DEF Truthful, Justified
  <2> QED
    BY <1>0, <1>4, <1>6, <1>8, <2>1, DeliveredRecord
<1>11. /\ orderIn' \in [Robots -> Seq(Orders)]
       /\ \A q \in Robots : orderIn'[q] # << >> => orderIn[q] # << >> \/ m = Order(q)
  <2>1. CASE orderIn' = orderIn
    BY <1>0, <2>1 DEF TypeOK
  <2>2. CASE m.topic = "order" /\ orderIn' = [orderIn EXCEPT ![m.robot] = Append(orderIn[m.robot], m)]
    <3>1. m \in Orders /\ m.robot \in Robots /\ m = Order(m.robot)
      BY <1>5, <2>2, MessageShape
    <3>2. Append(orderIn[m.robot], m) \in Seq(Orders)
      BY <1>0, <3>1, AppendProperties DEF TypeOK
    <3> QED
      BY <1>0, <2>2, <3>1, <3>2 DEF TypeOK
  <2> QED
    BY <1>7, <2>1, <2>2
<1>12. TypeOK'
  BY <1>0, <1>1, <1>3, <1>4, <1>7, <1>10, <1>11 DEF TypeOK
<1>13. SimInv' /\ RetainedInv' /\ DispatchInv'
  <2>1. OmitOnline' = OmitOnline
    BY <1>4, Constants
  <2> QED
    BY <1>0, <1>4, <1>7, <1>9, <2>1 DEF JobInv, SimInv, RetainedInv, DispatchInv
<1>14. LinkInv'
  BY <1>0, <1>4, <1>8, LinkFrame DEF JobInv
<1>15. CompletionInv'
  <2>1. \A i \in DOMAIN recIn' : recIn'[i] = Control =>
            m = Control \/ \E j \in DOMAIN recIn : recIn[j] = Control
    <3>1. CASE recIn' = recIn
      BY <3>1
    <3>2. CASE recIn' = Append(recIn, m)
      <4>1. m \in Captures \cup {Control}
        BY <1>1, <1>3 DEF Captures
      <4> QED
        BY <1>0, <1>4, <3>2, <4>1, InboxGrows
    <3> QED
      BY <1>7, <3>1, <3>2
  <2>2. \/ completion'
        \/ \E i \in DOMAIN recIn' : recIn'[i] = Control
        \/ \E i \in DOMAIN fleetLink' : fleetLink'[i] = Control
        => fleetPc = "done"
    BY <1>0, <1>3, <1>4, <2>1 DEF JobInv, CompletionInv
  <2> QED
    BY <1>0, <1>4, <2>2 DEF JobInv, CompletionInv, RunObserved, Control, Message
<1>16. ASSUME Listening PROVE WireInv' /\ BreakInv' /\ GreetingInv'
  <2>1. WireInv /\ BreakInv /\ GreetingInv
    BY <1>0, <1>16 DEF JobInv, RecorderInv
  <2>2. /\ Heard \subseteq Heard' /\ Heard' \subseteq Heard \cup {m}
        /\ \A x, E : m # Broken(x.robot) => Carries(x, Heard \cup E, Heard' \cup E)
    BY <1>7, <1>16, PassedOn
  <2>3. WireInv'
    <3>1. SUFFICES ASSUME NEW q \in Robots, NEW i \in DOMAIN link'[q], link'[q][i] # Disconnect
                   PROVE  Justified(link[q][i], Heard \cup Elements(link[q], i - 1))'
      BY DEF WireInv, Disconnect, Message
    <3>2. PICK x, E, H : x = link[q][i] /\ E = Elements(link[q], i - 1) /\ H = Heard'
      OBVIOUS
    <3>3. Justified(x, Heard \cup E)
      BY <1>4, <2>1, <3>1, <3>2 DEF WireInv
    <3>4. Carries(x, Heard \cup E, H \cup E)
      BY <1>5, <2>2, <3>2
    <3>5. Justified(x, H \cup E)'
      BY <1>8, <3>3, <3>4, JustificationLasts
    <3> QED
      BY <1>4, <3>2, <3>5
  <2>4. \A q \in Robots : HeardOf(q) \subseteq HeardOf(q)'
    BY <1>4, <2>2 DEF HeardOf
  <2>5. \A q : Broken(q) \in Heard' => Broken(q) \in Heard
    BY <1>5, <2>2
  <2>6. BreakInv'
    BY <1>4, <2>1, <2>2, <2>4, <2>5 DEF BreakInv, Started
  <2>7. GreetingInv'
    <3>1. /\ OmitOnline' = OmitOnline /\ \A q : HasOrder(q)' <=> HasOrder(q)
          /\ Robots' = Robots
      BY <1>4, Constants DEF HasOrder, Robots
    <3>2. ASSUME NEW q \in Robots, faults' = 0, orderIn'[q] # << >> \/ HasOrder(q)
          PROVE  Order(q) \in Heard'
      <4>1. CASE orderIn[q] # << >> \/ HasOrder(q)
        BY <1>7, <2>1, <2>2, <3>2, <4>1 DEF GreetingInv
      <4>2. CASE m = Order(q)
        <5>1. m.topic = "order"
          BY <4>2, Distinct
        <5> QED
          BY <1>7, <1>16, <3>2, <4>2, <5>1 DEF Passes
      <4> QED
        BY <1>11, <3>2, <4>1, <4>2
    <3> QED
      BY <1>4, <1>7, <2>1, <2>2, <2>4, <3>1, <3>2 DEF GreetingInv
  <2> QED
    BY <2>3, <2>6, <2>7
<1>17. Listening' <=> Listening
  BY <1>4 DEF Listening
<1> QED
  BY <1>10, <1>12, <1>13, <1>14, <1>15, <1>16, <1>17 DEF JobInvariant, JobInv, RecorderInv

-----------------------------------------------------------------------------
(* The fleet *)

(* The fleet leaves the robots, the broker's other clients and the recorder alone. *)
LEMMA FleetStep ==
    ASSUME TypeOK, JobInv, FleetUnchanged, faults' \in 0 .. job.faults, faults' = 0 => faults = 0
    PROVE  /\ SimInv' /\ LinkInv' /\ CapturedInv' /\ InboxInv' /\ RetainedInv'
           /\ (Listening' <=> Listening) /\ Heard' = Heard
           /\ Listening => WireInv' /\ BreakInv'
           /\ \A q \in Robots :
                  /\ HeardOf(q)' = HeardOf(q) /\ (HasOrder(q)' <=> HasOrder(q))
           /\ OmitOnline' = OmitOnline
<1> USE DEF FleetUnchanged, simVars, recVars
<1>1. Lasting
  BY DEF Lasting
<1>2. Heard' = Heard /\ OmitOnline' = OmitOnline
  BY SameRecord, Constants
<1>3. SimInv' /\ LinkInv' /\ CapturedInv' /\ InboxInv' /\ RetainedInv'
  BY <1>1, <1>2, LinkFrame, RecordFrame DEF JobInv, SimInv, RetainedInv
<1>4. /\ Listening' <=> Listening
      /\ \A q \in Robots : HeardOf(q)' = HeardOf(q) /\ (HasOrder(q)' <=> HasOrder(q))
  BY <1>2 DEF Listening, HeardOf, HasOrder
<1>5. ASSUME Listening PROVE WireInv' /\ BreakInv'
  <2>1. WireInv /\ BreakInv
    BY <1>5 DEF JobInv, RecorderInv
  <2>2. BreakInv'
    BY <1>2, <1>4, <2>1 DEF BreakInv, Started
  <2>3. WireInv'
    <3>1. \A m, S : Justified(m, S) => Justified(m, S)'
      BY <1>1, JustificationLasts, SameEvidence
    <3>2. SUFFICES ASSUME NEW q \in Robots, NEW i \in DOMAIN link[q], link[q][i] # Disconnect
                   PROVE  Justified(link[q][i], Heard \cup Elements(link[q], i - 1))'
      BY DEF WireInv, Disconnect, Message
    <3>3. Justified(link[q][i], Heard \cup Elements(link[q], i - 1))
      BY <2>1, <3>2 DEF WireInv
    <3> QED
      BY <1>2, <3>1, <3>3
  <2> QED
    BY <2>2, <2>3
<1> QED
  BY <1>2, <1>3, <1>4, <1>5

LEMMA KeptShape ==
    ASSUME TypeOK, NEW order \in [1 .. Cardinality(KeptRobots) -> KeptRobots],
           fleetIn' = [i \in DOMAIN order |-> retained[order[i]]]
    PROVE  /\ fleetIn' \in Seq(RobotMessages)
           /\ \A i \in DOMAIN fleetIn' : \E q \in Robots : fleetIn'[i] = retained[q]
<1>1. IsFiniteSet(KeptRobots)
  <2>1. KeptRobots \subseteq 1 .. NumRobots
    BY DEF KeptRobots, Robots
  <2>2. IsFiniteSet(1 .. NumRobots)
    BY FS_Interval, ConstantsAssumption
  <2> QED
    BY <2>1, <2>2, FS_Subset
<1>2. Cardinality(KeptRobots) \in Nat
  BY <1>1, FS_CardinalityType
<1>3. \A i \in DOMAIN order : order[i] \in Robots /\ retained[order[i]] \in RobotMessages
  BY DEF TypeOK, KeptRobots
<1>4. PICK n \in Nat : DOMAIN order = 1 .. n
  BY <1>2
<1>5. fleetIn' \in [1 .. n -> RobotMessages]
  BY <1>3, <1>4
<1> QED
  BY <1>3, <1>5, SeqDef

LEMMA FleetConnectKeeps == JobInvariant /\ FleetConnect => JobInvariant'
<1> SUFFICES ASSUME JobInvariant, FleetConnect PROVE JobInvariant'
  OBVIOUS
<1>0. TypeOK /\ JobInv
  BY DEF JobInvariant
<1>1. PICK order \in [1 .. Cardinality(KeptRobots) -> KeptRobots] :
          fleetIn' = [i \in DOMAIN order |-> retained[order[i]]]
  BY DEF FleetConnect
<1>2. /\ fleetPc = "connect" /\ fleetPc' = "online"
      /\ UNCHANGED <<fleetLink, online, arrived, faults>> /\ FleetUnchanged
  BY DEF FleetConnect
<1>3. /\ fleetIn' \in Seq(RobotMessages)
      /\ \A i \in DOMAIN fleetIn' : \E q \in Robots : fleetIn'[i] = retained[q]
  BY <1>0, <1>1, KeptShape
<1>4. /\ SimInv' /\ LinkInv' /\ CapturedInv' /\ InboxInv' /\ RetainedInv'
      /\ (Listening' <=> Listening) /\ Heard' = Heard
      /\ Listening => WireInv' /\ BreakInv'
      /\ \A q \in Robots :
             /\ HeardOf(q)' = HeardOf(q) /\ (HasOrder(q)' <=> HasOrder(q))
      /\ OmitOnline' = OmitOnline
  <2>1. faults' \in 0 .. job.faults /\ (faults' = 0 => faults = 0)
    BY <1>0, <1>2 DEF TypeOK
  <2> QED
    BY <1>0, <1>2, <2>1, FleetStep
<1> USE DEF FleetUnchanged, simVars, recVars
<1>5. TypeOK'
  BY <1>0, <1>2, <1>3 DEF TypeOK
<1>6. DispatchInv' /\ CompletionInv'
  BY <1>0, <1>2, <1>4 DEF JobInv, DispatchInv, CompletionInv, RunObserved
<1>7. Listening => GreetingInv'
  <2>1. SUFFICES ASSUME Listening PROVE GreetingInv'
    OBVIOUS
  <2>2. GreetingInv
    BY <1>0, <2>1 DEF JobInv, RecorderInv
  <2>3. \A i \in DOMAIN fleetIn' :
            fleetIn'[i].value = "ONLINE" => Online(fleetIn'[i].robot, 1) \in Heard
    BY <1>3, <2>2 DEF GreetingInv
  <2> QED
    BY <1>2, <1>4, <2>2, <2>3 DEF GreetingInv
<1> QED
  BY <1>4, <1>5, <1>6, <1>7 DEF JobInvariant, JobInv, RecorderInv

(* The fleet reads a message, or none, and may stop. *)
LEMMA FleetGoesOn ==
    ASSUME JobInvariant, FleetUnchanged,
           fleetPc' \in {"online", "arrived", "done", "failed"},
           fleetPc = "done" => fleetPc' = "done",
           fleetIn' \in Seq(RobotMessages),
           \A i \in DOMAIN fleetIn' : \E j \in DOMAIN fleetIn : fleetIn'[i] = fleetIn[j],
           online \subseteq online', online' \in SUBSET Robots, arrived' \in SUBSET Robots,
           \A r \in online' \ online :
               \E j \in DOMAIN fleetIn : fleetIn[j].robot = r /\ fleetIn[j].value = "ONLINE",
           faults' \in 0 .. job.faults, faults' = 0 => faults = 0,
           fleetLink' \in Seq(Orders \cup {Control}),
           online # Robots => fleetLink' = << >> /\ fleetPc' # "arrived",
           \A i \in DOMAIN fleetLink' : fleetLink'[i] = Control => fleetPc' = "done"
    PROVE  JobInvariant'
<1>0. TypeOK /\ JobInv
  BY DEF JobInvariant
<1>1. /\ SimInv' /\ LinkInv' /\ CapturedInv' /\ InboxInv' /\ RetainedInv'
      /\ (Listening' <=> Listening) /\ Heard' = Heard
      /\ Listening => WireInv' /\ BreakInv'
      /\ \A q \in Robots :
             /\ HeardOf(q)' = HeardOf(q) /\ (HasOrder(q)' <=> HasOrder(q))
      /\ OmitOnline' = OmitOnline
  BY <1>0, FleetStep
<1> USE DEF FleetUnchanged, simVars, recVars
<1>2. TypeOK'
  BY <1>0 DEF TypeOK
<1>3. online = Robots => online' = Robots
  BY <1>0 DEF TypeOK
<1>4. DispatchInv'
  BY <1>0, <1>1, <1>3 DEF JobInv, DispatchInv
<1>5. CompletionInv'
  BY <1>0, <1>1 DEF JobInv, CompletionInv, RunObserved
<1>6. Listening => GreetingInv'
  <2>1. SUFFICES ASSUME Listening PROVE GreetingInv'
    OBVIOUS
  <2>2. GreetingInv
    BY <1>0, <2>1 DEF JobInv, RecorderInv
  <2>3. \A i \in DOMAIN fleetIn' :
            fleetIn'[i].value = "ONLINE" => Online(fleetIn'[i].robot, 1) \in Heard
    BY <2>2 DEF GreetingInv
  <2>4. \A q \in online' : Online(q, 1) \in Heard
    BY <2>2 DEF GreetingInv
  <2>5. \A q \in Robots :
            /\ retained[q].value = "ONLINE" => Online(retained[q].robot, 1) \in Heard
            /\ client[q] = "up" /\ session[q] = 2 /\ ~OmitOnline => Online(q, 2) \in HeardOf(q)
            /\ faults = 0 /\ (orderIn[q] # << >> \/ HasOrder(q)) => Order(q) \in Heard
    BY <2>2 DEF GreetingInv
  <2> QED
    BY <1>1, <2>3, <2>4, <2>5 DEF GreetingInv
<1> QED
  BY <1>1, <1>2, <1>4, <1>5, <1>6 DEF JobInvariant, JobInv, RecorderInv

(* What FleetGoesOn asks of the fleet's inbox when its first message is read.  *)
LEMMA InboxRead ==
    ASSUME TypeOK, fleetIn # << >>
    PROVE  /\ Tail(fleetIn) \in Seq(RobotMessages) /\ Head(fleetIn) \in RobotMessages
           /\ \A i \in DOMAIN Tail(fleetIn) : \E j \in DOMAIN fleetIn : Tail(fleetIn)[i] = fleetIn[j]
           /\ \E j \in DOMAIN fleetIn : Head(fleetIn) = fleetIn[j]
<1>1. fleetIn \in Seq(RobotMessages)
  BY DEF TypeOK
<1>2. /\ Tail(fleetIn) \in Seq(RobotMessages) /\ Head(fleetIn) \in RobotMessages
      /\ Head(fleetIn) = fleetIn[1]
      /\ \A i \in DOMAIN Tail(fleetIn) :
             i + 1 \in DOMAIN fleetIn /\ Tail(fleetIn)[i] = fleetIn[i + 1]
      /\ 1 \in DOMAIN fleetIn
  BY <1>1, Tailed, SequenceShape
<1> QED
  BY <1>2

LEMMA FleetFacts ==
    ASSUME JobInvariant
    PROVE  /\ TypeOK /\ JobInv /\ faults \in 0 .. job.faults /\ job.faults \in Nat
           /\ online \in SUBSET Robots /\ arrived \in SUBSET Robots
           /\ fleetIn \in Seq(RobotMessages)
           /\ fleetLink \in Seq(Orders \cup {Control})
           /\ online # Robots => fleetLink = << >> /\ fleetPc # "arrived"
           /\ \A i \in DOMAIN fleetLink : fleetLink[i] = Control => fleetPc = "done"
<1>1. TypeOK /\ JobInv
  BY DEF JobInvariant
<1>2. job \in Jobs
  BY <1>1 DEF TypeOK
<1>3. job.faults \in Nat
  BY <1>2, Numbers
<1> QED
  BY <1>1, <1>3 DEF TypeOK, JobInv, DispatchInv, CompletionInv

LEMMA FleetAwaitsOnlineKeeps == JobInvariant /\ FleetAwaitsOnline => JobInvariant'
<1> SUFFICES ASSUME JobInvariant, FleetAwaitsOnline PROVE JobInvariant'
  OBVIOUS
<1> USE DEF FleetAwaitsOnline, AllOnline
<1>1. FleetUnchanged /\ UNCHANGED <<fleetPc, fleetLink, arrived, faults>>
      /\ fleetPc = "online" /\ fleetIn # << >> /\ fleetIn' = Tail(fleetIn)
  OBVIOUS
<1>2. PICK m : m = Head(fleetIn)
  OBVIOUS
<1>3. /\ fleetIn' \in Seq(RobotMessages) /\ m \in RobotMessages
      /\ \A i \in DOMAIN fleetIn' : \E j \in DOMAIN fleetIn : fleetIn'[i] = fleetIn[j]
      /\ \E j \in DOMAIN fleetIn : m = fleetIn[j]
  BY <1>1, <1>2, FleetFacts, InboxRead
<1>4. online' = IF m.value = "ONLINE" THEN online \cup {m.robot} ELSE online
  BY <1>2
<1>5. m.robot \in Robots
  BY <1>3, MessageShape
<1>6. /\ online \subseteq online' /\ online' \in SUBSET Robots
      /\ \A r \in online' \ online :
             \E j \in DOMAIN fleetIn : fleetIn[j].robot = r /\ fleetIn[j].value = "ONLINE"
  BY <1>3, <1>4, <1>5, FleetFacts
<1> QED
  BY <1>1, <1>3, <1>6, FleetFacts, FleetGoesOn

LEMMA FleetPublishesOrdersKeeps == JobInvariant /\ FleetPublishesOrders => JobInvariant'
<1> SUFFICES ASSUME JobInvariant, FleetPublishesOrders PROVE JobInvariant'
  OBVIOUS
<1> USE DEF FleetPublishesOrders, AllOnline
<1>1. /\ FleetUnchanged /\ UNCHANGED <<fleetIn, online, arrived, faults>>
      /\ fleetPc' = "arrived" /\ fleetPc = "online" /\ online = Robots
  OBVIOUS
<1>2. fleetLink' \in Seq(Orders \cup {Control})
  <2>1. \A r \in Robots : Order(r) \in Orders
    BY MessageShape
  <2>2. NumRobots \in Nat /\ Robots = 1 .. NumRobots
    BY ConstantsAssumption DEF Robots
  <2>3. fleetLink' \in [1 .. NumRobots -> Orders \cup {Control}]
    BY <2>1, <2>2
  <2> QED
    BY <2>2, <2>3, SeqDef
<1>3. \A i \in DOMAIN fleetLink' : fleetLink'[i] # Control
  <2>1. \A i \in DOMAIN fleetLink' : fleetLink'[i] = Order(i)
    OBVIOUS
  <2>2. \A i : Order(i) # Control
    BY DEF Order, Control, Message
  <2> QED
    BY <2>1, <2>2
<1> QED
  BY <1>1, <1>2, <1>3, FleetFacts, FleetGoesOn

LEMMA FleetAwaitsArrivalKeeps == JobInvariant /\ FleetAwaitsArrival => JobInvariant'
<1> SUFFICES ASSUME JobInvariant, FleetAwaitsArrival PROVE JobInvariant'
  OBVIOUS
<1> USE DEF FleetAwaitsArrival
<1>1. FleetUnchanged /\ UNCHANGED <<fleetPc, fleetLink, online, faults>>
      /\ fleetPc = "arrived" /\ fleetIn # << >> /\ fleetIn' = Tail(fleetIn)
  OBVIOUS
<1>2. /\ fleetIn' \in Seq(RobotMessages) /\ Head(fleetIn) \in RobotMessages
      /\ \A i \in DOMAIN fleetIn' : \E j \in DOMAIN fleetIn : fleetIn'[i] = fleetIn[j]
  BY <1>1, FleetFacts, InboxRead
<1>3. arrived' \in SUBSET Robots
  <2>1. Head(fleetIn).robot \in Robots
    BY <1>2, MessageShape
  <2> QED
    BY <2>1, FleetFacts
<1> QED
  BY <1>1, <1>2, <1>3, FleetFacts, FleetGoesOn

LEMMA FleetCompletesKeeps == JobInvariant /\ FleetCompletes => JobInvariant'
<1> SUFFICES ASSUME JobInvariant, FleetCompletes PROVE JobInvariant'
  OBVIOUS
<1> USE DEF FleetCompletes
<1>1. /\ FleetUnchanged /\ UNCHANGED <<online, arrived, faults>>
      /\ fleetPc' = "done" /\ fleetPc = "arrived" /\ fleetIn' = << >>
  OBVIOUS
<1>2. fleetLink' \in Seq(Orders \cup {Control})
  <2>1. Append(fleetLink, Control) \in Seq(Orders \cup {Control})
    BY FleetFacts, AppendProperties
  <2> QED
    BY <2>1, FleetFacts
<1>3. fleetIn' \in Seq(RobotMessages) /\ DOMAIN fleetIn' = {}
  BY <1>1
<1> QED
  BY <1>1, <1>2, <1>3, FleetFacts, FleetGoesOn

LEMMA FleetFailsKeeps == JobInvariant /\ FleetFails => JobInvariant'
<1> SUFFICES ASSUME JobInvariant, FleetFails PROVE JobInvariant'
  OBVIOUS
<1> USE DEF FleetFails
<1>1. /\ FleetUnchanged /\ UNCHANGED <<online, arrived>>
      /\ fleetPc' = "failed" /\ fleetPc # "done" /\ fleetIn' = << >>
  OBVIOUS
<1>2. faults' \in 0 .. job.faults /\ (faults' = 0 => faults = 0)
  BY FleetFacts DEF MayFault
<1>3. PICK C : C = Orders \cup {Control}
  OBVIOUS
<1>4. PICK k \in 0 .. Len(fleetLink) : fleetLink' = SubSeq(fleetLink, 1, k)
  OBVIOUS
<1>5. /\ fleetLink \in Seq(C) /\ Len(fleetLink) \in Nat
      /\ DOMAIN fleetLink = 1 .. Len(fleetLink)
  BY <1>3, FleetFacts, SequenceShape
<1>6. fleetLink' = [i \in 1 .. k |-> fleetLink[i]]
  BY <1>4, <1>5
<1>7. \A i \in 1 .. k : i \in DOMAIN fleetLink /\ fleetLink[i] \in C
  <2>1. \A i \in DOMAIN fleetLink : fleetLink[i] \in C
    BY <1>5, SequenceShape
  <2> QED
    BY <1>5, <2>1
<1>8. fleetLink' \in [1 .. k -> C] /\ k \in Nat
  <2>1. [i \in 1 .. k |-> fleetLink[i]] \in [1 .. k -> C]
    BY <1>7
  <2>2. k \in Nat
    BY <1>5
  <2> QED
    BY <1>6, <2>1, <2>2
<1>9. fleetLink' \in Seq(C)
  BY <1>8, SeqDef
<1>10. fleetLink = << >> => fleetLink' = << >>
  <2>1. fleetLink = << >> => k = 0
    BY <1>5, SequenceShape
  <2>2. k = 0 => fleetLink' = << >>
    BY <1>6
  <2> QED
    BY <2>1, <2>2
<1>11. \A i \in DOMAIN fleetLink' : fleetLink'[i] # Control
  BY <1>1, <1>6, <1>7, FleetFacts
<1>12. fleetIn' \in Seq(RobotMessages) /\ DOMAIN fleetIn' = {}
  BY <1>1
<1> QED
  BY <1>1, <1>2, <1>3, <1>9, <1>10, <1>11, <1>12, FleetFacts, FleetGoesOn

-----------------------------------------------------------------------------
(* The recorder *)

LEMMA RecorderStep ==
    ASSUME JobInvariant, UNCHANGED <<simVars, link, fleetLink, retained, orderIn, fleetVars>>,
           faults' \in 0 .. job.faults, faults' = 0 => faults = 0,
           recPc' \in {"record", "sealed", "overflow", "failed"}, recUp' \in BOOLEAN,
           recIn' \in Seq(Captures \cup {Control}), captured' \in Seq(Captures),
           finals' \in SUBSET Robots, completion' \in BOOLEAN,
           CapturedInv', InboxInv', CompletionInv',
           Listening' => Listening /\ Heard' \subseteq Heard /\ Heard \subseteq Heard' \cup {Control}
    PROVE  JobInvariant'
<1> USE DEF simVars, fleetVars
<1>0. TypeOK /\ JobInv
  BY DEF JobInvariant
<1>1. Lasting
  BY DEF Lasting
<1>2. TypeOK'
  BY <1>0 DEF TypeOK
<1>3. SimInv' /\ LinkInv' /\ DispatchInv' /\ RetainedInv'
  <2>1. OmitOnline' = OmitOnline
    BY Constants
  <2>2. LinkInv'
    BY <1>0, <1>1, LinkFrame DEF JobInv
  <2>3. SimInv' /\ DispatchInv'
    BY <1>0 DEF JobInv, SimInv, DispatchInv, HasOrder
  <2>4. RetainedInv'
    BY <1>0, <2>1 DEF JobInv, RetainedInv
  <2> QED
    BY <2>2, <2>3, <2>4
<1>4. ASSUME Listening' PROVE WireInv' /\ BreakInv' /\ GreetingInv'
  <2>1. WireInv /\ BreakInv /\ GreetingInv
    BY <1>0, <1>4 DEF JobInv, RecorderInv
  <2>2. Heard' \subseteq Heard /\ Heard \subseteq Heard' \cup {Control}
    BY <1>4
  <2>3. \A q, s : /\ Online(q, s) # Control /\ Broken(q) # Control /\ Order(q) # Control
    BY DEF Online, Broken, Order, Connection, Control, Message
  <2>4. /\ \A q, s : Online(q, s) \in Heard <=> Online(q, s) \in Heard'
        /\ \A q : Broken(q) \in Heard <=> Broken(q) \in Heard'
        /\ \A q : Order(q) \in Heard <=> Order(q) \in Heard'
    BY <2>2, <2>3
  <2>5. /\ \A q \in Robots, s \in {1, 2} : Online(q, s) \in HeardOf(q) => Online(q, s) \in HeardOf(q)'
        /\ \A q \in Robots : Broken(q) \in HeardOf(q) => Broken(q) \in HeardOf(q)'
    BY <2>4 DEF HeardOf
  <2>6. BreakInv'
    BY <2>1, <2>4, <2>5 DEF BreakInv, Started
  <2>7. GreetingInv'
    <3>1. Robots' = Robots /\ OmitOnline' = OmitOnline /\ \A q : HasOrder(q)' <=> HasOrder(q)
      BY Constants DEF Robots, HasOrder
    <3> QED
      BY <2>1, <2>4, <2>5, <3>1 DEF GreetingInv
  <2>8. WireInv'
    <3>1. SUFFICES ASSUME NEW q \in Robots, NEW i \in DOMAIN link[q], link[q][i] # Disconnect
                   PROVE  Justified(link[q][i], Heard \cup Elements(link[q], i - 1))'
      BY DEF WireInv, Disconnect, Message
    <3>2. PICK x, E, H : x = link[q][i] /\ E = Elements(link[q], i - 1) /\ H = Heard'
      OBVIOUS
    <3>3. Justified(x, Heard \cup E)
      BY <2>1, <3>1, <3>2 DEF WireInv
    <3>4. Carries(x, Heard \cup E, H \cup E)
      BY <2>4, <3>2 DEF Carries
    <3>5. Justified(x, H \cup E)'
      BY <1>1, <3>3, <3>4, JustificationLasts
    <3> QED
      BY <3>2, <3>5
  <2> QED
    BY <2>6, <2>7, <2>8
<1> QED
  BY <1>2, <1>3, <1>4 DEF JobInvariant, JobInv, RecorderInv

LEMMA RecorderFacts ==
    ASSUME JobInvariant
    PROVE  /\ TypeOK /\ JobInv /\ faults \in 0 .. job.faults /\ job.faults \in Nat
           /\ recPc \in {"record", "sealed", "overflow", "failed"} /\ recUp \in BOOLEAN
           /\ recIn \in Seq(Captures \cup {Control}) /\ captured \in Seq(Captures)
           /\ finals \in SUBSET Robots /\ completion \in BOOLEAN
           /\ CapturedInv /\ InboxInv /\ CompletionInv
<1>1. TypeOK /\ JobInv
  BY DEF JobInvariant
<1>2. job \in Jobs
  BY <1>1 DEF TypeOK
<1>3. job.faults \in Nat
  BY <1>2, Numbers
<1> QED
  BY <1>1, <1>3 DEF TypeOK, JobInv

(* The recorder stops, with its inbox or without. *)
LEMMA RecorderStops ==
    ASSUME JobInvariant, UNCHANGED <<simVars, link, fleetLink, retained, orderIn, fleetVars>>,
           UNCHANGED <<captured, finals, completion>>,
           faults' \in 0 .. job.faults, faults' = 0 => faults = 0,
           recPc' \in {"record", "sealed", "overflow", "failed"}, recUp' \in BOOLEAN,
           recIn' = recIn \/ recIn' = << >>,
           ~Listening', recPc' = "sealed" => RunObserved
    PROVE  JobInvariant'
<1>1. Lasting
  BY DEF Lasting, simVars, fleetVars
<1>2. CapturedInv'
  <2>1. /\ \A m : m.robot \in Robots /\ Truthful(m) => Truthful(m)'
        /\ \A m, S : Justified(m, S) => Justified(m, S)'
    BY <1>1, TruthLasts, JustificationLasts, SameEvidence
  <2>2. \A i \in DOMAIN captured : captured[i].robot \in Robots
    BY RecorderFacts, HeardRobots
  <2> QED
    BY <2>1, <2>2, RecorderFacts DEF CapturedInv, Elements
<1>3. InboxInv'
  <2>1. CASE recIn' = recIn
    BY <1>1, <2>1, RecorderFacts, RecordFrame
  <2>2. CASE recIn' = << >>
    BY <2>2 DEF InboxInv
  <2> QED
    BY <2>1, <2>2
<1>4. CompletionInv'
  BY RecorderFacts DEF CompletionInv, RunObserved, fleetVars
<1>5. recIn' \in Seq(Captures \cup {Control})
  <2>1. << >> \in Seq(Captures \cup {Control})
    BY EmptySeq
  <2> QED
    BY <2>1, RecorderFacts
<1> QED
  BY <1>2, <1>3, <1>4, <1>5, RecorderFacts, RecorderStep

LEMMA RecorderStopsKeep ==
    /\ JobInvariant /\ CaptureOverflow => JobInvariant'
    /\ JobInvariant /\ SealCapture => JobInvariant'
    /\ JobInvariant /\ RecorderConnectionLost => JobInvariant'
    /\ JobInvariant /\ RecorderDisconnected => JobInvariant'
    /\ JobInvariant /\ RecorderDeadline => JobInvariant'
<1> USE DEF RecorderUnchanged, brokerVars, Recording
<1>1. ASSUME JobInvariant, CaptureOverflow PROVE JobInvariant'
  <2>1. recPc' = "overflow" /\ UNCHANGED <<recUp, recIn, captured, finals, completion>>
        /\ RecorderUnchanged
    BY <1>1 DEF CaptureOverflow
  <2> QED
    BY <1>1, <2>1, RecorderFacts, RecorderStops DEF Listening
<1>2. ASSUME JobInvariant, SealCapture PROVE JobInvariant'
  <2>1. recPc' = "sealed" /\ recIn' = << >> /\ UNCHANGED <<recUp, captured, finals, completion>>
        /\ RecorderUnchanged /\ RunObserved
    BY <1>2 DEF SealCapture
  <2> QED
    BY <1>2, <2>1, RecorderFacts, RecorderStops DEF Listening
<1>3. ASSUME JobInvariant, RecorderConnectionLost PROVE JobInvariant'
  <2>1. /\ recUp' = FALSE /\ recPc' = recPc /\ recPc = "record"
        /\ UNCHANGED <<simVars, link, fleetLink, retained, orderIn, fleetVars,
                       recIn, captured, finals, completion>>
        /\ MayFault /\ faults' = faults + 1
    BY <1>3 DEF RecorderConnectionLost
  <2>2. faults' \in 0 .. job.faults /\ (faults' = 0 => faults = 0)
    BY <1>3, <2>1, RecorderFacts DEF MayFault
  <2>3. ~Listening'
    BY <2>1 DEF Listening
  <2> QED
    BY <1>3, <2>1, <2>2, <2>3, RecorderFacts, RecorderStops
<1>4. ASSUME JobInvariant, RecorderDisconnected PROVE JobInvariant'
  <2>1. recPc' = "failed" /\ UNCHANGED <<recUp, recIn, captured, finals, completion>>
        /\ RecorderUnchanged
    BY <1>4 DEF RecorderDisconnected
  <2> QED
    BY <1>4, <2>1, RecorderFacts, RecorderStops DEF Listening
<1>5. ASSUME JobInvariant, RecorderDeadline PROVE JobInvariant'
  <2>1. recPc' = "failed" /\ recIn' = << >> /\ UNCHANGED <<recUp, captured, finals, completion>>
        /\ RecorderUnchanged
    BY <1>5 DEF RecorderDeadline
  <2> QED
    BY <1>5, <2>1, RecorderFacts, RecorderStops DEF Listening
<1> QED
  BY <1>1, <1>2, <1>3, <1>4, <1>5

LEMMA InboxHead ==
    ASSUME TypeOK, recIn # << >>
    PROVE  /\ Head(recIn) \in Captures \cup {Control} /\ Tail(recIn) \in Seq(Captures \cup {Control})
           /\ 1 \in DOMAIN recIn /\ Head(recIn) = recIn[1] /\ Len(recIn) \in Nat \ {0}
           /\ Len(Tail(recIn)) = Len(recIn) - 1 /\ DOMAIN Tail(recIn) = 1 .. Len(recIn) - 1
           /\ \A i \in DOMAIN Tail(recIn) : i + 1 \in DOMAIN recIn /\ Tail(recIn)[i] = recIn[i + 1]
           /\ \A n \in 0 .. Len(recIn) - 1 :
                  Elements(recIn, n + 1) = {Head(recIn)} \cup Elements(Tail(recIn), n)
<1>1. PICK C : C = Captures \cup {Control}
  OBVIOUS
<1>2. recIn \in Seq(C)
  BY <1>1 DEF TypeOK
<1>3. /\ Tail(recIn) \in Seq(C) /\ Head(recIn) \in C /\ Head(recIn) = recIn[1]
      /\ Len(Tail(recIn)) = Len(recIn) - 1
      /\ DOMAIN Tail(recIn) = 1 .. Len(recIn) - 1
      /\ \A i \in DOMAIN Tail(recIn) : i + 1 \in DOMAIN recIn /\ Tail(recIn)[i] = recIn[i + 1]
      /\ \A n \in 0 .. Len(recIn) - 1 :
             Elements(recIn, n + 1) = {Head(recIn)} \cup Elements(Tail(recIn), n)
  BY <1>2, Tailed
<1>4. 1 \in DOMAIN recIn /\ Len(recIn) \in Nat \ {0}
  BY <1>2, SequenceShape
<1> QED
  BY <1>1, <1>3, <1>4

LEMMA ObserveControlKeeps == JobInvariant /\ ObserveControl => JobInvariant'
<1> SUFFICES ASSUME JobInvariant, ObserveControl PROVE JobInvariant'
  OBVIOUS
<1> USE DEF RecorderUnchanged, brokerVars, simVars, fleetVars
<1>1. /\ Recording /\ recIn # << >> /\ Head(recIn) = Control /\ recIn' = Tail(recIn)
      /\ completion' = TRUE /\ UNCHANGED <<recPc, recUp, captured, finals>>
      /\ RecorderUnchanged
  BY DEF ObserveControl, IsControl
<1>2. /\ recIn' \in Seq(Captures \cup {Control})
      /\ Len(recIn) \in Nat \ {0} /\ Len(recIn') = Len(recIn) - 1
      /\ DOMAIN recIn' = 1 .. Len(recIn) - 1
      /\ recIn[1] = Control /\ 1 \in DOMAIN recIn
      /\ \A i \in DOMAIN recIn' : i + 1 \in DOMAIN recIn /\ recIn'[i] = recIn[i + 1]
      /\ \A n \in 0 .. Len(recIn) - 1 :
             Elements(recIn, n + 1) = {Control} \cup Elements(recIn', n)
  BY <1>1, RecorderFacts, InboxHead
<1>3. Lasting
  BY <1>1 DEF Lasting
<1>4. /\ Heard = Heard' \cup {Control}
      /\ \A i \in DOMAIN recIn' : HeardBefore(i + 1) = HeardBefore(i)' \cup {Control}
  <2>1. Len(recIn) - 1 \in 0 .. Len(recIn) - 1 /\ (Len(recIn) - 1) + 1 = Len(recIn)
        /\ Len(recIn) + 1 - 1 = Len(recIn) /\ Len(recIn') + 1 - 1 = Len(recIn')
    BY <1>2
  <2>2. Elements(recIn, Len(recIn)) = {Control} \cup Elements(recIn', Len(recIn'))
    BY <1>2, <2>1
  <2>3. Heard = Heard' \cup {Control}
    BY <1>1, <2>1, <2>2 DEF Heard, HeardBefore
  <2>4. ASSUME NEW i \in DOMAIN recIn' PROVE HeardBefore(i + 1) = HeardBefore(i)' \cup {Control}
    <3>1. i - 1 \in 0 .. Len(recIn) - 1 /\ (i - 1) + 1 = (i + 1) - 1
      BY <1>2
    <3>2. Elements(recIn, (i + 1) - 1) = {Control} \cup Elements(recIn', i - 1)
      BY <1>2, <3>1
    <3> QED
      BY <1>1, <3>2 DEF HeardBefore
  <2> QED
    BY <2>3, <2>4
<1>5. \A q, s : /\ Online(q, s) # Control /\ Broken(q) # Control /\ Order(q) # Control
  BY DEF Online, Broken, Order, Connection, Control, Message
<1>6. InboxInv'
  <2>1. SUFFICES ASSUME NEW i \in DOMAIN recIn', recIn'[i] # Control
                 PROVE  Truthful(recIn[i])' /\ Justified(recIn[i], HeardBefore(i))'
    BY DEF InboxInv, Control, Message
  <2>2. PICK x, S, T : x = recIn'[i] /\ S = HeardBefore(i + 1) /\ T = HeardBefore(i)'
    OBVIOUS
  <2>3. i + 1 \in DOMAIN recIn /\ x = recIn[i + 1] /\ x # Control
    BY <1>2, <2>1, <2>2
  <2>4. Truthful(x) /\ Justified(x, S) /\ x.robot \in Robots
    BY <2>2, <2>3, RecorderFacts, HeardRobots DEF InboxInv
  <2>5. Carries(x, S, T)
    BY <1>4, <1>5, <2>1, <2>2 DEF Carries
  <2>6. Truthful(x)' /\ Justified(x, T)'
    BY <1>3, <2>4, <2>5, TruthLasts, JustificationLasts
  <2> QED
    BY <2>2, <2>6
<1>7. CapturedInv'
  <2>1. /\ \A m : m.robot \in Robots /\ Truthful(m) => Truthful(m)'
        /\ \A m, S : Justified(m, S) => Justified(m, S)'
    BY <1>3, TruthLasts, JustificationLasts, SameEvidence
  <2>2. \A i \in DOMAIN captured : captured[i].robot \in Robots
    BY RecorderFacts, HeardRobots
  <2> QED
    BY <1>1, <2>1, <2>2, RecorderFacts DEF CapturedInv, Elements
<1>8. CompletionInv'
  <2>1. fleetPc = "done"
    BY <1>2, RecorderFacts DEF CompletionInv
  <2> QED
    BY <1>1, <2>1, RecorderFacts DEF CompletionInv, Recording, RunObserved
<1>9. Listening' => Listening
  BY <1>1 DEF Listening
<1> QED
  BY <1>1, <1>2, <1>4, <1>6, <1>7, <1>8, <1>9, RecorderFacts, RecorderStep

LEMMA CaptureMessageKeeps == JobInvariant /\ CaptureMessage => JobInvariant'
<1> SUFFICES ASSUME JobInvariant, CaptureMessage PROVE JobInvariant'
  OBVIOUS
<1> USE DEF RecorderUnchanged, brokerVars, simVars, fleetVars
<1>1. PICK m : m = Head(recIn)
  OBVIOUS
<1>2. /\ Recording /\ recIn # << >> /\ m # Control /\ recIn' = Tail(recIn)
      /\ captured' = Append(captured, m)
      /\ finals' = IF ReportsArrival(m) THEN finals \cup {m.robot} ELSE finals
      /\ UNCHANGED <<recPc, recUp, completion>>
      /\ RecorderUnchanged
  BY <1>1 DEF CaptureMessage, IsControl
<1>3. /\ recIn' \in Seq(Captures \cup {Control}) /\ m \in Captures
      /\ Len(recIn) \in Nat \ {0} /\ Len(recIn') = Len(recIn) - 1
      /\ DOMAIN recIn' = 1 .. Len(recIn) - 1
      /\ recIn[1] = m /\ 1 \in DOMAIN recIn
      /\ \A i \in DOMAIN recIn' : i + 1 \in DOMAIN recIn /\ recIn'[i] = recIn[i + 1]
      /\ \A n \in 0 .. Len(recIn) - 1 :
             Elements(recIn, n + 1) = {m} \cup Elements(recIn', n)
  BY <1>1, <1>2, RecorderFacts, InboxHead
<1>4. PICK n : n = Len(captured)
  OBVIOUS
<1>5. /\ captured' \in Seq(Captures) /\ Len(captured') = n + 1
      /\ DOMAIN captured' = 1 .. n + 1 /\ DOMAIN captured = 1 .. n /\ n \in Nat
      /\ \A i \in 1 .. n : captured'[i] = captured[i]
      /\ captured'[n + 1] = m
      /\ \A k \in 0 .. n : Elements(captured', k) = Elements(captured, k)
      /\ Elements(captured', n + 1) = Elements(captured, n) \cup {m}
  <2>1. captured \in Seq(Captures)
    BY RecorderFacts
  <2>2. \A t \in Seq(Captures), x \in Captures :
            /\ Append(t, x) \in Seq(Captures) /\ Len(Append(t, x)) = Len(t) + 1
            /\ DOMAIN Append(t, x) = 1 .. Len(t) + 1
            /\ \A i \in 1 .. Len(t) : Append(t, x)[i] = t[i]
            /\ Append(t, x)[Len(t) + 1] = x
            /\ \A k \in 0 .. Len(t) : Elements(Append(t, x), k) = Elements(t, k)
            /\ Elements(Append(t, x), Len(t) + 1) = Elements(t, Len(t)) \cup {x}
    BY Appended
  <2>3. DOMAIN captured = 1 .. n /\ n \in Nat
    BY <1>4, <2>1, SequenceShape
  <2> QED
    BY <1>2, <1>3, <1>4, <2>1, <2>2, <2>3
<1>6. Lasting
  BY <1>2 DEF Lasting
<1>7. /\ Heard = Heard'
      /\ \A i \in DOMAIN recIn' : HeardBefore(i + 1) = HeardBefore(i)'
      /\ HeardBefore(1) = Elements(captured, n)
  <2>1. Len(recIn) - 1 \in 0 .. Len(recIn) - 1 /\ (Len(recIn) - 1) + 1 = Len(recIn)
        /\ Len(recIn) + 1 - 1 = Len(recIn) /\ Len(recIn') + 1 - 1 = Len(recIn')
    BY <1>3
  <2>2. Elements(recIn, Len(recIn)) = {m} \cup Elements(recIn', Len(recIn'))
    BY <1>3, <2>1
  <2>3. Elements(captured', Len(captured')) = Elements(captured, Len(captured)) \cup {m}
    BY <1>4, <1>5
  <2>4. Heard = Heard'
    BY <2>1, <2>2, <2>3 DEF Heard, HeardBefore
  <2>5. ASSUME NEW i \in DOMAIN recIn' PROVE HeardBefore(i + 1) = HeardBefore(i)'
    <3>1. i - 1 \in 0 .. Len(recIn) - 1 /\ (i - 1) + 1 = (i + 1) - 1
      BY <1>3
    <3>2. Elements(recIn, (i + 1) - 1) = {m} \cup Elements(recIn', i - 1)
      BY <1>3, <3>1
    <3> QED
      BY <2>3, <3>2 DEF HeardBefore
  <2>6. HeardBefore(1) = Elements(captured, n)
    <3>1. Elements(recIn, 1 - 1) = {}
      BY DEF Elements
    <3> QED
      BY <1>4, <3>1 DEF HeardBefore
  <2> QED
    BY <2>4, <2>5, <2>6
<1>8. /\ \A x : x.robot \in Robots /\ Truthful(x) => Truthful(x)'
      /\ \A x, S : Justified(x, S) => Justified(x, S)'
  BY <1>6, TruthLasts, JustificationLasts, SameEvidence
<1>9. InboxInv'
  <2>1. SUFFICES ASSUME NEW i \in DOMAIN recIn', recIn'[i] # Control
                 PROVE  Truthful(recIn[i])' /\ Justified(recIn[i], HeardBefore(i))'
    BY DEF InboxInv, Control, Message
  <2>2. PICK x, S : x = recIn'[i] /\ S = HeardBefore(i + 1) /\ S = HeardBefore(i)'
    BY <1>7, <2>1
  <2>3. i + 1 \in DOMAIN recIn /\ x = recIn[i + 1] /\ x # Control
    BY <1>3, <2>1, <2>2
  <2>4. Truthful(x) /\ Justified(x, S) /\ x.robot \in Robots
    BY <2>2, <2>3, RecorderFacts, HeardRobots DEF InboxInv
  <2>5. Truthful(x)' /\ Justified(x, S)'
    BY <1>8, <2>4
  <2> QED
    BY <2>2, <2>5
<1>10. CapturedInv'
  <2>1. SUFFICES ASSUME NEW i \in DOMAIN captured'
                 PROVE  Truthful(captured[i])' /\ Justified(captured[i], Elements(captured, i - 1))'
    BY DEF CapturedInv
  <2>2. PICK x, S : x = captured'[i] /\ S = Elements(captured', i - 1)
    OBVIOUS
  <2>3. i - 1 \in 0 .. n
    BY <1>5, <2>1
  <2>4. S = Elements(captured, i - 1)
    BY <1>5, <2>2, <2>3
  <2>5. CASE i \in DOMAIN captured
    <3>1. x = captured[i]
      BY <1>5, <2>2, <2>5
    <3>2. Truthful(x) /\ Justified(x, S) /\ x.robot \in Robots
      BY <2>4, <2>5, <3>1, RecorderFacts, HeardRobots DEF CapturedInv
    <3> QED
      BY <1>8, <2>2, <3>2
  <2>6. CASE i = n + 1
    <3>1. x = m
      BY <1>5, <2>2, <2>6
    <3>2. i - 1 = n
      BY <1>5, <2>6
    <3>3. S = HeardBefore(1)
      BY <1>7, <2>4, <3>2
    <3>4. Truthful(x) /\ Justified(x, S) /\ x.robot \in Robots
      BY <1>2, <1>3, <3>1, <3>3, RecorderFacts, HeardRobots DEF InboxInv
    <3> QED
      BY <1>8, <2>2, <3>4
  <2> QED
    BY <1>5, <2>1, <2>5, <2>6
<1>11. m.robot \in Robots
  BY <1>3, MessageShape DEF Captures
<1>12. CompletionInv'
  <2>1. \A i \in DOMAIN captured : i \in DOMAIN captured' /\ captured'[i] = captured[i]
    BY <1>5
  <2>2. n + 1 \in DOMAIN captured' /\ captured'[n + 1] = m
    BY <1>5
  <2>3. \A r \in finals' :
            \E i \in DOMAIN captured' : captured'[i].robot = r /\ captured'[i].value = "arrived"
    <3> TAKE r \in finals'
    <3>1. CASE r \in finals
      BY <2>1, <3>1, RecorderFacts DEF CompletionInv
    <3>2. CASE ReportsArrival(m) /\ r = m.robot
      BY <2>2, <3>2 DEF ReportsArrival
    <3> QED
      BY <1>2, <3>1, <3>2
  <2> QED
    BY <1>2, <1>3, <2>3, RecorderFacts DEF CompletionInv, Recording, Control, Message
<1>13. Listening' => Listening
  BY <1>2 DEF Listening
<1>14. finals' \in SUBSET Robots
  BY <1>2, <1>11, RecorderFacts
<1> QED
  BY <1>2, <1>3, <1>5, <1>7, <1>9, <1>10, <1>12, <1>13, <1>14, RecorderFacts, RecorderStep

-----------------------------------------------------------------------------
(* The robots *)

LEMMA SimFacts ==
    ASSUME JobInvariant
    PROVE  /\ TypeOK /\ JobInv /\ SimInv
           /\ job \in Jobs /\ faults \in 0 .. job.faults /\ job.faults \in Nat
           /\ job.outage \in Nat \ {0}
           /\ Target \in Robots /\ Robots = 1 .. NumRobots /\ NumRobots \in Nat \ {0}
           /\ MaxTick \in Nat \ {0} /\ CrossTick \in Nat \ {0}
           /\ cursor \in 1 .. NumRobots + 1 /\ tick \in 0 .. MaxTick
           /\ client \in [Robots -> {"none", "up", "dead"}]
           /\ session \in [Robots -> {1, 2}]
           /\ finalSent \in [Robots -> BOOLEAN]
           /\ link \in [Robots -> Seq(RobotMessages \cup {Disconnect})]
           /\ orderIn \in [Robots -> Seq(Orders)]
<1>1. TypeOK /\ JobInv
  BY DEF JobInvariant
<1>2. job \in Jobs
  BY <1>1 DEF TypeOK
<1> QED
  BY <1>1, <1>2, Numbers DEF TypeOK, JobInv, Sessions

LEMMA ReportReady ==
    ASSUME JobInvariant, Listening, NEW r \in Robots, client[r] = "up", online = Robots,
           HasOrder(r) \/ orderIn[r] # << >>
    PROVE  /\ Ready(r, session[r], HeardOf(r))
           /\ session[r] = 2 <=> Broken(r) \in HeardOf(r)
<1>1. WireInv /\ BreakInv /\ GreetingInv
  BY SimFacts DEF JobInv, RecorderInv
<1>2. Heard \subseteq HeardOf(r)
  BY DEF HeardOf
<1>3. Ready(r, session[r], HeardOf(r))
  BY <1>1, <1>2 DEF Ready, GreetingInv
<1>4. session[r] \in {1, 2}
  BY SimFacts
<1>5. session[r] = 2 <=> Broken(r) \in Heard
  BY <1>1, <1>4 DEF BreakInv
<1>6. Broken(r) \notin Elements(link[r], Len(link[r]))
  <2>1. \A i \in DOMAIN link[r] : link[r][i] # Disconnect => link[r][i].value # "CONNECTION_BROKEN"
    BY SimFacts DEF JobInv, LinkInv
  <2>2. Broken(r) # Disconnect /\ Broken(r).value = "CONNECTION_BROKEN"
    BY DEF Broken, Connection, Disconnect, Message
  <2>3. DOMAIN link[r] = 1 .. Len(link[r])
    BY SimFacts, SequenceShape
  <2> QED
    BY <2>1, <2>2, <2>3 DEF Elements
<1> QED
  BY <1>3, <1>5, <1>6 DEF HeardOf

(* A robot that has its order speaks of it. *)
LEMMA ReportKeeps ==
    ASSUME JobInvariant, NEW r \in Robots, NEW output \in Seq(RobotMessages),
           client[r] = "up", online = Robots, HasOrder(r) \/ orderIn[r] # << >>,
           \A j \in DOMAIN output :
               \/ output[j] = State(r, "moving", session[r])
               \/ output[j] = Visualization(r, session[r])
               \/ /\ output[j] = State(r, "arrived", session[r])
                  /\ finalSent'[r] /\ (session[r] = 2 <=> r = Target),
           link' = [link EXCEPT ![r] = link[r] \o output],
           UNCHANGED <<faultInjected, client, session, fleetLink, retained, faults,
                       fleetVars, recVars>>,
           \A q \in Robots : finalSent[q] => finalSent'[q],
           \A q \in Robots : /\ Started(q)' => Started(q)
                             /\ HasOrder(q)' => HasOrder(q) \/ orderIn[q] # << >>
                             /\ orderIn'[q] # << >> => orderIn[q] # << >>,
           simPc' # "connect"
    PROVE  /\ link' \in [Robots -> Seq(RobotMessages \cup {Disconnect})]
           /\ SimInv' => JobInv'
<1> USE DEF fleetVars, recVars
<1>0. TypeOK /\ JobInv
  BY SimFacts
<1>1. Lasting
  BY DEF Lasting
<1>2. \A j \in DOMAIN output : Speech(r, output[j])
  <2> TAKE j \in DOMAIN output
  <2>1. PICK m : m = output[j]
    OBVIOUS
  <2>2. /\ m \in RobotMessages /\ m.robot = r /\ m.session = session[r]
        /\ m.topic \in {"state", "visualization"}
        /\ m.value \in {"moving", "arrived", "pose"}
        /\ m.value = "arrived" => finalSent'[r] /\ (session[r] = 2 <=> r = Target)
    <3>1. m \in RobotMessages
      BY <2>1, SequenceShape
    <3> QED
      BY <2>1, <3>1 DEF State, Visualization, Message
  <2>3. session[r] = 2 => r = Target
    BY SimFacts DEF SimInv
  <2>4. Truthful(m)'
    BY <2>2, <2>3 DEF Truthful
  <2>5. Listening => Justified(m, HeardOf(r))
    BY <2>2, ReportReady DEF Justified
  <2> QED
    BY <2>1, <2>2, <2>4, <2>5 DEF Speech
<1>3. /\ link' \in [Robots -> Seq(RobotMessages \cup {Disconnect})]
      /\ LinkInv' /\ CapturedInv' /\ InboxInv'
      /\ Listening => WireInv'
      /\ Heard' = Heard
      /\ HeardOf(r)' = HeardOf(r) \cup Elements(output, Len(output))
      /\ \A q \in Robots : q # r => link'[q] = link[q] /\ HeardOf(q)' = HeardOf(q)
  BY <1>0, <1>1, <1>2, SpeakStep
<1>4. /\ \A q \in Robots : HeardOf(q) \subseteq HeardOf(q)'
      /\ \A q \in Robots : client[q] # "up" => link'[q] = link[q]
  BY <1>3
<1>5. DispatchInv' /\ CompletionInv'
  BY <1>0 DEF JobInv, DispatchInv, CompletionInv, RunObserved
<1>6. RetainedInv'
  <2>1. OmitOnline' = OmitOnline
    BY Constants
  <2>2. \A q \in Robots : Elements(link[q], Len(link[q])) \subseteq Elements(link'[q], Len(link'[q]))
    <3>0. output \in Seq(RobotMessages \cup {Disconnect})
      <4>1. output \in [1 .. Len(output) -> RobotMessages] /\ Len(output) \in Nat
        BY LenProperties
      <4>2. output \in [1 .. Len(output) -> RobotMessages \cup {Disconnect}]
        BY <4>1
      <4> QED
        BY <4>1, <4>2, SeqDef
    <3>1. PICK M : M = RobotMessages \cup {Disconnect}
      OBVIOUS
    <3>1a. link[r] \in Seq(M) /\ output \in Seq(M)
      BY <3>0, <3>1, SimFacts
    <3>2. Elements(link[r], Len(link[r])) \subseteq Elements(link[r] \o output, Len(link[r] \o output))
      <4>1. \A s, t \in Seq(M) :
                Elements(s \o t, Len(s \o t)) = Elements(s, Len(s)) \cup Elements(t, Len(t))
        BY Joined
      <4> QED
        BY <3>1a, <4>1
    <3>3. link'[r] = link[r] \o output
      BY SimFacts
    <3> QED
      BY <1>3, <3>2, <3>3
  <2> QED
    BY <1>0, <2>1, <2>2 DEF JobInv, RetainedInv
<1>7. ASSUME Listening PROVE BreakInv' /\ GreetingInv'
  <2>1. BreakInv /\ GreetingInv
    BY <1>0, <1>7 DEF JobInv, RecorderInv
  <2>2. BreakInv'
    BY <1>3, <1>4, <2>1 DEF BreakInv
  <2>3. GreetingInv'
    <3>1. Robots' = Robots /\ OmitOnline' = OmitOnline
      BY Constants DEF Robots
    <3> QED
      BY <1>3, <1>4, <2>1, <3>1 DEF GreetingInv
  <2> QED
    BY <2>2, <2>3
<1>8. Listening' <=> Listening
  BY DEF Listening
<1> QED
  BY <1>3, <1>5, <1>6, <1>7, <1>8 DEF JobInv, RecorderInv

LEMMA ReceiveOrderKeeps == JobInvariant /\ ReceiveOrder => JobInvariant'
<1> SUFFICES ASSUME JobInvariant, ReceiveOrder PROVE JobInvariant'
  OBVIOUS
<1> USE DEF fleetVars, recVars
<1>0. TypeOK /\ JobInv /\ SimInv
  BY SimFacts
<1>1. PICK r : r = cursor
  OBVIOUS
<1>2. /\ simPc = "orders" /\ orderIn[r] # << >> /\ client[r] = "up"
      /\ orderIn' = [orderIn EXCEPT ![r] = Tail(@)]
      /\ link' = [link EXCEPT ![r] = Append(@, State(r, "moving", 1))]
      /\ \/ r = NumRobots /\ simPc' = "tick" /\ cursor' = 1 /\ tick' = 1
         \/ r # NumRobots /\ UNCHANGED <<simPc, tick>> /\ cursor' = r + 1
      /\ UNCHANGED <<client, session, faultInjected, reconnectAt, finalSent, fleetLink,
                     retained, faults, fleetVars, recVars>>
  BY <1>1 DEF ReceiveOrder
<1>3. r \in Robots /\ r \in 1 .. NumRobots /\ ~faultInjected /\ session[r] = 1
  <2>1. r \in Robots /\ ~faultInjected
    BY <1>0, <1>1, <1>2 DEF SimInv
  <2>2. session[r] # 2 /\ session[r] \in {1, 2}
    BY <2>1, SimFacts DEF SimInv
  <2> QED
    BY <2>1, <2>2, SimFacts
<1>4. online = Robots
  BY <1>0, <1>2, <1>3 DEF JobInv, DispatchInv
<1>5. PICK output : output = <<State(r, "moving", 1)>>
  OBVIOUS
<1>6. /\ output \in Seq(RobotMessages) /\ DOMAIN output = {1}
      /\ output[1] = State(r, "moving", session[r])
      /\ link' = [link EXCEPT ![r] = link[r] \o output]
  <2>1. State(r, "moving", 1) \in RobotMessages
    BY <1>3, MessageShape
  <2>2. link[r] \in Seq(RobotMessages \cup {Disconnect})
    BY <1>3, SimFacts
  <2>3. PICK M : M = RobotMessages \cup {Disconnect}
    OBVIOUS
  <2>4. \A s \in Seq(M), x \in M : Append(s, x) = s \o <<x>>
    BY AppendIsConcat
  <2>5. Append(link[r], State(r, "moving", 1)) = link[r] \o output
    BY <1>5, <2>1, <2>2, <2>3, <2>4
  <2>6. output \in Seq(RobotMessages) /\ DOMAIN output = {1} /\ output[1] = State(r, "moving", 1)
    BY <1>5, <2>1
  <2> QED
    BY <1>2, <1>3, <2>5, <2>6
<1>7. orderIn' \in [Robots -> Seq(Orders)]
      /\ \A q \in Robots : orderIn'[q] # << >> => orderIn[q] # << >>
  <2>1. Tail(orderIn[r]) \in Seq(Orders)
    BY <1>2, <1>3, SimFacts, Tailed
  <2> QED
    BY <1>2, <1>3, <2>1, SimFacts
<1>8. cursor' \in 1 .. NumRobots + 1 /\ tick' \in 0 .. MaxTick
      /\ simPc' \in {"orders", "tick"}
  <2>1. 1 \in 1 .. NumRobots + 1 /\ 1 \in 0 .. MaxTick /\ r + 1 \in 1 .. NumRobots + 1
    BY <1>3, SimFacts
  <2> QED
    BY <1>2, <2>1, SimFacts
<1>9. SimInv'
  <2>1. simPc' = "orders" => cursor' \in Robots
    <3>1. r # NumRobots => r + 1 \in Robots
      BY <1>3, SimFacts
    <3> QED
      BY <1>2, <3>1
  <2>2. simPc' = "tick" => tick' = 1 /\ cursor' = 1
    BY <1>2
  <2>3. ~(IF Target < 1 THEN CrossTick <= 1 ELSE CrossTick < 1)
    BY SimFacts
  <2> QED
    BY <1>0, <1>2, <1>3, <1>8, <2>1, <2>2, <2>3 DEF SimInv
<1>10. \A q \in Robots : /\ Started(q)' => Started(q)
                         /\ HasOrder(q)' => HasOrder(q) \/ orderIn[q] # << >>
  <2> TAKE q \in Robots
  <2>1. Started(q)
    BY <1>2 DEF Started
  <2>2. HasOrder(q)' => q < r \/ q = r
    <3>1. q \in 1 .. NumRobots
      BY SimFacts
    <3>2. CASE r = NumRobots
      BY <1>3, <3>1, <3>2
    <3>3. CASE r # NumRobots
      <4>1. simPc' = "orders" /\ cursor' = r + 1
        BY <1>2, <3>3
      <4> QED
        BY <1>3, <3>1, <4>1 DEF HasOrder
    <3> QED
      BY <3>2, <3>3
  <2> QED
    BY <1>1, <1>2, <2>1, <2>2 DEF HasOrder
<1>11. /\ link' \in [Robots -> Seq(RobotMessages \cup {Disconnect})]
       /\ SimInv' => JobInv'
  <2>1. simPc' # "connect" /\ \A q \in Robots : finalSent[q] => finalSent'[q]
    BY <1>2, <1>8
  <2>2. \A j \in DOMAIN output :
            \/ output[j] = State(r, "moving", session[r])
            \/ output[j] = Visualization(r, session[r])
            \/ /\ output[j] = State(r, "arrived", session[r])
               /\ finalSent'[r] /\ (session[r] = 2 <=> r = Target)
    BY <1>6
  <2>3. HasOrder(r) \/ orderIn[r] # << >>
    BY <1>2
  <2>4. \A q \in Robots : /\ Started(q)' => Started(q)
                          /\ HasOrder(q)' => HasOrder(q) \/ orderIn[q] # << >>
                          /\ orderIn'[q] # << >> => orderIn[q] # << >>
    BY <1>7, <1>10
  <2>5. UNCHANGED <<faultInjected, client, session, fleetLink, retained, faults,
                    fleetVars, recVars>>
    BY <1>2
  <2> QED
    BY <1>2, <1>3, <1>4, <1>6, <2>1, <2>2, <2>3, <2>4, <2>5, ReportKeeps
<1>12. TypeOK'
  BY <1>0, <1>2, <1>7, <1>8, <1>11 DEF TypeOK
<1> QED
  BY <1>9, <1>11, <1>12 DEF JobInvariant

LEMMA StepRobotKeeps == JobInvariant /\ StepRobot => JobInvariant'
<1> SUFFICES ASSUME JobInvariant, StepRobot PROVE JobInvariant'
  OBVIOUS
<1> USE DEF fleetVars, recVars
<1>0. TypeOK /\ JobInv /\ SimInv
  BY SimFacts
<1>1. PICK r : r = cursor
  OBVIOUS
<1>2. /\ simPc = "tick" /\ r \in Robots
      /\ ~(r = Target /\ ~faultInjected /\ tick >= CrossTick)
      /\ link' = IF client[r] = "up" THEN [link EXCEPT ![r] = @ \o Published(r)] ELSE link
      /\ finalSent' = [finalSent EXCEPT ![r] = @ \/ (Arrived(r) /\ client[r] = "up")]
      /\ cursor' = r + 1
      /\ UNCHANGED <<simPc, tick, client, session, faultInjected, reconnectAt,
                     fleetLink, retained, orderIn, faults, fleetVars, recVars>>
  BY <1>1 DEF StepRobot, Stepping, Ticking, Crossing, FinalSent, NextRobot
<1>3. r \in 1 .. NumRobots /\ cursor' \in 1 .. NumRobots + 1
  BY <1>2, SimFacts
<1>4. /\ finalSent' \in [Robots -> BOOLEAN]
      /\ \A q \in Robots : finalSent[q] => finalSent'[q]
      /\ Arrived(r) /\ client[r] = "up" => finalSent'[r]
  BY <1>2, SimFacts
<1>5. online = Robots /\ HasOrder(r)
  BY <1>0, <1>2 DEF JobInv, DispatchInv, HasOrder
<1>6. SimInv'
  <2>1. tick \in Nat /\ Target \in Nat /\ r \in Nat /\ CrossTick \in Nat /\ cursor' = r + 1
    BY <1>2, <1>3, SimFacts
  <2>2. (IF Target < r + 1 THEN CrossTick <= tick ELSE CrossTick < tick) =>
            faultInjected \/ (r = Target /\ tick >= CrossTick)
    BY <1>0, <1>1, <1>2, <2>1 DEF SimInv
  <2> QED
    BY <1>0, <1>2, <2>2 DEF SimInv
<1>7. \A q \in Robots : /\ Started(q)' => Started(q)
                        /\ HasOrder(q)' => HasOrder(q) \/ orderIn[q] # << >>
                        /\ orderIn'[q] # << >> => orderIn[q] # << >>
  BY <1>2 DEF Started, HasOrder
<1>8. CASE client[r] = "up"
  <2>1. PICK output : output = Published(r)
    OBVIOUS
  <2>2. Arrived(r) => (session[r] = 2 <=> r = Target)
    <3>1. session[r] = 2 => r = Target
      BY <1>0, <1>2 DEF SimInv
    <3>2. ASSUME Arrived(r), r = Target PROVE session[r] = 2
      <4>1. CrossTick < tick
        <5>1. /\ tick >= ArriveTick[Target] /\ CrossTick < ArriveTick[Target]
              /\ ArriveTick[Target] \in Nat
          BY <3>2, ConstantsAssumption DEF Arrived
        <5> QED
          BY <5>1, SimFacts
      <4>2. faultInjected
        BY <1>2, <3>2, <4>1, SimFacts
      <4> QED
        BY <1>0, <1>8, <3>2, <4>2 DEF SimInv
    <3> QED
      BY <3>1, <3>2
  <2>3. /\ output \in Seq(RobotMessages)
        /\ \A j \in DOMAIN output :
               \/ output[j] = State(r, "moving", session[r])
               \/ output[j] = Visualization(r, session[r])
               \/ Arrived(r) /\ output[j] = State(r, "arrived", session[r])
    <3>1. PICK A, B, C :
              /\ A = (IF tick % StatePeriod = 0 THEN <<State(r, Pose(r), session[r])>> ELSE << >>)
              /\ B = (IF tick % VizPeriod = 0 THEN <<Visualization(r, session[r])>> ELSE << >>)
              /\ C = (IF Arrived(r) /\ ~finalSent[r]
                      THEN <<State(r, "arrived", session[r])>> ELSE << >>)
              /\ output = A \o B \o C
      BY <2>1 DEF Published
    <3>2. PICK x, y, z : /\ x = State(r, Pose(r), session[r]) /\ y = Visualization(r, session[r])
                         /\ z = State(r, "arrived", session[r])
      OBVIOUS
    <3>3. PICK P : P = {m \in RobotMessages :
                            \/ m = State(r, "moving", session[r])
                            \/ m = Visualization(r, session[r])
                            \/ Arrived(r) /\ m = State(r, "arrived", session[r])}
      OBVIOUS
    <3>4. session[r] \in {1, 2}
      BY <1>2, SimFacts
    <3>5. x \in P /\ y \in P /\ (Arrived(r) => z \in P)
      BY <1>2, <3>2, <3>3, <3>4, MessageShape DEF Pose
    <3>6. A \in Seq(P) /\ B \in Seq(P) /\ C \in Seq(P)
      <4>1. << >> \in Seq(P) /\ <<x>> \in Seq(P) /\ <<y>> \in Seq(P)
            /\ (Arrived(r) => <<z>> \in Seq(P))
        BY <3>5
      <4> QED
        BY <3>1, <3>2, <4>1
    <3>7. output \in Seq(P)
      <4>1. A \o B \in Seq(P)
        BY <3>6, ConcatProperties
      <4> QED
        BY <3>1, <3>6, <4>1, ConcatProperties
    <3>8. \A j \in DOMAIN output : output[j] \in P
      BY <3>7, SequenceShape
    <3>9. output \in Seq(RobotMessages)
      <4>1. output \in [1 .. Len(output) -> P] /\ Len(output) \in Nat
        BY <3>7, LenProperties
      <4>2. output \in [1 .. Len(output) -> RobotMessages]
        BY <3>3, <4>1
      <4> QED
        BY <4>1, <4>2, SeqDef
    <3> QED
      BY <3>3, <3>8, <3>9
  <2>4. \A j \in DOMAIN output :
            \/ output[j] = State(r, "moving", session[r])
            \/ output[j] = Visualization(r, session[r])
            \/ /\ output[j] = State(r, "arrived", session[r])
               /\ finalSent'[r] /\ (session[r] = 2 <=> r = Target)
    <3>1. Arrived(r) => finalSent'[r] /\ (session[r] = 2 <=> r = Target)
      BY <1>4, <1>8, <2>2
    <3> TAKE j \in DOMAIN output
    <3> QED
      BY <2>3, <3>1
  <2>5. link' = [link EXCEPT ![r] = link[r] \o output]
    BY <1>2, <1>8, <2>1
  <2>6. simPc' # "connect"
    BY <1>2
  <2>7. /\ link' \in [Robots -> Seq(RobotMessages \cup {Disconnect})]
        /\ SimInv' => JobInv'
    BY <1>2, <1>4, <1>5, <1>7, <1>8, <2>3, <2>4, <2>5, <2>6, ReportKeeps
  <2>8. TypeOK'
    BY <1>0, <1>2, <1>3, <1>4, <2>7 DEF TypeOK
  <2> QED
    BY <1>6, <2>7, <2>8 DEF JobInvariant
<1>9. CASE client[r] # "up"
  <2>1. Severs({}, link) /\ Lasting
    <3>1. link' = link
      BY <1>2, <1>9
    <3>2. link' = [q \in Robots |-> IF q \in {} THEN Cut(q, link[q]) ELSE link[q]]
      BY <3>1, SimFacts
    <3> QED
      BY <1>2, <1>4, <3>2 DEF Severs, Lasting
  <2>2. \A q \in Robots : simPc' = "connect" /\ q >= cursor' => simPc = "connect" /\ q >= cursor
    BY <1>2
  <2>3. HasOrder(r)' => HasOrder(r)
    BY <1>5
  <2>4. \A q \in Robots : HasOrder(q)' => HasOrder(q)
    BY <1>2 DEF HasOrder
  <2>4a. UNCHANGED <<session, fleetLink, retained, orderIn, fleetVars, recVars>>
    BY <1>2
  <2>5. /\ link' \in [Robots -> Seq(RobotMessages \cup {Disconnect})]
        /\ SimInv' => JobInv'
    BY <1>0, <1>7, <2>1, <2>2, <2>4, <2>4a, SeverStep
  <2>6. TypeOK'
    BY <1>0, <1>2, <1>3, <1>4, <2>5 DEF TypeOK
  <2> QED
    BY <1>6, <2>5, <2>6 DEF JobInvariant
<1> QED
  BY <1>8, <1>9

(* A client that is new publishes its ONLINE first. *)
LEMMA GreetingStep ==
    ASSUME JobInvariant, NEW r \in Robots, NEW output, link[r] = << >>,
           session' \in [Robots -> {1, 2}],
           output = <<Online(r, session'[r])>> \/ (output = << >> /\ session'[r] = 2 /\ OmitOnline),
           output # << >> /\ session'[r] = 2 => r = Target /\ ~OmitOnline,
           Listening => (session'[r] = 2 <=> Broken(r) \in Heard),
           client' = [client EXCEPT ![r] = "up"],
           \A q \in Robots : q # r => session'[q] = session[q],
           link' = [link EXCEPT ![r] = output],
           UNCHANGED <<finalSent, fleetLink, retained, orderIn, faults, fleetVars, recVars>>,
           \A q \in Robots : q # r =>
               /\ Started(q)' => Started(q)
               /\ simPc' = "connect" /\ q >= cursor' => simPc = "connect" /\ q >= cursor,
           \A q \in Robots : HasOrder(q)' => HasOrder(q),
           online = Robots \/ session' = session
    PROVE  /\ link' \in [Robots -> Seq(RobotMessages \cup {Disconnect})]
           /\ SimInv' => JobInv'
<1> USE DEF fleetVars, recVars
<1>0. TypeOK /\ JobInv
  BY SimFacts
<1>1. Lasting
  BY DEF Lasting
<1>2. session'[r] \in {1, 2}
  OBVIOUS
<1>3. /\ output \in Seq(RobotMessages) /\ Len(output) \in Nat
      /\ DOMAIN output = 1 .. Len(output)
      /\ \A j \in DOMAIN output : output[j] = Online(r, session'[r]) /\ output # << >>
      /\ (session'[r] = 1 \/ ~OmitOnline) =>
             Online(r, session'[r]) \in Elements(output, Len(output))
  <2>1. Online(r, session'[r]) \in RobotMessages
    BY <1>2, MessageShape DEF Online
  <2>2. CASE output = << >> /\ session'[r] = 2 /\ OmitOnline
    BY <2>2
  <2>3. CASE output = <<Online(r, session'[r])>>
    BY <2>1, <2>3 DEF Elements
  <2> QED
    BY <2>2, <2>3
<1>4. \A j \in DOMAIN output : Speech(r, output[j])
  <2> TAKE j \in DOMAIN output
  <2>1. PICK m : m = output[j]
    OBVIOUS
  <2>2. m \in RobotMessages /\ m.robot = r /\ m.session = session'[r]
        /\ m.value = "ONLINE" /\ m.topic = "connection"
    <3>1. m = Online(r, session'[r]) /\ m \in RobotMessages
      BY <1>2, <1>3, <2>1, MessageShape DEF Online
    <3> QED
      BY <3>1, Evidence
  <2>3. Truthful(m)'
    <3>1. OmitOnline' = OmitOnline
      BY Constants
    <3> QED
      BY <1>3, <2>2, <3>1 DEF Truthful
  <2>4. HeardOf(r) = Heard
    BY DEF HeardOf, Elements
  <2>5. Listening => Justified(m, HeardOf(r))
    BY <2>2, <2>4 DEF Justified
  <2> QED
    BY <2>1, <2>2, <2>3, <2>5 DEF Speech
<1>5. link' = [link EXCEPT ![r] = link[r] \o output]
  <2>1. << >> \o output = output
    BY <1>3, ConcatEmptySeq
  <2> QED
    BY <2>1
<1>6. /\ link' \in [Robots -> Seq(RobotMessages \cup {Disconnect})]
      /\ LinkInv' /\ CapturedInv' /\ InboxInv'
      /\ Listening => WireInv'
      /\ Heard' = Heard
      /\ HeardOf(r)' = HeardOf(r) \cup Elements(output, Len(output))
      /\ \A q \in Robots : q # r => link'[q] = link[q] /\ HeardOf(q)' = HeardOf(q)
  <2>1. \A q \in Robots : q # r => client'[q] = client[q] /\ session'[q] = session[q]
    BY SimFacts
  <2>2. UNCHANGED <<captured, recIn, recPc, recUp>> /\ faults' = faults
    OBVIOUS
  <2> QED
    BY <1>0, <1>1, <1>3, <1>4, <1>5, <2>1, <2>2, SpeakStep
<1>7. /\ client'[r] = "up" /\ link'[r] = output
      /\ \A q \in Robots : q # r => client'[q] = client[q]
  BY SimFacts
<1>8. DispatchInv' /\ CompletionInv'
  <2>1. DispatchInv'
    BY <1>0 DEF JobInv, DispatchInv
  <2> QED
    BY <1>0, <2>1 DEF JobInv, CompletionInv, RunObserved
<1>9. OmitOnline' = OmitOnline
  BY Constants
<1>10. RetainedInv'
  <2>1. SUFFICES ASSUME NEW q \in Robots, client'[q] = "up", session'[q] = 1 \/ ~OmitOnline
                 PROVE  \/ retained[q] = Online(q, session'[q])
                        \/ Online(q, session'[q]) \in Elements(link'[q], Len(link'[q]))
    BY <1>9 DEF RetainedInv, Online, Elements
  <2>2. CASE q = r
    BY <1>3, <1>7, <2>1, <2>2
  <2>3. CASE q # r
    BY <1>0, <1>6, <1>7, <2>1, <2>3 DEF JobInv, RetainedInv
  <2> QED
    BY <2>2, <2>3
<1>11. ASSUME Listening PROVE BreakInv' /\ GreetingInv'
  <2>1. BreakInv /\ GreetingInv
    BY <1>0, <1>11 DEF JobInv, RecorderInv
  <2>2. BreakInv'
    <3>1. SUFFICES ASSUME NEW q \in Robots
                   PROVE  /\ session'[q] = 2 => Broken(q) \in Heard
                          /\ session'[q] = 1 /\ Broken(q) \in Heard =>
                                 /\ client'[q] # "up" /\ link'[q] = << >>
                                 /\ ~(simPc' = "connect" /\ q >= cursor')
                          /\ Started(q)' /\ client'[q] # "up" => Broken(q) \in HeardOf(q)'
      BY <1>6 DEF BreakInv
    <3>2. CASE q = r
      BY <1>7, <1>11, <3>2
    <3>3. CASE q # r
      BY <1>6, <1>7, <2>1, <3>3 DEF BreakInv
    <3> QED
      BY <3>2, <3>3
  <2>3. GreetingInv'
    <3>1. SUFFICES ASSUME NEW q \in Robots, client'[q] = "up", session'[q] = 2, ~OmitOnline
                   PROVE  Online(q, 2) \in HeardOf(q)'
      BY <1>6, <1>9, <2>1 DEF GreetingInv, Robots
    <3>2. CASE q = r
      BY <1>3, <1>6, <3>1, <3>2
    <3>3. CASE q # r
      BY <1>6, <1>7, <2>1, <3>1, <3>3 DEF GreetingInv
    <3> QED
      BY <3>2, <3>3
  <2> QED
    BY <2>2, <2>3
<1>12. Listening' <=> Listening
  BY DEF Listening
<1> QED
  BY <1>6, <1>8, <1>10, <1>11, <1>12 DEF JobInv, RecorderInv

LEMMA ConnectRobotKeeps == JobInvariant /\ ConnectRobot => JobInvariant'
<1> SUFFICES ASSUME JobInvariant, ConnectRobot PROVE JobInvariant'
  OBVIOUS
<1> USE DEF fleetVars, recVars
<1>0. TypeOK /\ JobInv /\ SimInv
  BY SimFacts
<1>1. PICK r : r = cursor
  OBVIOUS
<1>2. /\ simPc = "connect"
      /\ client' = [client EXCEPT ![r] = "up"]
      /\ link' = [link EXCEPT ![r] = <<Connection(r, "ONLINE", 1)>>]
      /\ \/ r = NumRobots /\ simPc' = "orders" /\ cursor' = 1
         \/ r # NumRobots /\ simPc' = simPc /\ cursor' = r + 1
      /\ UNCHANGED <<tick, session, faultInjected, reconnectAt, finalSent, fleetLink,
                     retained, orderIn, faults, fleetVars, recVars>>
  BY <1>1 DEF ConnectRobot
<1>3. r \in Robots /\ r \in 1 .. NumRobots /\ ~faultInjected
      /\ client[r] = "none" /\ link[r] = << >> /\ session[r] = 1
  <2>1. r \in Robots /\ ~faultInjected
    BY <1>0, <1>1, <1>2 DEF SimInv
  <2>2. session[r] # 2 /\ session[r] \in {1, 2}
    BY <2>1, SimFacts DEF SimInv
  <2>3. r >= cursor
    BY <1>1, <2>1, SimFacts
  <2> QED
    BY <1>0, <1>2, <2>1, <2>2, <2>3, SimFacts DEF SimInv
<1>4. \A q \in Robots : /\ q # r => /\ Started(q)' => Started(q)
                                    /\ simPc' = "connect" /\ q >= cursor' =>
                                           simPc = "connect" /\ q >= cursor
                        /\ HasOrder(q)' => HasOrder(q)
  <2> TAKE q \in Robots
  <2>1. q \in 1 .. NumRobots
    BY SimFacts
  <2>2. CASE r = NumRobots /\ simPc' = "orders" /\ cursor' = 1
    BY <1>1, <1>2, <1>3, <2>1, <2>2 DEF Started, HasOrder
  <2>3. CASE r # NumRobots /\ simPc' = simPc /\ cursor' = r + 1
    BY <1>1, <1>2, <1>3, <2>1, <2>3 DEF Started, HasOrder
  <2> QED
    BY <1>2, <2>2, <2>3
<1>5. cursor' \in 1 .. NumRobots + 1 /\ simPc' \in {"connect", "orders"} /\ cursor' \in Robots
  <2>1. r # NumRobots => r + 1 \in Robots
    <3>1. NumRobots \in Nat /\ Robots = 1 .. NumRobots
      BY SimFacts
    <3> QED
      BY <1>3, <3>1
  <2>2. 1 \in Robots
    BY SimFacts
  <2> QED
    BY <1>2, <2>1, <2>2, SimFacts
<1>6. SimInv'
  <2>1. simPc' = "connect" =>
            \A q \in Robots : q >= cursor' => client'[q] = "none" /\ link'[q] = << >>
    <3> SUFFICES ASSUME simPc' = "connect", NEW q \in Robots, q >= cursor'
                 PROVE  client'[q] = "none" /\ link'[q] = << >>
      OBVIOUS
    <3>1. q # r
      BY <1>2, <1>3, SimFacts
    <3>2. q >= cursor
      BY <1>4, <3>1
    <3>3. client[q] = "none" /\ link[q] = << >>
      BY <1>0, <1>2, <3>2 DEF SimInv
    <3> QED
      BY <1>2, <1>3, <3>1, <3>3, SimFacts
  <2> QED
    BY <1>0, <1>2, <1>3, <1>5, <2>1 DEF SimInv
<1>7. Listening => (session'[r] = 2 <=> Broken(r) \in Heard)
  <2>1. ASSUME Listening PROVE Broken(r) \notin Heard
    <3>1. BreakInv
      BY <1>0, <2>1 DEF JobInv, RecorderInv
    <3>2. r >= cursor
      BY <1>1, <1>3
    <3> QED
      BY <1>2, <1>3, <3>1, <3>2 DEF BreakInv
  <2> QED
    BY <1>2, <1>3, <2>1
<1>8. /\ link' \in [Robots -> Seq(RobotMessages \cup {Disconnect})]
      /\ SimInv' => JobInv'
  <2>1. PICK output : output = <<Online(r, session'[r])>>
    OBVIOUS
  <2>2. link' = [link EXCEPT ![r] = output] /\ session' \in [Robots -> {1, 2}]
        /\ session'[r] # 2 /\ session' = session
    BY <1>2, <1>3, <2>1, SimFacts DEF Online
  <2> QED
    BY <1>2, <1>3, <1>4, <1>7, <2>1, <2>2, GreetingStep
<1>9. TypeOK'
  BY <1>0, <1>2, <1>5, <1>8 DEF TypeOK
<1> QED
  BY <1>6, <1>8, <1>9 DEF JobInvariant

LEMMA ReconnectKeeps == JobInvariant /\ Reconnect => JobInvariant'
<1> SUFFICES ASSUME JobInvariant, Reconnect PROVE JobInvariant'
  OBVIOUS
<1> USE DEF fleetVars, recVars
<1>0. TypeOK /\ JobInv /\ SimInv
  BY SimFacts
<1>1. /\ simPc = "tick" /\ cursor \in Robots /\ reconnectAt = tick /\ client[Target] = "none"
      /\ link[Target] = << >>
      /\ session' = [session EXCEPT ![Target] = 2]
      /\ client' = [client EXCEPT ![Target] = "up"]
      /\ link' = [link EXCEPT ![Target] = Greeting]
      /\ UNCHANGED <<simPc, tick, cursor, faultInjected, reconnectAt, finalSent,
                     fleetLink, retained, orderIn, faults, fleetVars, recVars>>
  BY DEF Reconnect, Ticking, ReconnectDue
<1>2. faultInjected /\ online = Robots
  <2>1. reconnectAt # 0
    BY <1>0, <1>1 DEF SimInv
  <2>2. HasOrder(Target)
    BY <1>1 DEF HasOrder
  <2> QED
    BY <1>0, <2>1, <2>2, SimFacts DEF SimInv, JobInv, DispatchInv
<1>3. /\ session' \in [Robots -> {1, 2}] /\ session'[Target] = 2
      /\ \A q \in Robots : q # Target => session'[q] = session[q]
  BY <1>1, SimFacts
<1>4. Listening => Broken(Target) \in Heard
  <2>1. ASSUME Listening PROVE Broken(Target) \in Heard
    <3>1. BreakInv
      BY <1>0, <2>1 DEF JobInv, RecorderInv
    <3>2. Broken(Target) \in HeardOf(Target)
      BY <1>1, <3>1, SimFacts DEF BreakInv, Started
    <3> QED
      BY <1>1, <3>2 DEF HeardOf, Elements
  <2> QED
    BY <2>1
<1>5. \A q \in Robots : /\ Started(q)' <=> Started(q)
                        /\ HasOrder(q)' => HasOrder(q)
                        /\ simPc' = "connect" => simPc = "connect"
                        /\ cursor' = cursor
  BY <1>1 DEF Started, HasOrder
<1>6. /\ link' \in [Robots -> Seq(RobotMessages \cup {Disconnect})]
      /\ SimInv' => JobInv'
  <2>1. PICK output : output = Greeting
    OBVIOUS
  <2>2. \/ output = <<Online(Target, session'[Target])>> /\ ~OmitOnline
        \/ output = << >> /\ session'[Target] = 2 /\ OmitOnline
    BY <1>3, <2>1 DEF Greeting, Online
  <2>3. output # << >> => ~OmitOnline
    BY <2>2
  <2>4. Target \in Robots /\ link' = [link EXCEPT ![Target] = output]
    BY <1>1, <2>1, SimFacts
  <2> QED
    BY <1>1, <1>2, <1>3, <1>4, <1>5, <2>2, <2>3, <2>4, GreetingStep
<1>7. TypeOK'
  BY <1>0, <1>1, <1>3, <1>6 DEF TypeOK, Sessions
<1>8. SimInv'
  BY <1>0, <1>1, <1>2, <1>3 DEF SimInv
<1> QED
  BY <1>6, <1>7, <1>8 DEF JobInvariant

(* The process ends with an error: every session is cut. *)
LEMMA SimFailsKeeps ==
    ASSUME JobInvariant, SimFails, faults' \in 0 .. job.faults, faults' = 0 => faults = 0
    PROVE  JobInvariant'
<1> USE DEF fleetVars, recVars
<1>0. TypeOK /\ JobInv /\ SimInv
  BY SimFacts
<1>1. PICK kept \in Kept : link' = Severed(kept)
  BY DEF SimFails
<1>2. /\ simPc' = "failed" /\ client' = [r \in Robots |-> "none"]
      /\ UNCHANGED <<tick, cursor, session, faultInjected, reconnectAt, finalSent,
                     fleetLink, retained, orderIn, fleetVars, recVars>>
  BY DEF SimFails
<1>3. PICK Lost : Lost = {r \in Robots : client[r] = "up"}
  OBVIOUS
<1>4. \A q \in Robots : kept[q] \in 0 .. Len(link[q])
  <2> TAKE q \in Robots
  <2>1. /\ kept[q] \in UNION {0 .. Len(link[r]) : r \in Robots}
        /\ kept[q] <= Len(link[q])
    BY <1>1 DEF Kept
  <2>2. kept[q] \in Nat
    BY <2>1
  <2>3. Len(link[q]) \in Nat
    BY SimFacts, SequenceShape
  <2> QED
    BY <2>1, <2>2, <2>3
<1>5. Severs(Lost, kept)
  <2>1. link' = [q \in Robots |-> IF q \in Lost THEN Cut(q, kept[q]) ELSE link[q]]
    BY <1>1, <1>3 DEF Severed
  <2> QED
    BY <1>2, <1>3, <1>4, <2>1 DEF Severs, Started
<1>6. Lasting
  BY <1>2 DEF Lasting
<1>7. \A q \in Robots : ~Started(q)' /\ ~HasOrder(q)' /\ simPc' # "connect"
  BY <1>2 DEF Started, HasOrder
<1>8. /\ link' \in [Robots -> Seq(RobotMessages \cup {Disconnect})]
      /\ SimInv' => JobInv'
  BY <1>0, <1>2, <1>5, <1>6, <1>7, SeverStep
<1>9. SimInv'
  BY <1>0, <1>2, SimFacts DEF SimInv
<1>10. TypeOK'
  BY <1>0, <1>2, <1>8 DEF TypeOK
<1> QED
  BY <1>8, <1>9, <1>10 DEF JobInvariant

LEMMA FailureKeeps ==
    /\ JobInvariant /\ ConnectFails => JobInvariant'
    /\ JobInvariant /\ OrderWaitBroken => JobInvariant'
    /\ JobInvariant /\ OrderWaitExpires => JobInvariant'
    /\ JobInvariant /\ ReconnectFails => JobInvariant'
    /\ JobInvariant /\ PublishFails => JobInvariant'
    /\ JobInvariant /\ TickLimit => JobInvariant'
<1>1. ASSUME JobInvariant, SimFails, MayFault, faults' = faults + 1 PROVE JobInvariant'
  <2>1. faults' \in 0 .. job.faults /\ (faults' = 0 => faults = 0)
    BY <1>1, SimFacts DEF MayFault
  <2> QED
    BY <1>1, <2>1, SimFailsKeeps
<1>2. ASSUME JobInvariant, Fails PROVE JobInvariant'
  <2>1. SimFails /\ faults' = faults
    BY <1>2 DEF Fails
  <2> QED
    BY <1>2, <2>1, SimFacts, SimFailsKeeps
<1> QED
  BY <1>1, <1>2 DEF ConnectFails, OrderWaitBroken, OrderWaitExpires, ReconnectFails,
                    PublishFails, TickLimit

(* One client is cut. *)
LEMMA CutIsSevered ==
    ASSUME TypeOK, NEW r \in Robots, NEW k \in 0 .. Len(link[r]), NEW state \in {"none", "dead"},
           client[r] = "up", client' = [client EXCEPT ![r] = state],
           link' = [link EXCEPT ![r] = Cut(r, k)]
    PROVE  Severs({r}, [q \in Robots |-> k])
<1>1. client \in [Robots -> {"none", "up", "dead"}]
      /\ link \in [Robots -> Seq(RobotMessages \cup {Disconnect})]
  BY DEF TypeOK
<1>2. link' = [q \in Robots |-> IF q = r THEN Cut(r, k) ELSE link[q]]
  BY <1>1
<1>3. client'[r] = state /\ \A q \in Robots : q # r => client'[q] = client[q]
  BY <1>1
<1> QED
  BY <1>2, <1>3 DEF Severs

LEMMA NothingIsSevered ==
    ASSUME TypeOK, link' = link,
           client' = client \/ \E r \in Robots : /\ client[r] # "up"
                                                 /\ client' = [client EXCEPT ![r] = "none"]
    PROVE  Severs({}, link)
<1>1. client \in [Robots -> {"none", "up", "dead"}]
      /\ link \in [Robots -> Seq(RobotMessages \cup {Disconnect})]
  BY DEF TypeOK
<1>2. link' = [q \in Robots |-> IF q \in {} THEN Cut(q, link[q]) ELSE link[q]]
  BY <1>1
<1>3. \A q \in Robots : /\ client'[q] = "up" => client[q] = "up"
                        /\ client[q] = "up" => client'[q] = "up"
  BY <1>1
<1> QED
  BY <1>2, <1>3 DEF Severs

LEMMA CrashRobotKeeps == JobInvariant /\ CrashRobot => JobInvariant'
<1> SUFFICES ASSUME JobInvariant, CrashRobot PROVE JobInvariant'
  OBVIOUS
<1> USE DEF fleetVars, recVars
<1>0. TypeOK /\ JobInv /\ SimInv
  BY SimFacts
<1>1. /\ simPc = "tick" /\ cursor = Target
      /\ faultInjected' = TRUE /\ reconnectAt' = tick + job.outage
      /\ client' = [client EXCEPT ![Target] = "none"]
      /\ cursor' = cursor + 1
      /\ UNCHANGED <<simPc, tick, session, finalSent, fleetLink, retained, orderIn,
                     faults, fleetVars, recVars>>
  BY DEF CrashRobot, Stepping, Ticking, Crossing, NextRobot
<1>2. \E Lost, kept : Severs(Lost, kept)
  <2>1. CASE client[Target] = "up"
    <3>1. PICK k \in 0 .. Len(link[Target]) : link' = [link EXCEPT ![Target] = Cut(Target, k)]
      BY <2>1 DEF CrashRobot
    <3>2. Severs({Target}, [q \in Robots |-> k])
      BY <1>0, <1>1, <2>1, <3>1, SimFacts, CutIsSevered
    <3> QED
      BY <3>2
  <2>2. CASE client[Target] # "up"
    <3>1. link' = link
      BY <2>2 DEF CrashRobot
    <3>2. Severs({}, link)
      BY <1>0, <1>1, <2>2, <3>1, SimFacts, NothingIsSevered
    <3> QED
      BY <3>2
  <2> QED
    BY <2>1, <2>2
<1>3. PICK Lost, kept : Severs(Lost, kept)
  BY <1>2
<1>4. Lasting
  BY <1>1 DEF Lasting
<1>5. \A q \in Robots : /\ Started(q)' => Started(q)
                        /\ HasOrder(q)' => HasOrder(q)
                        /\ simPc' # "connect"
  BY <1>1 DEF Started, HasOrder
<1>6. /\ link' \in [Robots -> Seq(RobotMessages \cup {Disconnect})]
      /\ SimInv' => JobInv'
  BY <1>0, <1>1, <1>3, <1>4, <1>5, SeverStep
<1>7. client' \in [Robots -> {"none", "up", "dead"}] /\ client'[Target] = "none"
  BY <1>1, SimFacts
<1>8. cursor' \in 1 .. NumRobots + 1 /\ reconnectAt' \in Nat
  BY <1>1, SimFacts
<1>9. SimInv'
  BY <1>0, <1>1, <1>7 DEF SimInv
<1>10. TypeOK'
  BY <1>0, <1>1, <1>6, <1>7, <1>8 DEF TypeOK
<1> QED
  BY <1>6, <1>9, <1>10 DEF JobInvariant

LEMMA RobotConnectionLostKeeps ==
    ASSUME JobInvariant, NEW r \in Robots, RobotConnectionLost(r)
    PROVE  JobInvariant'
<1> USE DEF fleetVars, recVars
<1>0. TypeOK /\ JobInv /\ SimInv
  BY SimFacts
<1>1. /\ MayFault /\ faults' = faults + 1
      /\ client[r] = "up" /\ client' = [client EXCEPT ![r] = "dead"]
      /\ UNCHANGED <<simPc, tick, cursor, session, faultInjected, reconnectAt,
                     finalSent, fleetLink, retained, orderIn, fleetVars, recVars>>
  BY DEF RobotConnectionLost
<1>2. PICK k \in 0 .. Len(link[r]) : link' = [link EXCEPT ![r] = Cut(r, k)]
  BY DEF RobotConnectionLost
<1>3. Severs({r}, [q \in Robots |-> k])
  BY <1>0, <1>1, <1>2, CutIsSevered
<1>4. faults' \in 0 .. job.faults /\ (faults' = 0 => faults = 0)
  <2>1. faults \in 0 .. job.faults /\ job.faults \in Nat
    BY SimFacts
  <2>2. faults < job.faults /\ faults' = faults + 1
    BY <1>1 DEF MayFault
  <2> QED
    BY <2>1, <2>2
<1>5. Lasting
  BY <1>1, <1>4 DEF Lasting
<1>6. \A q \in Robots : /\ Started(q)' => Started(q)
                        /\ HasOrder(q)' => HasOrder(q)
                        /\ simPc' = "connect" /\ q >= cursor' => simPc = "connect" /\ q >= cursor
  BY <1>1 DEF Started, HasOrder
<1>7. /\ link' \in [Robots -> Seq(RobotMessages \cup {Disconnect})]
      /\ SimInv' => JobInv'
  BY <1>0, <1>1, <1>3, <1>5, <1>6, SeverStep
<1>8. client' \in [Robots -> {"none", "up", "dead"}] /\ client'[r] = "dead"
      /\ \A q \in Robots : q # r => client'[q] = client[q]
  BY <1>1, SimFacts
<1>9. SimInv'
  <2>1. simPc' = "connect" =>
            \A q \in Robots : q >= cursor' => client'[q] = "none" /\ link'[q] = << >>
    <3> SUFFICES ASSUME simPc' = "connect", NEW q \in Robots, q >= cursor'
                 PROVE  client'[q] = "none" /\ link'[q] = << >>
      OBVIOUS
    <3>1. client[q] = "none" /\ link[q] = << >>
      BY <1>0, <1>1 DEF SimInv
    <3>2. q # r
      BY <1>1, <3>1
    <3> QED
      BY <1>2, <1>8, <3>1, <3>2, SimFacts
  <2>2. faultInjected' /\ client'[Target] = "up" => session'[Target] = 2
    BY <1>0, <1>1, <1>8, SimFacts DEF SimInv
  <2> QED
    BY <1>0, <1>1, <2>1, <2>2 DEF SimInv
<1>10. TypeOK'
  BY <1>0, <1>1, <1>4, <1>7, <1>8 DEF TypeOK
<1> QED
  BY <1>7, <1>9, <1>10 DEF JobInvariant

LEMMA EndTickKeeps == JobInvariant /\ EndTick => JobInvariant'
<1> SUFFICES ASSUME JobInvariant, EndTick PROVE JobInvariant'
  OBVIOUS
<1> USE DEF fleetVars, recVars, brokerVars
<1>0. TypeOK /\ JobInv /\ SimInv
  BY SimFacts
<1>1. /\ simPc = "tick" /\ cursor = NumRobots + 1 /\ cursor' = 1
      /\ \/ simPc' = "shutdown" /\ tick' = tick
         \/ simPc' = "tick" /\ tick' = tick + 1 /\ tick < MaxTick
      /\ UNCHANGED <<client, session, faultInjected, reconnectAt, finalSent,
                     brokerVars, fleetVars, recVars>>
  BY DEF EndTick
<1>2. Severs({}, link) /\ Lasting
  BY <1>0, <1>1, NothingIsSevered DEF Lasting
<1>3. \A q \in Robots : /\ Started(q)' => Started(q)
                        /\ HasOrder(q)' => HasOrder(q)
                        /\ simPc' # "connect"
  BY <1>1 DEF Started, HasOrder
<1>4. SimInv' => JobInv'
  BY <1>0, <1>1, <1>2, <1>3, SeverStep
<1>5. cursor' \in 1 .. NumRobots + 1 /\ cursor' \in Robots /\ tick' \in 0 .. MaxTick
  <2>1. 1 \in 1 .. NumRobots + 1 /\ 1 \in Robots
    BY SimFacts
  <2> QED
    BY <1>1, <2>1, SimFacts
<1>6. SimInv'
  <2>1. tick' # 0 \/ simPc' # "tick"
    BY <1>1, SimFacts
  <2>2. ASSUME simPc' = "tick", IF Target < cursor' THEN CrossTick <= tick' ELSE CrossTick < tick'
        PROVE  faultInjected
    <3>1. Target \in 1 .. NumRobots /\ NumRobots \in Nat /\ CrossTick \in Nat /\ tick \in Nat
      BY SimFacts
    <3>2. tick' = tick + 1 /\ cursor' = 1
      BY <1>1, <2>2
    <3>3. CrossTick <= tick /\ Target < cursor
      BY <1>1, <2>2, <3>1, <3>2
    <3> QED
      BY <1>0, <1>1, <3>3 DEF SimInv
  <2> QED
    BY <1>0, <1>1, <1>5, <2>1, <2>2 DEF SimInv
<1>7. TypeOK'
  BY <1>0, <1>1, <1>5 DEF TypeOK
<1> QED
  BY <1>4, <1>6, <1>7 DEF JobInvariant

(* A client says goodbye: DISCONNECT takes nothing back. *)
LEMMA GoodbyeStep ==
    ASSUME JobInvariant, NEW r \in Robots, client[r] = "up",
           link' = [link EXCEPT ![r] = Append(link[r], Disconnect)],
           client' = [client EXCEPT ![r] = "none"],
           UNCHANGED <<session, finalSent, fleetLink, retained, orderIn, faults,
                       fleetVars, recVars>>,
           \A q \in Robots : ~Started(q)' /\ (HasOrder(q)' => HasOrder(q)),
           simPc' # "connect"
    PROVE  /\ link' \in [Robots -> Seq(RobotMessages \cup {Disconnect})]
           /\ SimInv' => JobInv'
<1> USE DEF fleetVars, recVars
<1>0. TypeOK /\ JobInv
  BY SimFacts
<1>1. Lasting
  BY DEF Lasting
<1>2. PICK M : M = RobotMessages \cup {Disconnect}
  OBVIOUS
<1>3. link \in [Robots -> Seq(M)] /\ Disconnect \in M
  BY <1>2, SimFacts
<1>4. /\ client'[r] = "none" /\ \A q \in Robots : q # r => client'[q] = client[q]
      /\ \A q \in Robots : q # r => link'[q] = link[q]
  BY SimFacts
<1>5. PICK n : n = Len(link[r])
  OBVIOUS
<1>6. /\ link'[r] \in Seq(M) /\ DOMAIN link'[r] = 1 .. n + 1 /\ DOMAIN link[r] = 1 .. n
      /\ n \in Nat /\ Len(link'[r]) = n + 1
      /\ \A i \in 1 .. n : link'[r][i] = link[r][i]
      /\ link'[r][n + 1] = Disconnect
      /\ \A k \in 0 .. n : Elements(link'[r], k) = Elements(link[r], k)
      /\ Elements(link'[r], n + 1) = Elements(link[r], n) \cup {Disconnect}
  <2>1. \A t \in Seq(M), x \in M :
            /\ Append(t, x) \in Seq(M) /\ Len(Append(t, x)) = Len(t) + 1
            /\ DOMAIN Append(t, x) = 1 .. Len(t) + 1
            /\ \A i \in 1 .. Len(t) : Append(t, x)[i] = t[i]
            /\ Append(t, x)[Len(t) + 1] = x
            /\ \A k \in 0 .. Len(t) : Elements(Append(t, x), k) = Elements(t, k)
            /\ Elements(Append(t, x), Len(t) + 1) = Elements(t, Len(t)) \cup {x}
    BY Appended
  <2>2. link[r] \in Seq(M) /\ link'[r] = Append(link[r], Disconnect)
    BY <1>3
  <2>3. n \in Nat /\ DOMAIN link[r] = 1 .. n
    BY <1>5, <2>2, SequenceShape
  <2> QED
    BY <1>3, <1>5, <2>1, <2>2, <2>3
<1>7. link' \in [Robots -> Seq(M)]
  BY <1>3, <1>6
<1>8. Heard' = Heard /\ CapturedInv' /\ InboxInv'
  BY <1>0, <1>1, SameRecord, RecordFrame DEF JobInv
<1>9. \A q \in Robots : \A i \in DOMAIN link'[q] : link'[q][i] # Disconnect =>
          /\ i \in DOMAIN link[q] /\ link'[q][i] = link[q][i]
          /\ Elements(link'[q], i - 1) = Elements(link[q], i - 1)
  <2> SUFFICES ASSUME NEW q \in Robots, NEW i \in DOMAIN link'[q], link'[q][i] # Disconnect
               PROVE  /\ i \in DOMAIN link[q] /\ link'[q][i] = link[q][i]
                      /\ Elements(link'[q], i - 1) = Elements(link[q], i - 1)
    OBVIOUS
  <2>1. CASE q # r
    BY <1>4, <2>1
  <2>2. CASE q = r
    <3>1. i \in 1 .. n /\ i - 1 \in 0 .. n
      BY <1>6, <2>2
    <3> QED
      BY <1>6, <2>2, <3>1
  <2> QED
    BY <2>1, <2>2
<1>10. /\ \A m : m.robot \in Robots /\ Truthful(m) => Truthful(m)'
       /\ \A m, S : Justified(m, S) => Justified(m, S)'
  BY <1>1, TruthLasts, JustificationLasts, SameEvidence
<1>11. LinkInv'
  <2>1. SUFFICES ASSUME NEW q \in Robots, NEW i \in DOMAIN link'[q], link'[q][i] # Disconnect
                 PROVE  /\ link'[q][i].robot = q /\ link'[q][i].session = session'[q]
                        /\ Truthful(link[q][i])'
                        /\ link'[q][i].value = "CONNECTION_BROKEN" =>
                               i = Len(link'[q]) /\ client'[q] # "up"
    <3>1. Disconnect' = Disconnect
      BY DEF Disconnect, Message
    <3> QED
      BY <3>1 DEF LinkInv
  <2>2. i \in DOMAIN link[q] /\ link'[q][i] = link[q][i]
    BY <1>9, <2>1
  <2>3. /\ link[q][i].robot = q /\ link[q][i].session = session[q] /\ Truthful(link[q][i])
        /\ link[q][i].value = "CONNECTION_BROKEN" => i = Len(link[q]) /\ client[q] # "up"
    BY <1>0, <2>1, <2>2 DEF JobInv, LinkInv
  <2>4. Truthful(link[q][i])'
    BY <1>10, <2>2, <2>3
  <2> QED
    BY <1>4, <2>2, <2>3, <2>4
<1>12. DispatchInv' /\ CompletionInv'
  BY <1>0 DEF JobInv, DispatchInv, CompletionInv, RunObserved
<1>13. OmitOnline' = OmitOnline
  BY Constants
<1>14. RetainedInv'
  BY <1>0, <1>4, <1>13 DEF JobInv, RetainedInv
<1>15. ASSUME Listening PROVE WireInv' /\ BreakInv' /\ GreetingInv'
  <2>1. WireInv /\ BreakInv /\ GreetingInv
    BY <1>0, <1>15 DEF JobInv, RecorderInv
  <2>2. WireInv'
    <3>1. SUFFICES ASSUME NEW q \in Robots, NEW i \in DOMAIN link'[q], link'[q][i] # Disconnect
                   PROVE  Justified(link[q][i], Heard \cup Elements(link[q], i - 1))'
      BY <1>8 DEF WireInv, Disconnect, Message, Elements
    <3>2. /\ i \in DOMAIN link[q] /\ link'[q][i] = link[q][i]
          /\ Elements(link'[q], i - 1) = Elements(link[q], i - 1)
      BY <1>9, <3>1
    <3> QED
      BY <1>8, <1>10, <2>1, <3>1, <3>2 DEF WireInv
  <2>3. \A q \in Robots : q # r => HeardOf(q)' = HeardOf(q)
    BY <1>4, <1>8 DEF HeardOf
  <2>4. BreakInv'
    <3>1. SUFFICES ASSUME NEW q \in Robots
                   PROVE  /\ session[q] = 2 => Broken(q) \in Heard
                          /\ session[q] = 1 /\ Broken(q) \in Heard =>
                                 /\ client'[q] # "up" /\ link'[q] = << >>
                                 /\ ~(simPc' = "connect" /\ q >= cursor')
                          /\ Started(q)' /\ client'[q] # "up" => Broken(q) \in HeardOf(q)'
      BY <1>8 DEF BreakInv
    <3>2. ~Started(q)' /\ simPc' # "connect"
      OBVIOUS
    <3>3. CASE q = r
      BY <2>1, <3>2, <3>3 DEF BreakInv
    <3>4. CASE q # r
      BY <1>4, <2>1, <3>2, <3>4 DEF BreakInv
    <3> QED
      BY <3>3, <3>4
  <2>5. GreetingInv'
    <3>1. \A q \in Robots : client'[q] = "up" => client[q] = "up" /\ HeardOf(q)' = HeardOf(q)
      BY <1>4, <2>3
    <3> QED
      BY <1>8, <1>13, <2>1, <3>1 DEF GreetingInv, Robots
  <2> QED
    BY <2>2, <2>4, <2>5
<1>16. Listening' <=> Listening
  BY DEF Listening
<1> QED
  BY <1>2, <1>7, <1>8, <1>11, <1>12, <1>14, <1>15, <1>16 DEF JobInv, RecorderInv

LEMMA ShutdownRobotKeeps == JobInvariant /\ ShutdownRobot => JobInvariant'
<1> SUFFICES ASSUME JobInvariant, ShutdownRobot PROVE JobInvariant'
  OBVIOUS
<1> USE DEF fleetVars, recVars
<1>0. TypeOK /\ JobInv /\ SimInv
  BY SimFacts
<1>1. PICK r : r = cursor
  OBVIOUS
<1>2. /\ simPc = "shutdown"
      /\ IF client[r] = "up" THEN link' \in ShutdownLinks ELSE link' = link
      /\ client' = [client EXCEPT ![r] = "none"]
      /\ \/ r = NumRobots /\ simPc' = "done" /\ cursor' = cursor
         \/ r # NumRobots /\ simPc' = simPc /\ cursor' = r + 1
      /\ UNCHANGED <<tick, session, faultInjected, reconnectAt, finalSent, fleetLink,
                     retained, orderIn, faults, fleetVars, recVars>>
  BY <1>1 DEF ShutdownRobot, NextRobot
<1>3. r \in Robots
  BY <1>0, <1>1, <1>2 DEF SimInv
<1>4. /\ \A q \in Robots : ~Started(q)' /\ (HasOrder(q)' => HasOrder(q))
      /\ simPc' # "connect"
  BY <1>2 DEF Started, HasOrder
<1>5. Lasting
  BY <1>2 DEF Lasting
<1>6. /\ link' \in [Robots -> Seq(RobotMessages \cup {Disconnect})]
      /\ SimInv' => JobInv'
  <2>1. ASSUME NEW Lost, NEW kept, Severs(Lost, kept)
        PROVE  /\ link' \in [Robots -> Seq(RobotMessages \cup {Disconnect})]
               /\ SimInv' => JobInv'
    BY <1>0, <1>2, <1>4, <1>5, <2>1, SeverStep
  <2>2. CASE client[r] # "up"
    <3>1. Severs({}, link)
      BY <1>0, <1>2, <1>3, <2>2, NothingIsSevered
    <3> QED
      BY <2>1, <3>1
  <2>3. CASE client[r] = "up" /\ link' = [link EXCEPT ![r] = Append(link[r], Disconnect)]
    BY <1>2, <1>3, <1>4, <2>3, GoodbyeStep
  <2>4. ASSUME client[r] = "up", NEW k \in 0 .. Len(link[r]),
               link' = [link EXCEPT ![r] = Cut(r, k)]
        PROVE  /\ link' \in [Robots -> Seq(RobotMessages \cup {Disconnect})]
               /\ SimInv' => JobInv'
    <3>1. Severs({r}, [q \in Robots |-> k])
      BY <1>0, <1>2, <1>3, <2>4, CutIsSevered
    <3> QED
      BY <2>1, <3>1
  <2>5. client[r] = "up" =>
            \/ link' = [link EXCEPT ![r] = Append(link[r], Disconnect)]
            \/ \E k \in 0 .. Len(link[r]) : link' = [link EXCEPT ![r] = Cut(r, k)]
    BY <1>1, <1>2 DEF ShutdownLinks
  <2> QED
    BY <2>2, <2>3, <2>4, <2>5
<1>7. client' \in [Robots -> {"none", "up", "dead"}]
      /\ \A q \in Robots : client'[q] = "up" => client[q] = "up"
  BY <1>2, SimFacts
<1>8. /\ cursor' \in 1 .. NumRobots + 1 /\ simPc' \in {"shutdown", "done"}
      /\ simPc' = "shutdown" => cursor' \in Robots
  <2>1. NumRobots \in Nat /\ Robots = 1 .. NumRobots /\ cursor \in 1 .. NumRobots + 1
    BY SimFacts
  <2>2. r # NumRobots => r + 1 \in Robots /\ r + 1 \in 1 .. NumRobots + 1
    BY <1>3, <2>1
  <2> QED
    BY <1>2, <2>1, <2>2
<1>9. SimInv'
  BY <1>0, <1>2, <1>7, <1>8, SimFacts DEF SimInv
<1>10. TypeOK'
  BY <1>0, <1>2, <1>6, <1>7, <1>8 DEF TypeOK
<1> QED
  BY <1>6, <1>9, <1>10 DEF JobInvariant

-----------------------------------------------------------------------------
(* The invariant *)

LEMMA StutterKeeps == JobInvariant /\ UNCHANGED vars => JobInvariant'
<1> SUFFICES ASSUME JobInvariant, UNCHANGED vars PROVE JobInvariant'
  OBVIOUS
<1> USE DEF vars, simVars, brokerVars, fleetVars, recVars
<1>0. TypeOK /\ JobInv
  BY SimFacts
<1>1. Severs({}, link) /\ Lasting
  BY <1>0, NothingIsSevered DEF Lasting
<1>2. \A q \in Robots : /\ Started(q)' => Started(q)
                        /\ HasOrder(q)' => HasOrder(q)
  BY DEF Started, HasOrder
<1>3. SimInv' => JobInv'
  BY <1>0, <1>1, <1>2, SeverStep
<1>4. SimInv'
  BY SimFacts DEF SimInv
<1>5. TypeOK'
  BY <1>0 DEF TypeOK
<1> QED
  BY <1>3, <1>4, <1>5 DEF JobInvariant

LEMMA InitInvariant == Init => JobInvariant
<1> SUFFICES ASSUME Init PROVE JobInvariant
  OBVIOUS
<1> USE DEF Init
<1>0. /\ job \in Jobs /\ job.faults \in Nat /\ NumRobots \in Nat \ {0} /\ Robots = 1 .. NumRobots
      /\ Target \in Robots /\ MaxTick \in Nat
  BY Numbers
<1>1. TypeOK
  <2>1. << >> \in Seq(RobotMessages \cup {Disconnect}) /\ << >> \in Seq(Orders \cup {Control})
        /\ << >> \in Seq(Orders) /\ << >> \in Seq(RobotMessages)
        /\ << >> \in Seq(Captures \cup {Control}) /\ << >> \in Seq(Captures)
    BY EmptySeq
  <2>2. 1 \in 1 .. NumRobots + 1 /\ 0 \in 0 .. MaxTick /\ 0 \in 0 .. job.faults
    BY <1>0
  <2> QED
    BY <1>0, <2>1, <2>2 DEF TypeOK, Sessions
<1>2. 1 \in Robots /\ \A r \in Robots : ~(r < 1)
  BY <1>0
<1>3. SimInv
  BY <1>0, <1>2 DEF SimInv
<1>4. \A r \in Robots : DOMAIN link[r] = {} /\ client[r] = "none" /\ session[r] = 1
  OBVIOUS
<1>5. LinkInv /\ RetainedInv
  BY <1>4 DEF LinkInv, RetainedInv
<1>6. DispatchInv /\ CompletionInv
  <2>1. DispatchInv
    BY <1>4 DEF DispatchInv, HasOrder
  <2> QED
    BY <2>1 DEF CompletionInv
<1>7. CapturedInv /\ InboxInv
  BY DEF CapturedInv, InboxInv
<1>8. Heard = {}
  BY DEF Heard, HeardBefore, Elements
<1>9. WireInv /\ BreakInv /\ GreetingInv
  <2>1. WireInv
    BY <1>4 DEF WireInv
  <2>2. BreakInv
    BY <1>2, <1>4, <1>8 DEF BreakInv, Started
  <2>3. GreetingInv
    <3>1. \A r \in Robots : /\ retained[r] = NoMessage /\ orderIn[r] = << >> /\ ~HasOrder(r)
                            /\ client[r] = "none"
      BY DEF HasOrder
    <3>2. /\ NoMessage.value # "ONLINE" /\ \A r : r \notin online
          /\ \A i : i \notin DOMAIN fleetIn
      <4>1. NoMessage.value # "ONLINE"
        BY DEF NoMessage, Message
      <4>2. fleetIn = << >> /\ online = {}
        OBVIOUS
      <4> QED
        BY <4>1, <4>2
    <3> QED
      BY <3>1, <3>2 DEF GreetingInv
  <2> QED
    BY <2>1, <2>2, <2>3
<1> QED
  BY <1>1, <1>3, <1>5, <1>6, <1>7, <1>9 DEF JobInvariant, JobInv, RecorderInv

LEMMA NextInvariant == JobInvariant /\ [Next]_vars => JobInvariant'
<1> SUFFICES ASSUME JobInvariant, [Next]_vars PROVE JobInvariant'
  OBVIOUS
<1>1. CASE SimNext
  BY <1>1, ConnectRobotKeeps, ReceiveOrderKeeps, FailureKeeps, ReconnectKeeps, CrashRobotKeeps,
     StepRobotKeeps, EndTickKeeps, ShutdownRobotKeeps DEF SimNext
<1>2. CASE \E r \in Robots : RouteRobot(r)
  BY <1>2, RouteRobotKeeps
<1>3. CASE RouteFleet
  BY <1>3, RouteFleetKeeps
<1>4. CASE FleetNext
  BY <1>4, FleetConnectKeeps, FleetAwaitsOnlineKeeps, FleetPublishesOrdersKeeps,
     FleetAwaitsArrivalKeeps, FleetCompletesKeeps DEF FleetNext
<1>5. CASE RecorderNext
  BY <1>5, ObserveControlKeeps, CaptureMessageKeeps, RecorderStopsKeep DEF RecorderNext
<1>6. CASE EnvNext
  BY <1>6, FailureKeeps, RobotConnectionLostKeeps, FleetFailsKeeps, RecorderStopsKeep DEF EnvNext
<1>7. CASE Terminated \/ UNCHANGED vars
  BY <1>7, StutterKeeps DEF Terminated
<1> QED
  BY <1>1, <1>2, <1>3, <1>4, <1>5, <1>6, <1>7 DEF Next

LEMMA InvariantHolds == Spec => []JobInvariant
<1>1. Init => JobInvariant
  BY InitInvariant
<1>2. JobInvariant /\ [Next]_vars => JobInvariant'
  BY NextInvariant
<1> QED
  BY <1>1, <1>2, PTL DEF Spec

(* Whatever is lost, late or cut, every link, inbox and capture holds messages  *)
(* of the job, and every counter keeps its range.                             *)
THEOREM TypeCorrect == Spec => []TypeOK
BY InvariantHolds, PTL DEF JobInvariant

-----------------------------------------------------------------------------
(* The capture *)

(* Breaking messages before i are of the first session, or come after one.    *)
LEMMA CapturedFacts ==
    ASSUME JobInvariant
    PROVE  /\ captured \in Seq(Captures) /\ DOMAIN captured = 1 .. Len(captured)
           /\ Len(captured) \in Nat
           /\ \A i \in DOMAIN captured :
                  /\ captured[i] \in RobotMessages \cup Orders /\ captured[i].robot \in Robots
                  /\ Truthful(captured[i])
                  /\ Justified(captured[i], Elements(captured, i - 1))
           /\ \A i \in DOMAIN captured : \A m :
                  m \in Elements(captured, i - 1) <=>
                      \E j \in DOMAIN captured : j < i /\ captured[j] = m
<1>1. TypeOK /\ CapturedInv /\ captured \in Seq(Captures)
  BY DEF JobInvariant, JobInv, TypeOK
<1>2. DOMAIN captured = 1 .. Len(captured) /\ Len(captured) \in Nat
  BY <1>1, SequenceShape
<1>3. \A i \in DOMAIN captured : captured[i] \in RobotMessages \cup Orders
                                 /\ captured[i].robot \in Robots
  BY <1>1, HeardRobots DEF Captures
<1>4. \A i \in DOMAIN captured : \A m :
          m \in Elements(captured, i - 1) <=>
              \E j \in DOMAIN captured : j < i /\ captured[j] = m
  <2> TAKE i \in DOMAIN captured
  <2> TAKE m
  <2>1. \A j : j \in 1 .. i - 1 <=> j \in DOMAIN captured /\ j < i
    BY <1>2
  <2> QED
    BY <2>1 DEF Elements
<1> QED
  BY <1>1, <1>2, <1>3, <1>4 DEF CapturedInv

LEMMA EpochsFollow == JobInvariant => EpochsAreTrue
<1> SUFFICES ASSUME JobInvariant, NEW i \in DOMAIN captured, ~FromFleet(captured[i])
             PROVE  SessionOf(captured, i) = captured[i].session
  BY DEF EpochsAreTrue
<1>1. PICK m : m = captured[i]
  OBVIOUS
<1>2. m \in RobotMessages /\ m.topic # "order"
  BY <1>1, CapturedFacts, MessageShape DEF FromFleet
<1>3. m.session \in {1, 2} /\ (m.session = 2 <=> Broken(m.robot) \in Elements(captured, i - 1))
  BY <1>1, <1>2, CapturedFacts, MessageShape DEF Justified
<1>4. Broken(m.robot) \in Elements(captured, i - 1) <=>
          \E j \in 1 .. i - 1 : BrokenIn(captured, j, m.robot)
  <2>1. ASSUME Broken(m.robot) \in Elements(captured, i - 1)
        PROVE  \E j \in 1 .. i - 1 : BrokenIn(captured, j, m.robot)
    <3>1. PICK j \in 1 .. i - 1 : captured[j] = Broken(m.robot)
      BY <2>1 DEF Elements
    <3> QED
      BY <3>1, Evidence DEF BrokenIn
  <2>2. ASSUME NEW j \in 1 .. i - 1, BrokenIn(captured, j, m.robot)
        PROVE  Broken(m.robot) \in Elements(captured, i - 1)
    <3>1. j \in DOMAIN captured /\ i \in Nat /\ \A k \in DOMAIN captured : k < j => k < i
      BY CapturedFacts
    <3>2. PICK x : x = captured[j]
      OBVIOUS
    <3>3. x.robot = m.robot /\ x.value = "CONNECTION_BROKEN" /\ x \in RobotMessages \cup Orders
      BY <2>2, <3>1, <3>2, CapturedFacts DEF BrokenIn
    <3>4. x.topic = "connection" /\ x.session \in {1, 2}
          /\ x = Connection(m.robot, "CONNECTION_BROKEN", x.session)
      BY <3>3, MessageShape
    <3>5. CASE x.session = 1
      BY <3>2, <3>4, <3>5 DEF Elements, Broken
    <3>6. CASE x.session = 2
      <4>1. Broken(m.robot) \in Elements(captured, j - 1)
        BY <3>1, <3>2, <3>3, <3>4, <3>6, CapturedFacts DEF Justified
      <4> QED
        BY <3>1, <4>1, CapturedFacts
    <3> QED
      BY <3>4, <3>5, <3>6
  <2> QED
    BY <2>1, <2>2
<1> QED
  BY <1>1, <1>3, <1>4 DEF SessionOf

(* The sessions the recorder infers from the broken connections it saw are those *)
(* the messages were published in, whatever was lost, however the outages, the  *)
(* wills and the recorder's inbox interleave (live_capture.rs 312-316).        *)
THEOREM EpochsHold == Spec => []EpochsAreTrue
BY InvariantHolds, EpochsFollow, PTL

LEMMA CausalityFollows == JobInvariant => CaptureIsCausal
<1> SUFFICES ASSUME JobInvariant, faults = 0, NEW r \in Robots, NEW i \in DOMAIN captured,
                    captured[i].robot = r
             PROVE  /\ captured[i].topic = "state" =>
                           \E j \in 1 .. i - 1 : captured[j].topic = "order" /\ captured[j].robot = r
                    /\ captured[i].topic = "order" =>
                           \E j \in 1 .. i - 1 :
                               captured[j].topic = "connection" /\ captured[j].robot = r
  BY DEF CaptureIsCausal, Precedes
<1>1. Justified(captured[i], Elements(captured, i - 1))
  BY CapturedFacts
<1>2. ASSUME captured[i].topic = "state"
      PROVE  \E j \in 1 .. i - 1 : captured[j].topic = "order" /\ captured[j].robot = r
  <2>1. Order(r) \in Elements(captured, i - 1)
    BY <1>1, <1>2 DEF Justified, Ready
  <2>2. PICK j \in 1 .. i - 1 : captured[j] = Order(r)
    BY <2>1 DEF Elements
  <2> QED
    BY <2>2 DEF Order, Message
<1>3. ASSUME captured[i].topic = "order"
      PROVE  \E j \in 1 .. i - 1 : captured[j].topic = "connection" /\ captured[j].robot = r
  <2>1. Online(r, 1) \in Elements(captured, i - 1)
    BY <1>1, <1>3 DEF Justified
  <2>2. PICK j \in 1 .. i - 1 : captured[j] = Online(r, 1)
    BY <2>1 DEF Elements
  <2> QED
    BY <2>2, Evidence
<1> QED
  BY <1>2, <1>3

(* Without faults the capture keeps the order of cause and effect, though five *)
(* clients publish over links of their own (fleet-actor.rs 41-50, robot-sim.rs).         *)
THEOREM CausalityHolds == Spec => []CaptureIsCausal
BY InvariantHolds, CausalityFollows, PTL

LEMMA RetainedFollows == JobInvariant => RetainedIsCurrent
<1> SUFFICES ASSUME JobInvariant, NEW r \in Robots, client[r] = "up", link[r] = << >>, ~OmitOnline
             PROVE  retained[r] = Connection(r, "ONLINE", session[r])
  BY DEF RetainedIsCurrent
<1>1. RetainedInv
  BY DEF JobInvariant, JobInv
<1>2. Elements(link[r], Len(link[r])) = {}
  BY DEF Elements
<1> QED
  BY <1>1, <1>2 DEF RetainedInv, Online

(* No will of an earlier session outlasts the ONLINE of the next one.          *)
THEOREM RetainedHolds == Spec => []RetainedIsCurrent
BY InvariantHolds, RetainedFollows, PTL

LEMMA CompletenessFollows == JobInvariant => SealedCaptureIsComplete
<1> SUFFICES ASSUME JobInvariant, Sealed
             PROVE  /\ AllFinalSent /\ fleetPc = "done"
                    /\ \A r \in Robots :
                        /\ Captured(Connection(r, "ONLINE", 1))
                        /\ faults = 0 => Captured(Order(r))
                        /\ Captured(State(r, "arrived", IF r = Target THEN 2 ELSE 1))
                    /\ Captured(Connection(Target, "CONNECTION_BROKEN", 1))
                    /\ Captured(Connection(Target, "ONLINE", 2)) <=> ~OmitOnline
  BY DEF SealedCaptureIsComplete
<1>1. completion /\ finals = Robots /\ CompletionInv
  BY DEF JobInvariant, JobInv, CompletionInv, RunObserved, Sealed
<1>2. fleetPc = "done"
  BY <1>1 DEF CompletionInv
<1>3. ASSUME NEW r \in Robots
      PROVE  /\ finalSent[r]
             /\ \A q \in Robots : Captured(Connection(q, "ONLINE", 1))
             /\ faults = 0 => Captured(Order(r))
             /\ Captured(State(r, "arrived", IF r = Target THEN 2 ELSE 1))
             /\ r = Target => /\ Captured(Connection(Target, "CONNECTION_BROKEN", 1))
                              /\ ~OmitOnline => Captured(Connection(Target, "ONLINE", 2))
  <2>1. PICK i \in DOMAIN captured : captured[i].robot = r /\ captured[i].value = "arrived"
    BY <1>1 DEF CompletionInv
  <2>2. PICK m, S : m = captured[i] /\ S = Elements(captured, i - 1)
    OBVIOUS
  <2>3. m \in RobotMessages \cup Orders /\ Truthful(m) /\ Justified(m, S)
    BY <2>2, CapturedFacts
  <2>4. m.topic = "state" /\ m.session \in {1, 2} /\ m = State(r, "arrived", m.session)
    BY <2>1, <2>2, <2>3, MessageShape
  <2>5. finalSent[r] /\ (m.session = 2 <=> r = Target)
    BY <2>1, <2>2, <2>3 DEF Truthful
  <2>6. Ready(r, m.session, S) /\ (m.session = 2 => Broken(r) \in S)
    BY <2>1, <2>2, <2>3, <2>4 DEF Justified
  <2>7. \A x \in S : Captured(x)
    BY <2>2, CapturedFacts DEF Captured
  <2>8. Captured(m)
    BY <2>2 DEF Captured
  <2>9. m.session = IF r = Target THEN 2 ELSE 1
    BY <2>4, <2>5
  <2> QED
    BY <2>4, <2>5, <2>6, <2>7, <2>8, <2>9 DEF Ready, Online, Broken
<1>4. Captured(Connection(Target, "ONLINE", 2)) => ~OmitOnline
  <2> SUFFICES ASSUME NEW i \in DOMAIN captured, captured[i] = Online(Target, 2)
               PROVE  ~OmitOnline
    BY DEF Captured, Online
  <2> QED
    BY CapturedFacts, Evidence DEF Truthful
<1> QED
  BY <1>2, <1>3, <1>4, SimFacts DEF AllFinalSent

(* The recorder seals no capture of a job that did not get to its end, and what *)
(* it seals holds the exchange the Doctor judges, whatever the environment lost. *)
THEOREM CompleteHolds == Spec => []SealedCaptureIsComplete
BY InvariantHolds, CompletenessFollows, PTL

(* The break that ends a first session is captured once, between the messages of *)
(* the two sessions.                                                          *)
LEMMA BreakIsBetween ==
    ASSUME JobInvariant, NEW i \in DOMAIN captured, NEW r \in Robots, captured[i] = Broken(r)
    PROVE  \A j \in DOMAIN captured :
               ~FromFleet(captured[j]) /\ captured[j].robot = r =>
                   (captured[j].session = 2 <=> i < j)
<1> SUFFICES ASSUME NEW j \in DOMAIN captured, ~FromFleet(captured[j]), captured[j].robot = r
             PROVE  captured[j].session = 2 <=> i < j
  OBVIOUS
<1>1. captured[j].session = 2 <=> Broken(r) \in Elements(captured, j - 1)
  BY CapturedFacts DEF Justified, FromFleet
<1>2. i < j => Broken(r) \in Elements(captured, j - 1)
  BY CapturedFacts
<1>3. ASSUME Broken(r) \in Elements(captured, j - 1) PROVE i < j
  <2>1. PICK k \in DOMAIN captured : k < j /\ captured[k] = Broken(r)
    BY <1>3, CapturedFacts
  <2>2. ~(k < i)
    <3>1. Broken(r) \notin Elements(captured, i - 1)
      BY CapturedFacts, Evidence DEF Justified
    <3> QED
      BY <2>1, <3>1, CapturedFacts
  <2>3. i \in Nat /\ j \in Nat /\ k \in Nat
    BY CapturedFacts
  <2> QED
    BY <2>1, <2>2, <2>3
<1> QED
  BY <1>1, <1>2, <1>3

LEMMA DiagnosisFollows == JobInvariant => DiagnosisIsTrue
<1> SUFFICES ASSUME JobInvariant, Sealed PROVE FaultIsDiagnosed /\ NoFalseBlame
  BY DEF DiagnosisIsTrue
<1>1. Target \in Robots
  BY SimFacts
<1>2. /\ Captured(Broken(Target)) /\ Captured(State(Target, "arrived", 2))
      /\ Captured(Online(Target, 2)) <=> ~OmitOnline
  BY <1>1, CompletenessFollows DEF SealedCaptureIsComplete, Broken, Online
<1>3. PICK i \in DOMAIN captured : captured[i] = Broken(Target)
  BY <1>2 DEF Captured
<1>4. \A j \in DOMAIN captured : ~FromFleet(captured[j]) /\ captured[j].robot = Target =>
                                     (captured[j].session = 2 <=> i < j)
  BY <1>1, <1>3, BreakIsBetween
<1>5. \A j \in DOMAIN captured : ~FromFleet(captured[j]) =>
                                     SessionOf(captured, j) = captured[j].session
  BY EpochsFollow DEF EpochsAreTrue
<1>6. \A j \in DOMAIN captured :
          captured[j].topic = "connection" => ~FromFleet(captured[j])
  BY DEF FromFleet
<1>7. PICK a \in DOMAIN captured : captured[a] = State(Target, "arrived", 2)
  BY <1>2 DEF Captured
<1>8. /\ ~FromFleet(captured[a]) /\ captured[a].robot = Target /\ captured[a].session = 2
      /\ i < a
  <2>1. ~FromFleet(captured[a]) /\ captured[a].robot = Target /\ captured[a].session = 2
    BY <1>7 DEF FromFleet, State, Message
  <2> QED
    BY <1>4, <2>1
<1>9. FaultIsDiagnosed
  <2> SUFFICES ASSUME OmitOnline
               PROVE  /\ \E f \in EvidenceFindings : f.verdict = "FAIL" /\ f.target = "MOBILE_ROBOT"
                      /\ \E f \in PassiveFindings :
                             f.verdict = "INCONCLUSIVE" /\ f.target = "UNRESOLVED"
    BY DEF FaultIsDiagnosed
  <2>1. captured[i].topic = "connection" /\ captured[i].value = "CONNECTION_BROKEN"
        /\ captured[i].robot = Target /\ captured[i].session = 1
    BY <1>3, Evidence
  <2>2. ASSUME NEW k \in DOMAIN captured, k > i, captured[k].topic = "connection",
               captured[k].value = "ONLINE"
        PROVE  captured[k].robot # Target
    <3> SUFFICES ASSUME captured[k].robot = Target PROVE FALSE
      OBVIOUS
    <3>1. captured[k].session = 2
      BY <1>4, <1>6, <2>2, CapturedFacts
    <3> QED
      BY <2>2, <3>1, CapturedFacts DEF Truthful
  <2>3. SessionOf(captured, i) = 1 /\ SessionOf(captured, a) = 2 /\ a > i
    BY <1>5, <1>6, <1>8, <2>1, CapturedFacts
  <2>4. StaysSilent(captured, i)
    BY <1>8, <2>1, <2>2, <2>3 DEF StaysSilent
  <2> QED
    BY <2>1, <2>4, ReconnectVerdict, PassiveVerdict
       DEF EvidenceFindings, PassiveFindings, EvidenceTrace, PassiveTrace
<1>10. NoFalseBlame
  <2>1. \A f \in PassiveFindings : f.verdict # "FAIL"
    BY PassiveVerdict DEF PassiveFindings, PassiveTrace
  <2>2. ASSUME NEW f \in EvidenceFindings, f.verdict = "FAIL"
        PROVE  OmitOnline /\ captured[f.event].robot = Target
    <3>1. PICK b \in DOMAIN captured : b = f.event /\ StaysSilent(captured, b)
      BY <2>2, ReconnectVerdict DEF EvidenceFindings, EvidenceTrace, StaysSilent
    <3>2. PICK j \in DOMAIN captured :
              /\ j > b /\ ~FromFleet(captured[j]) /\ captured[j].robot = captured[b].robot
              /\ SessionOf(captured, j) # SessionOf(captured, b)
      BY <3>1 DEF StaysSilent
    <3>3. ~FromFleet(captured[b]) /\ captured[j].session # captured[b].session
          /\ captured[j].session \in {1, 2} /\ captured[b].session \in {1, 2}
      <4>1. ~FromFleet(captured[b])
        BY <1>6, <3>1 DEF StaysSilent
      <4>2. captured[j] \in RobotMessages /\ captured[b] \in RobotMessages
        BY <3>2, <4>1, CapturedFacts, MessageShape DEF FromFleet
      <4> QED
        BY <1>5, <3>2, <4>1, <4>2, MessageShape
    <3>4. captured[b].robot = Target
      BY <3>2, <3>3, CapturedFacts DEF Truthful
    <3>5. ASSUME ~OmitOnline PROVE FALSE
      <4>1. PICK k \in DOMAIN captured : captured[k] = Online(Target, 2)
        BY <1>2, <3>5 DEF Captured
      <4>2. captured[k].topic = "connection" /\ captured[k].value = "ONLINE"
            /\ captured[k].robot = Target /\ captured[k].session = 2
        BY <4>1, Evidence
      <4>3. i < k
        BY <1>4, <1>6, <4>2
      <4>4. ~(i < b)
        <5>1. i < b => i < j
          BY <3>2, CapturedFacts
        <5> QED
          BY <1>4, <3>2, <3>3, <3>4, <5>1
      <4>5. k > b
        BY <4>3, <4>4, CapturedFacts
      <4> QED
        BY <3>1, <3>4, <4>2, <4>5 DEF StaysSilent
    <3> QED
      BY <3>1, <3>4, <3>5
  <2> QED
    BY <2>1, <2>2 DEF NoFalseBlame
<1> QED
  BY <1>9, <1>10

(* The two diagnoses of every sealed capture are those the run script asserts,  *)
(* and blame no robot but the target, and that only for the omitted ONLINE      *)
(* (run-live-demo.sh 43-53, PROTOCOL_SOURCES.md 108-113).                      *)
THEOREM DiagnosisHolds == Spec => []DiagnosisIsTrue
BY InvariantHolds, DiagnosisFollows, PTL
=============================================================================
