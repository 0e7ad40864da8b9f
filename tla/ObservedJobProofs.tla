-------------------------- MODULE ObservedJobProofs --------------------------
(***************************************************************************)
(* Proofs about ObservedJob for every job, update id, content and number of  *)
(* messages: what the Doctor's verdicts about a fleet control and a robot    *)
(* are worth.                                                                *)
(***************************************************************************)
EXTENDS ObservedJob, DoctorProofs

-----------------------------------------------------------------------------
(* Messages and the robot: the types of the variables *)

Requests ==
    {OrderEvent(u, content) : u \in Updates, content \in Contents}
    \cup {CancelEvent(a) : a \in Actions}

States ==
    [topic : {"state"}, role : {<<"MOBILE_ROBOT">>}, participant : {<<"robot">>},
     epoch : {<<1>>}, timed : {TRUE},
     order : {<<"none">>, <<Order>>}, update : Updates \cup {Unknown}, request : BOOLEAN,
     warning : BOOLEAN, finished : SUBSET Actions]

Messages == Requests \cup States

Robots ==
    [order : {<<"none">>, <<Order>>}, update : Updates \cup {Unknown},
     content : {Unknown} \cup {<<content>> : content \in Contents},
     warning : BOOLEAN, request : BOOLEAN,
     cancels : SUBSET Actions, finished : SUBSET Actions]

TypeInv ==
    /\ author \in {"fleet", "robot"} /\ closed \in BOOLEAN /\ owing \in BOOLEAN
    /\ trace \in Seq(Messages) /\ inbox \in Seq(Requests)
    /\ robot \in Robots /\ ignored \in SUBSET Actions

LEMMA Kinds ==
    ASSUME NEW m \in Messages
    PROVE  \/ \E u \in Updates, content \in Contents : m = OrderEvent(u, content)
           \/ \E a \in Actions : m = CancelEvent(a)
           \/ m \in States
BY DEF Messages, Requests

(* What the Doctor reads of a message. *)
LEMMA CancelReading ==
    ASSUME NEW a, NEW m, m = CancelEvent(a)
    PROVE  /\ m.topic = "instantActions" /\ m.timed = TRUE
           /\ m.cancel = <<a>> /\ m.cancel[1] = a
BY DEF CancelEvent

LEMMA OrderFields ==
    ASSUME NEW m \in Messages, m.topic = "order"
    PROVE  /\ m = OrderEvent(m.update, m.content)
           /\ m.role = <<"FLEET_CONTROL">> /\ m.participant = <<author>> /\ m.timed = TRUE
           /\ m.order = <<Order>> /\ m.update \in Updates
           /\ m.content \in Contents /\ m.broken = m.content.broken
<1>1. m \notin States /\ ~\E a \in Actions : m = CancelEvent(a)
  BY CancelReading DEF States
<1>2. PICK u \in Updates, content \in Contents : m = OrderEvent(u, content)
  BY <1>1, Kinds
<1> QED
  BY <1>2 DEF OrderEvent

LEMMA CancelFields ==
    ASSUME NEW m \in Messages, m.topic = "instantActions"
    PROVE  /\ m.cancel[1] \in Actions /\ m = CancelEvent(m.cancel[1])
           /\ m.cancel = <<m.cancel[1]>> /\ m.timed = TRUE
<1>1. m \notin States
  BY DEF States
<1>3. ASSUME NEW u, NEW content, m = OrderEvent(u, content) PROVE FALSE
  BY <1>3 DEF OrderEvent
<1>2. PICK a \in Actions : m = CancelEvent(a)
  BY <1>1, <1>3, Kinds
<1> QED
  BY <1>2, CancelReading

LEMMA StateFields ==
    ASSUME NEW m \in Messages, m.topic = "state"
    PROVE  m \in States
BY Kinds DEF OrderEvent, CancelEvent

LEMMA Topics ==
    ASSUME NEW m \in Messages
    PROVE  /\ m.topic \in {"order", "instantActions", "state"}
           /\ m \in Requests => m.topic \in {"order", "instantActions"}
<1>1. m \in States => m.topic = "state"
  BY DEF States
<1>2. ASSUME m \in Requests PROVE m.topic \in {"order", "instantActions"}
  <2>1. \/ \E u \in Updates, content \in Contents : m = OrderEvent(u, content)
        \/ \E a \in Actions : m = CancelEvent(a)
    BY <1>2 DEF Requests
  <2> QED
    BY <2>1 DEF OrderEvent, CancelEvent
<1> QED
  BY <1>1, <1>2 DEF Messages

LEMMA RobotStates == ASSUME robot \in Robots PROVE StateEvent \in States
BY DEF Robots, States, StateEvent

LEMMA Appended ==
    ASSUME NEW S, NEW s \in Seq(S), NEW e \in S, NEW t, t = Append(s, e)
    PROVE  /\ t \in Seq(S) /\ Len(t) = Len(s) + 1
           /\ Len(s) \in Nat /\ DOMAIN s = 1 .. Len(s) /\ DOMAIN t = 1 .. Len(s) + 1
           /\ \A i \in DOMAIN s : i \in DOMAIN t /\ t[i] = s[i]
           /\ t[Len(s) + 1] = e
OBVIOUS

LEMMA Removed ==
    ASSUME NEW S, NEW s \in Seq(S), s # << >>, NEW t, t = Tail(s)
    PROVE  /\ t \in Seq(S) /\ Len(t) = Len(s) - 1 /\ Head(s) \in S /\ Head(s) = s[1]
           /\ DOMAIN s = 1 .. Len(s) /\ Len(s) \in Nat \ {0}
           /\ DOMAIN t = 1 .. Len(s) - 1
           /\ \A i \in DOMAIN t : i + 1 \in DOMAIN s /\ t[i] = s[i + 1]
OBVIOUS

-----------------------------------------------------------------------------
(* What each step does to the messages and to the robot *)

LEMMA TypeStep ==
    ASSUME TypeInv, [Next]_vars
    PROVE  TypeInv'
<1> USE DEF TypeInv
<1>0. author' = author
  BY DEF Next, vars, SendOrder, SendCancel, Send, ReceiveOrder, ReceiveCancel, IgnoreCancel,
         EndCancel, NeedBase, PublishState, CloseCapture
<1>1. Requests' = Requests /\ Messages' = Messages
  BY <1>0 DEF Requests, Messages, States, OrderEvent, CancelEvent
<1>2. ASSUME NEW m \in Requests, Send(m) PROVE TypeInv'
  <2>1. trace' \in Seq(Messages) /\ inbox' \in Seq(Requests)
    BY <1>2 DEF Send, Capture, Messages
  <2> QED
    BY <1>0, <1>1, <1>2, <2>1 DEF Send
<1>3. CASE SendOrder
  <2>1. PICK u \in Updates, content \in Contents : Send(OrderEvent(u, content))
    BY <1>3 DEF SendOrder
  <2> QED
    BY <1>2, <2>1 DEF Requests
<1>4. CASE SendCancel
  BY <1>2, <1>4 DEF SendCancel, Requests
<1>5. ASSUME inbox # << >> PROVE inbox' = Tail(inbox) => inbox' \in Seq(Requests)
                                 /\ Head(inbox) \in Messages
  BY <1>5 DEF Messages
<1>6. CASE ReceiveOrder
  <2>1. Head(inbox) \in Messages /\ inbox' \in Seq(Requests)
    BY <1>5, <1>6 DEF ReceiveOrder
  <2>2. robot' \in Robots
    <3> DEFINE m == Head(inbox)
    <3>1. /\ m.order = <<Order>> /\ m.update \in Updates /\ m.content \in Contents
      BY <1>6, <2>1, OrderFields DEF ReceiveOrder
    <3>2. CASE Holds(m)
      <4>1. robot' = [robot EXCEPT !.warning =
                        @ \/ robot.content[1].control # m.content.control]
        BY <1>6, <3>2 DEF ReceiveOrder
      <4> QED
        BY <4>1 DEF Robots
    <3>3. CASE ~Holds(m) /\ m.update = Unknown
      BY <1>6, <3>3 DEF ReceiveOrder
    <3>4. CASE ~Holds(m) /\ m.update # Unknown
      <4>1. robot' = [robot EXCEPT !.order = m.order, !.update = m.update,
                                   !.content = <<m.content>>, !.warning = FALSE,
                                   !.request = FALSE]
        BY <1>6, <3>4 DEF ReceiveOrder
      <4> HIDE DEF m
      <4> QED
        BY <3>1, <4>1 DEF Robots
    <3> QED
      BY <3>2, <3>3, <3>4
  <2> QED
    BY <1>0, <1>1, <1>6, <2>1, <2>2 DEF ReceiveOrder
<1>7. CASE ReceiveCancel \/ IgnoreCancel
  <2>1. Head(inbox) \in Messages /\ inbox' \in Seq(Requests)
    BY <1>5, <1>7 DEF ReceiveCancel, IgnoreCancel
  <2>2. Head(inbox).cancel[1] \in Actions
    BY <1>7, <2>1, CancelFields DEF ReceiveCancel, IgnoreCancel
  <2>3. robot' \in Robots
    <3>1. CASE robot' = [robot EXCEPT !.cancels = @ \cup {Head(inbox).cancel[1]}]
      BY <2>2, <3>1 DEF Robots
    <3> QED
      BY <1>7, <3>1 DEF ReceiveCancel, IgnoreCancel
  <2>4. ignored' \in SUBSET Actions
    BY <1>7, <2>2 DEF ReceiveCancel, IgnoreCancel
  <2> QED
    BY <1>0, <1>1, <1>7, <2>1, <2>3, <2>4 DEF ReceiveCancel, IgnoreCancel
<1>8. CASE EndCancel \/ NeedBase
  <2>1. robot' \in Robots
    <3>1. CASE NeedBase
      BY <1>1, <3>1 DEF NeedBase, TypeInv, Robots
    <3>2. CASE EndCancel
      <4>1. PICK a \in robot.cancels :
                robot' = [robot EXCEPT !.cancels = @ \ {a}, !.finished = @ \cup {a}]
        BY <3>2 DEF EndCancel
      <4>2. robot \in Robots /\ a \in Actions
        BY <1>1, <4>1 DEF TypeInv, Robots
      <4> QED
        BY <4>1, <4>2 DEF Robots
    <3> QED
      BY <1>8, <3>1, <3>2
  <2> QED
    BY <1>0, <1>1, <1>8, <2>1 DEF EndCancel, NeedBase
<1>9. CASE PublishState
  <2>1. trace' \in Seq(Messages)
    BY <1>9, RobotStates DEF PublishState, Capture, Messages
  <2> QED
    BY <1>0, <1>1, <1>9, <2>1 DEF PublishState
<1>10. CASE CloseCapture
  BY <1>0, <1>1, <1>10 DEF CloseCapture
<1>11. CASE UNCHANGED vars
  BY <1>1, <1>11 DEF vars
<1> QED
  BY <1>3, <1>4, <1>6, <1>7, <1>8, <1>9, <1>10, <1>11 DEF Next

(* What a recorder captures of a fleet control and a robot are order, state and *)
(* instantActions messages.                                                    *)
THEOREM TypeOK == Spec => []TypeInv
<1>1. Init => TypeInv
  <2> SUFFICES ASSUME Init PROVE TypeInv
    OBVIOUS
  <2>1. robot \in Robots
    BY DEF Init, Robots
  <2>2. trace \in Seq(Messages) /\ inbox \in Seq(Requests)
    BY DEF Init
  <2>3. author \in {"fleet", "robot"} /\ closed = FALSE /\ owing = FALSE /\ ignored = {}
    BY DEF Init
  <2> QED
    BY <2>1, <2>2, <2>3 DEF TypeInv
<1> QED
  BY <1>1, TypeStep, PTL DEF Spec

-----------------------------------------------------------------------------
(* The Doctor's context of the trace *)

LEMMA Retimed ==
    ASSUME NEW m \in Messages, NEW t, NEW n, n = [m EXCEPT !.timed = t]
    PROVE  SameReading(m, n) /\ n.timed = t
<1>1. ASSUME NEW u, NEW content, m = OrderEvent(u, content)
      PROVE  SameReading(m, n) /\ n.timed = t
  <2>1. /\ DOMAIN m = {"topic", "role", "participant", "epoch", "timed",
                       "order", "update", "content", "broken"}
        /\ m.topic = "order"
    BY <1>1 DEF OrderEvent
  <2> QED
    BY <2>1 DEF SameReading
<1>2. ASSUME NEW a, m = CancelEvent(a)
      PROVE  SameReading(m, n) /\ n.timed = t
  <2>1. /\ DOMAIN m = {"topic", "role", "participant", "epoch", "timed", "cancel"}
        /\ m.topic = "instantActions"
    BY <1>2 DEF CancelEvent
  <2> QED
    BY <2>1 DEF SameReading
<1>3. ASSUME m \in States
      PROVE  SameReading(m, n) /\ n.timed = t
  <2>1. /\ DOMAIN m = {"topic", "role", "participant", "epoch", "timed",
                       "order", "update", "request", "warning", "finished"}
        /\ m.topic = "state"
    BY <1>3 DEF States
  <2> QED
    BY <2>1 DEF SameReading
<1> QED
  BY <1>1, <1>2, <1>3, Kinds

(* A context of well-formed messages reads like them, their times aside. *)
LEMMA ContextReading ==
    ASSUME NEW events \in Seq(Messages), NEW isClosed, NEW e,
           NEW c, c = ContextOf(events, isClosed, e)
    PROVE  /\ Numbered(c, Len(events)) /\ DOMAIN c.events = DOMAIN events
           /\ DOMAIN events = 1 .. Len(events) /\ Len(events) \in Nat
           /\ c.closed = isClosed /\ c.confirmed = e.confirmed /\ c.roles = e.roles
           /\ \A i \in DOMAIN events : SameReading(events[i], c.events[i])
                                       /\ c.events[i].timed = e.timed
<1>1. /\ DOMAIN c.events = DOMAIN events /\ DOMAIN events = 1 .. Len(events) /\ Len(events) \in Nat
      /\ c.closed = isClosed /\ c.confirmed = e.confirmed /\ c.roles = e.roles
      /\ \A i \in DOMAIN events : c.events[i] = [events[i] EXCEPT !.timed = e.timed]
  BY DEF ContextOf
<1>2. ASSUME NEW i \in DOMAIN events
      PROVE  SameReading(events[i], c.events[i]) /\ c.events[i].timed = e.timed
  <2> DEFINE m == events[i]
             n == c.events[i]
  <2>1. m \in Messages /\ n = [m EXCEPT !.timed = e.timed]
    BY <1>1
  <2> HIDE DEF m, n
  <2>2. SameReading(m, n) /\ n.timed = e.timed
    BY <2>1, Retimed
  <2> QED
    BY <2>2 DEF m, n
<1> QED
  BY <1>1, <1>2 DEF Numbered

LEMMA Readings ==
    ASSUME NEW a, NEW b, NEW m, SameReading(m, a), SameReading(m, b)
    PROVE  SameReading(a, b)
BY DEF SameReading

(* A context of more messages continues one of fewer. *)
LEMMA ContextContinues ==
    ASSUME NEW s \in Seq(Messages), NEW t \in Seq(Messages), Len(s) <= Len(t),
           \A i \in DOMAIN s : t[i] = s[i],
           NEW x, NEW y, NEW e, NEW f,
           NEW c, NEW d, c = ContextOf(s, x, e), d = ContextOf(t, y, f)
    PROVE  Continues(c, d)
<1>1. /\ Numbered(c, Len(s)) /\ DOMAIN c.events = DOMAIN s
      /\ DOMAIN s = 1 .. Len(s) /\ Len(s) \in Nat
      /\ \A i \in DOMAIN s : SameReading(s[i], c.events[i])
  BY ContextReading
<1>2. /\ Numbered(d, Len(t)) /\ DOMAIN t = 1 .. Len(t) /\ Len(t) \in Nat
      /\ \A i \in DOMAIN t : SameReading(t[i], d.events[i])
  BY ContextReading
<1>3. ASSUME NEW i \in DOMAIN s PROVE SameReading(c.events[i], d.events[i])
  <2>1. i \in DOMAIN t /\ t[i] = s[i]
    BY <1>1, <1>2
  <2>2. SameReading(s[i], c.events[i]) /\ SameReading(s[i], d.events[i])
    BY <1>1, <1>2, <2>1
  <2> QED
    BY <2>2, Readings
<1> QED
  BY <1>1, <1>2, <1>3 DEF Continues

(* The trace grows at its end, and not after the close. *)
LEMMA TraceStep ==
    ASSUME TypeInv, [Next]_vars
    PROVE  /\ author' = author /\ Requests' = Requests /\ Messages' = Messages
           /\ trace' \in Seq(Messages) /\ inbox' \in Seq(Requests)
           /\ Len(trace) <= Len(trace') /\ \A i \in DOMAIN trace : trace'[i] = trace[i]
           /\ closed => closed' /\ trace' = trace
<1>1. author' = author
  BY DEF Next, vars, SendOrder, SendCancel, Send, ReceiveOrder, ReceiveCancel, IgnoreCancel,
         EndCancel, NeedBase, PublishState, CloseCapture
<1>2. Requests' = Requests /\ Messages' = Messages
  BY <1>1 DEF Requests, Messages, States, OrderEvent, CancelEvent
<1>3. trace' \in Seq(Messages) /\ inbox' \in Seq(Requests)
  BY <1>2, TypeStep DEF TypeInv
<1>4. \/ trace' = trace
      \/ ~closed /\ \E m \in Messages : trace' = Append(trace, m)
  <2>1. ASSUME NEW u \in Updates, NEW content \in Contents
        PROVE  OrderEvent(u, content) \in Messages
    BY DEF Messages, Requests
  <2>2. ASSUME NEW a \in Actions PROVE CancelEvent(a) \in Messages
    BY DEF Messages, Requests
  <2>3. StateEvent \in Messages
    BY RobotStates DEF Messages, TypeInv
  <2>4. CASE SendOrder
    BY <2>1, <2>4 DEF SendOrder, Send, Capture
  <2>5. CASE SendCancel
    BY <2>2, <2>5 DEF SendCancel, Send, Capture
  <2>6. CASE PublishState
    BY <2>3, <2>6 DEF PublishState, Capture
  <2> QED
    BY <2>4, <2>5, <2>6 DEF Next, vars, ReceiveOrder, ReceiveCancel, IgnoreCancel, EndCancel,
                            NeedBase, CloseCapture
<1>5. Len(trace) <= Len(trace') /\ \A i \in DOMAIN trace : trace'[i] = trace[i]
  <2>1. trace \in Seq(Messages)
    BY DEF TypeInv
  <2>2. CASE trace' = trace
    BY <2>1, <2>2
  <2>3. CASE \E m \in Messages : trace' = Append(trace, m)
    BY <2>1, <2>3, Appended
  <2> QED
    BY <1>4, <2>2, <2>3
<1>6. closed => closed' /\ trace' = trace
  BY <1>4 DEF Next, vars, SendOrder, SendCancel, Send, ReceiveOrder, ReceiveCancel,
              IgnoreCancel, EndCancel, NeedBase, PublishState, CloseCapture
<1> QED
  BY <1>1, <1>2, <1>3, <1>5, <1>6

-----------------------------------------------------------------------------
(* The verdicts of a growing trace *)

LEMMA EvidenceOfFull ==
    Full.roles = TRUE /\ Full.confirmed = TRUE /\ Full.timed = TRUE
BY DEF Full

LEMMA FinalStep ==
    ASSUME TypeInv, [Next]_vars
    PROVE  {f \in Report(Full) : f.verdict \in {"PASS", "FAIL"}} \subseteq Report(Full)'
<1> DEFINE c == ContextOf(trace, closed, Full)
           d == ContextOf(trace', closed', Full)
<1>1. Report(Full) = Analyze(c) /\ Report(Full)' = Analyze(d)
  BY DEF Report, Full, Analyze
<1>2. trace \in Seq(Messages) /\ trace' \in Seq(Messages)
  BY TraceStep DEF TypeInv
<1>3. Continues(c, d)
  BY <1>2, TraceStep, ContextContinues
<1>4. c.roles = d.roles /\ c.closed = closed /\ d.closed = closed'
  BY DEF ContextOf
<1>5. ASSUME closed PROVE ProvesMore(c, d)
  <2>1. closed' /\ trace' = trace
    BY <1>5, TraceStep
  <2>2. c.events = d.events /\ c.confirmed = d.confirmed
    BY <2>1 DEF ContextOf
  <2>3. Continues(d, c)
    <3>1. Len(trace') <= Len(trace) /\ \A i \in DOMAIN trace' : trace[i] = trace'[i]
      BY <1>2, <2>1
    <3> QED
      BY <1>2, <3>1, ContextContinues
  <2> QED
    BY <1>3, <1>4, <2>1, <2>2, <2>3 DEF ProvesMore
<1> HIDE DEF c, d
<1>6. ASSUME NEW f \in Analyze(c), f.verdict \in {"PASS", "FAIL"} PROVE f \in Analyze(d)
  BY <1>3, <1>4, <1>5, <1>6, VerdictsStand
<1> QED
  BY <1>1, <1>6

(* VerdictsAreFinal: no later message and no close withdraws a PASS or FAIL   *)
(* (crates/vda5050-doctor lib.rs 113-136).                                      *)
THEOREM VerdictsFinal == Spec => VerdictsAreFinal
<1>1. TypeInv /\ [Next]_vars =>
          [{f \in Report(Full) : f.verdict \in {"PASS", "FAIL"}} \subseteq Report(Full)']_vars
  BY FinalStep
<1> QED
  BY <1>1, TypeOK, PTL DEF Spec, VerdictsAreFinal

-----------------------------------------------------------------------------
(* Less evidence *)

LEMMA LessProves ==
    ASSUME TypeInv, NEW e \in Evidence
    PROVE  Blamed(Report(e)) \subseteq Blamed(Report(Full))
<1> DEFINE c == ContextOf(trace, closed, e)
           d == ContextOf(trace, closed, Full)
<1>1. trace \in Seq(Messages) /\ Len(trace) <= Len(trace)
  BY DEF TypeInv
<1>2. Continues(c, d) /\ Continues(d, c)
  BY <1>1, ContextContinues
<1>3. /\ DOMAIN c.events = DOMAIN d.events
      /\ \A i \in DOMAIN c.events : d.events[i].timed = TRUE
      /\ d.confirmed = TRUE /\ d.roles = TRUE /\ c.closed = d.closed
  BY <1>1, ContextReading, EvidenceOfFull
<1>4. ProvesMore(c, d)
  BY <1>2, <1>3 DEF ProvesMore
<1> HIDE DEF c, d
<1>5. \A f \in Analyze(c) : f.verdict = "FAIL" => f \in Analyze(d)
  BY <1>4, EvidenceOnlyAdds
<1> QED
  BY <1>5 DEF Report, Blamed, c, d

(* Without CONFIRMED_FOR_RULE only what was sent is blamed: the content of an *)
(* order.                                                                     *)
LEMMA UnconfirmedBlame ==
    ASSUME NEW c, ~c.confirmed, NEW f \in Analyze(c), f.verdict = "FAIL"
    PROVE  /\ f.target = "FLEET_CONTROL"
           /\ f.event \in Changed(c) \/ (f.event \in Events(c, "order") /\ c.events[f.event].broken)
BY FailSources, FindingFields DEF AbsenceProvable

LEMMA Concatenated ==
    ASSUME NEW S, NEW a \in Seq(S), NEW b \in Seq(S)
    PROVE  \A k \in 1 .. Len(a) + Len(b) :
              (a \o b)[k] = IF k <= Len(a) THEN a[k] ELSE b[k - Len(a)]
OBVIOUS

LEMMA Without ==
    ASSUME NEW s \in Seq(Messages), NEW i \in DOMAIN s, NEW t, t = RemoveAt(s, i)
    PROVE  /\ t \in Seq(Messages) /\ Len(t) = Len(s) - 1
           /\ \A j \in DOMAIN t :
                 \E k \in DOMAIN s : t[j] = s[k] /\ k = IF j < i THEN j ELSE j + 1
<1>1. i \in 1 .. Len(s) /\ Len(s) \in Nat
  OBVIOUS
<1> DEFINE a == SubSeq(s, 1, i - 1)
           b == SubSeq(s, i + 1, Len(s))
<1>2. a \in Seq(Messages) /\ Len(a) = i - 1 /\ \A j \in 1 .. i - 1 : a[j] = s[j]
  BY <1>1
<1>3. b \in Seq(Messages) /\ Len(b) = Len(s) - i /\ \A j \in 1 .. Len(s) - i : b[j] = s[i + j]
  BY <1>1
<1>4. t = a \o b
  BY DEF RemoveAt
<1> HIDE DEF a, b
<1>5. t \in Seq(Messages) /\ Len(t) = Len(s) - 1 /\ DOMAIN t = 1 .. Len(s) - 1
  BY <1>1, <1>2, <1>3, <1>4
<1>6. ASSUME NEW j \in 1 .. Len(s) - 1
      PROVE  t[j] = s[IF j < i THEN j ELSE j + 1]
  <2>1. CASE j < i
    BY <1>1, <1>2, <1>3, <1>4, <2>1
  <2>2. CASE ~(j < i)
    <3>1. t[j] = b[j - (i - 1)]
      <4>1. /\ j \in 1 .. Len(a) + Len(b) /\ j > Len(a)
            /\ t[j] = IF j <= Len(a) THEN a[j] ELSE b[j - Len(a)]
        <5>1. j \in 1 .. Len(a) + Len(b) /\ j > Len(a)
          BY <1>1, <1>2, <1>3, <2>2
        <5>2. \A k \in 1 .. Len(a) + Len(b) :
                 (a \o b)[k] = IF k <= Len(a) THEN a[k] ELSE b[k - Len(a)]
          BY <1>2, <1>3, Concatenated
        <5> QED
          BY <1>4, <5>1, <5>2
      <4> QED
        BY <1>1, <1>2, <4>1
    <3>2. j - (i - 1) \in 1 .. Len(s) - i /\ i + (j - (i - 1)) = j + 1
      BY <1>1, <2>2
    <3> QED
      BY <1>3, <2>2, <3>1, <3>2
  <2> QED
    BY <2>1, <2>2
<1> QED
  BY <1>1, <1>5, <1>6

LEMMA MissedProvesLess ==
    ASSUME TypeInv, NEW i \in DOMAIN trace,
           NEW c, c = ContextOf(RemoveAt(trace, i), closed, [Full EXCEPT !.confirmed = FALSE])
    PROVE  Blamed(Analyze(c)) \subseteq Blamed(Report(Full))
<1> DEFINE t == RemoveAt(trace, i)
           d == ContextOf(trace, closed, Full)
           At(j) == IF j < i THEN j ELSE j + 1
<1>1. /\ trace \in Seq(Messages) /\ t \in Seq(Messages)
      /\ \A j \in DOMAIN t : At(j) \in DOMAIN trace /\ t[j] = trace[At(j)]
  <2>1. trace \in Seq(Messages)
    BY DEF TypeInv
  <2>2. /\ t \in Seq(Messages)
        /\ \A j \in DOMAIN t :
              \E k \in DOMAIN trace : t[j] = trace[k] /\ k = IF j < i THEN j ELSE j + 1
    BY <2>1, Without
  <2> HIDE DEF t
  <2> QED
    BY <2>1, <2>2
<1>2. /\ DOMAIN c.events = DOMAIN t /\ c.confirmed = FALSE
      /\ DOMAIN t = 1 .. Len(t) /\ Len(t) \in Nat /\ Numbered(c, Len(t))
      /\ \A j \in DOMAIN t : SameReading(t[j], c.events[j])
  BY <1>1, ContextReading DEF Full
<1>3. /\ DOMAIN d.events = DOMAIN trace /\ d.roles = TRUE
      /\ DOMAIN trace = 1 .. Len(trace) /\ Len(trace) \in Nat /\ Numbered(d, Len(trace))
      /\ \A j \in DOMAIN trace : SameReading(trace[j], d.events[j])
  BY <1>1, ContextReading, EvidenceOfFull
<1> HIDE DEF t, d
<1>4. ASSUME NEW j \in DOMAIN t PROVE SameReading(c.events[j], d.events[At(j)])
  <2>1. SameReading(t[j], c.events[j]) /\ SameReading(t[j], d.events[At(j)])
    BY <1>1, <1>2, <1>3
  <2> QED
    BY <2>1, Readings
<1>5. ASSUME NEW j \in Events(d, "order") PROVE ProvenRole(d, j, "FLEET_CONTROL")
  <2>1. trace[j] \in Messages /\ SameReading(trace[j], d.events[j]) /\ d.events[j].topic = "order"
    BY <1>1, <1>3 DEF Events
  <2>2. trace[j].role = <<"FLEET_CONTROL">>
    BY <2>1, OrderFields DEF SameReading
  <2> QED
    BY <1>3, <2>1, <2>2 DEF ProvenRole, SameReading
<1>6. ASSUME NEW f \in Analyze(c), f.verdict = "FAIL"
      PROVE  \E g \in Analyze(d) : g.verdict = "FAIL" /\ g.target = f.target
  <2>1. f.target = "FLEET_CONTROL"
    BY <1>2, <1>6, UnconfirmedBlame
  <2>2. CASE f.event \in Events(c, "order") /\ c.events[f.event].broken
    <3> DEFINE k == At(f.event)
    <3>1. k \in Events(d, "order") /\ d.events[k].broken
      <4>1. /\ f.event \in DOMAIN t /\ c.events[f.event].topic = "order"
            /\ c.events[f.event].broken
        BY <1>2, <2>2 DEF Events
      <4>2. SameReading(c.events[f.event], d.events[k])
        BY <1>4, <4>1
      <4>3. k \in DOMAIN trace
        BY <1>1, <4>1
      <4> HIDE DEF k
      <4>4. d.events[k].topic = "order" /\ d.events[k].broken
        BY <4>1, <4>2 DEF SameReading
      <4> QED
        BY <1>3, <4>3, <4>4 DEF Events
    <3>2. Finding("LAB-D2-GRAPH-STITCHING", k, "FAIL", "FLEET_CONTROL") \in Analyze(d)
      BY <1>5, <3>1, FailIsReported
    <3> QED
      BY <2>1, <3>2, FindingFields
  <2>3. CASE f.event \in Changed(c)
    <3> DEFINE q == f.event
               p == Previous(c, q)
    <3>1. q \in Repeats(c) /\ RepeatRelation(c, q) = "CHANGED"
      BY <2>3 DEF Changed
    <3>2. p \in EarlierSameUpdate(c, q) /\ p < q /\ q \in Events(c, "order")
      BY <1>2, <3>1, PreviousIsLast DEF Repeats
    <3>3. c.events[p].content.control # c.events[q].content.control
      BY <3>1 DEF RepeatRelation, Relation
    <3> HIDE DEF p, q
    <3>4. p \in DOMAIN t /\ q \in DOMAIN t /\ c.events[p].topic = "order"
          /\ c.events[q].topic = "order" /\ SameUpdate(c.events[p], c.events[q])
      BY <1>2, <3>2 DEF EarlierSameUpdate, Events
    <3>5. SameReading(c.events[p], d.events[At(p)]) /\ SameReading(c.events[q], d.events[At(q)])
      BY <1>4, <3>4
    <3>6. /\ At(p) \in Events(d, "order") /\ At(q) \in Events(d, "order") /\ At(p) < At(q)
          /\ SameUpdate(d.events[At(p)], d.events[At(q)])
          /\ d.events[At(p)].content.control # d.events[At(q)].content.control
      <4>1. At(p) \in Events(d, "order") /\ At(q) \in Events(d, "order")
        <5>1. At(p) \in DOMAIN trace /\ At(q) \in DOMAIN trace
          BY <1>1, <3>4
        <5> HIDE DEF At
        <5>2. d.events[At(p)].topic = "order" /\ d.events[At(q)].topic = "order"
          BY <3>4, <3>5 DEF SameReading
        <5> QED
          BY <1>3, <5>1, <5>2 DEF Events
      <4>2. At(p) < At(q)
        <5>1. p \in Nat /\ q \in Nat /\ i \in Nat
          BY <1>2, <1>3, <3>4
        <5>2. p < q
          BY <3>2
        <5> QED
          BY <5>1, <5>2
      <4> QED
        BY <3>3, <3>4, <3>5, <4>1, <4>2 DEF SameReading, SameUpdate
    <3>7. PICK k \in Changed(d) : TRUE
      BY <1>3, <3>6, ChangeIsFound
    <3>8. Finding("LAB-D1-REPEATED-ORDER-CHANGED", k, "FAIL", "FLEET_CONTROL") \in Analyze(d)
      BY <1>5, <3>7, FailIsReported DEF Changed, Repeats
    <3> QED
      BY <2>1, <3>8, FindingFields
  <2> QED
    BY <1>2, <1>6, <2>2, <2>3, UnconfirmedBlame
<1>7. Report(Full) = Analyze(d)
  BY DEF Report, d
<1>8. ASSUME NEW x \in Blamed(Analyze(c)) PROVE x \in Blamed(Analyze(d))
  <2>1. PICK f \in Analyze(c) : f.verdict = "FAIL" /\ x = f.target
    BY DEF Blamed
  <2>2. PICK g \in Analyze(d) : g.verdict = "FAIL" /\ g.target = f.target
    BY <1>6, <2>1
  <2> QED
    BY <2>1, <2>2 DEF Blamed
<1> QED
  BY <1>7, <1>8

LEMMA LessBlames == TypeInv => LessEvidenceBlamesNobody
<1> SUFFICES ASSUME TypeInv PROVE LessEvidenceBlamesNobody
  OBVIOUS
<1> DEFINE Missed(i) == ContextOf(RemoveAt(trace, i), closed, [Full EXCEPT !.confirmed = FALSE])
<1>1. \A e \in Evidence : Blamed(Report(e)) \subseteq Blamed(Report(Full))
  BY LessProves
<1>2. \A i \in DOMAIN trace : Blamed(Analyze(Missed(i))) \subseteq Blamed(Report(Full))
  BY MissedProvesLess
<1> HIDE DEF Missed
<1>3. UNION ({Blamed(Report(e)) : e \in Evidence}
             \cup {Blamed(Analyze(Missed(i))) : i \in DOMAIN trace})
        \subseteq Blamed(Report(Full))
  BY <1>1, <1>2
<1> QED
  BY <1>3 DEF LessEvidenceBlamesNobody, Missed

(* LessEvidenceBlamesNobody: neither a manifest that proves less nor an        *)
(* unconfirmed capture that missed a message blames anybody else.             *)
THEOREM LessEvidence == Spec => []LessEvidenceBlamesNobody
BY TypeOK, LessBlames, PTL

-----------------------------------------------------------------------------
(* Cancellations, at any pace: where a cancelOrder action is, ... *)

Asks(m, a) == m.topic = "instantActions" /\ m.cancel = <<a>>
Asked(messages) == {a \in Actions : \E i \in DOMAIN messages : Asks(messages[i], a)}
Taken == ignored \cup robot.cancels \cup robot.finished

(* ... and what the trace shows of its end. *)
Ended(i, a) ==
    \E j \in DOMAIN trace : j > i /\ trace[j].topic = "state" /\ a \in trace[j].finished

CancelInv ==
    /\ \A i, j \in DOMAIN inbox, a \in Actions :
           Asks(inbox[i], a) /\ Asks(inbox[j], a) => i = j
    /\ Asked(trace) = Asked(inbox) \cup Taken
    /\ Asked(inbox) \cap Taken = {}
    /\ ignored \cap (robot.cancels \cup robot.finished) = {}
    /\ \A k \in DOMAIN trace : trace[k].topic = "state" => trace[k].finished \subseteq robot.finished
    /\ \/ owing
       \/ \A i \in DOMAIN trace, a \in robot.finished : Asks(trace[i], a) => Ended(i, a)
    /\ closed /\ Grace =>
           /\ inbox = << >>
           /\ \A i \in DOMAIN trace, a \in Actions :
                  Asks(trace[i], a) => a \in ignored \/ Ended(i, a)

-----------------------------------------------------------------------------
(* A paced job *)

(* The orders that have reached the robot; at most the last message has not. *)
Received ==
    {i \in DOMAIN trace : trace[i].topic = "order" /\ (inbox # << >> => i < Len(trace))}

PaceInv ==
    Paced => inbox = << >> \/ (trace # << >> /\ inbox = <<trace[Len(trace)]>>)

(* What the robot holds is what it was sent last. *)
HoldsInv ==
    /\ \/ robot.order = <<"none">> /\ robot.update = Unknown
       \/ /\ robot.order = <<Order>> /\ robot.update # Unknown
          /\ \E i \in Received : /\ trace[i].update = robot.update
                                 /\ robot.content = <<trace[i].content>>
    /\ \A i \in Received :
           trace[i].update # Unknown =>
               /\ robot.update # Unknown
               /\ \E j \in Received : i <= j /\ trace[j].update = robot.update

(* A robot without news has said what it holds since. *)
Said(k) ==
    /\ trace[k].topic = "state"
    /\ trace[k].order = robot.order /\ trace[k].update = robot.update

SaidInv ==
    owing \/ Received = {} \/ \E k \in DOMAIN trace : Said(k) /\ \A i \in Received : i < k

(* A request for a base waits for an order. *)
BaseAsked(i) ==
    /\ trace[i].topic = "state" /\ trace[i].request
    /\ ~\E j \in DOMAIN trace : i < j /\ trace[j].topic = "order"

BaseInv ==
    /\ \A i \in DOMAIN trace : BaseAsked(i) => robot.request
    /\ closed /\ Grace => \A i \in DOMAIN trace : ~BaseAsked(i)

(* Changed content of the update the robot holds gets its warning: as long as *)
(* no update comes back after another.                                        *)
SameKnown(i, j) ==
    trace[i].update = trace[j].update /\ trace[j].update # Unknown

ChangedAt(i) ==
    \E p \in Received :
        p < i /\ SameKnown(p, i) /\ trace[p].content.control # trace[i].content.control

Unanswered(i) == ~\E k \in DOMAIN trace : i < k /\ trace[k].topic = "state"

Warned(i) ==
    \E k \in DOMAIN trace :
        /\ i < k /\ trace[k].topic = "state" /\ trace[k].order = <<Order>> /\ trace[k].warning
        /\ \A l \in DOMAIN trace : i < l /\ trace[l].topic = "state" => k <= l

WarningInv ==
    ~Returned =>
        /\ \A i \in Received :
               trace[i].update = robot.update /\ robot.update # Unknown =>
                   robot.warning \/ trace[i].content.control = robot.content[1].control
        /\ \A i \in Received :
               ChangedAt(i) =>
                   \/ Warned(i)
                   \/ /\ inbox = << >> /\ owing /\ Unanswered(i)
                      /\ robot.warning /\ robot.order = <<Order>>
        /\ closed /\ Grace => \A i \in Received : ChangedAt(i) => Warned(i)

PacedInv ==
    PaceInv /\ (Paced => HoldsInv /\ SaidInv /\ BaseInv /\ WarningInv)

-----------------------------------------------------------------------------
(* Cancellations *)

LEMMA AskedMore ==
    ASSUME NEW s \in Seq(Messages), NEW m \in Messages, NEW t, t = Append(s, m)
    PROVE  Asked(t) = Asked(s) \cup {a \in Actions : Asks(m, a)}
<1>1. /\ DOMAIN s = 1 .. Len(s) /\ DOMAIN t = 1 .. Len(s) + 1 /\ Len(s) \in Nat
      /\ t[Len(s) + 1] = m /\ \A i \in DOMAIN s : i \in DOMAIN t /\ t[i] = s[i]
  BY Appended
<1>2. \A i \in DOMAIN t : i \in DOMAIN s \/ i = Len(s) + 1
  BY <1>1
<1>3. Len(s) + 1 \in DOMAIN t
  BY <1>1
<1> QED
  BY <1>1, <1>2, <1>3 DEF Asked

LEMMA AskedLess ==
    ASSUME NEW s \in Seq(Requests), s # << >>, NEW t, t = Tail(s)
    PROVE  Asked(s) = Asked(t) \cup {a \in Actions : Asks(Head(s), a)}
<1>1. /\ DOMAIN s = 1 .. Len(s) /\ DOMAIN t = 1 .. Len(s) - 1 /\ Len(s) \in Nat \ {0}
      /\ Head(s) = s[1] /\ \A i \in DOMAIN t : i + 1 \in DOMAIN s /\ t[i] = s[i + 1]
  BY Removed
<1>2. 1 \in DOMAIN s
  BY <1>1
<1>3. \A i \in DOMAIN s : i = 1 \/ (i - 1 \in DOMAIN t /\ s[i] = t[i - 1])
  BY <1>1
<1> QED
  BY <1>1, <1>2, <1>3 DEF Asked

LEMMA AskedOnce ==
    ASSUME NEW s \in Seq(Requests), s # << >>, NEW t, t = Tail(s),
           \A i, j \in DOMAIN s, a \in Actions : Asks(s[i], a) /\ Asks(s[j], a) => i = j
    PROVE  /\ \A a \in Actions : Asks(Head(s), a) => a \notin Asked(t)
           /\ \A i, j \in DOMAIN t, a \in Actions : Asks(t[i], a) /\ Asks(t[j], a) => i = j
<1>1. /\ DOMAIN s = 1 .. Len(s) /\ DOMAIN t = 1 .. Len(s) - 1 /\ Len(s) \in Nat \ {0}
      /\ Head(s) = s[1] /\ \A i \in DOMAIN t : i + 1 \in DOMAIN s /\ t[i] = s[i + 1]
  BY Removed
<1>2. 1 \in DOMAIN s /\ \A i \in DOMAIN t : i \in Nat /\ i + 1 # 1
  BY <1>1
<1>3. \A a \in Actions : Asks(Head(s), a) => a \notin Asked(t)
  BY <1>1, <1>2 DEF Asked
<1>4. ASSUME NEW i \in DOMAIN t, NEW j \in DOMAIN t, NEW a \in Actions,
             Asks(t[i], a), Asks(t[j], a)
      PROVE  i = j
  <2>1. i + 1 = j + 1
    BY <1>1, <1>4
  <2> QED
    BY <1>2, <2>1
<1> QED
  BY <1>3, <1>4

LEMMA CancelIsAsked ==
    ASSUME NEW m \in Messages, m.topic = "instantActions"
    PROVE  /\ m.cancel[1] \in Actions
           /\ \A a \in Actions : Asks(m, a) <=> a = m.cancel[1]
<1>1. m.cancel = <<m.cancel[1]>> /\ m.cancel[1] \in Actions
  BY CancelFields
<1>2. ASSUME NEW a, m.cancel = <<a>> PROVE a = m.cancel[1]
  BY <1>2
<1> QED
  BY <1>1, <1>2 DEF Asks

(* What was ended stays ended. *)
LEMMA EndedStands ==
    ASSUME TypeInv, [Next]_vars
    PROVE  /\ \A i \in DOMAIN trace : \A a : Ended(i, a) => Ended(i, a)'
           /\ \A i \in DOMAIN trace : i \in DOMAIN trace' /\ trace'[i] = trace[i]
           /\ DOMAIN trace = 1 .. Len(trace) /\ DOMAIN trace' = 1 .. Len(trace')
           /\ Len(trace) \in Nat /\ Len(trace') \in Nat
<1>1. /\ trace \in Seq(Messages) /\ trace' \in Seq(Messages) /\ Len(trace) <= Len(trace')
      /\ \A i \in DOMAIN trace : trace'[i] = trace[i]
  BY TraceStep DEF TypeInv
<1>2. /\ DOMAIN trace = 1 .. Len(trace) /\ DOMAIN trace' = 1 .. Len(trace')
      /\ Len(trace) \in Nat /\ Len(trace') \in Nat
  BY <1>1
<1>3. \A i \in DOMAIN trace : i \in DOMAIN trace'
  BY <1>1, <1>2
<1> QED
  BY <1>1, <1>2, <1>3 DEF Ended

(* Nothing is sent twice. *)
LEMMA CancelSent ==
    ASSUME TypeInv, CancelInv, [Next]_vars, NEW m \in Requests, Send(m),
           \A a \in Actions : Asks(m, a) => a \notin Asked(trace)
    PROVE  CancelInv'
<1>1. /\ trace' = Append(trace, m) /\ inbox' = Append(inbox, m) /\ ~closed
      /\ UNCHANGED <<author, closed, robot, owing, ignored>>
  BY DEF Send, Capture
<1>2. m \in Messages /\ trace \in Seq(Messages) /\ inbox \in Seq(Requests) /\ inbox \in Seq(Messages)
      /\ m.topic # "state"
  BY Topics DEF TypeInv, Messages
<1>3. /\ Asked(trace)' = Asked(trace) \cup {a \in Actions : Asks(m, a)}
      /\ Asked(inbox)' = Asked(inbox) \cup {a \in Actions : Asks(m, a)}
      /\ Taken' = Taken
  <2>1. Asked(trace)' = Asked(trace') /\ Asked(inbox)' = Asked(inbox')
    BY DEF Asked
  <2>2. /\ Asked(trace') = Asked(trace) \cup {a \in Actions : Asks(m, a)}
        /\ Asked(inbox') = Asked(inbox) \cup {a \in Actions : Asks(m, a)}
    BY <1>1, <1>2, AskedMore
  <2> QED
    BY <1>1, <2>1, <2>2 DEF Taken
<1>4. /\ DOMAIN inbox = 1 .. Len(inbox) /\ DOMAIN inbox' = 1 .. Len(inbox) + 1 /\ Len(inbox) \in Nat
      /\ inbox'[Len(inbox) + 1] = m /\ \A i \in DOMAIN inbox : inbox'[i] = inbox[i]
  BY <1>1, <1>2, Appended
<1>5. /\ DOMAIN trace = 1 .. Len(trace) /\ DOMAIN trace' = 1 .. Len(trace) + 1 /\ Len(trace) \in Nat
      /\ trace'[Len(trace) + 1] = m /\ \A i \in DOMAIN trace : trace'[i] = trace[i]
  BY <1>1, <1>2, Appended
<1>6. ASSUME NEW i \in DOMAIN inbox', NEW j \in DOMAIN inbox', NEW a \in Actions,
             Asks(inbox'[i], a), Asks(inbox'[j], a)
      PROVE  i = j
  <2>1. \A k \in DOMAIN inbox' : k \in DOMAIN inbox \/ k = Len(inbox) + 1
    BY <1>4
  <2>2. ASSUME NEW k \in DOMAIN inbox, Asks(m, a) PROVE ~Asks(inbox[k], a)
    BY <2>2 DEF CancelInv, Asked
  <2> QED
    BY <1>4, <1>6, <2>1, <2>2 DEF CancelInv
<1>7. Asked(inbox)' \cap Taken' = {} /\ Asked(trace)' = Asked(inbox)' \cup Taken'
  BY <1>3 DEF CancelInv
<1>8. ASSUME NEW k \in DOMAIN trace', trace'[k].topic = "state"
      PROVE  trace'[k].finished \subseteq robot'.finished
  <2>1. k \in DOMAIN trace
    BY <1>2, <1>5, <1>8
  <2> QED
    BY <1>1, <1>5, <1>8, <2>1 DEF CancelInv
<1>9. ASSUME ~owing', NEW i \in DOMAIN trace', NEW a \in robot'.finished, Asks(trace'[i], a)
      PROVE  Ended(i, a)'
  <2>1. a \in Actions /\ a \in Taken /\ a \in robot.finished
    BY <1>1, <1>9 DEF Taken, TypeInv, Robots
  <2>2. i # Len(trace) + 1
    BY <1>5, <1>9, <2>1 DEF CancelInv
  <2>3. i \in DOMAIN trace
    BY <1>5, <2>2
  <2>4. Ended(i, a)
    BY <1>1, <1>5, <1>9, <2>1, <2>3 DEF CancelInv
  <2> QED
    BY <2>3, <2>4, EndedStands
<1> QED
  BY <1>1, <1>6, <1>7, <1>8, <1>9 DEF CancelInv

(* Every other step leaves the trace alone, or publishes. *)
LEMMA CancelKept ==
    ASSUME TypeInv, CancelInv, [Next]_vars,
           trace' = trace, inbox' = inbox, closed' = closed, ignored' = ignored,
           owing => owing',
           robot'.cancels \cup robot'.finished = robot.cancels \cup robot.finished,
           robot.finished \subseteq robot'.finished,
           robot'.finished = robot.finished \/ owing'
    PROVE  CancelInv'
<1>1. Asked(trace)' = Asked(trace) /\ Asked(inbox)' = Asked(inbox) /\ Taken' = Taken
  BY DEF Asked, Taken
<1>2. \A i, a : Ended(i, a)' <=> Ended(i, a)
  BY DEF Ended
<1> QED
  BY <1>1, <1>2 DEF CancelInv

(* The robot takes a message: it asks for nothing, or for what is taken now. *)
LEMMA CancelTaken ==
    ASSUME TypeInv, CancelInv, [Next]_vars,
           inbox # << >>, trace' = trace, inbox' = Tail(inbox), closed' = closed,
           owing' \/ (owing' = owing /\ robot'.finished = robot.finished),
           robot'.finished = robot.finished,
           \/ /\ \A a \in Actions : ~Asks(Head(inbox), a)
              /\ robot'.cancels = robot.cancels /\ ignored' = ignored
           \/ \E b \in Actions :
                 /\ \A a \in Actions : Asks(Head(inbox), a) <=> a = b
                 /\ \/ robot'.cancels = robot.cancels \cup {b} /\ ignored' = ignored
                    \/ robot'.cancels = robot.cancels /\ ignored' = ignored \cup {b}
    PROVE  CancelInv'
<1>1. inbox \in Seq(Requests)
  BY DEF TypeInv
<1>2. /\ Asked(inbox) = Asked(inbox') \cup {a \in Actions : Asks(Head(inbox), a)}
      /\ \A a \in Actions : Asks(Head(inbox), a) => a \notin Asked(inbox')
      /\ \A i, j \in DOMAIN inbox', a \in Actions :
             Asks(inbox'[i], a) /\ Asks(inbox'[j], a) => i = j
  <2>1. \A i, j \in DOMAIN inbox, a \in Actions :
            Asks(inbox[i], a) /\ Asks(inbox[j], a) => i = j
    BY DEF CancelInv
  <2>2. Asked(inbox) = Asked(inbox') \cup {a \in Actions : Asks(Head(inbox), a)}
    BY <1>1, AskedLess
  <2>3. \A a \in Actions : Asks(Head(inbox), a) => a \notin Asked(inbox')
    BY <1>1, <2>1, AskedOnce
  <2>4. \A i, j \in DOMAIN inbox', a \in Actions :
            Asks(inbox'[i], a) /\ Asks(inbox'[j], a) => i = j
    BY <1>1, <2>1, AskedOnce
  <2> QED
    BY <2>2, <2>3, <2>4
<1>3. Asked(trace)' = Asked(trace) /\ Asked(inbox)' = Asked(inbox')
  BY DEF Asked
<1>4. \A i, a : Ended(i, a)' <=> Ended(i, a)
  BY DEF Ended
<1>5. closed' => ~Grace
  BY DEF CancelInv
<1>6. CASE /\ \A a \in Actions : ~Asks(Head(inbox), a)
           /\ robot'.cancels = robot.cancels /\ ignored' = ignored
  <2>1. Asked(inbox') = Asked(inbox) /\ Taken' = Taken
    BY <1>2, <1>6 DEF Taken
  <2> QED
    BY <1>2, <1>3, <1>4, <1>5, <1>6, <2>1 DEF CancelInv
<1>7. ASSUME NEW b \in Actions, \A a \in Actions : Asks(Head(inbox), a) <=> a = b,
             \/ robot'.cancels = robot.cancels \cup {b} /\ ignored' = ignored
             \/ robot'.cancels = robot.cancels /\ ignored' = ignored \cup {b}
      PROVE  CancelInv'
  <2>1. b \in Asked(inbox) /\ b \notin Taken /\ b \notin Asked(inbox')
    BY <1>2, <1>7 DEF CancelInv
  <2>2. Asked(inbox) = Asked(inbox') \cup {b} /\ Taken' = Taken \cup {b}
    BY <1>2, <1>7 DEF Taken
  <2>3. Asked(trace)' = Asked(inbox)' \cup Taken' /\ Asked(inbox)' \cap Taken' = {}
    BY <1>3, <2>1, <2>2 DEF CancelInv
  <2>4. ignored' \cap (robot'.cancels \cup robot'.finished) = {}
    BY <1>7, <2>1 DEF CancelInv, Taken
  <2> QED
    BY <1>2, <1>4, <1>5, <2>3, <2>4 DEF CancelInv
<1> QED
  BY <1>6, <1>7

(* A state tells of every cancellation that has ended. *)
LEMMA CancelPublished ==
    ASSUME TypeInv, CancelInv, [Next]_vars, PublishState
    PROVE  CancelInv'
<1>1. /\ trace' = Append(trace, StateEvent) /\ ~closed
      /\ UNCHANGED <<author, closed, inbox, robot, ignored>>
  BY DEF PublishState, Capture
<1>2. StateEvent \in Messages /\ StateEvent.topic = "state" /\ StateEvent.finished = robot.finished
  BY RobotStates DEF TypeInv, Messages, StateEvent
<1>3. /\ DOMAIN trace = 1 .. Len(trace) /\ DOMAIN trace' = 1 .. Len(trace) + 1 /\ Len(trace) \in Nat
      /\ trace'[Len(trace) + 1] = StateEvent /\ \A i \in DOMAIN trace : trace'[i] = trace[i]
  BY <1>1, <1>2, Appended DEF TypeInv
<1>4. Asked(trace)' = Asked(trace) /\ Asked(inbox)' = Asked(inbox) /\ Taken' = Taken
  <2>1. Asked(trace)' = Asked(trace') /\ Asked(inbox)' = Asked(inbox) /\ Taken' = Taken
    BY <1>1 DEF Asked, Taken
  <2>2. Asked(trace') = Asked(trace) \cup {a \in Actions : Asks(StateEvent, a)}
    BY <1>1, <1>2, AskedMore DEF TypeInv
  <2>3. \A a \in Actions : ~Asks(StateEvent, a)
    BY <1>2 DEF Asks
  <2> QED
    BY <2>1, <2>2, <2>3
<1>5. ASSUME NEW k \in DOMAIN trace', trace'[k].topic = "state"
      PROVE  trace'[k].finished \subseteq robot'.finished
  <2>1. CASE k \in DOMAIN trace
    BY <1>1, <1>3, <1>5, <2>1 DEF CancelInv
  <2>2. CASE k = Len(trace) + 1
    BY <1>1, <1>2, <1>3, <2>2
  <2> QED
    BY <1>3, <2>1, <2>2
<1>6. ASSUME NEW i \in DOMAIN trace', NEW a \in robot'.finished, Asks(trace'[i], a)
      PROVE  Ended(i, a)'
  <2>1. i # Len(trace) + 1
    BY <1>2, <1>3, <1>6 DEF Asks
  <2>2. Len(trace) + 1 > i /\ Len(trace) + 1 \in DOMAIN trace'
    BY <1>3, <2>1
  <2> QED
    BY <1>1, <1>2, <1>3, <1>6, <2>2 DEF Ended
<1> QED
  BY <1>1, <1>4, <1>5, <1>6 DEF CancelInv

LEMMA CancelStep ==
    ASSUME TypeInv, CancelInv, [Next]_vars
    PROVE  CancelInv'
<1>1. CASE SendOrder
  <2>1. PICK u \in Updates, content \in Contents : Send(OrderEvent(u, content))
    BY <1>1 DEF SendOrder
  <2>2. OrderEvent(u, content) \in Requests
    BY DEF Requests
  <2>3. \A a : ~Asks(OrderEvent(u, content), a)
    BY DEF Asks, OrderEvent
  <2> QED
    BY <2>1, <2>2, <2>3, CancelSent
<1>2. CASE SendCancel
  <2>1. PICK b \in Actions :
          /\ \A i \in DOMAIN trace : trace[i].topic = "instantActions" => trace[i].cancel # <<b>>
          /\ Send(CancelEvent(b))
    BY <1>2 DEF SendCancel
  <2>2. CancelEvent(b) \in Requests /\ CancelEvent(b) \in Messages
    BY DEF Requests, Messages
  <2>3. \A a \in Actions : Asks(CancelEvent(b), a) => a = b
    BY DEF Asks, CancelEvent
  <2>4. b \notin Asked(trace)
    BY <2>1 DEF Asked, Asks
  <2> QED
    BY <2>1, <2>2, <2>3, <2>4, CancelSent
<1>3. CASE ReceiveOrder
  <2>1. /\ inbox # << >> /\ Head(inbox).topic = "order" /\ inbox' = Tail(inbox) /\ owing' = TRUE
        /\ UNCHANGED <<author, trace, closed, ignored>>
    BY <1>3 DEF ReceiveOrder
  <2>2. robot'.cancels = robot.cancels /\ robot'.finished = robot.finished
    BY <1>3 DEF ReceiveOrder, TypeInv, Robots
  <2>3. \A a \in Actions : ~Asks(Head(inbox), a)
    BY <2>1 DEF Asks
  <2> QED
    BY <2>1, <2>2, <2>3, CancelTaken
<1>4. ASSUME inbox # << >>, Head(inbox).topic = "instantActions"
      PROVE  /\ Head(inbox).cancel[1] \in Actions
             /\ \A a \in Actions : Asks(Head(inbox), a) <=> a = Head(inbox).cancel[1]
  <2>1. Head(inbox) \in Messages
    BY <1>4 DEF TypeInv, Messages
  <2> QED
    BY <1>4, <2>1, CancelIsAsked
<1>5. CASE ReceiveCancel
  <2>1. /\ inbox # << >> /\ Head(inbox).topic = "instantActions"
        /\ inbox' = Tail(inbox) /\ owing' = TRUE
        /\ UNCHANGED <<author, trace, closed, ignored>>
    BY <1>5 DEF ReceiveCancel
  <2>2. /\ robot'.cancels = robot.cancels \cup {Head(inbox).cancel[1]}
        /\ robot'.finished = robot.finished
    BY <1>5 DEF ReceiveCancel, TypeInv, Robots
  <2> QED
    BY <1>4, <2>1, <2>2, CancelTaken
<1>6. CASE IgnoreCancel
  <2>1. /\ inbox # << >> /\ Head(inbox).topic = "instantActions" /\ inbox' = Tail(inbox)
        /\ ignored' = ignored \cup {Head(inbox).cancel[1]}
        /\ UNCHANGED <<author, trace, closed, robot, owing>>
    BY <1>6 DEF IgnoreCancel
  <2> QED
    BY <1>4, <2>1, CancelTaken
<1>7. CASE EndCancel
  <2>1. PICK a \in robot.cancels :
          /\ robot' = [robot EXCEPT !.cancels = @ \ {a}, !.finished = @ \cup {a}]
          /\ owing' = TRUE
          /\ UNCHANGED <<author, trace, closed, inbox, ignored>>
    BY <1>7 DEF EndCancel
  <2>2. robot'.cancels = robot.cancels \ {a} /\ robot'.finished = robot.finished \cup {a}
    BY <2>1 DEF TypeInv, Robots
  <2> QED
    BY <2>1, <2>2, CancelKept
<1>8. CASE NeedBase
  <2>1. robot'.cancels = robot.cancels /\ robot'.finished = robot.finished
    BY <1>8 DEF NeedBase, TypeInv, Robots
  <2> QED
    BY <1>8, <2>1, CancelKept DEF NeedBase
<1>9. CASE PublishState
  BY <1>9, CancelPublished
<1>10. CASE CloseCapture
  <2>1. /\ Grace => inbox = << >> /\ ~owing /\ robot.cancels = {}
        /\ closed' = TRUE /\ UNCHANGED <<author, trace, inbox, robot, owing, ignored>>
    BY <1>10 DEF CloseCapture, AllAnswered, Idle
  <2>2. Asked(trace)' = Asked(trace) /\ Asked(inbox)' = Asked(inbox) /\ Taken' = Taken
    BY <2>1 DEF Asked, Taken
  <2>3. \A i, a : Ended(i, a)' <=> Ended(i, a)
    BY <2>1 DEF Ended
  <2>4. ASSUME Grace, NEW i \in DOMAIN trace, NEW a \in Actions, Asks(trace[i], a)
        PROVE  a \in ignored \/ Ended(i, a)
    <3>1. a \in Asked(trace)
      BY <2>4 DEF Asked
    <3>2. a \notin Asked(inbox)
      BY <2>1, <2>4 DEF Asked
    <3> QED
      BY <2>1, <2>4, <3>1, <3>2 DEF CancelInv, Taken
  <2> QED
    BY <2>1, <2>2, <2>3, <2>4 DEF CancelInv
<1>11. CASE UNCHANGED vars
  BY <1>11, CancelKept DEF vars
<1> QED
  BY <1>1, <1>2, <1>3, <1>5, <1>6, <1>7, <1>8, <1>9, <1>10, <1>11 DEF Next

LEMMA Cancellations == Spec => []CancelInv
<1>1. Init => CancelInv
  <2> SUFFICES ASSUME Init PROVE CancelInv
    OBVIOUS
  <2>1. /\ trace = << >> /\ inbox = << >> /\ closed = FALSE /\ ignored = {}
        /\ robot.cancels = {} /\ robot.finished = {}
    BY DEF Init
  <2>2. Asked(trace) = {} /\ Asked(inbox) = {} /\ Taken = {}
    BY <2>1 DEF Asked, Taken
  <2> QED
    BY <2>1, <2>2 DEF CancelInv
<1> QED
  BY <1>1, TypeOK, CancelStep, PTL DEF Spec

-----------------------------------------------------------------------------
(* The context with full evidence *)

TheTrace == ContextOf(trace, closed, Full)

LEMMA FullReading ==
    ASSUME TypeInv
    PROVE  /\ Report(Full) = Analyze(TheTrace)
           /\ Numbered(TheTrace, Len(trace)) /\ DOMAIN TheTrace.events = DOMAIN trace
           /\ DOMAIN trace = 1 .. Len(trace) /\ Len(trace) \in Nat
           /\ TheTrace.closed = closed /\ TheTrace.confirmed = TRUE /\ TheTrace.roles = TRUE
           /\ \A i \in DOMAIN trace :
                 trace[i] \in Messages /\ SameReading(trace[i], TheTrace.events[i])
           /\ \A topic : Events(TheTrace, topic) = {i \in DOMAIN trace : trace[i].topic = topic}
           /\ closed => \A i \in DOMAIN trace : AbsenceProvable(TheTrace, i)
<1> DEFINE d == TheTrace
<1>1. trace \in Seq(Messages) /\ d = ContextOf(trace, closed, Full)
  BY DEF TypeInv, TheTrace
<1>2. /\ Numbered(d, Len(trace)) /\ DOMAIN d.events = DOMAIN trace
      /\ DOMAIN trace = 1 .. Len(trace) /\ Len(trace) \in Nat
      /\ d.closed = closed /\ d.confirmed = TRUE /\ d.roles = TRUE
      /\ \A i \in DOMAIN trace : SameReading(trace[i], d.events[i]) /\ d.events[i].timed = TRUE
  BY <1>1, ContextReading, EvidenceOfFull
<1>3. \A i \in DOMAIN trace : trace[i] \in Messages
  BY <1>1, <1>2
<1>4. \A topic : Events(d, topic) = {i \in DOMAIN trace : trace[i].topic = topic}
  BY <1>2 DEF Events, SameReading
<1>5. closed => \A i \in DOMAIN trace : AbsenceProvable(d, i)
  BY <1>2 DEF AbsenceProvable
<1> QED
  BY <1>2, <1>3, <1>4, <1>5 DEF Report, TheTrace

(* The trace ends a cancellation where the Doctor sees it ended. *)
LEMMA CancelReported ==
    ASSUME TypeInv, NEW i \in DOMAIN trace, NEW a \in Actions, Asks(trace[i], a)
    PROVE  /\ i \in Cancels(TheTrace)
           /\ CancelTerminated(TheTrace, i) <=> Ended(i, a)
<1>1. /\ i \in Events(TheTrace, "instantActions")
      /\ TheTrace.events[i].cancel = <<a>>
  BY FullReading DEF Asks, SameReading
<1>2. i \in Cancels(TheTrace)
  <2>1. <<a>> # Unknown
    BY DEF Unknown
  <2> QED
    BY <1>1, <2>1 DEF Cancels
<1>3. ASSUME NEW j PROVE j \in After(TheTrace, i, "state") /\ a \in TheTrace.events[j].finished
                          <=> j \in DOMAIN trace /\ j > i /\ trace[j].topic = "state"
                              /\ a \in trace[j].finished
  BY FullReading DEF After, SameReading
<1> QED
  BY <1>1, <1>2, <1>3 DEF CancelTerminated, Ended

LEMMA SilenceFound == TypeInv /\ CancelInv => SilenceIsReported
<1> SUFFICES ASSUME TypeInv, CancelInv, closed,
                    NEW i \in DOMAIN trace, trace[i].topic = "instantActions",
                    trace[i].cancel[1] \in ignored
             PROVE  Finding("LAB-D5-CANCEL-LIFECYCLE", i, "FAIL", "MOBILE_ROBOT") \in Report(Full)
  BY DEF SilenceIsReported
<1> DEFINE a == trace[i].cancel[1]
<1>1. a \in Actions /\ Asks(trace[i], a)
  BY FullReading, CancelIsAsked
<1> HIDE DEF a
<1>2. a \notin robot.finished
  BY DEF CancelInv, a
<1>3. ~Ended(i, a)
  BY <1>2 DEF Ended, CancelInv
<1> QED
  BY <1>1, <1>3, CancelReported, FullReading, FailIsReported

(* SilenceIsReported: a closed capture with full evidence blames the robot for *)
(* each cancelOrder it dropped (crates/vda5050-doctor lib.rs 359-388).           *)
THEOREM SilenceReported == Spec => []SilenceIsReported
BY TypeOK, Cancellations, SilenceFound, PTL

-----------------------------------------------------------------------------
(* A paced job, step by step *)

LEMMA TheReceived ==
    ASSUME TypeInv
    PROVE  /\ Received \subseteq DOMAIN trace
           /\ \A i \in Received : trace[i].topic = "order" /\ trace[i] \in Messages
           /\ \A i \in Received : i \in Nat /\ i <= Len(trace)
           /\ DOMAIN trace = 1 .. Len(trace) /\ Len(trace) \in Nat
           /\ inbox = << >> => Received = {i \in DOMAIN trace : trace[i].topic = "order"}
           /\ inbox # << >> => \A i \in Received : i < Len(trace)
BY FullReading DEF Received

(* Under Paced, a message is sent to an idle robot, ... *)
LEMMA PacedSend ==
    ASSUME Paced, TypeInv, [Next]_vars, NEW m \in Requests, Send(m)
    PROVE  /\ inbox = << >> /\ ~owing /\ ~closed
           /\ trace' = Append(trace, m) /\ inbox' = <<m>>
           /\ trace'[Len(trace')] = m /\ Len(trace') = Len(trace) + 1 /\ trace' # << >>
           /\ Received' = Received
           /\ UNCHANGED <<author, closed, robot, owing, ignored>>
<1>1. /\ inbox = << >> /\ ~owing /\ ~closed
      /\ trace' = Append(trace, m) /\ inbox' = Append(inbox, m)
      /\ UNCHANGED <<author, closed, robot, owing, ignored>>
  BY DEF Send, Capture, Idle
<1>2. m \in Messages /\ trace \in Seq(Messages)
  BY DEF TypeInv, Messages
<1>3. /\ Len(trace') = Len(trace) + 1 /\ trace'[Len(trace) + 1] = m
      /\ DOMAIN trace = 1 .. Len(trace) /\ DOMAIN trace' = 1 .. Len(trace) + 1 /\ Len(trace) \in Nat
      /\ \A i \in DOMAIN trace : trace'[i] = trace[i]
  BY <1>1, <1>2, Appended
<1>4. inbox' = <<m>> /\ inbox' # << >>
  BY <1>1
<1>5. \A i : i \in Received' <=> i \in Received
  BY <1>1, <1>3, <1>4 DEF Received
<1>6. Received' = Received
  BY <1>5
<1>7. trace' # << >>
  BY <1>3
<1> QED
  BY <1>1, <1>3, <1>4, <1>6, <1>7

(* ... a message received was sent last, ... *)
LEMMA PacedReceive ==
    ASSUME Paced, TypeInv, PaceInv, inbox # << >>, trace' = trace, inbox' = Tail(inbox)
    PROVE  LET n == Len(trace)
           IN /\ n \in DOMAIN trace /\ Head(inbox) = trace[n] /\ inbox' = << >>
              /\ \A i \in Received : i < n
              /\ Received' = Received \cup (IF Head(inbox).topic = "order" THEN {n} ELSE {})
<1> DEFINE n == Len(trace)
<1>1. trace # << >> /\ inbox = <<trace[n]>>
  BY DEF PaceInv
<1>2. n \in DOMAIN trace /\ DOMAIN trace = 1 .. n /\ n \in Nat \ {0}
  <2>1. trace \in Seq(Messages)
    BY DEF TypeInv
  <2> QED
    BY <1>1, <2>1
<1>3. Head(inbox) = trace[n] /\ inbox' = << >>
  BY <1>1
<1> HIDE DEF n
<1>4. \A i : i \in Received' <=> i \in DOMAIN trace /\ trace[i].topic = "order"
  BY <1>3 DEF Received
<1>5. \A i : i \in Received <=> i \in DOMAIN trace /\ trace[i].topic = "order" /\ i < n
  BY DEF Received, n
<1>6. Received' = Received \cup (IF Head(inbox).topic = "order" THEN {n} ELSE {})
  BY <1>2, <1>3, <1>4, <1>5
<1> QED
  BY <1>2, <1>3, <1>5, <1>6 DEF n

(* ... and a state says what is news. *)
LEMMA PacedPublish ==
    ASSUME Paced, TypeInv, [Next]_vars, PublishState
    PROVE  /\ inbox = << >> /\ owing /\ ~closed /\ owing' = FALSE
           /\ trace' = Append(trace, StateEvent)
           /\ Len(trace) \in Nat /\ DOMAIN trace = 1 .. Len(trace)
           /\ DOMAIN trace' = 1 .. Len(trace) + 1
           /\ \A i \in DOMAIN trace : trace'[i] = trace[i]
           /\ trace'[Len(trace) + 1] = StateEvent
           /\ StateEvent.topic = "state" /\ StateEvent.request = robot.request
           /\ StateEvent.order = robot.order /\ StateEvent.update = robot.update
           /\ StateEvent.warning = robot.warning
           /\ Received' = Received
           /\ UNCHANGED <<author, closed, inbox, robot, ignored>>
<1>1. /\ inbox = << >> /\ owing /\ ~closed /\ owing' = FALSE
      /\ trace' = Append(trace, StateEvent)
      /\ UNCHANGED <<author, closed, inbox, robot, ignored>>
  BY DEF PublishState, Capture
<1>2. StateEvent \in Messages /\ trace \in Seq(Messages)
  BY RobotStates DEF TypeInv, Messages
<1>3. /\ StateEvent.topic = "state" /\ StateEvent.request = robot.request
      /\ StateEvent.order = robot.order /\ StateEvent.update = robot.update
      /\ StateEvent.warning = robot.warning
  BY DEF StateEvent
<1>4. /\ trace'[Len(trace) + 1] = StateEvent
      /\ DOMAIN trace = 1 .. Len(trace) /\ DOMAIN trace' = 1 .. Len(trace) + 1 /\ Len(trace) \in Nat
      /\ \A i \in DOMAIN trace : trace'[i] = trace[i]
  BY <1>1, <1>2, Appended
<1>5. \A i : i \in Received' <=> i \in Received
  BY <1>1, <1>3, <1>4 DEF Received
<1> QED
  BY <1>1, <1>3, <1>4, <1>5

(* What an order does to the robot. *)
LEMMA RobotTakes ==
    ASSUME TypeInv, ReceiveOrder, NEW m, m = Head(inbox)
    PROVE  /\ m \in Messages /\ m.topic = "order" /\ m.order = <<Order>>
           /\ robot'.cancels = robot.cancels /\ robot'.finished = robot.finished
           /\ \/ /\ Holds(m)
                 /\ robot'.order = robot.order /\ robot'.update = robot.update
                 /\ robot'.content = robot.content /\ robot'.request = robot.request
                 /\ robot'.warning <=>
                       robot.warning \/ robot.content[1].control # m.content.control
              \/ ~Holds(m) /\ m.update = Unknown /\ robot' = robot
              \/ /\ ~Holds(m) /\ m.update # Unknown
                 /\ robot'.order = <<Order>> /\ robot'.update = m.update
                 /\ robot'.content = <<m.content>>
                 /\ robot'.warning = FALSE /\ robot'.request = FALSE
<1>1. m \in Messages /\ m.topic = "order" /\ inbox # << >>
  BY DEF ReceiveOrder, TypeInv, Messages
<1>2. m.order = <<Order>>
  BY <1>1, OrderFields
<1>3. robot \in Robots /\ robot.warning \in BOOLEAN
  BY DEF TypeInv, Robots
<1>4. CASE Holds(m)
  <2>1. robot' = [robot EXCEPT !.warning = @ \/ robot.content[1].control # m.content.control]
    BY <1>4 DEF ReceiveOrder
  <2> QED
    BY <1>1, <1>2, <1>3, <1>4, <2>1 DEF Robots
<1>5. CASE ~Holds(m) /\ m.update = Unknown
  BY <1>1, <1>2, <1>5 DEF ReceiveOrder
<1>6. CASE ~Holds(m) /\ m.update # Unknown
  <2>1. robot' = [robot EXCEPT !.order = m.order, !.update = m.update,
                               !.content = <<m.content>>, !.warning = FALSE,
                               !.request = FALSE]
    BY <1>6 DEF ReceiveOrder
  <2> QED
    BY <1>1, <1>2, <1>3, <1>6, <2>1 DEF Robots
<1> QED
  BY <1>4, <1>5, <1>6

(* The steps a paced job knows, apart from those above: the robot takes        *)
(* something else than an order, or nothing is sent.                          *)
SameJob ==
    /\ robot'.order = robot.order /\ robot'.update = robot.update
    /\ robot'.content = robot.content /\ robot'.warning = robot.warning

Drains ==
    /\ inbox # << >> /\ Head(inbox).topic # "order"
    /\ trace' = trace /\ inbox' = Tail(inbox) /\ closed' = closed
    /\ SameJob /\ robot'.request = robot.request
    /\ owing => owing'

Rests ==
    /\ trace' = trace /\ inbox' = inbox /\ SameJob
    /\ robot.request => robot'.request
    /\ owing => owing'
    /\ closed' => closed \/ (Grace => AllAnswered /\ robot' = robot)

LEMMA Steps ==
    ASSUME TypeInv, [Next]_vars
    PROVE  \/ \E m \in Requests : Send(m)
           \/ ReceiveOrder \/ PublishState \/ Drains \/ Rests
<1>1. CASE SendOrder
  <2>1. PICK u \in Updates, content \in Contents : Send(OrderEvent(u, content))
    BY <1>1 DEF SendOrder
  <2> QED
    BY <2>1 DEF Requests
<1>2. CASE SendCancel
  <2>1. PICK a \in Actions : Send(CancelEvent(a))
    BY <1>2 DEF SendCancel
  <2> QED
    BY <2>1 DEF Requests
<1>3. CASE ReceiveCancel
  <2>1. SameJob /\ robot'.request = robot.request
    BY <1>3 DEF ReceiveCancel, TypeInv, Robots, SameJob
  <2> QED
    BY <1>3, <2>1 DEF ReceiveCancel, Drains
<1>4. CASE IgnoreCancel
  BY <1>4 DEF IgnoreCancel, Drains, SameJob
<1>5. CASE EndCancel
  <2>1. SameJob /\ robot'.request = robot.request
    BY <1>5 DEF EndCancel, TypeInv, Robots, SameJob
  <2> QED
    BY <1>5, <2>1 DEF EndCancel, Rests
<1>6. CASE NeedBase
  <2>1. SameJob /\ robot'.request = TRUE
    BY <1>6 DEF NeedBase, TypeInv, Robots, SameJob
  <2> QED
    BY <1>6, <2>1 DEF NeedBase, Rests
<1>7. CASE CloseCapture
  BY <1>7 DEF CloseCapture, Rests, SameJob
<1>8. CASE UNCHANGED vars
  BY <1>8 DEF vars, Rests, SameJob
<1> QED
  BY <1>1, <1>2, <1>3, <1>4, <1>5, <1>6, <1>7, <1>8 DEF Next

LEMMA PaceStep ==
    ASSUME TypeInv, PaceInv, [Next]_vars
    PROVE  PaceInv'
<1> SUFFICES ASSUME Paced PROVE inbox' = << >> \/ (trace' # << >> /\ inbox' = <<trace'[Len(trace')]>>)
  BY DEF PaceInv
<1>1. ASSUME NEW m \in Requests, Send(m)
      PROVE  trace' # << >> /\ inbox' = <<trace'[Len(trace')]>>
  BY <1>1, PacedSend
<1>2. CASE ReceiveOrder
  BY <1>2, PacedReceive DEF ReceiveOrder
<1>3. CASE Drains
  BY <1>3, PacedReceive DEF Drains
<1>4. CASE PublishState
  BY <1>4, PacedPublish
<1>5. CASE Rests
  BY <1>5 DEF Rests, PaceInv
<1> QED
  BY <1>1, <1>2, <1>3, <1>4, <1>5, Steps

(* Where the orders received stand before and after a step that takes none. *)
LEMMA NoOrderTaken ==
    ASSUME Paced, TypeInv, PaceInv, [Next]_vars,
           (\E m \in Requests : Send(m)) \/ PublishState \/ Drains \/ Rests
    PROVE  /\ Received' = Received /\ SameJob
           /\ \A i \in DOMAIN trace : i \in DOMAIN trace' /\ trace'[i] = trace[i]
           /\ Received \subseteq DOMAIN trace
<1> SUFFICES Received' = Received /\ SameJob
  BY EndedStands, TheReceived
<1>1. CASE \E m \in Requests : Send(m)
  BY <1>1, PacedSend DEF SameJob
<1>2. CASE PublishState
  BY <1>2, PacedPublish DEF SameJob
<1>3. CASE Drains
  <2>1. Received' = Received \cup {}
    BY <1>3, PacedReceive DEF Drains
  <2> QED
    BY <1>3, <2>1 DEF Drains
<1>4. CASE Rests
  BY <1>4 DEF Rests, Received
<1> QED
  BY <1>1, <1>2, <1>3, <1>4

(* An order taken is the last message. *)
LEMMA OrderTaken ==
    ASSUME Paced, TypeInv, PaceInv, ReceiveOrder
    PROVE  LET n == Len(trace)
           IN /\ n \in DOMAIN trace /\ Head(inbox) = trace[n] /\ inbox' = << >>
              /\ trace[n].topic = "order" /\ trace[n].order = <<Order>>
              /\ trace' = trace /\ closed' = closed /\ owing' = TRUE
              /\ \A i \in Received : i < n
              /\ Received' = Received \cup {n}
BY PacedReceive, RobotTakes DEF ReceiveOrder

LEMMA HoldsStep ==
    ASSUME Paced, TypeInv, PaceInv, HoldsInv, [Next]_vars
    PROVE  HoldsInv'
<1>1. CASE ~ReceiveOrder
  BY <1>1, Steps, NoOrderTaken DEF SameJob, HoldsInv
<1>2. CASE ReceiveOrder
  <2> DEFINE n == Len(trace)
             m == trace[n]
  <2>1. /\ n \in DOMAIN trace /\ Head(inbox) = m /\ trace' = trace
        /\ \A i \in Received : i < n
        /\ Received' = Received \cup {n} /\ m.topic = "order" /\ m.order = <<Order>>
    BY <1>2, OrderTaken
  <2>2. n \in Nat /\ \A i \in Received : i \in Nat
    BY TheReceived
  <2> HIDE DEF n, m
  <2>3. CASE /\ Holds(m)
             /\ robot'.order = robot.order /\ robot'.update = robot.update
             /\ robot'.content = robot.content
    <3>1. robot.order = <<Order>> /\ robot.update = m.update
      BY <2>1, <2>3 DEF Holds
    <3>2. robot.update # Unknown
      BY <3>1, ConstantsOK DEF HoldsInv
    <3>3. ASSUME NEW i \in Received', trace'[i].update # Unknown
          PROVE  \E j \in Received' : i <= j /\ trace'[j].update = robot'.update
      <4>1. CASE i \in Received
        BY <2>1, <2>3, <3>3, <4>1 DEF HoldsInv
      <4>2. CASE i = n
        BY <2>1, <2>2, <2>3, <3>1, <4>2 DEF m
      <4> QED
        BY <2>1, <4>1, <4>2
    <3>4. \E i \in Received' : /\ trace'[i].update = robot'.update
                               /\ robot'.content = <<trace'[i].content>>
      BY <2>1, <2>3, <3>2 DEF HoldsInv
    <3> QED
      BY <2>3, <3>1, <3>2, <3>3, <3>4 DEF HoldsInv
  <2>4. CASE ~Holds(m) /\ m.update = Unknown /\ robot' = robot
    <3>1. \A i \in Received' : trace'[i].update # Unknown => i \in Received
      BY <2>1, <2>4 DEF m
    <3> QED
      BY <2>1, <2>4, <3>1 DEF HoldsInv
  <2>5. CASE /\ m.update # Unknown /\ robot'.order = <<Order>> /\ robot'.update = m.update
             /\ robot'.content = <<m.content>>
    <3>1. \A i \in Received' : i <= n
      BY <2>1, <2>2
    <3>2. n \in Received' /\ trace'[n] = m
      BY <2>1 DEF m
    <3> QED
      BY <2>5, <3>1, <3>2 DEF HoldsInv
  <2> QED
    BY <1>2, <2>1, <2>3, <2>4, <2>5, RobotTakes
<1> QED
  BY <1>1, <1>2

LEMMA SaidStep ==
    ASSUME Paced, TypeInv, PaceInv, HoldsInv, SaidInv, [Next]_vars
    PROVE  SaidInv'
<1>1. CASE ReceiveOrder
  BY <1>1 DEF ReceiveOrder, SaidInv
<1>2. CASE PublishState
  <2>0. /\ Len(trace) \in Nat /\ DOMAIN trace' = 1 .. Len(trace) + 1
        /\ trace'[Len(trace) + 1] = StateEvent /\ robot' = robot /\ Received' = Received
    BY <1>2, PacedPublish
  <2>1. PICK k \in Nat : k = Len(trace) + 1
    BY <2>0
  <2>2. k \in DOMAIN trace' /\ trace'[k] = StateEvent /\ robot' = robot
    BY <2>0, <2>1
  <2>3. Said(k)'
    BY <1>2, <2>2, PacedPublish DEF Said
  <2>4. \A i \in Received' : i < k
    <3>1. \A i \in Received : i \in Nat /\ i <= Len(trace)
      BY TheReceived
    <3> QED
      BY <2>0, <2>1, <3>1
  <2> QED
    BY <2>2, <2>3, <2>4 DEF SaidInv
<1>3. CASE (\E m \in Requests : Send(m)) \/ Drains \/ Rests
  <2>1. owing => owing'
    BY <1>3, PacedSend DEF Drains, Rests
  <2>2. \A k \in DOMAIN trace : Said(k) => k \in DOMAIN trace' /\ Said(k)'
    BY <1>3, NoOrderTaken DEF Said, SameJob
  <2> QED
    BY <1>3, <2>1, <2>2, NoOrderTaken DEF SaidInv
<1> QED
  BY <1>1, <1>2, <1>3, Steps

(* A request is withdrawn by a new update only. *)
LEMMA BaseStep ==
    ASSUME Paced, TypeInv, PaceInv, BaseInv, [Next]_vars
    PROVE  BaseInv'
<1>1. /\ \A i \in DOMAIN trace : i \in DOMAIN trace' /\ trace'[i] = trace[i]
      /\ closed => closed' /\ trace' = trace
      /\ DOMAIN trace = 1 .. Len(trace) /\ Len(trace) \in Nat
  BY EndedStands, TraceStep
<1>2. \A i \in DOMAIN trace : BaseAsked(i)' => BaseAsked(i)
  BY <1>1 DEF BaseAsked
<1>3. ASSUME NEW i \in DOMAIN trace', BaseAsked(i)' PROVE robot'.request
  <2>1. CASE \E m \in Requests : Send(m)
    <3>1. PICK m \in Requests : Send(m)
      BY <2>1
    <3>2. /\ trace'[Len(trace')] = m /\ Len(trace') = Len(trace) + 1 /\ robot' = robot
      BY <3>1, PacedSend
    <3>3. m.topic # "state"
      BY Topics DEF Messages
    <3>4. i # Len(trace')
      BY <1>3, <3>2, <3>3 DEF BaseAsked
    <3>5. DOMAIN trace' = 1 .. Len(trace')
      BY EndedStands
    <3>6. i \in DOMAIN trace
      BY <1>1, <3>2, <3>4, <3>5
    <3> QED
      BY <1>2, <1>3, <3>2, <3>6 DEF BaseInv
  <2>2. CASE PublishState
    <3>1. /\ DOMAIN trace' = 1 .. Len(trace) + 1 /\ robot' = robot
          /\ trace'[Len(trace) + 1] = StateEvent /\ StateEvent.request = robot.request
      BY <2>2, PacedPublish
    <3>2. CASE i = Len(trace) + 1
      BY <1>3, <3>1, <3>2 DEF BaseAsked
    <3>3. CASE i \in DOMAIN trace
      BY <1>2, <1>3, <3>1, <3>3 DEF BaseInv
    <3> QED
      BY <1>1, <3>1, <3>2, <3>3
  <2>3. CASE ReceiveOrder
    <3>1. /\ Len(trace) \in DOMAIN trace /\ trace[Len(trace)].topic = "order" /\ trace' = trace
      BY <2>3, OrderTaken
    <3>2. i = Len(trace)
      BY <1>1, <1>3, <3>1 DEF BaseAsked
    <3> QED
      BY <1>3, <3>1, <3>2 DEF BaseAsked
  <2>4. CASE Drains \/ Rests
    BY <1>2, <1>3, <2>4 DEF Drains, Rests, BaseInv
  <2> QED
    BY <2>1, <2>2, <2>3, <2>4, Steps
<1>4. ASSUME closed', Grace, NEW i \in DOMAIN trace' PROVE ~BaseAsked(i)'
  <2>1. CASE closed
    BY <1>1, <1>2, <1>4, <2>1 DEF BaseInv
  <2>2. CASE ~closed
    <3>1. Rests
      BY <1>4, <2>2, Steps, PacedSend, PacedPublish, OrderTaken DEF Drains
    <3>2. robot' = robot /\ ~robot.request /\ trace' = trace
      BY <1>4, <2>2, <3>1 DEF Rests, AllAnswered
    <3> QED
      BY <1>3, <1>4, <3>2
  <2> QED
    BY <2>1, <2>2
<1> QED
  BY <1>3, <1>4 DEF BaseInv

LEMMA ReturnSeen ==
    ASSUME NEW i \in DOMAIN trace, NEW j \in DOMAIN trace, NEW k \in DOMAIN trace, i < j, j < k,
           trace[i].topic = "order", trace[j].topic = "order", trace[k].topic = "order",
           SameKnown(i, k), trace[j].update # Unknown, trace[j].update # trace[i].update
    PROVE  Returned
BY DEF Returned, SameKnown

LEMMA ReturnStands ==
    ASSUME TypeInv, [Next]_vars, Returned
    PROVE  Returned'
<1>1. PICK i \in DOMAIN trace, j \in DOMAIN trace, k \in DOMAIN trace :
        /\ i < j /\ j < k
        /\ trace[i].topic = "order" /\ trace[j].topic = "order" /\ trace[k].topic = "order"
        /\ trace[i].update # Unknown /\ trace[j].update # Unknown /\ trace[k].update # Unknown
        /\ trace[i].update = trace[k].update /\ trace[i].update # trace[j].update
  BY DEF Returned
<1>2. \A l \in {i, j, k} : l \in DOMAIN trace' /\ trace'[l] = trace[l]
  BY EndedStands
<1> QED
  BY <1>1, <1>2 DEF Returned

LEMMA WarnedStands ==
    ASSUME TypeInv, [Next]_vars, NEW i \in DOMAIN trace, Warned(i)
    PROVE  Warned(i)'
<1>1. /\ DOMAIN trace = 1 .. Len(trace) /\ DOMAIN trace' = 1 .. Len(trace')
      /\ Len(trace) \in Nat /\ Len(trace') \in Nat
      /\ \A l \in DOMAIN trace : l \in DOMAIN trace' /\ trace'[l] = trace[l]
  BY EndedStands
<1>2. PICK k \in DOMAIN trace :
        /\ i < k /\ trace[k].topic = "state" /\ trace[k].order = <<Order>> /\ trace[k].warning
        /\ \A l \in DOMAIN trace : i < l /\ trace[l].topic = "state" => k <= l
  BY DEF Warned
<1>3. ASSUME NEW l \in DOMAIN trace', i < l, trace'[l].topic = "state" PROVE k <= l
  <2>1. CASE l \in DOMAIN trace
    BY <1>1, <1>2, <1>3, <2>1
  <2>2. CASE l \notin DOMAIN trace
    BY <1>1, <1>2, <2>2
  <2> QED
    BY <2>1, <2>2
<1> QED
  BY <1>1, <1>2, <1>3 DEF Warned

(* A state that follows a changed order as the first carries the warning. *)
LEMMA WarningPublished ==
    ASSUME Paced, TypeInv, [Next]_vars, PublishState,
           NEW i \in DOMAIN trace, Unanswered(i), robot.warning, robot.order = <<Order>>
    PROVE  Warned(i)'
<1>1. /\ Len(trace) \in Nat /\ DOMAIN trace = 1 .. Len(trace)
      /\ DOMAIN trace' = 1 .. Len(trace) + 1
      /\ \A l \in DOMAIN trace : trace'[l] = trace[l]
  BY PacedPublish
<1>2. PICK k \in Nat : k = Len(trace) + 1
  BY <1>1
<1>3. /\ trace'[k].topic = "state" /\ trace'[k].order = <<Order>> /\ trace'[k].warning
      /\ k \in DOMAIN trace' /\ i < k
  <2>1. /\ trace'[Len(trace) + 1] = StateEvent /\ StateEvent.topic = "state"
        /\ StateEvent.order = robot.order /\ StateEvent.warning = robot.warning
    BY PacedPublish
  <2> QED
    BY <1>1, <1>2, <2>1
<1>4. ASSUME NEW l \in DOMAIN trace', i < l, trace'[l].topic = "state" PROVE k <= l
  <2>1. l \notin DOMAIN trace
    BY <1>1, <1>4 DEF Unanswered
  <2> QED
    BY <1>1, <1>2, <2>1
<1> QED
  BY <1>3, <1>4 DEF Warned

LEMMA WarningKept ==
    ASSUME Paced, TypeInv, CancelInv, PaceInv, WarningInv, [Next]_vars, ~Returned',
           (\E m \in Requests : Send(m)) \/ PublishState \/ Drains \/ Rests
    PROVE  WarningInv'
<1>1. ~Returned
  BY ReturnStands
<1>2. /\ Received' = Received /\ SameJob
      /\ \A i \in DOMAIN trace : i \in DOMAIN trace' /\ trace'[i] = trace[i]
      /\ Received \subseteq DOMAIN trace
  BY NoOrderTaken
<1>3. \A i \in Received : ChangedAt(i)' <=> ChangedAt(i)
  BY <1>2 DEF ChangedAt, SameKnown
<1>4. \A i \in Received' :
         trace'[i].update = robot'.update /\ robot'.update # Unknown =>
             robot'.warning \/ trace'[i].content.control = robot'.content[1].control
  BY <1>1, <1>2 DEF WarningInv, SameJob
<1>5. ASSUME NEW i \in Received, ChangedAt(i)
      PROVE  \/ Warned(i)'
             \/ /\ inbox' = << >> /\ owing' /\ Unanswered(i)'
                /\ robot'.warning /\ robot'.order = <<Order>>
  <2>1. CASE Warned(i)
    BY <1>2, <2>1, WarnedStands
  <2>2. CASE /\ inbox = << >> /\ owing /\ Unanswered(i)
             /\ robot.warning /\ robot.order = <<Order>>
    <3>1. CASE PublishState
      BY <1>2, <2>2, <3>1, WarningPublished
    <3>2. CASE Rests
      BY <2>2, <3>2 DEF Rests, SameJob, Unanswered
    <3>3. ~Drains /\ ~\E m \in Requests : Send(m)
      BY <2>2, PacedSend DEF Drains
    <3> QED
      BY <3>1, <3>2, <3>3
  <2> QED
    BY <1>1, <1>5, <2>1, <2>2 DEF WarningInv
<1>6. ASSUME closed', Grace, NEW i \in Received, ChangedAt(i) PROVE Warned(i)'
  <2>1. Warned(i)
    <3>1. CASE closed
      BY <1>1, <1>6, <3>1 DEF WarningInv
    <3>2. CASE ~closed
      <4>1. Rests
        BY <1>6, <3>2, PacedSend, PacedPublish DEF Drains
      <4>2. ~owing
        BY <1>6, <3>2, <4>1 DEF Rests, AllAnswered, Idle
      <4> QED
        BY <1>1, <1>6, <4>2 DEF WarningInv
    <3> QED
      BY <3>1, <3>2
  <2> QED
    BY <1>2, <2>1, WarnedStands
<1> QED
  BY <1>2, <1>3, <1>4, <1>5, <1>6 DEF WarningInv

(* While no update comes back, an order for an update sent before finds the   *)
(* robot holding it.                                                          *)
LEMMA StillHeld ==
    ASSUME Paced, TypeInv, PaceInv, HoldsInv, ReceiveOrder, ~Returned,
           NEW p \in Received, SameKnown(p, Len(trace))
    PROVE  /\ robot.update = trace[p].update /\ robot.update # Unknown
           /\ Holds(trace[Len(trace)])
<1> DEFINE n == Len(trace)
<1>1. n \in DOMAIN trace /\ trace[n].topic = "order" /\ trace[n].order = <<Order>>
      /\ \A i \in Received : i < n
  BY OrderTaken
<1>2. p \in DOMAIN trace /\ trace[p].topic = "order" /\ p \in Nat /\ n \in Nat
  BY TheReceived
<1>3. trace[p].update # Unknown /\ trace[p].update = trace[n].update
  BY DEF SameKnown
<1>4. PICK j \in Received : p <= j /\ trace[j].update = robot.update /\ robot.update # Unknown
  BY <1>3 DEF HoldsInv
<1>5. j \in DOMAIN trace /\ trace[j].topic = "order" /\ j \in Nat /\ j < n
  BY <1>1, TheReceived
<1> HIDE DEF n
<1>6. trace[j].update = trace[p].update
  <2> SUFFICES ASSUME trace[j].update # trace[p].update PROVE FALSE
    OBVIOUS
  <2>1. p < j
    BY <1>2, <1>4, <1>5
  <2> QED
    BY <1>1, <1>2, <1>4, <1>5, <2>1, ReturnSeen DEF n
<1>7. robot.order = <<Order>>
  BY <1>4 DEF HoldsInv
<1> QED
  BY <1>1, <1>3, <1>4, <1>6, <1>7 DEF Holds, n

LEMMA WarningTaken ==
    ASSUME Paced, TypeInv, CancelInv, PaceInv, HoldsInv, WarningInv, [Next]_vars,
           ReceiveOrder, ~Returned'
    PROVE  WarningInv'
<1>1. PICK n \in Nat :
        /\ n = Len(trace) /\ n \in DOMAIN trace /\ Head(inbox) = trace[n] /\ inbox' = << >>
        /\ trace[n].topic = "order" /\ trace[n].order = <<Order>>
        /\ trace' = trace /\ closed' = closed /\ owing' = TRUE
        /\ \A i \in Received : i < n
        /\ Received' = Received \cup {n}
  BY OrderTaken, TheReceived
<1>2. ~Returned /\ inbox # << >>
  BY ReturnStands DEF ReceiveOrder
<1>3. \A i \in Received : i \in DOMAIN trace /\ i \in Nat /\ i < n /\ trace[i].topic = "order"
  BY <1>1, TheReceived
<1>4. DOMAIN trace = 1 .. n
  BY <1>1, TheReceived
<1> DEFINE m == trace[n]
<1>5. m = Head(inbox)
  BY <1>1
<1>6. ASSUME NEW p \in Received, SameKnown(p, n)
      PROVE  robot.update = trace[p].update /\ robot.update # Unknown /\ Holds(m)
  BY <1>1, <1>2, <1>6, StillHeld
<1> HIDE DEF m
<1>7. ASSUME NEW i \in Received', trace'[i].update = robot'.update, robot'.update # Unknown
      PROVE  robot'.warning \/ trace'[i].content.control = robot'.content[1].control
  <2>1. CASE /\ Holds(m)
             /\ robot'.update = robot.update /\ robot'.content = robot.content
             /\ robot'.warning <=> robot.warning \/ robot.content[1].control # m.content.control
    <3>1. CASE i \in Received
      BY <1>1, <1>2, <1>7, <2>1, <3>1 DEF WarningInv
    <3>2. CASE i = n
      BY <1>1, <2>1, <3>2 DEF m
    <3> QED
      BY <1>1, <3>1, <3>2
  <2>2. CASE m.update = Unknown /\ robot' = robot
    BY <1>1, <1>2, <1>7, <2>2 DEF WarningInv, m
  <2>3. CASE ~Holds(m) /\ robot'.update = m.update /\ robot'.content = <<m.content>>
    <3>1. i = n
      <4> SUFFICES ASSUME i \in Received PROVE FALSE
        BY <1>1
      <4>1. SameKnown(i, n)
        BY <1>1, <1>7, <2>3 DEF SameKnown, m
      <4> QED
        BY <1>6, <2>3, <4>1
    <3> QED
      BY <1>1, <2>3, <3>1 DEF m
  <2> QED
    BY <1>5, <2>1, <2>2, <2>3, RobotTakes
<1>8. ASSUME NEW i \in Received, ChangedAt(i)' PROVE Warned(i)'
  <2>1. ChangedAt(i)
    BY <1>1, <1>3, <1>8 DEF ChangedAt, SameKnown
  <2>2. Warned(i)
    BY <1>2, <2>1 DEF WarningInv
  <2> QED
    BY <1>3, <2>2, WarnedStands
<1>9. ASSUME ChangedAt(n)'
      PROVE  robot'.warning /\ robot'.order = <<Order>> /\ Unanswered(n)'
  <2>1. PICK p \in Received : SameKnown(p, n) /\ trace[p].content.control # m.content.control
    BY <1>1, <1>9 DEF ChangedAt, SameKnown, m
  <2>2. robot.update = trace[p].update /\ robot.update # Unknown /\ Holds(m)
    BY <1>6, <2>1
  <2>3. robot.warning \/ trace[p].content.control = robot.content[1].control
    BY <1>2, <2>2 DEF WarningInv
  <2>4. /\ robot'.order = robot.order
        /\ robot'.warning <=> robot.warning \/ robot.content[1].control # m.content.control
    BY <1>5, <2>2, RobotTakes
  <2>5. robot.order = <<Order>>
    BY <2>2 DEF HoldsInv
  <2>6. Unanswered(n)'
    BY <1>1, <1>4 DEF Unanswered
  <2> QED
    BY <2>1, <2>3, <2>4, <2>5, <2>6
<1>10. ~(closed' /\ Grace)
  BY <1>1, <1>2 DEF CancelInv
<1> QED
  BY <1>1, <1>7, <1>8, <1>9, <1>10 DEF WarningInv

LEMMA PacedStep ==
    ASSUME TypeInv, CancelInv, PacedInv, [Next]_vars
    PROVE  PacedInv'
<1>1. PaceInv'
  BY PaceStep DEF PacedInv
<1>2. ASSUME Paced PROVE HoldsInv' /\ SaidInv' /\ BaseInv'
  BY <1>2, HoldsStep, SaidStep, BaseStep DEF PacedInv
<1>3. ASSUME Paced PROVE WarningInv'
  <2>1. CASE Returned'
    BY <2>1 DEF WarningInv
  <2>2. CASE ~Returned' /\ ReceiveOrder
    BY <1>3, <2>2, WarningTaken DEF PacedInv
  <2>3. CASE ~Returned' /\ ~ReceiveOrder
    BY <1>3, <2>3, WarningKept, Steps DEF PacedInv
  <2> QED
    BY <2>1, <2>2, <2>3
<1> QED
  BY <1>1, <1>2, <1>3 DEF PacedInv

LEMMA PacedJob == Spec => []PacedInv
<1>1. Init => PacedInv
  <2> SUFFICES ASSUME Init PROVE PacedInv
    OBVIOUS
  <2>1. /\ trace = << >> /\ inbox = << >> /\ closed = FALSE
        /\ robot.order = <<"none">> /\ robot.update = Unknown
    BY DEF Init
  <2>2. DOMAIN trace = {} /\ Received = {}
    BY <2>1 DEF Received
  <2> QED
    BY <2>1, <2>2 DEF PacedInv, PaceInv, HoldsInv, SaidInv, BaseInv, WarningInv
<1> QED
  BY <1>1, TypeOK, Cancellations, PacedStep, PTL DEF Spec

(* Only a robot with an order asks for a base, at any pace. *)
RequestInv ==
    /\ robot.update # Unknown => robot.order = <<Order>>
    /\ robot.request => robot.update # Unknown
    /\ \A i \in DOMAIN trace :
           trace[i].topic = "state" /\ trace[i].request => trace[i].order = <<Order>>

LEMMA RequestStep ==
    ASSUME TypeInv, RequestInv, [Next]_vars
    PROVE  RequestInv'
<1>1. ASSUME trace' = trace, robot'.update # Unknown => robot'.order = <<Order>>,
             robot'.request => robot'.update # Unknown
      PROVE  RequestInv'
  BY <1>1 DEF RequestInv
<1>2. CASE ReceiveOrder
  <2>1. robot.request \in BOOLEAN /\ trace' = trace
    BY <1>2 DEF ReceiveOrder, TypeInv, Robots
  <2> QED
    BY <1>1, <1>2, <2>1, RobotTakes DEF RequestInv
<1>3. CASE NeedBase
  <2>1. robot'.update = robot.update /\ robot'.order = robot.order /\ robot.update # Unknown
        /\ trace' = trace
    BY <1>3 DEF NeedBase, TypeInv, Robots
  <2> QED
    BY <1>1, <2>1 DEF RequestInv
<1>4. CASE ReceiveCancel \/ EndCancel
  <2>1. robot'.update = robot.update /\ robot'.order = robot.order
        /\ robot'.request = robot.request /\ trace' = trace
    BY <1>4 DEF ReceiveCancel, EndCancel, TypeInv, Robots
  <2> QED
    BY <1>1, <2>1 DEF RequestInv
<1>5. CASE IgnoreCancel \/ CloseCapture \/ UNCHANGED vars
  BY <1>1, <1>5 DEF IgnoreCancel, CloseCapture, vars, RequestInv
<1>6. ASSUME NEW m \in Messages, m.topic = "state" /\ m.request => m.order = <<Order>>,
             trace' = Append(trace, m), robot' = robot
      PROVE  RequestInv'
  <2>1. /\ DOMAIN trace = 1 .. Len(trace) /\ DOMAIN trace' = 1 .. Len(trace) + 1
        /\ Len(trace) \in Nat /\ trace'[Len(trace) + 1] = m
        /\ \A i \in DOMAIN trace : trace'[i] = trace[i]
    BY <1>6, Appended DEF TypeInv
  <2>2. \A i \in DOMAIN trace' : i \in DOMAIN trace \/ i = Len(trace) + 1
    BY <2>1
  <2> QED
    BY <1>6, <2>1, <2>2 DEF RequestInv
<1>7. ASSUME NEW m \in Requests, Send(m) PROVE RequestInv'
  <2>1. m \in Messages /\ m.topic # "state"
    BY Topics DEF Messages
  <2> QED
    BY <1>6, <1>7, <2>1 DEF Send, Capture
<1>8. CASE PublishState
  <2>1. StateEvent \in Messages
    BY RobotStates DEF TypeInv, Messages
  <2>2. StateEvent.request => StateEvent.order = <<Order>>
    BY DEF StateEvent, RequestInv
  <2> QED
    BY <1>6, <1>8, <2>1, <2>2 DEF PublishState, Capture
<1>9. CASE SendOrder
  <2>1. PICK u \in Updates, content \in Contents : Send(OrderEvent(u, content))
    BY <1>9 DEF SendOrder
  <2> QED
    BY <1>7, <2>1 DEF Requests
<1>10. CASE SendCancel
  <2>1. PICK a \in Actions : Send(CancelEvent(a))
    BY <1>10 DEF SendCancel
  <2> QED
    BY <1>7, <2>1 DEF Requests
<1> QED
  BY <1>2, <1>3, <1>4, <1>5, <1>8, <1>9, <1>10 DEF Next

LEMMA BaseRequests == Spec => []RequestInv
<1>1. Init => RequestInv
  BY DEF Init, RequestInv
<1> QED
  BY <1>1, TypeOK, RequestStep, PTL DEF Spec

-----------------------------------------------------------------------------
(* Who is blamed *)

LEMMA Unblamed ==
    ASSUME NEW target, target \in Blamed(Report(Full)), TypeInv
    PROVE  \E f \in Analyze(TheTrace) : f.verdict = "FAIL" /\ f.target = target
BY FullReading DEF Blamed

(* A repeat with other content is one of the trace. *)
LEMMA ChangedInTrace ==
    ASSUME TypeInv, NEW i \in Changed(TheTrace), NEW p, p = Previous(TheTrace, i)
    PROVE  /\ p \in DOMAIN trace /\ i \in DOMAIN trace /\ p < i
           /\ trace[p].topic = "order" /\ trace[i].topic = "order"
           /\ SameKnown(p, i) /\ trace[p].content.control # trace[i].content.control
<1> DEFINE d == TheTrace
<1>1. i \in Repeats(d) /\ RepeatRelation(d, i) = "CHANGED"
  BY DEF Changed
<1>2. p \in EarlierSameUpdate(d, i) /\ p < i /\ i \in Events(d, "order")
  BY <1>1, FullReading, PreviousIsLast DEF Repeats
<1>3. /\ p \in Events(d, "order") /\ SameUpdate(d.events[p], d.events[i])
      /\ d.events[p].content.control # d.events[i].content.control
  BY <1>1, <1>2 DEF EarlierSameUpdate, RepeatRelation, Relation
<1>4. /\ p \in DOMAIN trace /\ i \in DOMAIN trace
      /\ trace[p].topic = "order" /\ trace[i].topic = "order"
      /\ SameReading(trace[p], d.events[p]) /\ SameReading(trace[i], d.events[i])
  BY <1>2, <1>3, FullReading
<1> QED
  BY <1>2, <1>3, <1>4 DEF SameReading, SameUpdate, SameId, SameKnown

LEMMA FleetBlame ==
    ASSUME Paced, Grace, TypeInv, RequestInv, PacedInv
    PROVE  FleetBlameIsTrue
<1> SUFFICES ASSUME NEW f \in Analyze(TheTrace), f.verdict = "FAIL", f.target = "FLEET_CONTROL"
             PROVE  \E i, j \in {k \in DOMAIN trace : trace[k].topic = "order"} :
                        \/ trace[i].content.broken
                        \/ /\ trace[i].update = trace[j].update
                           /\ trace[i].content.control # trace[j].content.control
  BY Unblamed DEF FleetBlameIsTrue
<1> DEFINE i == f.event
<1>1. CASE i \in Changed(TheTrace)
  BY <1>1, ChangedInTrace DEF SameKnown
<1>2. CASE i \in Events(TheTrace, "order") /\ TheTrace.events[i].broken
  <2>1. /\ i \in DOMAIN trace /\ trace[i].topic = "order" /\ trace[i] \in Messages
        /\ SameReading(trace[i], TheTrace.events[i])
    BY <1>2, FullReading
  <2>2. trace[i].content.broken
    BY <1>2, <2>1, OrderFields DEF SameReading
  <2> QED
    BY <2>1, <2>2
<1>3. CASE /\ i \in Events(TheTrace, "state") /\ TheTrace.events[i].request
           /\ ~BaseAnswered(TheTrace, i) /\ AbsenceProvable(TheTrace, i)
  <2>1. /\ i \in DOMAIN trace /\ trace[i].topic = "state" /\ closed
        /\ SameReading(trace[i], TheTrace.events[i])
    BY <1>3, FullReading DEF AbsenceProvable
  <2>2. trace[i].request /\ trace[i].order = <<Order>>
    BY <1>3, <2>1 DEF SameReading, RequestInv
  <2>3. ASSUME NEW j \in DOMAIN trace, i < j, trace[j].topic = "order" PROVE FALSE
    <3>1. j \in After(TheTrace, i, "order") /\ SameReading(trace[j], TheTrace.events[j])
      BY <2>1, <2>3, FullReading DEF After
    <3>2. trace[j].order = <<Order>>
      BY <2>3, FullReading, OrderFields
    <3>3. CompatibleId(TheTrace.events[i].order, TheTrace.events[j].order)
      BY <2>1, <2>2, <2>3, <3>1, <3>2 DEF SameReading, CompatibleId
    <3> QED
      BY <1>3, <3>1, <3>3 DEF BaseAnswered
  <2>4. BaseAsked(i)
    BY <2>1, <2>2, <2>3 DEF BaseAsked
  <2> QED
    BY <2>1, <2>4 DEF PacedInv, BaseInv
<1>4. f.target # "MOBILE_ROBOT"
  OBVIOUS
<1> QED
  BY <1>1, <1>2, <1>3, <1>4, FailSources, FindingFields

LEMMA WarningSeen ==
    ASSUME TypeInv, NEW i \in DOMAIN trace, trace[i].topic = "order", Warned(i)
    PROVE  HasWarning(TheTrace, i)
<1> DEFINE d == TheTrace
<1>1. PICK k \in DOMAIN trace :
        /\ i < k /\ trace[k].topic = "state" /\ trace[k].order = <<Order>> /\ trace[k].warning
        /\ \A l \in DOMAIN trace : i < l /\ trace[l].topic = "state" => k <= l
  BY DEF Warned
<1>2. /\ \A l \in DOMAIN trace : l \in Nat /\ SameReading(trace[l], d.events[l])
      /\ Events(d, "state") = {l \in DOMAIN trace : trace[l].topic = "state"}
      /\ d.roles = TRUE
  <2>1. \A l \in DOMAIN trace : l \in Nat /\ SameReading(trace[l], d.events[l])
    BY FullReading
  <2> QED
    BY <2>1, FullReading
<1>3. trace[i].order = <<Order>>
  BY FullReading, OrderFields
<1> HIDE DEF d
<1>4. k \in Responses(d, i)
  BY <1>1, <1>2, <1>3 DEF Responses, After, CompatibleId, SameReading
<1>5. Responses(d, i) \in SUBSET Nat /\ \A l \in Responses(d, i) : k <= l
  BY <1>1, <1>2 DEF Responses, After
<1> DEFINE r == Min(Responses(d, i))
<1>6. r \in Responses(d, i) /\ \A l \in Responses(d, i) : r <= l
  BY <1>4, <1>5, Least
<1> HIDE DEF r
<1>7. r = k
  BY <1>1, <1>2, <1>4, <1>5, <1>6
<1>8. trace[k] \in States
  BY <1>1, FullReading, StateFields
<1>9. ReportsWarning(d, k)
  BY <1>1, <1>2, <1>8 DEF ReportsWarning, ProvenRole, SameReading, States
<1> QED
  BY <1>4, <1>7, <1>9 DEF HasWarning, r, d

LEMMA RobotCleared ==
    ASSUME Paced, Grace, TypeInv, CancelInv, PacedInv
    PROVE  SteadyRobotIsCleared
<1> SUFFICES ASSUME ~Returned, ignored = {},
                    NEW f \in Analyze(TheTrace), f.verdict = "FAIL", f.target = "MOBILE_ROBOT"
             PROVE  FALSE
  BY Unblamed DEF SteadyRobotIsCleared, RobotIsCleared
<1> DEFINE i == f.event
<1>1. CASE /\ i \in Changed(TheTrace)
           /\ ~HasWarning(TheTrace, i) /\ AbsenceProvable(TheTrace, i)
  <2>1. closed /\ inbox = << >>
    BY <1>1, FullReading DEF AbsenceProvable, CancelInv
  <2>2. PICK p : p = Previous(TheTrace, i)
    OBVIOUS
  <2>3. /\ p \in DOMAIN trace /\ i \in DOMAIN trace /\ p < i
        /\ trace[p].topic = "order" /\ trace[i].topic = "order"
        /\ SameKnown(p, i) /\ trace[p].content.control # trace[i].content.control
    BY <1>1, <2>2, ChangedInTrace
  <2>4. p \in Received /\ i \in Received
    BY <2>1, <2>3 DEF Received
  <2>5. ChangedAt(i)
    BY <2>3, <2>4 DEF ChangedAt
  <2>6. Warned(i)
    BY <2>1, <2>4, <2>5 DEF PacedInv, WarningInv
  <2> QED
    BY <1>1, <2>3, <2>6, WarningSeen
<1>2. CASE i \in Disconnections(TheTrace)
  <2>1. i \in DOMAIN trace /\ trace[i].topic = "connection" /\ trace[i] \in Messages
    BY <1>2, FullReading DEF Disconnections
  <2> QED
    BY <2>1, Topics
<1>3. CASE i \in Cancels(TheTrace) /\ ~CancelTerminated(TheTrace, i) /\ AbsenceProvable(TheTrace, i)
  <2>1. i \in DOMAIN trace /\ trace[i].topic = "instantActions" /\ trace[i] \in Messages /\ closed
    BY <1>3, FullReading DEF Cancels, AbsenceProvable
  <2>2. PICK a \in Actions : Asks(trace[i], a)
    BY <2>1, CancelIsAsked
  <2>3. Ended(i, a)
    BY <2>1, <2>2 DEF CancelInv
  <2> QED
    BY <1>3, <2>1, <2>2, <2>3, CancelReported
<1>4. f.target # "FLEET_CONTROL"
  OBVIOUS
<1> QED
  BY <1>1, <1>2, <1>3, <1>4, FailSources, FindingFields

(* FleetBlameIsTrue: in a paced job whose capture is held open until all is    *)
(* answered, a fleet control is blamed only for a broken graph or for two      *)
(* contents under one update.                                                 *)
THEOREM FleetBlameTrue == ASSUME Paced, Grace PROVE Spec => []FleetBlameIsTrue
<1>1. TypeInv /\ RequestInv /\ PacedInv => FleetBlameIsTrue
  BY FleetBlame
<1> QED
  BY <1>1, TypeOK, BaseRequests, PacedJob, PTL

(* SteadyRobotIsCleared: there, a conforming robot that is sent no update a    *)
(* second time after another is not blamed.                                   *)
THEOREM SteadyRobotCleared == ASSUME Paced, Grace PROVE Spec => []SteadyRobotIsCleared
<1>1. TypeInv /\ CancelInv /\ PacedInv => SteadyRobotIsCleared
  BY RobotCleared
<1> QED
  BY <1>1, TypeOK, Cancellations, PacedJob, PTL

-----------------------------------------------------------------------------
(* Changed content for an update the robot has reported is judged *)

(* A message sent to an idle robot is the only new one. *)
LEMMA SentToIdle ==
    ASSUME TypeInv, [Next]_vars, Idle, NEW i \in (DOMAIN trace') \ DOMAIN trace
    PROVE  i \in Nat /\ \A j \in DOMAIN trace : j \in Nat /\ j < i
<1>1. /\ DOMAIN trace = 1 .. Len(trace) /\ DOMAIN trace' = 1 .. Len(trace')
      /\ Len(trace) \in Nat /\ Len(trace') \in Nat
  BY EndedStands
<1> QED
  BY <1>1

LEMMA ChangeJudged ==
    ASSUME Paced, TypeInv, PacedInv, [Next]_vars, author = "robot", Idle,
           NEW i \in (DOMAIN trace') \ DOMAIN trace,
           trace'[i].topic = "order", Holds(trace'[i]),
           robot.content[1].control # trace'[i].content.control,
           \A j \in DOMAIN trace :
               trace[j].topic = "order" => trace[j].content.control = robot.content[1].control
    PROVE  \E f \in Report(Full)' :
               /\ f.rule = "VDA300-D1-MOBILE-ROBOT-CHANGED-RESPONSE"
               /\ f.event = i /\ f.verdict # "UNEVALUATED"
<1> DEFINE c == ContextOf(trace', closed', Full)
<1>1. Report(Full)' = Analyze(c)
  BY DEF Report, Full, Analyze
<1>2. /\ trace' \in Seq(Messages) /\ inbox = << >> /\ ~owing
      /\ \A j \in DOMAIN trace : j \in DOMAIN trace' /\ trace'[j] = trace[j]
  BY TraceStep, EndedStands DEF Idle
<1>3. /\ Numbered(c, Len(trace')) /\ DOMAIN c.events = DOMAIN trace' /\ c.roles = TRUE
      /\ \A j \in DOMAIN trace' : SameReading(trace'[j], c.events[j])
  BY <1>2, ContextReading, EvidenceOfFull
<1>4. \A j \in DOMAIN trace' : trace'[j] \in Messages
  BY <1>2
<1> HIDE DEF c
<1>5. \A topic : Events(c, topic) = {j \in DOMAIN trace' : trace'[j].topic = topic}
  BY <1>3 DEF Events, SameReading
<1>6. /\ trace'[i].order = <<Order>> /\ trace'[i].participant = <<"robot">>
      /\ robot.order = <<Order>> /\ robot.update = trace'[i].update
  BY <1>4, OrderFields DEF Holds
<1>7. \A j \in DOMAIN trace : j \in Nat /\ j < i /\ i \in Nat
  BY SentToIdle
<1>8. PICK p \in Received : trace[p].update = robot.update /\ robot.update # Unknown
  BY <1>6, ConstantsOK DEF PacedInv, HoldsInv
<1>9. p \in DOMAIN trace /\ trace[p].topic = "order" /\ trace[p].order = <<Order>>
  BY <1>8, TheReceived, OrderFields
<1>10. i \in Events(c, "order") /\ p \in EarlierSameUpdate(c, i)
  <2>1. SameUpdate(c.events[p], c.events[i])
    <3>1. SameReading(trace[p], c.events[p]) /\ SameReading(trace'[i], c.events[i])
      BY <1>2, <1>3, <1>9
    <3>2. <<Order>> # Unknown
      BY DEF Unknown
    <3> QED
      BY <1>6, <1>8, <1>9, <3>1, <3>2 DEF SameUpdate, SameId, SameReading
  <2> QED
    BY <1>2, <1>5, <1>7, <1>9, <2>1 DEF EarlierSameUpdate
<1> DEFINE q == Previous(c, i)
<1>11. i \in Repeats(c)
  BY <1>10 DEF Repeats
<1>12. q \in EarlierSameUpdate(c, i) /\ q < i
  BY <1>3, <1>11, PreviousIsLast
<1>13. q \in Events(c, "order")
  BY <1>12 DEF EarlierSameUpdate
<1> HIDE DEF q
<1>14. q \in DOMAIN trace /\ trace[q].topic = "order"
  <2>1. /\ DOMAIN trace = 1 .. Len(trace) /\ DOMAIN trace' = 1 .. Len(trace')
        /\ Len(trace) \in Nat /\ Len(trace') \in Nat
        /\ Len(trace') <= Len(trace) + 1
    <3>1. Len(trace') <= Len(trace) + 1
      <4>1. CASE \E m \in Requests : Send(m)
        BY <4>1, PacedSend
      <4>2. CASE PublishState
        BY <4>2, PacedPublish DEF Idle
      <4>3. CASE ReceiveOrder \/ Drains \/ Rests
        BY <4>3, EndedStands DEF ReceiveOrder, Drains, Rests
      <4> QED
        BY <4>1, <4>2, <4>3, Steps
    <3> QED
      BY <3>1, EndedStands
  <2>2. q \in DOMAIN trace' /\ trace'[q].topic = "order"
    BY <1>5, <1>13
  <2>3. q \in DOMAIN trace
    BY <1>12, <2>1, <2>2
  <2> QED
    BY <1>2, <2>2, <2>3
<1>15. c.events[q].content.control # c.events[i].content.control
  <2>1. SameReading(trace[q], c.events[q]) /\ SameReading(trace'[i], c.events[i])
    BY <1>2, <1>3, <1>14
  <2> QED
    BY <1>14, <2>1 DEF SameReading
<1>16. i \in Changed(c)
  BY <1>11, <1>15 DEF Changed, RepeatRelation, Relation, q
<1>17. PICK k \in DOMAIN trace : Said(k) /\ \A j \in Received : j < k
  BY <1>2, <1>8 DEF PacedInv, SaidInv
<1>18. q \in Received
  BY <1>2, <1>14, TheReceived
<1>19. CurrentOrderProven(c, i)
  <2>1. /\ trace'[k] = trace[k] /\ k \in DOMAIN trace' /\ trace[k].topic = "state"
        /\ trace[k].order = <<Order>> /\ trace[k].update = trace'[i].update
        /\ q < k /\ k < i
    BY <1>2, <1>6, <1>7, <1>17, <1>18 DEF Said
  <2>2. trace[k].role = <<"MOBILE_ROBOT">> /\ trace[k].participant = <<"robot">>
    BY <1>4, <2>1, StateFields DEF States
  <2>3. /\ SameReading(trace[k], c.events[k]) /\ SameReading(trace'[i], c.events[i])
        /\ k \in Events(c, "state")
    BY <1>3, <1>5, <2>1
  <2>4. ProvenRole(c, k, "MOBILE_ROBOT")
    BY <1>3, <2>2, <2>3 DEF SameReading, ProvenRole
  <2>5. SameKnownParticipant(c.events[i], c.events[k])
    <3>1. <<"robot">> # Unknown
      BY DEF Unknown
    <3> QED
      BY <1>6, <2>2, <2>3, <3>1 DEF SameReading, SameKnownParticipant
  <2>6. SameUpdate(c.events[i], c.events[k])
    <3>1. <<Order>> # Unknown /\ trace'[i].update # Unknown
      BY <1>6, <1>8 DEF Unknown
    <3> QED
      BY <1>6, <2>1, <2>3, <3>1 DEF SameReading, SameUpdate, SameId
  <2> QED
    BY <2>1, <2>3, <2>4, <2>5, <2>6 DEF CurrentOrderProven, q
<1> DEFINE f == ResponseFinding(c, i)
<1>20. f \in Analyze(c)
  BY <1>16 DEF Analyze, RepeatedOrderFindings
<1>21. /\ f.rule = "VDA300-D1-MOBILE-ROBOT-CHANGED-RESPONSE" /\ f.event = i
       /\ f.verdict # "UNEVALUATED"
  BY <1>19, FindingFields DEF ResponseFinding
<1> QED
  BY <1>1, <1>20, <1>21

(* ProvenOrderIsEvaluated: in a paced job whose orders name their addressee,    *)
(* changed content for an update the robot holds, and has published that it    *)
(* holds, comes to a verdict on the robot's response.                          *)
THEOREM ChangeEvaluated == ASSUME Paced PROVE Spec => ProvenOrderIsEvaluated
<1>1. TypeInv /\ PacedInv /\ [Next]_vars =>
        [\A i \in (DOMAIN trace') \ DOMAIN trace :
            /\ author = "robot" /\ trace'[i].topic = "order" /\ Idle /\ Holds(trace'[i])
            /\ robot.content[1].control # trace'[i].content.control
            /\ \A j \in DOMAIN trace :
                  trace[j].topic = "order" => trace[j].content.control = robot.content[1].control
            => \E f \in Report(Full)' :
                  /\ f.rule = "VDA300-D1-MOBILE-ROBOT-CHANGED-RESPONSE"
                  /\ f.event = i /\ f.verdict # "UNEVALUATED"]_vars
  BY ChangeJudged
<1> QED
  BY <1>1, TypeOK, PacedJob, PTL DEF Spec, ProvenOrderIsEvaluated
=============================================================================
