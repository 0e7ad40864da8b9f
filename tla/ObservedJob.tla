----------------------------- MODULE ObservedJob -----------------------------
(***************************************************************************)
(* One fleet control and one mobile robot as the offline Doctor judges them: *)
(* every message is captured when it reaches the broker, then delivered to   *)
(* the robot in order; the capture closes at some point and the rules of     *)
(* Doctor run over the trace, with any of the evidence a manifest can give.   *)
(*                                                                          *)
(* Both parties are outside the repository; the fields are those the Doctor  *)
(* reads.  The robot conforms: it reports SAME_ORDER_UPDATE_ID after changed  *)
(* content under an update id it holds, and ends every cancellation.          *)
(***************************************************************************)
EXTENDS Doctor, SequencesExt

CONSTANTS
    Order,           \* the job's orderId
    Updates,         \* its update ids, <<u>> or Unknown
    Contents,        \* records of control, extension and broken
    Actions,         \* ids of cancelOrder actions
    MaxEvents,       \* bound: captured messages
    Paced,           \* one message at a time, states only in answer
    Grace,           \* the capture stays open until all is answered
    Conforming       \* the robot drops no cancelOrder

ASSUME ConstantsOK ==
    /\ MaxEvents \in Nat /\ Order # "none"
    /\ {Paced, Grace, Conforming} \subseteq BOOLEAN

VARIABLES
    author,   \* who the evidence gives as an order's participant: its sender,
              \* as the repository's recorders do, or its addressee
    trace,    \* the captured events, in capture order
    closed,   \* the capture was closed
    inbox,    \* messages on their way to the robot
    robot,    \* what the robot reports in its states
    owing,    \* the robot has news it has not published
    ignored   \* cancelOrder actions the robot dropped

vars == <<author, trace, closed, inbox, robot, owing, ignored>>

OrderEvent(u, content) ==
    [topic |-> "order", role |-> <<"FLEET_CONTROL">>, participant |-> <<author>>,
     epoch |-> <<1>>, timed |-> TRUE,
     order |-> <<Order>>, update |-> u, content |-> content, broken |-> content.broken]

CancelEvent(a) ==
    [topic |-> "instantActions", role |-> <<"FLEET_CONTROL">>, participant |-> <<author>>,
     epoch |-> <<1>>, timed |-> TRUE, cancel |-> <<a>>]

StateEvent ==
    [topic |-> "state", role |-> <<"MOBILE_ROBOT">>, participant |-> <<"robot">>,
     epoch |-> <<1>>, timed |-> TRUE,
     order |-> robot.order, update |-> robot.update, request |-> robot.request,
     warning |-> robot.warning, finished |-> robot.finished]

-----------------------------------------------------------------------------
(* A trace context per evidence a manifest and its capture may give. *)

Evidence == [roles : BOOLEAN, confirmed : BOOLEAN, timed : BOOLEAN]

Full == [roles |-> TRUE, confirmed |-> TRUE, timed |-> TRUE]

ContextOf(events, isClosed, e) ==
    [events |-> [i \in DOMAIN events |-> [events[i] EXCEPT !.timed = e.timed]],
     closed |-> isClosed, confirmed |-> e.confirmed, roles |-> e.roles]

Report(e) == Analyze(ContextOf(trace, closed, e))

Blamed(findings) == {f.target : f \in {g \in findings : g.verdict = "FAIL"}}

-----------------------------------------------------------------------------
Init ==
    /\ author \in {"fleet", "robot"}
    /\ trace = << >> /\ closed = FALSE /\ inbox = << >>
    /\ robot = [order |-> <<"none">>, update |-> Unknown, content |-> Unknown,
                warning |-> FALSE, request |-> FALSE, cancels |-> {}, finished |-> {}]
    /\ owing = FALSE /\ ignored = {}

Capture(e) ==
    /\ ~closed /\ Len(trace) < MaxEvents
    /\ trace' = Append(trace, e)

Idle == inbox = << >> /\ ~owing

Send(e) ==
    /\ Paced => Idle
    /\ Capture(e)
    /\ inbox' = Append(inbox, e)
    /\ UNCHANGED <<author, closed, robot, owing, ignored>>

SendOrder == \E u \in Updates, content \in Contents : Send(OrderEvent(u, content))

SendCancel ==
    \E a \in Actions :
        /\ \A i \in DOMAIN trace : trace[i].topic = "instantActions" => trace[i].cancel # <<a>>
        /\ Send(CancelEvent(a))

Holds(m) == robot.order = m.order /\ robot.update = m.update

(* A known update: the warning, if what it controls changed; an update        *)
(* without an id is refused; any other is taken.                              *)
ReceiveOrder ==
    /\ inbox # << >> /\ Head(inbox).topic = "order"
    /\ LET m == Head(inbox)
       IN robot' =
            IF Holds(m)
            THEN [robot EXCEPT !.warning = @ \/ robot.content[1].control # m.content.control]
            ELSE IF m.update = Unknown THEN robot
            ELSE [robot EXCEPT !.order = m.order, !.update = m.update,
                               !.content = <<m.content>>, !.warning = FALSE,
                               !.request = FALSE]
    /\ inbox' = Tail(inbox) /\ owing' = TRUE
    /\ UNCHANGED <<author, trace, closed, ignored>>

ReceiveCancel ==
    /\ inbox # << >> /\ Head(inbox).topic = "instantActions"
    /\ robot' = [robot EXCEPT !.cancels = @ \cup {Head(inbox).cancel[1]}]
    /\ inbox' = Tail(inbox) /\ owing' = TRUE
    /\ UNCHANGED <<author, trace, closed, ignored>>

(* A robot that does not conform drops it. *)
IgnoreCancel ==
    /\ ~Conforming /\ inbox # << >> /\ Head(inbox).topic = "instantActions"
    /\ ignored' = ignored \cup {Head(inbox).cancel[1]}
    /\ inbox' = Tail(inbox)
    /\ UNCHANGED <<author, trace, closed, robot, owing>>

EndCancel ==
    \E a \in robot.cancels :
        /\ robot' = [robot EXCEPT !.cancels = @ \ {a}, !.finished = @ \cup {a}]
        /\ owing' = TRUE
        /\ UNCHANGED <<author, trace, closed, inbox, ignored>>

NeedBase ==
    /\ robot.update # Unknown /\ ~robot.request
    /\ Paced => inbox = << >>
    /\ robot' = [robot EXCEPT !.request = TRUE] /\ owing' = TRUE
    /\ UNCHANGED <<author, trace, closed, inbox, ignored>>

PublishState ==
    /\ Paced => owing /\ inbox = << >>
    /\ Capture(StateEvent)
    /\ owing' = FALSE
    /\ UNCHANGED <<author, closed, inbox, robot, ignored>>

AllAnswered == Idle /\ robot.cancels = {} /\ ~robot.request

CloseCapture ==
    /\ ~closed
    /\ Grace => AllAnswered
    /\ closed' = TRUE
    /\ UNCHANGED <<author, trace, inbox, robot, owing, ignored>>

Next ==
    \/ SendOrder \/ SendCancel
    \/ ReceiveOrder \/ ReceiveCancel \/ IgnoreCancel
    \/ EndCancel \/ NeedBase \/ PublishState
    \/ CloseCapture

Spec == Init /\ [][Next]_vars

-----------------------------------------------------------------------------
(* A robot that did all it had to do is not blamed: D1's response and D5 look *)
(* for what the robot published.  The catalogue asks that "the mobile robot's  *)
(* current orderId and current orderUpdateId are established" for the former   *)
(* (rules/phase1.json 155).                                                   *)
RobotIsCleared ==
    ignored = {} => "MOBILE_ROBOT" \notin Blamed(Report(Full))

(* The fleet control came back to an update id after another one.             *)
Returned ==
    LET Known(i) == i \in DOMAIN trace /\ trace[i].topic = "order" /\ trace[i].update # Unknown
    IN \E i, j, k \in DOMAIN trace :
           /\ i < j /\ j < k /\ Known(i) /\ Known(j) /\ Known(k)
           /\ trace[i].update = trace[k].update /\ trace[i].update # trace[j].update

(* Any state since the earlier order proves the update id current, also one    *)
(* the robot has left behind by the repeat; while no such id comes back the    *)
(* robot is cleared.                                                          *)
SteadyRobotIsCleared == ~Returned => RobotIsCleared

(* The fleet control is blamed only for what it did: an inconsistent graph,   *)
(* or two contents under one order id and update id.                          *)
FleetBlameIsTrue ==
    "FLEET_CONTROL" \in Blamed(Report(Full)) =>
        \E i, j \in {k \in DOMAIN trace : trace[k].topic = "order"} :
            \/ trace[i].content.broken
            \/ /\ trace[i].update = trace[j].update
               /\ trace[i].content.control # trace[j].content.control

(* PASS and FAIL are final: what is captured later withdraws neither.         *)
VerdictsAreFinal ==
    [][{f \in Report(Full) : f.verdict \in {"PASS", "FAIL"}} \subseteq Report(Full)']_vars

(* Less evidence blames nobody whom full evidence does not: neither a manifest *)
(* that proves less, nor a capture without CONFIRMED_FOR_RULE that missed a    *)
(* message.                                                                    *)
LessEvidenceBlamesNobody ==
    LET Missed(i) == ContextOf(RemoveAt(trace, i), closed, [Full EXCEPT !.confirmed = FALSE])
    IN UNION ({Blamed(Report(e)) : e \in Evidence}
              \cup {Blamed(Analyze(Missed(i))) : i \in DOMAIN trace})
           \subseteq Blamed(Report(Full))

(* The rule on the robot's response applies whenever it can, provided orders   *)
(* have the participant they are for: a robot that holds the update, and has   *)
(* published so, is sent changed content for it.                               *)
ProvenOrderIsEvaluated ==
    [][\A i \in (DOMAIN trace') \ DOMAIN trace :
          /\ author = "robot" /\ trace'[i].topic = "order" /\ Idle /\ Holds(trace'[i])
          /\ robot.content[1].control # trace'[i].content.control
          /\ \A j \in DOMAIN trace :
                trace[j].topic = "order" => trace[j].content.control = robot.content[1].control
          => \E f \in Report(Full)' :
                /\ f.rule = "VDA300-D1-MOBILE-ROBOT-CHANGED-RESPONSE"
                /\ f.event = i /\ f.verdict # "UNEVALUATED"]_vars

(* With full evidence, a closed capture blames the robot for every            *)
(* cancelOrder it dropped, whatever else it finished.                         *)
SilenceIsReported ==
    closed => \A i \in DOMAIN trace :
        trace[i].topic = "instantActions" /\ trace[i].cancel[1] \in ignored =>
            Finding("LAB-D5-CANCEL-LIFECYCLE", i, "FAIL", "MOBILE_ROBOT") \in Report(Full)
=============================================================================
