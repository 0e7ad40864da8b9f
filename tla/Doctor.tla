-------------------------------- MODULE Doctor --------------------------------
(***************************************************************************)
(* The offline Doctor's rules as pure functions of a trace context.  An     *)
(* event's index is its source sequence number: one event per number.       *)
(*                                                                          *)
(* A context is a record with fields events, confirmed (completeness is     *)
(* CONFIRMED_FOR_RULE), closed and roles (role_attribution_complete).  An   *)
(* event has fields topic (the last topic level), role, participant and     *)
(* epoch (<<x>>, or Unknown when no evidence manifest supplies them), timed *)
(* (it has a monotonic time) and the payload fields its topic calls for:    *)
(*   connection      value                                                  *)
(*   order           order, update (<<x>> or Unknown), content, broken      *)
(*                   (its graph is inconsistent)                            *)
(*   state           order, update, request (newBaseRequest), warning       *)
(*                   (SAME_ORDER_UPDATE_ID), finished (action ids with      *)
(*                   status FINISHED or FAILED)                             *)
(*   instantActions  cancel (<<action id>> or Unknown)                      *)
(* A finding names the event that raised it; wording is left out.           *)
(***************************************************************************)
EXTENDS Naturals, Sequences, FiniteSetsExt

Unknown == << >>

Finding(rule, i, verdict, target) ==
    [rule |-> rule, event |-> i, verdict |-> verdict, target |-> target]

Events(c, topic) == {i \in DOMAIN c.events : c.events[i].topic = topic}

After(c, i, topic) == {j \in Events(c, topic) : j > i}

(* Mutants: participants are not compared; completeness is not asked for. *)
AnyKnownParticipant(a, b) == a.participant # Unknown /\ b.participant # Unknown

SameKnownParticipant(a, b) ==
    a.participant # Unknown /\ b.participant # Unknown /\ a.participant = b.participant

DifferentKnownEpoch(a, b) ==
    a.epoch # Unknown /\ b.epoch # Unknown /\ a.epoch # b.epoch

(* identifiers_equal and identifiers_compatible: a missing id matches any. *)
SameId(a, b) == a # Unknown /\ a = b
CompatibleId(a, b) == a = Unknown \/ b = Unknown \/ a = b

ProvenRole(c, i, role) == c.roles /\ c.events[i].role = <<role>>

(* What makes an absence after event i provable. *)
AbsenceProvableMutant(c, i) == c.closed /\ c.roles /\ c.events[i].timed

AbsenceProvable(c, i) == c.closed /\ c.confirmed /\ c.roles /\ c.events[i].timed

(* A finding about something absent after event i: decisive only in a        *)
(* complete capture with a known time and a proven precondition.             *)
GatedFinding(rule, c, i, provedTarget, proven) ==
    IF AbsenceProvable(c, i) /\ proven
    THEN Finding(rule, i, "FAIL", provedTarget)
    ELSE Finding(rule, i, "INCONCLUSIVE", "UNRESOLVED")

-----------------------------------------------------------------------------
(* D1: the same orderId and orderUpdateId twice *)

(* compare_orders: content is what the profile holds significant, extension  *)
(* what it knows nothing about.                                              *)
Relation(a, b) ==
    IF a.control # b.control THEN "CHANGED"
    ELSE IF a.extension # b.extension THEN "UNKNOWN" ELSE "EQUAL"

(* Mutant: the update id is not compared. *)
SameUpdateMutant(a, b) == SameId(a.order, b.order)

SameUpdate(a, b) == SameId(a.order, b.order) /\ SameId(a.update, b.update)

(* Mutant: the order is compared with a later one too. *)
EarlierSameUpdateMutant(c, i) ==
    {j \in Events(c, "order") : j # i /\ SameUpdate(c.events[j], c.events[i])}

EarlierSameUpdate(c, i) ==
    {j \in Events(c, "order") : j < i /\ SameUpdate(c.events[j], c.events[i])}

Repeats(c) == {i \in Events(c, "order") : EarlierSameUpdate(c, i) # {}}

Previous(c, i) == Max(EarlierSameUpdate(c, i))

RepeatRelation(c, i) ==
    Relation(c.events[Previous(c, i)].content, c.events[i].content)

(* An order without an update id after one with the same order id. *)
UnidentifiedRepeats(c) ==
    {i \in Events(c, "order") :
        /\ c.events[i].update = Unknown
        /\ \E j \in Events(c, "order") :
               j < i /\ SameId(c.events[j].order, c.events[i].order)}

ChangedFinding(c, i) ==
    IF ProvenRole(c, i, "FLEET_CONTROL")
    THEN Finding("LAB-D1-REPEATED-ORDER-CHANGED", i, "FAIL", "FLEET_CONTROL")
    ELSE Finding("LAB-D1-REPEATED-ORDER-CHANGED", i, "INCONCLUSIVE", "UNRESOLVED")

(* Mutant: a state after the repeat counts instead. *)
CurrentOrderProvenMutant(c, i) ==
    \E k \in After(c, i, "state") :
        ProvenRole(c, k, "MOBILE_ROBOT") /\ SameUpdate(c.events[i], c.events[k])

CurrentOrderProven(c, i) ==
    \E k \in Events(c, "state") :
        /\ Previous(c, i) < k /\ k < i
        /\ ProvenRole(c, k, "MOBILE_ROBOT")
        /\ SameKnownParticipant(c.events[i], c.events[k])
        /\ SameUpdate(c.events[i], c.events[k])

(* Only the first state compatible with the order is looked at. *)
Responses(c, i) ==
    {k \in After(c, i, "state") : CompatibleId(c.events[i].order, c.events[k].order)}

ReportsWarning(c, k) == ProvenRole(c, k, "MOBILE_ROBOT") /\ c.events[k].warning

(* Mutant: the first state after the earlier order. *)
HasWarningEarly(c, i) ==
    LET early == Responses(c, Previous(c, i))
    IN early # {} /\ ReportsWarning(c, Min(early))

HasWarning(c, i) == Responses(c, i) # {} /\ ReportsWarning(c, Min(Responses(c, i)))

ResponseFinding(c, i) ==
    LET Result(verdict, target) ==
            Finding("VDA300-D1-MOBILE-ROBOT-CHANGED-RESPONSE", i, verdict, target)
    IN IF ~CurrentOrderProven(c, i) THEN Result("UNEVALUATED", "UNRESOLVED")
       ELSE IF HasWarning(c, i) THEN Result("PASS", "UNRESOLVED")
       ELSE IF AbsenceProvable(c, i) THEN Result("FAIL", "MOBILE_ROBOT")
       ELSE Result("INCONCLUSIVE", "UNRESOLVED")

Changed(c) == {i \in Repeats(c) : RepeatRelation(c, i) = "CHANGED"}

Undecided(c) == {i \in Repeats(c) : RepeatRelation(c, i) = "UNKNOWN"}

RepeatedOrderFindings(c) ==
    {ChangedFinding(c, i) : i \in Changed(c)}
    \cup {ResponseFinding(c, i) : i \in Changed(c)}
    \cup {Finding("LAB-D1-REPEATED-ORDER-UNKNOWN", i, "INCONCLUSIVE", "UNRESOLVED") :
            i \in Undecided(c)}
    \cup {Finding("LAB-D1-REPEATED-ORDER-APPLICABILITY", i, "UNEVALUATED", "UNRESOLVED") :
            i \in UnidentifiedRepeats(c)}

-----------------------------------------------------------------------------
(* D2: the order's graph *)

GraphFindings(c) ==
    {IF ProvenRole(c, i, "FLEET_CONTROL")
     THEN Finding("LAB-D2-GRAPH-STITCHING", i, "FAIL", "FLEET_CONTROL")
     ELSE Finding("LAB-D2-GRAPH-STITCHING", i, "INCONCLUSIVE", "UNRESOLVED") :
        i \in {k \in Events(c, "order") : c.events[k].broken}}

-----------------------------------------------------------------------------
(* D3: newBaseRequest *)

BaseAnswered(c, i) ==
    \E j \in After(c, i, "order") : CompatibleId(c.events[i].order, c.events[j].order)

BaseRequestFindings(c) ==
    {GatedFinding("LAB-D3-NEW-BASE-REQUEST", c, i, "FLEET_CONTROL", TRUE) :
        i \in {k \in Events(c, "state") : c.events[k].request /\ ~BaseAnswered(c, k)}}

-----------------------------------------------------------------------------
(* D4: ONLINE after a reconnection *)

Disconnections(c) ==
    {i \in Events(c, "connection") :
        c.events[i].value \in {"OFFLINE", "CONNECTION_BROKEN"}}

BackOnline(c, i) ==
    \E j \in After(c, i, "connection") :
        /\ c.events[j].value = "ONLINE"
        /\ SameKnownParticipant(c.events[i], c.events[j])

ReconnectProven(c, i) ==
    \E j \in DOMAIN c.events :
        /\ j > i
        /\ ProvenRole(c, j, "MOBILE_ROBOT")
        /\ SameKnownParticipant(c.events[i], c.events[j])
        /\ DifferentKnownEpoch(c.events[i], c.events[j])

ReconnectFindings(c) ==
    {GatedFinding("LAB-D4-RECONNECT-STATE", c, i, "MOBILE_ROBOT", ReconnectProven(c, i)) :
        i \in {d \in Disconnections(c) : ~BackOnline(c, d)}}

-----------------------------------------------------------------------------
(* D5: cancelOrder *)

Cancels(c) ==
    {i \in Events(c, "instantActions") : c.events[i].cancel # Unknown}

(* Mutant: any finished action ends the cancellation. *)
CancelTerminatedMutant(c, i) ==
    \E j \in After(c, i, "state") : c.events[j].finished # {}

CancelTerminated(c, i) ==
    \E j \in After(c, i, "state") : c.events[i].cancel[1] \in c.events[j].finished

CancelFindings(c) ==
    {GatedFinding("LAB-D5-CANCEL-LIFECYCLE", c, i, "MOBILE_ROBOT", TRUE) :
        i \in {k \in Cancels(c) : ~CancelTerminated(c, k)}}

Analyze(c) ==
    RepeatedOrderFindings(c) \cup GraphFindings(c) \cup BaseRequestFindings(c)
    \cup ReconnectFindings(c) \cup CancelFindings(c)
=============================================================================
