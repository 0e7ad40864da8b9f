---------------------------- MODULE CaptureTrace ----------------------------
(***************************************************************************)
(* A recorder's capture as the Doctor reads it: with the synthetic evidence *)
(* manifest the recorder wrote beside it, or alone.                         *)
(*                                                                          *)
(* A capture is a sequence of messages in the order of their arrival, with  *)
(* fields topic, robot and value: what a connection message says, or what a *)
(* state reports ("moving", "arrived", or "request": a new base request).   *)
(***************************************************************************)
EXTENDS Doctor

FromFleet(m) == m.topic = "order"

(* Every message carries its robot's order id and update id.  Source         *)
(* timestamps are there but the rules use the monotonic time.                *)
Event(m) ==
    [topic |-> m.topic, value |-> m.value, timed |-> TRUE,
     order |-> <<m.robot>>, request |-> m.value = "request",
     role |-> Unknown, participant |-> Unknown, epoch |-> Unknown]

BrokenIn(c, i, r) == c[i].robot = r /\ c[i].value = "CONNECTION_BROKEN"

(* Mutants: the message that reports the break already counts; any robot's    *)
(* break moves every robot to its second session.                             *)
SessionOfEarly(c, i) == IF \E j \in 1 .. i : BrokenIn(c, j, c[i].robot) THEN 2 ELSE 1

SessionOfAny(c, i) ==
    IF \E j \in 1 .. i - 1, r \in {c[k].robot : k \in DOMAIN c} : BrokenIn(c, j, r)
    THEN 2 ELSE 1

(* The session the recorder infers for the robot message i. *)
SessionOf(c, i) == IF \E j \in 1 .. i - 1 : BrokenIn(c, j, c[i].robot) THEN 2 ELSE 1

EvidenceEvent(c, i) ==
    [Event(c[i]) EXCEPT
        !.role = IF FromFleet(c[i]) THEN <<"FLEET_CONTROL">> ELSE <<"MOBILE_ROBOT">>,
        !.participant = IF FromFleet(c[i]) THEN <<0>> ELSE <<c[i].robot>>,
        !.epoch = IF FromFleet(c[i]) THEN <<0>> ELSE <<SessionOf(c, i)>>]

(* The trace with the recorder's manifest. *)
EvidenceContext(c) ==
    [events |-> [i \in DOMAIN c |-> EvidenceEvent(c, i)],
     closed |-> TRUE, confirmed |-> TRUE, roles |-> TRUE]

(* The trace alone: completeness is unknown, roles are not attributed.       *)
PassiveContext(c) ==
    [events |-> [i \in DOMAIN c |-> Event(c[i])],
     closed |-> TRUE, confirmed |-> FALSE, roles |-> FALSE]
=============================================================================
