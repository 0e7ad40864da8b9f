---------------------------- MODULE LsmartBridgeInv ----------------------------
(***************************************************************************)
(* The inductive invariant of LsmartBridge, in named parts.  TLC checks it  *)
(* on the small instances, LsmartBridgeProofs proves it.                    *)
(***************************************************************************)
EXTENDS LsmartBridge

(* A controller has executed its batches 1, 2, ... in order, all but the one  *)
(* it waits for, and the outbox holds exactly the batches it has queued.      *)
ControllerInv ==
    /\ \A r \in Robots :
           /\ Len(executed[r]) = IF waiting[r] THEN counter[r] - 1 ELSE counter[r]
           /\ \A i \in DOMAIN executed[r] : executed[r][i] = i
    /\ outbox = {b \in Batches : b[2] <= counter[b[1]]}

(* An inbox file belongs to a discovered batch; it is partial only while the  *)
(* bridge writes it; an executed batch has a written file.                    *)
InboxInv ==
    /\ \A b \in Batches :
           /\ inbox[b] # "absent" => b \in processed
           /\ b[2] <= Len(executed[b[1]]) => inbox[b] = "written"
           /\ inbox[b] = "partial" => pc = "write" /\ b = Delivery
    /\ pc = "write" => /\ cursor \in Robots
                       /\ mqttIn[cursor] # << >>
                       /\ inbox[Delivery] = "partial"

(* The bridge's batch sets are nested; a batch has left the pending map, or is *)
(* about to, exactly when its delivery is written.                            *)
BatchInv ==
    /\ processed \subseteq outbox
    /\ pending \subseteq processed
    /\ published \subseteq pending
    /\ delivered \subseteq published
    /\ \A b \in processed : inbox[b] = "written" <=> (b \in delivered \/ b \notin pending)
    /\ pc \in {"top", "faults", "discover", "publish", "telemetry", "check", "done"} =>
           delivered = {}
    /\ pc = "done" => pending = {} /\ sim = "complete"

(* At most one order per robot is in flight, for a published batch of that     *)
(* robot whose delivery is not written.                                        *)
FlightInv ==
    \A r \in Robots :
        /\ Len(orderWire[r]) <= 1 /\ Len(mqttIn[r]) <= 1
        /\ orderWire[r] = << >> \/ mqttIn[r] = << >>
        /\ \A i \in DOMAIN orderWire[r] : orderWire[r][i][1] = r
                                          /\ orderWire[r][i] \in published
                                          /\ inbox[orderWire[r][i]] # "written"
        /\ \A i \in DOMAIN mqttIn[r] : mqttIn[r][i][1] = r
                                       /\ mqttIn[r][i] \in published
                                       /\ inbox[mqttIn[r][i]] # "written"

(* A robot without a client has no published batch. *)
OutageInv ==
    \A b \in published : conn[b[1]] # "none"

(* Without MQTT faults no client is dead, and a published batch is on its way. *)
LosslessInv ==
    envFaults = 0 =>
        /\ \A r \in Robots : conn[r] # "dead"
        /\ pc \notin Ended =>
               \A b \in published :
                   \/ b \in delivered
                   \/ \E i \in DOMAIN orderWire[b[1]] : orderWire[b[1]][i] = b
                   \/ \E i \in DOMAIN mqttIn[b[1]] : mqttIn[b[1]][i] = b

IInv ==
    /\ TypeOK
    /\ ControllerInv
    /\ InboxInv
    /\ BatchInv
    /\ FlightInv
    /\ OutageInv
    /\ LosslessInv
    /\ CountersMatchFiles
=============================================================================
