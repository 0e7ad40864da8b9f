------------------------------ MODULE CausalGate ------------------------------
(***************************************************************************)
(* What the LSMART integration promises of one action batch (ADR 0006):    *)
(* the planner issues it, an order is sent for it, the broker carries that  *)
(* order to the robot's adapter, the adapter returns the delivery, and only *)
(* then does the controller execute the actions, once, in the order in      *)
(* which the planner issued them, with one batch outstanding per robot.     *)
(***************************************************************************)
EXTENDS Naturals

CONSTANTS Robots,      (* the robots of the run plan                        *)
          MaxBatches   (* bound on the batches a robot obtains              *)

VARIABLE stage         (* how far each batch has come                       *)

Batches == Robots \X (1 .. MaxBatches)

Stages == {"none", "issued", "sent", "carried", "returned", "executed"}

TypeOK == stage \in [Batches -> Stages]

Init == stage = [b \in Batches |-> "none"]

-----------------------------------------------------------------------------
(* A batch may be issued once every earlier batch of its robot was executed. *)
MayIssue(r, n) == \A m \in 1 .. MaxBatches : m < n => stage[<<r, m>>] = "executed"

Issue(r, n) ==
    /\ stage[<<r, n>>] = "none"
    /\ MayIssue(r, n)
    /\ stage' = [stage EXCEPT ![<<r, n>>] = "issued"]

Send(b) ==
    /\ stage[b] = "issued"
    /\ stage' = [stage EXCEPT ![b] = "sent"]

Carry(b) ==
    /\ stage[b] = "sent"
    /\ stage' = [stage EXCEPT ![b] = "carried"]

Return(b) ==
    /\ stage[b] = "carried"
    /\ stage' = [stage EXCEPT ![b] = "returned"]

Execute(r, n) ==
    /\ stage[<<r, n>>] = "returned"
    /\ stage' = [stage EXCEPT ![<<r, n>>] = "executed"]

(* One control step may execute a batch and obtain the next one. *)
ExecuteAndIssue(r, n) ==
    /\ n + 1 \in 1 .. MaxBatches
    /\ stage[<<r, n>>] = "returned"
    /\ stage[<<r, n + 1>>] = "none"
    /\ \A m \in 1 .. MaxBatches : m < n => stage[<<r, m>>] = "executed"
    /\ stage' = [stage EXCEPT ![<<r, n>>] = "executed", ![<<r, n + 1>>] = "issued"]

Next ==
    \/ \E b \in Batches : Send(b) \/ Carry(b) \/ Return(b)
    \/ \E r \in Robots, n \in 1 .. MaxBatches :
           Issue(r, n) \/ Execute(r, n) \/ ExecuteAndIssue(r, n)

Spec == Init /\ [][Next]_stage
=============================================================================
