---------------------------- MODULE MCLiveCockpit ----------------------------
EXTENDS LiveCockpit

(* The routes have one length, so the robots arrive in the same tick. *)
ArriveTicks == [r \in Robots |-> CrossTick + 1]

Job(omit, outage, messages, lost, deadlines, slow) ==
    [omitOnline |-> omit, outage |-> outage, messages |-> messages,
     faults |-> lost, deadlines |-> deadlines, slow |-> slow]

(* The fault scenario with one fault anywhere; with limits it cannot meet (the *)
(* target is away until the last tick); calm, the target arriving while it is  *)
(* cut off; and with slow workers. 13 and 11 are exactly what the job can send. *)
FaultJobs == {Job(TRUE, 1, 20, 1, FALSE, FALSE), Job(TRUE, 3, 7, 0, FALSE, FALSE),
              Job(TRUE, 2, 13, 0, FALSE, FALSE), Job(TRUE, 1, 11, 0, FALSE, TRUE)}

(* The control scenario with every deadline. *)
ControlJobs == {Job(FALSE, 1, 12, 0, TRUE, FALSE)}

AllJobs == FaultJobs \cup ControlJobs

CalmControlJobs == {Job(FALSE, 1, 12, 0, FALSE, FALSE)}
=============================================================================
