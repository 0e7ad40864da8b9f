----------------------------- MODULE MCTier1Live -----------------------------
EXTENDS Tier1Live

Job(online, samples, kept, lost, slow) ==
    [online |-> online, samples |-> samples, kept |-> kept, faults |-> lost, slow |-> slow]

(* The incident calm, with one fault anywhere, and on a broker that retains the *)
(* break of an earlier run; the control calm, with slow workers, and on a       *)
(* broker that retains the ONLINE of an earlier run.                            *)
AllJobs ==
    {Job(FALSE, 1, "nothing", 0, FALSE), Job(FALSE, 1, "nothing", 1, FALSE),
     Job(FALSE, 1, "CONNECTION_BROKEN", 0, FALSE),
     Job(TRUE, 1, "nothing", 0, FALSE), Job(TRUE, 1, "nothing", 0, TRUE),
     Job(TRUE, 1, "ONLINE", 0, FALSE)}
=============================================================================
