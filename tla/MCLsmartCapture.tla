--------------------------- MODULE MCLsmartCapture ---------------------------
(* One robot: a whole run with faults, or slow.  Two: both robots' messages    *)
(* interleave, with orders in a short run.                                     *)
EXTENDS LsmartCapture

Runs(n, length, orders, lost, late) ==
    [robots : {n}, ticks : {length}, batches : {orders}, inject : BOOLEAN,
     faults : {lost}, slow : {late},
     limit : {n * (2 + length + length \div StatePeriod + orders) + 2}]

AllJobs ==
    Runs(1, 4, 2, 0, FALSE) \cup Runs(1, 4, 1, 1, FALSE) \cup Runs(1, 4, 1, 0, TRUE)
    \cup Runs(2, 3, 0, 0, FALSE) \cup Runs(2, 1, 1, 0, FALSE)
=============================================================================
