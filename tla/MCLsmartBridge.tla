---------------------------- MODULE MCLsmartBridge ----------------------------
(* Model checking of LsmartBridge: the constants are set in the .cfg files. *)
EXTENDS LsmartBridgeInv
=============================================================================
