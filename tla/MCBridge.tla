------------------------------ MODULE MCBridge ------------------------------
(* Bridge with the thread that connects and one more. *)
EXTENDS Bridge

CONSTANTS m, t1
=============================================================================
