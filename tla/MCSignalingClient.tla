------------------------- MODULE MCSignalingClient -------------------------
(* SignalingClient with three requests. *)
EXTENDS SignalingClient
=============================================================================
