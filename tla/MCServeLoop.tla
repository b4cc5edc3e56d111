---------------------------- MODULE MCServeLoop ----------------------------
(* ServeLoop as it is deployed, on a few tasks and tool calls. *)
EXTENDS ServeLoop
=============================================================================
