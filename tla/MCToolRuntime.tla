--------------------------- MODULE MCToolRuntime ---------------------------
(* ToolRuntime with two connection attempts and two signals. *)
EXTENDS ToolRuntime
=============================================================================
