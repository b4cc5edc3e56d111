-------------------------- MODULE MCVercelSandbox --------------------------
(* VercelSandbox with model values for the worker threads. *)
EXTENDS VercelSandbox

CONSTANTS w1, w2
=============================================================================
