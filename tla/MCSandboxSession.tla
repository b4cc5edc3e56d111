-------------------------- MODULE MCSandboxSession -------------------------
(* SandboxSession with model values for sessions and processes. *)
EXTENDS SandboxSession

CONSTANTS s1, s2, own, davinci, w1, w2
=============================================================================
