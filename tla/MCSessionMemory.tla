-------------------------- MODULE MCSessionMemory --------------------------
(* SessionMemory with model values for threads and prompts. *)
EXTENDS SessionMemory

CONSTANTS s1, s2, s3, p, q
=============================================================================
