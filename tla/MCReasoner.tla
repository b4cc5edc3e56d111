----------------------------- MODULE MCReasoner -----------------------------
(* Reasoner with three models of two attempts and one large attachment. *)
EXTENDS Reasoner
=============================================================================
