-------------------------- MODULE MCMutationBridge --------------------------
(* A small instance of MutationBridge for TLC: both candidates are in one
   source, and the other source is never mutated. *)
EXTENDS MutationBridge

CONSTANTS s1, s2, t1, t2

SharedSource == <<s1, s1>>
=============================================================================
