------------------------ MODULE MCReferenceExecution ------------------------
(* A small instance of ReferenceExecution for TLC: two files in two            *)
(* directories, and a third that may be made in the first of them.             *)
EXTENDS ReferenceExecution, TLC

CONSTANTS top, sub

Placed == (1 :> top) @@ (2 :> sub) @@ (3 :> top)
=============================================================================
