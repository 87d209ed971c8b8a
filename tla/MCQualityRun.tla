---------------------------- MODULE MCQualityRun ----------------------------
(***************************************************************************)
(* QualityRun for TLC: the sets of commands of the runs.                   *)
(***************************************************************************)
EXTENDS QualityRun

AllCommands == {"crap", "mutation", "check", "doctor", "history"}
CheckOnly == {"check"}

=============================================================================
