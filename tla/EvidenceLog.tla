---------------------------- MODULE EvidenceLog ----------------------------
(***************************************************************************)
(* What the evidence store of internal/evidence promises its callers: an   *)
(* append-only log.  A commit sequence is allocated first and is never     *)
(* handed out twice; a run enters the log once, under the newest sequence, *)
(* and nothing that is in the log ever changes.  A sequence whose writer   *)
(* failed or died is a gap of the log, and stays one.                      *)
(***************************************************************************)
EXTENDS Naturals

CONSTANTS RunId,        \* the identities of runs
          MaxSequence   \* the largest commit sequence

VARIABLES highest,      \* the newest sequence handed out, 0 before the first
          log,          \* log[r]: the sequence of run r, 0 while it is not in the log
          pending       \* the newest sequence has a writer and no run yet

vars == <<highest, log, pending>>

Init ==
    /\ highest = 0
    /\ log = [r \in RunId |-> 0]
    /\ pending = FALSE

\* A sequence is handed out; its writer may fail at once.
Allocate ==
    /\ highest < MaxSequence
    /\ highest' = highest + 1
    /\ pending' \in BOOLEAN
    /\ UNCHANGED log

\* The writer fails or dies: the sequence becomes a gap.
Abandon ==
    /\ pending
    /\ pending' = FALSE
    /\ UNCHANGED <<highest, log>>

Commit(r) ==
    /\ pending
    /\ log[r] = 0
    /\ log' = [log EXCEPT ![r] = highest]
    /\ pending' = FALSE
    /\ UNCHANGED highest

Next == Allocate \/ Abandon \/ \E r \in RunId : Commit(r)

Spec == Init /\ [][Next]_vars
=============================================================================
