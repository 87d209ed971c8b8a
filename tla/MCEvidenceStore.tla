-------------------------- MODULE MCEvidenceStore --------------------------
(* Small instances of EvidenceStore for TLC. *)
EXTENDS EvidenceStore, TLC

CONSTANTS p1, p2, t1, t2, t3, r1, r2, r3

\* One goroutine per process, as in the sentinel-go command.
OwnProcess == (t1 :> p1) @@ (t2 :> p2)
\* Two goroutines of one process beside another process.
SharedProcess == (t1 :> p1) @@ (t2 :> p1) @@ (t3 :> p2)

OneFinding == (r1 :> 1) @@ (r2 :> 0)
TwoFindings == (r1 :> 2) @@ (r2 :> 0)

NoFindings == (r1 :> 0) @@ (r2 :> 0) @@ (r3 :> 0)
LoneRun == r1 :> 1

EveryCall == [t \in Thread |-> Operation]

\* Two goroutines of one process that write, beside another process that also opens and reads the store.
MutexCalls == (t1 :> {"Start", "Append"}) @@ (t2 :> {"Append"}) @@ (t3 :> {"Initialize", "Append", "Load"})
\* A goroutine that opens the store, beside writers of the same and of another process.
WriterCalls == (t1 :> {"Initialize"}) @@ (t2 :> {"Start", "Append"}) @@ (t3 :> {"Start", "Append"})
=============================================================================
