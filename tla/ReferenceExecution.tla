------------------------- MODULE ReferenceExecution -------------------------
(* The reference runner (cmd/sentinel-go-reference-runner and                  *)
(* internal/referenceexecution/execute.go): a snapshot guards the project while *)
(* the typed runner works in the project itself; it is verified and removed    *)
(* whatever happened, and only then is a receipt written. Composed with the    *)
(* workspace, an editing developer and a caller that may cancel at any time.   *)
EXTENDS Workspace

VARIABLES
    stage,       \* where runContext and executeWith are
    cancelled,   \* ctx.Err() is not nil
    failures,    \* what lifecycleError will join
    exit,        \* the exit code, Running before it is known
    ranFrom,     \* observer: the project when the runner started
    ranTo,        \* observer: the project when the runner returned
    runnerFailed, \* observer: the runner returned an error
    inTime        \* observer: the cancellation came before the last look at the context

caller == <<cancelled, inTime>>
run == <<ranFrom, ranTo, runnerFailed>>
referenceVars == <<stage, failures, exit, caller, run>>
vars == <<workspaceVars, referenceVars>>

Running == 99
Failure == {"usage", "guard", "runner", "inputChanged", "cleanup", "cancelled", "report"}
Stage   == {"Parse", "Check", "Create", "Run", "RunnerRuns", "Verify", "Verifying",
            "Removing", "Output", "Write", "Ended"}

Ended(code, why) ==
    /\ stage' = "Ended"
    /\ exit' = code
    /\ failures' = why

Context == IF cancelled THEN {"cancelled"} ELSE {}

ParseRequest ==
    /\ stage = "Parse"
    /\ \/ stage' = "Check" /\ UNCHANGED <<failures, exit>>
       \/ Ended(3, {"usage"})
    /\ UNCHANGED <<workspaceVars, caller, run>>

CreateGuard ==
    /\ stage = "Check" /\ ~cancelled
    /\ CallCreate
    /\ stage' = "Create"
    /\ UNCHANGED <<failures, exit, caller, run>>

CancelledEarly ==
    /\ stage = "Check" /\ cancelled
    /\ Ended(6, Context)
    /\ UNCHANGED <<workspaceVars, caller, run>>

GuardRefused ==
    /\ stage = "Create" /\ answer = "Refused"
    /\ Ended(6, {"guard"} \cup Context)
    /\ UNCHANGED <<workspaceVars, caller, run>>

\* Cancelled while the guard was made: it is verified and removed all the same.
GuardCreated ==
    /\ stage = "Create" /\ answer = "Created"
    /\ stage' = IF cancelled THEN "Verify" ELSE "Run"
    /\ UNCHANGED <<workspaceVars, failures, exit, caller, run>>

StartRunner ==
    /\ stage = "Run"
    /\ stage' = "RunnerRuns"
    /\ ranFrom' = tree
    /\ UNCHANGED <<workspaceVars, failures, exit, caller, ranTo, runnerFailed>>

\* The status of a failing test run is taken for a failure of the execution.
RunnerReturnsBug ==
    /\ stage = "RunnerRuns"
    /\ failures' \in {failures, failures \cup {"assertionFailure"}}
    /\ stage' = "Verify"
    /\ ranTo' = tree
    /\ UNCHANGED <<workspaceVars, exit, caller, ranFrom, runnerFailed>>

\* The runner puts back the test files it rewrites, or fails (TypedRunner).
RunnerReturns ==
    /\ stage = "RunnerRuns"
    /\ runnerFailed' \in BOOLEAN
    /\ failures' = failures \cup IF runnerFailed' THEN {"runner"} ELSE {}
    /\ stage' = "Verify"
    /\ ranTo' = tree
    /\ UNCHANGED <<workspaceVars, exit, caller, ranFrom>>

\* A runner that fails may leave a test file rewritten.
RunnerLeavesFile(f) ==
    /\ stage = "RunnerRuns"
    /\ Rewrite(f)
    /\ stage' = "Verify"
    /\ runnerFailed' = TRUE
    /\ failures' = failures \cup {"runner"}
    /\ ranTo' = tree
    /\ UNCHANGED <<exit, caller, ranFrom>>

VerifyGuard ==
    /\ stage = "Verify"
    /\ CallVerifyOriginal
    /\ stage' = "Verifying"
    /\ UNCHANGED <<failures, exit, caller, run>>

\* The verdict of the verification is dropped.
RemoveGuardBug ==
    /\ stage = "Verifying" /\ answer \in {"Unchanged", "Changed"}
    /\ CallRemove
    /\ stage' = "Removing"
    /\ UNCHANGED <<failures, exit, caller, run>>

RemoveGuard ==
    /\ stage = "Verifying" /\ answer \in {"Unchanged", "Changed"}
    /\ CallRemove
    /\ failures' = failures \cup IF answer = "Changed" THEN {"inputChanged"} ELSE {}
    /\ stage' = "Removing"
    /\ UNCHANGED <<exit, caller, run>>

\* The runner's error is only told where nothing else went wrong.
ConcludeBug ==
    /\ stage = "Removing" /\ answer \in {"Removed", "RemoveFailed"}
    /\ LET others == (failures \ {"runner"}) \cup Context
                       \cup IF answer = "RemoveFailed" THEN {"cleanup"} ELSE {}
           all    == IF others = {} THEN failures ELSE others
       IN  IF all = {} THEN stage' = "Output" /\ UNCHANGED <<failures, exit>> ELSE Ended(6, all)
    /\ UNCHANGED <<workspaceVars, caller, run>>

Conclude ==
    /\ stage = "Removing" /\ answer \in {"Removed", "RemoveFailed"}
    /\ LET all == failures \cup Context \cup IF answer = "RemoveFailed" THEN {"cleanup"} ELSE {}
       IN  IF all = {} THEN stage' = "Output" /\ UNCHANGED <<failures, exit>> ELSE Ended(6, all)
    /\ UNCHANGED <<workspaceVars, caller, run>>

\* Cancellation is looked at once more before the receipt is written.
LastLook ==
    /\ stage = "Output"
    /\ IF cancelled THEN Ended(6, Context) ELSE stage' = "Write" /\ UNCHANGED <<failures, exit>>
    /\ UNCHANGED <<workspaceVars, caller, run>>

WriteReceipt ==
    /\ stage = "Write"
    /\ Ended(0, {}) \/ Ended(6, {"report"})
    /\ UNCHANGED <<workspaceVars, caller, run>>

\* Once the receipt is being written nobody looks at the context again.
Cancel ==
    /\ ~cancelled /\ stage # "Ended"
    /\ cancelled' = TRUE
    /\ inTime' = (stage # "Write")
    /\ UNCHANGED <<workspaceVars, stage, failures, exit, run>>

-----------------------------------------------------------------------------
Init ==
    /\ WorkspaceInit
    /\ stage = "Parse" /\ cancelled = FALSE /\ failures = {} /\ exit = Running
    /\ ranFrom = Pristine /\ ranTo = Pristine /\ runnerFailed = FALSE /\ inTime = FALSE

Execute ==
    \/ ParseRequest \/ CreateGuard \/ CancelledEarly \/ GuardRefused \/ GuardCreated
    \/ StartRunner \/ RunnerReturns \/ VerifyGuard \/ RemoveGuard \/ Conclude
    \/ LastLook \/ WriteReceipt
    \/ \E f \in File : RunnerLeavesFile(f)

Next ==
    \/ Execute
    \/ Cancel
    \/ WorkspaceStep /\ UNCHANGED referenceVars
    \/ stage # "Ended" /\ EditStep /\ UNCHANGED referenceVars

Spec == Init /\ [][Next]_vars

-----------------------------------------------------------------------------
(* Every variable has a value of its kind. *)
TypeOK ==
    /\ WorkspaceTypeOK
    /\ stage \in Stage /\ cancelled \in BOOLEAN /\ failures \subseteq Failure
    /\ exit \in {0, 3, 6, Running}
    /\ ranFrom \in [File -> Entry] /\ ranTo \in [File -> Entry]
    /\ runnerFailed \in BOOLEAN /\ inTime \in BOOLEAN

(* A receipt names the files the tests ran over: the input digest comes from    *)
(* the guard's manifest, the runner works in the project itself, and between    *)
(* the two nobody touched a file without the receipt being withheld             *)
(* (executeWith, InputSHA256).                                                   *)
ReceiptNamesTheInput ==
    stage \in {"Output", "Write"} \/ exit = 0 =>
        /\ Identities(ranFrom) = manifest
        /\ Identities(ranTo) = manifest

(* Nothing that went wrong is lost behind another failure: a guard left on disk, *)
(* a changed project, a runner that failed and a cancellation are each told by   *)
(* name, also all at once (lifecycleError), and none of them goes with exit code *)
(* 0. A cancellation is told where it came before the last look at the context,  *)
(* which is before the receipt is written (main.go:64), and the arguments were   *)
(* accepted; a later one leaves the receipt as it is.                            *)
FailuresAreTold ==
    stage = "Ended" =>
        /\ root # "None" => failures \cap {"cleanup", "guard"} # {}
        /\ answer \in {"Removed", "RemoveFailed"} /\ Identities(atVerify) # Identities(atCapture)
              => "inputChanged" \in failures
        /\ runnerFailed => "runner" \in failures
        /\ inTime /\ "usage" \notin failures => "cancelled" \in failures
        /\ exit = 0 <=> failures = {}

(* The execution uses the workspace by its calls only. *)
UsesWorkspace == WorkspaceSpec
=============================================================================
