---------------------------- MODULE GoMutesting ----------------------------
(* The go-mutesting adapter (internal/gomutesting and its probe command): one   *)
(* snapshot of the project is the template of every run; the controls and each *)
(* candidate are run twice, each time in a fresh copy that a guard watches. An  *)
(* overall deadline, the limit of one mutant and the caller can end a run.      *)
(* A call of the workspace is one step here: what Workspace shows of Create and *)
(* VerifyOriginal is that each answers for one moment.                          *)
EXTENDS Naturals, Sequences

CONSTANTS
    Candidates,    \* how many candidates discovery finds
    RunnerStatus,  \* the statuses a runner may report
    MaxEdits       \* bound: edits of the project

ASSUME GoMutestingAssumption ==
    /\ Candidates \in Nat /\ MaxEdits \in Nat
    /\ RunnerStatus \subseteq
         {"passed", "assertionFailure", "runtimeError", "compileError", "timedOut", "toolError"}

VARIABLES
    project,      \* the project, numbered by its edits
    step,         \* where Run is
    context,      \* ctx.Err(): Live, Expired or Cancelled
    error,        \* returnedError
    limited,      \* MutantTimeout > 0
    template,     \* the version the template holds
    target,       \* the candidate that is run, 0 for the controls
    work,         \* the copy the tests run in
    guard,        \* what the guard's manifest says of it
    reply,        \* what runner.Execute returned
    replies,      \* the reports of this target so far
    control,      \* the first control report, of which the replay is used later
    records,      \* report.Records
    left,         \* observer: temporary directories that stay behind
    atClose       \* observer: the project when the template was verified

vars == <<project, step, context, error, limited, template, target, work, guard,
          reply, replies, control, records, left, atClose>>

Control == 0
None    == "none"
Copies  == [version : 0..MaxEdits, mutant : 0..Candidates, spoiled : BOOLEAN]
NoCopy  == [version |-> 0, mutant |-> 0, spoiled |-> FALSE]
Pure(c) == [version |-> template, mutant |-> c, spoiled |-> FALSE]

\* What a report says of the tests: nothing (no replay identity), one of two
\* results of the same tests, or a result of other tests. A report names the input of its guard; over is
\* an observer, what the tests really ran over.
NoReplay == [inventory |-> 0, result |-> 0]
Replay == {NoReplay, [inventory |-> 1, result |-> 1],
           [inventory |-> 1, result |-> 2], [inventory |-> 2, result |-> 1]}
Report == [status : RunnerStatus, replay : Replay, input : Copies, over : Copies]
NoReport == [status |-> "none", replay |-> NoReplay, input |-> NoCopy, over |-> NoCopy]
Status == {"killed", "survived", "timedOut", "compileError", "runtimeError", "toolError"}
Error  == {None, "RequestInvalid", "DependencyInvalid", "SnapshotFailed", "SourceMissing", "SourceUnusable",
           "ApplyFailed", "RunnerFailed", "TimedOut", "Cancelled", "BaselineFailed", "ControlSourceMismatch",
           "SourceChanged", "CleanupFailed"}
Step   == {"Validate", "Template", "Discover", "Fresh", "Apply", "Guard", "Tests", "Returned",
           "CloseGuard", "CloseWork", "Judge", "Record", "CloseTemplate", "Finalize", "Ended"}

-----------------------------------------------------------------------------
(* Pure parts. *)

CheckContext ==
    CASE context = "Live" -> None
      [] context = "Expired" -> "TimedOut"
      [] context = "Cancelled" -> "Cancelled"

ValidExecution(r) == r.replay.inventory > 0 /\ r.replay.result > 0

\* Two runs agree where their tests did, over whatever input.
ConsistentReplaysBug(a, b) ==
    /\ ValidExecution(a) /\ ValidExecution(b)
    /\ a.status = b.status /\ a.replay = b.replay

\* The nonce of a run is 16 random bytes: two runs never share one.
ConsistentReplays(a, b) ==
    /\ ValidExecution(a) /\ ValidExecution(b)
    /\ a.status = b.status /\ a.input = b.input /\ a.replay = b.replay

NormalizedStatus(s) ==
    CASE s = "passed" -> "survived"
      [] s = "assertionFailure" -> "killed"
      [] s \in {"runtimeError", "compileError", "timedOut"} -> s
      [] OTHER -> "toolError"

Classify(a, b) == IF ConsistentReplays(a, b) THEN NormalizedStatus(a.status) ELSE "toolError"

SameTestInventory(a, b) ==
    a.replay.result > 0 /\ b.replay.result > 0 /\ a.replay.inventory = b.replay.inventory

FailureCode(e) ==
    CASE e = "BaselineFailed" -> 4
      [] e = "DependencyInvalid" -> 5
      [] e = "Cancelled" -> 8
      [] e \in {"RequestInvalid", "SourceMissing"} -> 3
      [] OTHER -> 6

-----------------------------------------------------------------------------
GoTo(s, e) == step' = s /\ error' = e

\* A deferred finishSnapshot: unchanged says whether its original still is what
\* the manifest says; verifying and removing can fail by themselves.
FinishSnapshot(name, unchanged) ==
    \E verified \in {unchanged, FALSE}, removed \in BOOLEAN :
        /\ left' = IF removed THEN left ELSE left \cup {name}
        /\ error' = IF ~removed THEN "CleanupFailed"
                    ELSE IF ~verified THEN "SourceChanged" ELSE error

\* A workspace.Create that is refused; it drops the error of its own clean-up.
CreateRefused(next) ==
    /\ GoTo(next, "SnapshotFailed")
    /\ left' \in {left, left \cup {"refused"}}

Validate ==
    /\ step = "Validate"
    /\ \/ GoTo("Template", None)
       \/ \E e \in {"RequestInvalid", "DependencyInvalid"} : GoTo("Ended", e)
    /\ UNCHANGED <<project, context, limited, template, target, work, guard, reply, replies,
                   control, records, left, atClose>>

CreateTemplate ==
    /\ step = "Template"
    /\ IF CheckContext # None
       THEN GoTo("Ended", CheckContext) /\ UNCHANGED <<template, left>>
       ELSE \/ GoTo("Discover", None) /\ template' = project /\ UNCHANGED left
            \/ CreateRefused("Ended") /\ UNCHANGED template
    /\ UNCHANGED <<project, context, limited, target, work, guard, reply, replies, control,
                   records, atClose>>

\* A source that is missing or not Go, which is the request's fault; or one that cannot
\* be read or rendered or is, alone or with its mutants, too large, which is not.
DiscoverRequested ==
    /\ step = "Discover"
    /\ \/ GoTo("Fresh", None)
       \/ \E e \in {"SourceMissing", "SourceUnusable"} : GoTo("CloseTemplate", e)
    /\ target' = Control
    /\ UNCHANGED <<project, context, limited, template, work, guard, reply, replies, control,
                   records, left, atClose>>

RunFresh ==
    /\ step = "Fresh"
    /\ IF CheckContext # None
       THEN GoTo("CloseTemplate", CheckContext) /\ UNCHANGED <<work, left>>
       ELSE \/ GoTo("Apply", None) /\ work' = Pure(Control) /\ UNCHANGED left
            \/ CreateRefused("CloseTemplate") /\ UNCHANGED work
    /\ UNCHANGED <<project, context, limited, template, target, guard, reply, replies, control,
                   records, atClose>>

Apply ==
    /\ step = "Apply"
    /\ \/ GoTo("Guard", None) /\ work' = [work EXCEPT !.mutant = target]
       \/ target # Control /\ GoTo("CloseWork", "ApplyFailed") /\ UNCHANGED work
    /\ UNCHANGED <<project, context, limited, template, target, guard, reply, replies, control,
                   records, left, atClose>>

CreateGuard ==
    /\ step = "Guard"
    /\ \/ GoTo("Tests", None) /\ guard' = work /\ UNCHANGED left
       \/ CreateRefused("CloseWork") /\ UNCHANGED guard
    /\ UNCHANGED <<project, context, limited, template, target, work, reply, replies, control,
                   records, atClose>>

\* A control is given the limit of a mutant.
OwnLimitBug == limited

\* The limit a runner is given: only a candidate has one of its own, and the
\* overall deadline started earlier than the limit of a control.
OwnLimit == target # Control /\ limited

\* A timed-out run answers only where the limit was its own; a run whose context
\* has ended is killed, and answers with an error or just before.
RunnerReports ==
    /\ step = "Tests"
    /\ \E s \in RunnerStatus, r \in Replay :
          /\ s = "timedOut" => OwnLimit
          /\ reply' = [status |-> s, replay |-> r, input |-> guard, over |-> work]
    /\ step' = "Returned"
    /\ UNCHANGED <<project, context, error, limited, template, target, work, guard, replies,
                   control, records, left, atClose>>

RunnerFails ==
    /\ step = "Tests"
    /\ step' = "Returned" /\ error' = "RunnerFailed"
    /\ work' \in {work, [work EXCEPT !.spoiled = TRUE]}
    /\ UNCHANGED <<project, context, limited, template, target, guard, reply, replies, control,
                   records, left, atClose>>

\* The tests write into the copy they run in.
TestsWrite ==
    /\ step = "Tests" /\ ~work.spoiled
    /\ work' = [work EXCEPT !.spoiled = TRUE]
    /\ UNCHANGED <<project, step, context, error, limited, template, target, guard, reply, replies,
                   control, records, left, atClose>>

RunnerReturned ==
    /\ step = "Returned"
    /\ GoTo("CloseGuard", IF CheckContext # None THEN CheckContext ELSE error)
    /\ replies' = IF error' = None THEN Append(replies, reply) ELSE replies
    /\ reply' = NoReport
    /\ UNCHANGED <<project, context, limited, template, target, work, guard, control, records, left,
                   atClose>>

\* What the guard says is dropped.
CloseGuardBug ==
    /\ step = "CloseGuard"
    /\ FinishSnapshot("guard", TRUE)
    /\ step' = "CloseWork"
    /\ UNCHANGED <<project, context, limited, template, target, work, guard, reply, replies,
                   control, records, atClose>>

CloseGuard ==
    /\ step = "CloseGuard"
    /\ FinishSnapshot("guard", work = guard)
    /\ step' = "CloseWork"
    /\ UNCHANGED <<project, context, limited, template, target, work, guard, reply, replies,
                   control, records, atClose>>

\* The original of the copy is the template, which nobody writes to.
CloseWork ==
    /\ step = "CloseWork"
    /\ FinishSnapshot("work", TRUE)
    /\ step' = IF error' # None THEN "CloseTemplate"
               ELSE IF Len(replies) < 2 THEN "Fresh" ELSE "Judge"
    /\ work' = NoCopy /\ guard' = NoCopy
    /\ IF error' = None THEN UNCHANGED <<replies, records>> ELSE replies' = <<>> /\ records' = <<>>
    /\ UNCHANGED <<project, context, limited, template, target, reply, control, atClose>>

JudgeControls ==
    /\ step = "Judge" /\ target = Control
    /\ CASE Classify(replies[1], replies[2]) # "survived" -> GoTo("CloseTemplate", "BaselineFailed")
         [] replies[1].input # Pure(Control) -> GoTo("CloseTemplate", "ControlSourceMismatch")
         [] OTHER -> step' = "Record" /\ UNCHANGED error
    /\ control' = [NoReport EXCEPT !.replay = replies[1].replay]
    /\ UNCHANGED <<project, context, limited, template, target, work, guard, reply, replies, records,
                   left, atClose>>

JudgeCandidate ==
    /\ step = "Judge" /\ target # Control
    /\ records' = Append(records,
         [status |-> IF /\ SameTestInventory(control, replies[1])
                        /\ SameTestInventory(control, replies[2])
                     THEN Classify(replies[1], replies[2]) ELSE "toolError",
          runs |-> [i \in {1, 2} |-> [status |-> replies[i].status, over |-> replies[i].over]]])
    /\ step' = "Record"
    /\ UNCHANGED <<project, context, error, limited, template, target, work, guard, reply, replies,
                   control, left, atClose>>

\* The next candidate, or the last look of executePlan at the context.
NextTarget ==
    /\ step = "Record"
    /\ IF target < Candidates
       THEN target' = target + 1 /\ step' = "Fresh" /\ UNCHANGED error
       ELSE GoTo("CloseTemplate", CheckContext) /\ UNCHANGED target
    /\ replies' = <<>>
    /\ UNCHANGED <<project, context, limited, template, work, guard, reply, control, records, left,
                   atClose>>

CloseTemplate ==
    /\ step = "CloseTemplate"
    /\ FinishSnapshot("template", project = template)
    /\ step' = "Finalize"
    /\ atClose' = project
    /\ UNCHANGED <<project, context, limited, template, target, work, guard, reply, replies, control,
                   records>>

\* A context that ended while the snapshots were closed is not looked at.
FinalizeRunBug ==
    /\ step = "Finalize"
    /\ GoTo("Ended", error)
    /\ records' = IF error' # None THEN <<>> ELSE records
    /\ UNCHANGED <<project, context, limited, template, target, work, guard, reply, replies, control,
                   left, atClose>>

FinalizeRun ==
    /\ step = "Finalize"
    /\ GoTo("Ended", IF error = None THEN CheckContext ELSE error)
    /\ records' = IF error' # None THEN <<>> ELSE records
    /\ UNCHANGED <<project, context, limited, template, target, work, guard, reply, replies, control,
                   left, atClose>>

-----------------------------------------------------------------------------
(* The surroundings. *)

Edit ==
    /\ step # "Ended" /\ project < MaxEdits
    /\ project' = project + 1
    /\ UNCHANGED <<step, context, error, limited, template, target, work, guard, reply, replies,
                   control, records, left, atClose>>

ContextEnds(cause) ==
    /\ context = "Live" /\ step # "Ended"
    /\ context' = cause
    /\ UNCHANGED <<project, step, error, limited, template, target, work, guard, reply, replies,
                   control, records, left, atClose>>

\* Only a run whose mutants have a limit is given a deadline.
ExpireBug == limited /\ ContextEnds("Expired")

Expire == ContextEnds("Expired")
Cancel == ContextEnds("Cancelled")

Init ==
    /\ project = 0 /\ step = "Validate" /\ context = "Live" /\ error = None
    /\ limited \in BOOLEAN
    /\ template = 0 /\ target = Control /\ work = NoCopy /\ guard = NoCopy
    /\ reply = NoReport /\ replies = <<>> /\ control = NoReport /\ records = <<>>
    /\ left = {} /\ atClose = 0

Run ==
    \/ Validate \/ CreateTemplate \/ DiscoverRequested \/ RunFresh \/ Apply \/ CreateGuard
    \/ RunnerReports \/ RunnerFails \/ RunnerReturned \/ CloseGuard \/ CloseWork
    \/ JudgeControls \/ JudgeCandidate \/ NextTarget \/ CloseTemplate \/ FinalizeRun

Next == Run \/ TestsWrite \/ Edit \/ Expire \/ Cancel

Spec == Init /\ [][Next]_vars

\* The tests need not end by themselves: the deadline passes at last, and a runner
\* whose context has ended is killed. Every other step is the adapter's own.
FairSpec ==
    /\ Spec
    /\ WF_vars(Run /\ step # "Tests")
    /\ WF_vars(Run /\ context # "Live")
    /\ WF_vars(Expire)

-----------------------------------------------------------------------------
Reported == step = "Ended" /\ error = None

(* A recorded verdict was earned: both runs of the candidate were over the       *)
(* template with this candidate applied and nothing else changed, from before    *)
(* they ran until their guard was verified, and both ended the way the record    *)
(* says (executePlan). The tests write while their runner is there only: it kills *)
(* their group before it returns.                                                *)
VerdictIsEarned ==
    \A c \in DOMAIN records :
        LET r == records[c] IN
        r.status # "toolError" => \A i \in {1, 2} :
            r.runs[i].over = Pure(c) /\ NormalizedStatus(r.runs[i].status) = r.status

(* A report speaks of the project as it still was after the last run: an edit    *)
(* beside the runs, a snapshot that stays behind, and a context that ended before *)
(* the end, be it while the last snapshot was closed, each withhold it (Run, its *)
(* deferred calls).                                                              *)
ReportIsCurrent ==
    Reported => /\ context = "Live"
                /\ atClose = template
                /\ left = {}
                /\ Len(records) = Candidates

(* The three limits are told apart. Exit code 8 is the caller's cancellation and *)
(* no deadline; exit code 4 calls the project's own tests failing, and never     *)
(* because a control ran into a limit; and a mutant is called timed out only     *)
(* where it had a limit of its own (checkContext, runFresh, failureCode).        *)
LimitsAreToldApart ==
    /\ FailureCode(error) = 8 => context = "Cancelled"
    /\ FailureCode(error) = 4 => \A i \in {1, 2} : replies[i].status # "timedOut"
    /\ error = "TimedOut" => context = "Expired"
    /\ \A c \in DOMAIN records : records[c].status = "timedOut" => limited

(* A run ends, although its tests may hang.                                      *)
RunEnds == <>(step = "Ended")
=============================================================================
