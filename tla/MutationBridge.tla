--------------------------- MODULE MutationBridge ---------------------------
(***************************************************************************)
(* The process sentinel-mutate4go-bridge in its snapshot (third_party/     *)
(* mutate4go/cmd/sentinel-mutate4go-bridge/main.go): a coverage run and    *)
(* two control runs of the unmutated project, then for each covered        *)
(* candidate in turn: write the mutant, compile, run the tests twice, put  *)
(* the source back.  Every run of the tests is a call of TypedRunner.      *)
(*                                                                         *)
(* A source is the set of candidates applied to it: {} is the original.    *)
(***************************************************************************)
EXTENDS TypedRunner, Sequences

CONSTANTS
  Source,        \* the production files the bridge was given
  Candidates,    \* how many candidates they have
  SourceOf       \* SourceOf[k]: the file candidate k changes

Candidate == 1..Candidates
Torn == {0}      \* a file whose writing failed half-way

ASSUME PlanAssumption == Candidates \in Nat /\ SourceOf \in [Candidate -> Source]

VARIABLES
  content,     \* content[s]: the candidates applied to source s, or Torn
  bridge,      \* the next step of the bridge
  covered,     \* the candidates on covered lines
  k,           \* the candidate executePlan is at
  saved,       \* the source as executeCandidateWith read it
  broken,      \* the mutant could not be written
  replies,     \* the results of the test runs of this phase or candidate
  late,        \* the deadline of the runner call is over
  cancelled,   \* the bridge's context: it was told to stop
  verdict,     \* what classifyMutant returned
  outcomes,    \* outcomes[j]: the status of candidate j, for the report
  exit,
  views        \* observer: what each test run of this candidate saw

plan == <<covered, k, saved, broken, verdict, outcomes>>
bridgeVars == <<content, bridge, plan, replies, late, cancelled, exit, views>>
vars == <<runnerVars, bridgeVars>>

Verdict == {"killed", "survived", "runtimeError", "compileError", "timedOut", "toolError", "uncovered"}
Testing == {"coverage", "control", "replay"}
BridgeLabel == Testing \cup {"module", "discover", "next", "read", "write", "compile", "restore", "report", "done", "killed"}
ExitCode == {0, 4, 5, 6}
Ended == bridge \in {"done", "killed"}

Fail(code) == bridge' = "done" /\ exit' = code

-----------------------------------------------------------------------------
(* One run of the tests.                                                    *)

(* invokeTypedTests: not even started once the bridge is cancelled *)
Invoke ==
  /\ bridge \in Testing
  /\ ~cancelled
  /\ StartRunner
  /\ late' = FALSE
  /\ UNCHANGED <<tests, groups, mishaps, content, bridge, plan, replies, cancelled, exit, views>>

LaunchTests ==
  /\ StartTests
  /\ views' = IF gotest' THEN Append(views, [content |-> content, text |-> text]) ELSE views
  /\ UNCHANGED <<content, bridge, plan, replies, late, cancelled, exit>>

(* the context of the call ends: SIGTERM, then SIGKILL after the grace period *)
SignalRunner ==
  /\ bridge \in Testing
  /\ Terminate
  /\ late' = (late \/ ~cancelled)
  /\ UNCHANGED <<content, bridge, plan, replies, cancelled, exit, views>>

GraceIsOverBug == FALSE
GraceIsOver == bridge \in Testing /\ KillRunner /\ UNCHANGED bridgeVars

Reply == IF cancelled \/ late \/ answer = "error" THEN "toolError" ELSE answer

RepliedBug == cancelled \/ runner = "exit"
(* a cancelled bridge still waits for the runner it started *)
Replied == runner = "exit" \/ (cancelled /\ runner = "none")

(* the call returns: the process was waited for and its group killed *)
Reap ==
  /\ runner' = "none"
  /\ UNCHANGED <<tests, base, todo, sigterm, answer, groups, mishaps>>

-----------------------------------------------------------------------------
(* Before the first mutant.                                                 *)

ReadModulePath ==
  /\ bridge = "module"
  /\ \/ cancelled /\ Fail(6)
     \/ Fail(5)
     \/ ~cancelled /\ bridge' = "coverage" /\ UNCHANGED exit
  /\ UNCHANGED <<runnerVars, content, plan, replies, late, cancelled, views>>

FreshCoverage ==
  /\ bridge = "coverage" /\ Replied
  /\ Reap
  /\ \/ cancelled /\ Fail(6)
     \/ ~cancelled /\ Fail(4)     \* also: no valid profile
     \/ ~cancelled /\ Reply = "passed" /\ bridge' = "control" /\ UNCHANGED exit
  /\ views' = <<>>
  /\ UNCHANGED <<content, plan, replies, late, cancelled>>

RunControlTwice ==
  /\ bridge = "control" /\ Replied
  /\ Reap
  /\ \/ /\ cancelled \/ Reply # "passed"
        /\ Fail(IF cancelled THEN 6 ELSE 4)
        /\ UNCHANGED replies
     \/ /\ ~cancelled /\ Reply = "passed"
        /\ IF Len(replies) = 0
             THEN replies' = <<Reply>> /\ UNCHANGED bridge
             ELSE replies' = <<>> /\ bridge' = "discover"
        /\ UNCHANGED exit
  /\ views' = <<>>
  /\ UNCHANGED <<content, plan, late, cancelled>>

DiscoverPlan ==
  /\ bridge = "discover"
  /\ \/ Fail(6) /\ UNCHANGED covered
     \/ ~cancelled /\ covered' \in SUBSET Candidate /\ bridge' = "next" /\ UNCHANGED exit
  /\ UNCHANGED <<runnerVars, content, k, saved, broken, verdict, outcomes, replies, late, cancelled, views>>

-----------------------------------------------------------------------------
(* One candidate.                                                           *)

NextCandidate ==
  /\ bridge = "next"
  /\ \/ cancelled /\ Fail(6) /\ UNCHANGED <<k, outcomes>>
     \/ k > Candidates /\ bridge' = "report" /\ UNCHANGED <<k, outcomes, exit>>
     \/ /\ ~cancelled /\ k \in Candidate \ covered
        /\ outcomes' = [outcomes EXCEPT ![k] = "uncovered"]
        /\ k' = k + 1
        /\ UNCHANGED <<bridge, exit>>
     \/ ~cancelled /\ k \in covered /\ bridge' = "read" /\ UNCHANGED <<k, outcomes, exit>>
  /\ UNCHANGED <<runnerVars, content, covered, saved, broken, verdict, replies, late, cancelled, views>>

ReadSource ==
  /\ bridge = "read"
  /\ \/ Fail(6) /\ UNCHANGED saved
     \/ ~cancelled /\ saved' = content[SourceOf[k]] /\ bridge' = "write" /\ UNCHANGED exit
  /\ UNCHANGED <<runnerVars, content, covered, k, broken, verdict, outcomes, replies, late, cancelled, views>>

WriteMutant ==
  /\ bridge = "write"
  /\ replies' = <<>> /\ views' = <<>>
  /\ \/ /\ content' = [content EXCEPT ![SourceOf[k]] = saved \cup {k}]
        /\ bridge' = "compile"
        /\ UNCHANGED <<broken, mishaps>>
     \/ /\ Mishap
        /\ content' \in {content, [content EXCEPT ![SourceOf[k]] = Torn]}
        /\ broken' = TRUE
        /\ bridge' = "restore"
  /\ UNCHANGED <<tests, call, groups, covered, k, saved, verdict, outcomes, late, cancelled, exit>>

Judged(v) == verdict' = v /\ bridge' = "restore"

(* go test -run=^$, killed at its deadline *)
Compile ==
  /\ bridge = "compile"
  /\ \/ Judged("toolError")
     \/ ~cancelled /\ \E v \in {"timedOut", "compileError"} : Judged(v)
     \/ ~cancelled /\ bridge' = "replay" /\ UNCHANGED verdict
  /\ UNCHANGED <<runnerVars, content, covered, k, saved, broken, outcomes, replies, late, cancelled, exit, views>>

VerdictOfBug(status) == IF status = "assertionFailure" THEN "killed" ELSE status

(* what two equal replies say; "passed" is a survivor *)
VerdictOf(status) ==
  CASE status = "assertionFailure" -> "killed"
    [] status = "passed" -> "survived"
    [] OTHER -> status

ClassifyBug(first, second) == VerdictOf(second)
Classify(first, second) == IF first = second THEN VerdictOf(first) ELSE "toolError"

Replay ==
  /\ bridge = "replay" /\ Replied
  /\ Reap
  /\ replies' = Append(replies, Reply)
  /\ \/ cancelled /\ Judged("toolError")
     \/ ~cancelled /\ Len(replies) = 0 /\ UNCHANGED <<bridge, verdict>>
     \/ ~cancelled /\ Len(replies) = 1 /\ Judged(Classify(replies[1], Reply))
  /\ UNCHANGED <<content, covered, k, saved, broken, outcomes, late, cancelled, exit, views>>

RestoreSourceBug ==
  /\ bridge = "restore"
  /\ \/ (broken \/ cancelled) /\ Fail(6) /\ UNCHANGED <<content, outcomes, k>>
     \/ /\ ~broken /\ ~cancelled
        /\ content' = [content EXCEPT ![SourceOf[k]] = saved]
        /\ outcomes' = [outcomes EXCEPT ![k] = verdict]
        /\ k' = k + 1
        /\ bridge' = "next"
        /\ UNCHANGED exit
  /\ UNCHANGED <<runnerVars, covered, saved, broken, verdict, replies, late, cancelled, views>>

(* always written; the restored file comes before the context's error *)
RestoreSource ==
  /\ bridge = "restore"
  /\ \/ /\ content' = [content EXCEPT ![SourceOf[k]] = saved]
        /\ \/ (broken \/ cancelled) /\ Fail(6) /\ UNCHANGED <<outcomes, k>>
           \/ /\ ~broken /\ ~cancelled
              /\ outcomes' = [outcomes EXCEPT ![k] = verdict]
              /\ k' = k + 1
              /\ bridge' = "next"
              /\ UNCHANGED exit
        /\ UNCHANGED mishaps
     \/ /\ Mishap
        /\ content' \in {content, [content EXCEPT ![SourceOf[k]] = Torn]}
        /\ Fail(6)
        /\ UNCHANGED <<outcomes, k>>
  /\ UNCHANGED <<tests, call, groups, covered, saved, broken, verdict, replies, late, cancelled, views>>

(* an encoding error is a 6, too *)
Report ==
  /\ bridge = "report"
  /\ \/ Fail(6)
     \/ ~cancelled /\ Fail(0)
  /\ UNCHANGED <<runnerVars, content, plan, replies, late, cancelled, views>>

-----------------------------------------------------------------------------
(* The adapter's signals.                                                   *)

Cancel ==
  /\ ~Ended /\ ~cancelled
  /\ cancelled' = TRUE
  /\ UNCHANGED <<runnerVars, content, bridge, plan, replies, late, exit, views>>

KillBridge ==
  /\ ~Ended /\ cancelled
  /\ bridge' = "killed"
  /\ UNCHANGED <<runnerVars, content, plan, replies, late, cancelled, exit, views>>

Init ==
  /\ RunnerInit
  /\ content = [s \in Source |-> {}]
  /\ bridge = "module"
  /\ covered = {} /\ k = 1 /\ saved = {} /\ broken = FALSE
  /\ replies = <<>> /\ late = FALSE /\ cancelled = FALSE
  /\ verdict = "toolError"
  /\ outcomes = [j \in Candidate |-> "none"]
  /\ exit = 6
  /\ views = <<>>

Baseline == ReadModulePath \/ FreshCoverage \/ RunControlTwice \/ DiscoverPlan
Campaign == NextCandidate \/ ReadSource \/ WriteMutant \/ Compile \/ Replay \/ RestoreSource \/ Report
BridgeStep == Invoke \/ Baseline \/ Campaign
RunnerRuns == RunnerStep /\ UNCHANGED bridgeVars
TestsRun == TestsStep /\ UNCHANGED bridgeVars

Next ==
  \/ BridgeStep \/ LaunchTests \/ RunnerRuns \/ TestsRun
  \/ SignalRunner \/ GraceIsOver \/ Cancel \/ KillBridge

Spec == Init /\ [][Next]_vars

(* The processes run on, a context that is over is acted upon, and a grace
   period ends.  Neither the tests nor the runner has to end by itself. *)
Fairness ==
  /\ WF_vars(BridgeStep) /\ WF_vars(SignalRunner) /\ WF_vars(GraceIsOver)

FairSpec == Spec /\ Fairness

-----------------------------------------------------------------------------
(* Properties.                                                              *)

(* Every variable stays in its domain; the exit code is one the adapter
   passes on (stableError, bridgeFailureCode). *)
TypeOK ==
  /\ RunnerTypeOK
  /\ content \in [Source -> (SUBSET Candidate) \cup {Torn}]
  /\ bridge \in BridgeLabel
  /\ covered \in SUBSET Candidate /\ k \in 1..(Candidates + 1)
  /\ saved \in SUBSET Candidate
  /\ {broken, late, cancelled} \subseteq BOOLEAN
  /\ replies \in Seq(Status) /\ Len(replies) <= 2
  /\ verdict \in Verdict
  /\ outcomes \in [Candidate -> Verdict \cup {"none"}]
  /\ exit \in ExitCode

Mutant(j) == [s \in Source |-> IF s = SourceOf[j] THEN {j} ELSE {}]
Originals == [s \in Source |-> {}]

(* While the runner's tests run, the sources are the original project with,
   in a replay, exactly the current candidate applied, and the bridge writes
   none of them (withMutationRestored around classifyMutant). *)
OneMutantAtATime ==
  gotest /\ ~Ended =>
    /\ bridge \in Testing
    /\ content = IF bridge = "replay" THEN Mutant(k) ELSE Originals

(* What a replay of candidate j has to see: that mutant, and the rewritten
   form of the test files as they were shipped. *)
FairTrial(j) == [content |-> Mutant(j), text |-> [f \in TestFile |-> "instrumented"]]

(* A candidate is called killed (survived) only after two test runs that both
   saw its mutant under the original tests and both failed an assertion
   (passed), unless a tool error was recorded for an earlier candidate, which
   condemns the report as a whole: also after a killed runner, with tests
   that edit test files, and across cancellations (classifyMutant, Execute). *)
VerdictIsEarned ==
  [][\A j \in Candidate :
       outcomes'[j] # outcomes[j] /\ outcomes'[j] \in {"killed", "survived"} =>
         \/ \E i \in 1..(j - 1) : outcomes[i] = "toolError"
         \/ /\ views = <<FairTrial(j), FairTrial(j)>>
            /\ replies[1] = replies[2]
            /\ replies[1] = IF outcomes'[j] = "killed" THEN "assertionFailure" ELSE "passed"]_vars

(* A bridge that ends has every source as it was, unless a system call failed,
   and then it gives no report (main.go:472, "restoration failure aborts the
   report"). *)
SourcesRestored ==
  bridge = "done" => content = Originals \/ (exit = 6 /\ mishaps > 0)

(* A bridge that ends, cancelled or not, has no runner left, and the runner no
   tests (main.go:585, "stop its separate Go-test group"); where it reports
   without tool errors, the test files are as they were and no test process of
   any of its runs is alive. *)
NothingIsLeft ==
  bridge = "done" =>
    /\ runner = "none" /\ ~gotest
    /\ exit = 0 /\ (\A j \in Candidate : outcomes[j] # "toolError") => Pristine /\ ~orphan

(* The bridge ends although the tests, the compiler and the runner may hang
   (runGoCommand, runCommandGroup). *)
BridgeEnds == <>Ended

=============================================================================
