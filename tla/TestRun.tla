------------------------------- MODULE TestRun -------------------------------
(***************************************************************************)
(* One run of go test over rewritten tests (internal/runner/instrument.go, *)
(* the helper it generates, and what the testing package does with it):    *)
(* one test binary per package, in parallel, each writing private events   *)
(* into one FIFO while go test reports official ones.  At the end the      *)
(* runner classifies what it read.                                         *)
(*                                                                         *)
(* A test may return, fail an assertion (in its body, a subtest or a       *)
(* cleanup), skip, panic, panic in a cleanup, or take its process down;    *)
(* tests may be parallel, and may run their own binary as a child, which   *)
(* inherits the nonce and the FIFO.                                        *)
(***************************************************************************)
EXTENDS Classifier

CONSTANT MaxChildren  \* bound: child runs of a test binary

ASSUME ChildAssumption == MaxChildren \in Nat

VARIABLES
  state,       \* state[t]: what really became of test t
  process,     \* process[p]: the test binary of package p
  private,     \* the FIFO
  official,    \* go test's events
  children,
  timedOut     \* the runner's deadline killed the group

vars == <<state, process, private, official, children, timedOut>>

TestState == {"waiting", "running", "passed", "failed", "skipped", "crashed"}
Settled == {"passed", "failed", "skipped"}
Over == {"exited", "lost", "dead", "unbuilt"}   \* "lost": died between its last event and os.Exit
ProcessState == Over \cup {"built", "main", "returned", "leaving"}

TestsOf(p) == {t \in Test : PackageOf[t] = p}
Finished == timedOut \/ \A p \in Package : process[p] \in Over

(* sentinelGoTypedRunnerEmit: one frame, one atomic write *)
Emit(id, kind) == private' = [private EXCEPT ![id] = Append(@, kind)]
Tell(t, action) == official' = [official EXCEPT ![t] = Append(@, action)]
Becomes(t, s) == state' = [state EXCEPT ![t] = s]
Proceeds(p, s) == process' = [process EXCEPT ![p] = s]

-----------------------------------------------------------------------------
(* The test binary.                                                         *)

BuildFails(p) ==
  /\ process[p] = "built"
  /\ Proceeds(p, "unbuilt")
  /\ UNCHANGED <<state, private, official, children, timedOut>>

(* a package initialiser ends the process before TestMain *)
InitialiserCrashes(p) ==
  /\ process[p] = "built"
  /\ Proceeds(p, "dead")
  /\ UNCHANGED <<state, private, official, children, timedOut>>

TestMain(p) ==
  /\ process[p] = "built"
  /\ Emit(Main, "mainStart")
  /\ Proceeds(p, "main")
  /\ UNCHANGED <<state, official, children, timedOut>>

RunReturned(p) ==
  /\ process[p] = "main"
  /\ \A t \in TestsOf(p) : state[t] \in Settled
  /\ Emit(Main, "mainRunReturned")
  /\ Proceeds(p, "returned")
  /\ UNCHANGED <<state, official, children, timedOut>>

NormalReturn(p) ==
  /\ process[p] = "returned"
  /\ Emit(Main, "mainNormalReturn")
  /\ Proceeds(p, "leaving")
  /\ UNCHANGED <<state, official, children, timedOut>>

Exit(p) ==
  /\ process[p] = "leaving"
  /\ Proceeds(p, "exited")
  /\ UNCHANGED <<state, private, official, children, timedOut>>

(* the process of package p dies; of the tests S that were running go test may
   report a failure or nothing, which depends on its version *)
Dies(p, S) ==
  /\ Proceeds(p, IF process[p] = "leaving" THEN "lost" ELSE "dead")
  /\ state' = [t \in Test |-> IF t \in S \/ (PackageOf[t] = p /\ state[t] = "running") THEN "crashed" ELSE state[t]]
  /\ \/ UNCHANGED official
     \/ \E t \in TestsOf(p) : state[t] = "running" /\ Tell(t, "fail")
  /\ UNCHANGED <<children, timedOut>>

(* os.Exit, a fatal error, a panic of another goroutine, also after the tests *)
Aborts(p) ==
  /\ process[p] \in {"main", "returned", "leaving"}
  /\ Dies(p, {})
  /\ UNCHANGED private

-----------------------------------------------------------------------------
(* A test.                                                                  *)

Running(t) == state[t] = "running" /\ process[PackageOf[t]] = "main"

EmitStart(t) ==
  /\ process[PackageOf[t]] = "main" /\ state[t] = "waiting"
  /\ Becomes(t, "running")
  /\ Tell(t, "run")
  /\ Emit(t, "start")
  /\ UNCHANGED <<process, children, timedOut>>

Ends(t, s, kind, action) ==
  /\ Running(t)
  /\ Becomes(t, s)
  /\ Emit(t, kind)
  /\ Tell(t, action)
  /\ UNCHANGED <<process, children, timedOut>>

(* sentinelGoTypedRunnerPrepareTesting's Cleanup, the last one to run *)
Returns(t) == Ends(t, "passed", "normalReturn", "pass")
FailsAssertion(t) == KindOf[t] # "example" /\ Ends(t, "failed", "assertionFailure", "fail")
Skips(t) == KindOf[t] # "example" /\ Ends(t, "skipped", "normalReturn", "skip")

(* sentinelGoTypedRunnerFinishExample: the output is compared afterwards *)
OutputDiffers(t) == KindOf[t] = "example" /\ Ends(t, "failed", "normalReturn", "fail")

CatchPanicBug(t) ==
  /\ Running(t)
  /\ private' = [private EXCEPT ![t] = @ \o <<"panic", "assertionFailure">>]
  /\ Dies(PackageOf[t], {t})

(* sentinelGoTypedRunnerCatchPanic: recorded, then panicked again *)
CatchPanic(t) ==
  /\ Running(t)
  /\ Emit(t, "panic")
  /\ Dies(PackageOf[t], {t})

(* a user's cleanup panics after the body: the helper's own cleanup still runs *)
CleanupPanics(t) ==
  /\ Running(t) /\ KindOf[t] # "example"
  /\ \E kind \in {"normalReturn", "assertionFailure"} : Emit(t, kind)
  /\ Dies(PackageOf[t], {t})

ChildMain == <<"mainStart", "mainRunReturned", "mainNormalReturn">>
ChildTest == <<"start", "normalReturn">>

(* a test runs its own binary again, for one test of it or for none; the child
   may be killed after any of its events *)
ChildRuns(t) ==
  /\ Running(t) /\ children < MaxChildren
  /\ children' = children + 1
  /\ \E n \in 1..3, u \in TestsOf(PackageOf[t]) :
       \E again \in {<<>>} \cup (IF n = 1 THEN {<<"start">>, ChildTest} ELSE {ChildTest}) :
         private' = [private EXCEPT ![Main] = @ \o SubSeq(ChildMain, 1, n), ![u] = @ \o again]
  /\ UNCHANGED <<state, process, official, timedOut>>

(* the runner's deadline *)
TimesOut ==
  /\ ~Finished
  /\ timedOut' = TRUE
  /\ UNCHANGED <<state, process, private, official, children>>

-----------------------------------------------------------------------------

Init ==
  /\ state = [t \in Test |-> "waiting"]
  /\ process = [p \in Package |-> "built"]
  /\ private = [id \in Test \cup {Main} |-> <<>>]
  /\ official = [t \in Test |-> <<>>]
  /\ children = 0
  /\ timedOut = FALSE

BinaryStep(p) ==
  \/ BuildFails(p) \/ InitialiserCrashes(p) \/ TestMain(p)
  \/ RunReturned(p) \/ NormalReturn(p) \/ Exit(p) \/ Aborts(p)

TestStep(t) ==
  \/ EmitStart(t) \/ Returns(t) \/ FailsAssertion(t) \/ Skips(t)
  \/ OutputDiffers(t) \/ CatchPanic(t) \/ CleanupPanics(t) \/ ChildRuns(t)

Next ==
  \/ ~timedOut /\ \E p \in Package : BinaryStep(p)
  \/ ~timedOut /\ \E t \in Test : TestStep(t)
  \/ TimesOut

Spec == Init /\ [][Next]_vars

(* what go test's exit status and its FailedBuild events say *)
RunFailed ==
  \/ \E p \in Package : process[p] \in Over \ {"exited"}
  \/ \E t \in Test : state[t] = "failed"
BuildFailed == \E p \in Package : process[p] = "unbuilt"

FinalStatus == RunStatus(private, official, RunFailed, timedOut, BuildFailed)

-----------------------------------------------------------------------------
(* Properties.                                                              *)

(* every test binary ran its tests to the end; a crash after its last event can
   only change a pass *)
Whole == ~timedOut /\ \A p \in Package : process[p] \in {"exited", "lost"}

(* A run is called an assertion failure, on which a mutant counts as killed,
   only if every test binary was built and ran to its own end, every test of
   the inventory settled, and one of them failed: a crash anywhere, a panic in
   a cleanup or a child that shares the FIFO is never taken for an assertion
   (Classify, "Invalid structure fails closed"). *)
AssertionIsReal ==
  Finished /\ FinalStatus = "assertionFailure" =>
    /\ Whole
    /\ \A t \in Test : state[t] \in {"passed", "failed"}
    /\ \E t \in Test : state[t] = "failed"

(* A run is called passed, on which a mutant counts as survived and a baseline
   as good, only if every test of the inventory ran and passed. *)
PassIsReal ==
  Finished /\ FinalStatus = "passed" =>
    /\ ~timedOut /\ \A p \in Package : process[p] = "exited"
    /\ \A t \in Test : state[t] = "passed"

(* What happened plainly is said plainly, however the events of the packages
   are interleaved: without child processes a whole run of passing tests is
   passed, one with failures an assertion failure, a test that took its binary
   down a runtime error, and a skip never a verdict (classifiedRunStatus). *)
PlainRunsAreClassified ==
  Finished /\ children = 0 /\ ~timedOut /\ ~BuildFailed =>
    LET became(S) == \A t \in Test : state[t] \in S
        some(s) == \E t \in Test : state[t] = s
    IN /\ became({"passed"}) /\ ~RunFailed => FinalStatus = "passed"
       /\ Whole /\ became({"passed", "failed"}) /\ some("failed") => FinalStatus = "assertionFailure"
       /\ some("crashed") => FinalStatus = "runtimeError"
       /\ some("skipped") => FinalStatus \in {"runtimeError", "toolError"}

=============================================================================
