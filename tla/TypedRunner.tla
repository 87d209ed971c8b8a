----------------------------- MODULE TypedRunner -----------------------------
(***************************************************************************)
(* One call of sentinel-go-test-runner (internal/runner): it rewrites the  *)
(* test files of a disposable project so that the tests report what they   *)
(* do, runs go test in a process group of its own, reads the events, and   *)
(* puts the test files back before it answers.                             *)
(*                                                                         *)
(* What the answer is made of is left to the classifier: a run of the      *)
(* tests ends with any Status.  The caller may signal and kill the runner; *)
(* a run of the tests may hang, edit the test files, or outlive a killed   *)
(* runner.                                                                 *)
(***************************************************************************)
EXTENDS Integers

CONSTANTS
  TestFile,      \* the test files of the project
  MaxMishaps     \* bound: failing system calls, and edits by the tests

ASSUME MishapAssumption == MaxMishaps \in Nat

VARIABLES
  text,      \* text[f]: what test file f contains
  helper,    \* the helper file (one per package; they share their fate) exists
  runner,    \* where the runner process is; "none" between two calls
  base,      \* plan.files: base[f] is the text f had when it was read
  todo,      \* files still to be written or restored
  sigterm,   \* the runner's context is cancelled
  answer,    \* the status it is going to report, or "error"
  gotest,    \* its go test process group runs
  orphan,    \* a go test group runs whose runner was killed
  mishaps

tests == <<text, helper>>
call == <<runner, base, todo, sigterm, answer>>
groups == <<gotest, orphan>>
runnerVars == <<tests, call, groups, mishaps>>

Status == {"passed", "assertionFailure", "runtimeError", "compileError", "timedOut", "toolError"}
Text == {"original", "edited", "torn", "instrumented", "patched"}
RunnerLabel == {"none", "instrument", "write", "helper", "test", "wait", "drain", "verify", "restore", "exit"}

(* the rewritten form of a text the parser accepts: "patched" for an edited one *)
Instrumented(t) == IF t = "original" THEN "instrumented" ELSE "patched"

Pristine == (\A f \in TestFile : text[f] = "original") /\ ~helper

Mishap == mishaps < MaxMishaps /\ mishaps' = mishaps + 1

(***************************************************************************)
(* Instrumentation.                                                        *)
(***************************************************************************)

StartRunner ==
  /\ runner = "none"
  /\ runner' = "instrument"
  /\ sigterm' = FALSE /\ answer' = "error"
  /\ base' = text /\ todo' = {}

(* a torn file does not parse, and reserved identifiers, in a test file or in
   the helper, "collide with the runner helper" *)
Parsable == (\A f \in TestFile : text[f] \in {"original", "edited"}) /\ ~helper

Instrument ==
  /\ runner = "instrument"
  /\ \/ /\ Parsable
        /\ base' = text
        /\ todo' = TestFile
        /\ runner' = "write"
     \/ runner' = "exit" /\ UNCHANGED <<base, todo>>   \* tests it does not support, or I/O
  /\ UNCHANGED <<tests, sigterm, answer, groups, mishaps>>

WriteTransformed ==
  /\ runner = "write"
  /\ \/ /\ todo = {}
        /\ runner' = "helper"
        /\ UNCHANGED <<text, todo>>
     \/ \E f \in todo :
          /\ text' = [text EXCEPT ![f] = Instrumented(base[f])]
          /\ todo' = todo \ {f}
          /\ UNCHANGED runner
  /\ UNCHANGED <<helper, base, sigterm, answer, groups, mishaps>>

(* os.WriteFile truncates first; restoreFiles(index) leaves the failed file out *)
WriteFails ==
  /\ runner = "write" /\ Mishap
  /\ \E f \in todo : text' \in {text, [text EXCEPT ![f] = "torn"]}
  /\ todo' = TestFile \ todo
  /\ runner' = "restore"
  /\ UNCHANGED <<helper, base, sigterm, answer, groups>>

WriteHelper ==
  /\ runner = "helper"
  /\ \/ helper' = TRUE /\ runner' = "test" /\ UNCHANGED <<todo, mishaps>>
     \/ Mishap /\ helper' \in BOOLEAN /\ runner' = "restore" /\ todo' = TestFile
  /\ UNCHANGED <<text, base, sigterm, answer, groups>>

(***************************************************************************)
(* The run of the tests.                                                   *)
(***************************************************************************)

StartTests ==
  /\ runner = "test"
  /\ \/ ~sigterm /\ gotest' = TRUE /\ runner' = "wait" /\ UNCHANGED mishaps
     \/ sigterm /\ runner' = "verify" /\ UNCHANGED <<gotest, mishaps>>
     \/ Mishap /\ runner' = "verify" /\ UNCHANGED gotest
  /\ UNCHANGED <<tests, base, todo, sigterm, answer, orphan>>

(* the group is killed in every case before runProcessGroup returns *)
EndTests(verdict, label) ==
  /\ runner = "wait"
  /\ gotest' = FALSE
  /\ answer' = verdict
  /\ runner' = label
  /\ UNCHANGED <<tests, base, todo, sigterm, orphan, mishaps>>

TestsEnd == \E verdict \in Status \ {"timedOut"} : EndTests(verdict, "drain")
TestsTimeOut == EndTests("timedOut", "drain")
TestsInterrupted == sigterm /\ EndTests("error", "verify")

(* a detached process may keep the FIFO open until the drain's own deadline,
   and what was killed may leave half an event: both are errors *)
Drain ==
  /\ runner = "drain"
  /\ answer' \in IF sigterm THEN {"error"} ELSE {answer, "error"}
  /\ runner' = "verify"
  /\ UNCHANGED <<tests, base, todo, sigterm, groups, mishaps>>

(* tests that write into the project *)
TestsEdit ==
  /\ gotest \/ orphan
  /\ Mishap
  /\ \E f \in TestFile : text' = [text EXCEPT ![f] = "edited"]
  /\ UNCHANGED <<helper, call, groups>>

(***************************************************************************)
(* Restoration.                                                            *)
(***************************************************************************)

Installed == helper /\ \A f \in TestFile : text[f] = Instrumented(base[f])

(* reading the files back may fail, too *)
VerifyInstalled ==
  /\ runner = "verify"
  /\ answer' \in IF Installed THEN {answer, "error"} ELSE {"error"}
  /\ todo' = TestFile
  /\ runner' = "restore"
  /\ UNCHANGED <<tests, base, sigterm, groups, mishaps>>

RestoreFileBug ==
  /\ runner = "restore"
  /\ \E f \in todo :
       /\ todo' = todo \ {f}
       /\ \/ /\ text[f] \in {base[f], Instrumented(base[f])}
             /\ text' = [text EXCEPT ![f] = base[f]]
             /\ UNCHANGED mishaps
          \/ /\ text[f] \notin {base[f], Instrumented(base[f])}
             /\ UNCHANGED <<text, mishaps>>
          \/ /\ Mishap
             /\ text' \in {text, [text EXCEPT ![f] = "torn"]}
  /\ UNCHANGED <<helper, runner, base, sigterm, answer, groups>>

(* restoreTestFile "refuses unexpected edits"; its write is not atomic *)
RestoreFile ==
  /\ runner = "restore"
  /\ \E f \in todo :
       /\ todo' = todo \ {f}
       /\ \/ /\ text[f] \in {base[f], Instrumented(base[f])}
             /\ text' = [text EXCEPT ![f] = base[f]]
             /\ UNCHANGED <<answer, mishaps>>
          \/ /\ text[f] \notin {base[f], Instrumented(base[f])}
             /\ answer' = "error"
             /\ UNCHANGED <<text, mishaps>>
          \/ /\ Mishap
             /\ text' \in {text, [text EXCEPT ![f] = "torn"]}
             /\ answer' = "error"
  /\ UNCHANGED <<helper, runner, base, sigterm, groups>>

(* the last step; a cancelled context replaces the report *)
RemoveHelper ==
  /\ runner = "restore" /\ todo = {}
  /\ runner' = "exit"
  /\ \/ /\ helper' = FALSE
        /\ answer' = IF sigterm THEN "error" ELSE answer
        /\ UNCHANGED mishaps
     \/ /\ Mishap
        /\ answer' = "error"
        /\ UNCHANGED helper
  /\ UNCHANGED <<text, base, todo, sigterm, groups>>

(***************************************************************************)
(* What others do to the runner.                                           *)
(***************************************************************************)

Terminate ==
  /\ runner \notin {"none", "exit"}
  /\ ~sigterm
  /\ sigterm' = TRUE
  /\ UNCHANGED <<tests, runner, base, todo, answer, groups, mishaps>>

(* SIGKILL to the runner's group; its go test is in another one *)
KillRunner ==
  /\ runner \notin {"none", "exit"}
  /\ sigterm
  /\ runner' = "exit"
  /\ answer' = "error"
  /\ gotest' = FALSE
  /\ orphan' = (orphan \/ gotest)
  /\ \/ UNCHANGED tests
     \/ /\ runner \in {"write", "restore"}
        /\ \E f \in todo : text' = [text EXCEPT ![f] = "torn"]
        /\ UNCHANGED helper
     \/ runner = "helper" /\ helper' = TRUE /\ UNCHANGED text
  /\ UNCHANGED <<base, todo, sigterm, mishaps>>

OrphanEnds ==
  /\ orphan
  /\ orphan' = FALSE
  /\ UNCHANGED <<tests, call, gotest, mishaps>>

-----------------------------------------------------------------------------

RunnerInit ==
  /\ text = [f \in TestFile |-> "original"] /\ helper = FALSE
  /\ runner = "none"
  /\ base = text /\ todo = {}
  /\ sigterm = FALSE /\ answer = "error"
  /\ gotest = FALSE /\ orphan = FALSE
  /\ mishaps = 0

Prepare == Instrument \/ WriteTransformed \/ WriteFails \/ WriteHelper
CleanUp == Drain \/ VerifyInstalled \/ RestoreFile \/ RemoveHelper

(* what the runner does by itself, beside starting and ending the tests *)
RunnerStep == Prepare \/ CleanUp \/ TestsInterrupted

(* what the tests do: end, or not; and the runner's own deadline *)
TestsStep == TestsEnd \/ TestsTimeOut \/ TestsEdit \/ OrphanEnds

RunnerTypeOK ==
  /\ text \in [TestFile -> Text] /\ helper \in BOOLEAN
  /\ runner \in RunnerLabel
  /\ base \in [TestFile -> Text] /\ todo \in SUBSET TestFile
  /\ sigterm \in BOOLEAN /\ answer \in Status \cup {"error"}
  /\ gotest \in BOOLEAN /\ orphan \in BOOLEAN
  /\ mishaps \in 0..MaxMishaps

=============================================================================
