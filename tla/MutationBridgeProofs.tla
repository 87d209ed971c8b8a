------------------------ MODULE MutationBridgeProofs ------------------------
(***************************************************************************)
(* What is proved of the mutation bridge and the runners it calls, for any *)
(* sources, test files, candidates and mishaps, any tests, and signals at  *)
(* any moment.                                                             *)
(***************************************************************************)
EXTENDS MutationBridge, SequenceTheorems, TLAPS

(***************************************************************************)
(* The inductive invariant.                                                *)
(***************************************************************************)
Shipped == [f \in TestFile |-> "original"]
Early   == {"none", "instrument", "write", "helper", "test"}   \* no tests have run in this call

(* A call that began with the test files as they were shipped; what it answers,
   unless it is an error, it answers with the files put back. *)
CleanCall ==
  /\ orphan => runner = "exit" /\ answer = "error"
  /\ runner \in {"none", "instrument"} => Pristine
  /\ runner \in {"instrument", "write", "helper", "test", "wait"} => answer = "error"
  /\ runner \in {"write", "helper", "test", "wait", "drain", "verify", "restore"} => base = Shipped
  /\ runner = "write" => \A f \in TestFile : text[f] = IF f \in todo THEN "original" ELSE "instrumented"
  /\ runner \in {"helper", "test"} => \A f \in TestFile : text[f] = "instrumented"
  /\ runner = "restore" /\ answer # "error" =>
       \A f \in TestFile : text[f] = IF f \in todo THEN "instrumented" ELSE "original"
  /\ runner = "exit" /\ answer # "error" => Pristine

(* A tool error is on record, or is going to be. *)
Doubted == \E i \in 1..(k - 1) : outcomes[i] = "toolError"
Condemned ==
  \/ Doubted
  \/ bridge = "replay" /\ Len(replies) = 1 /\ replies[1] = "toolError"
  \/ bridge = "restore" /\ verdict = "toolError"

(* every run of this candidate so far saw what it had to see *)
FairSoFar ==
  /\ \A i \in 1..Len(views) : views[i] = FairTrial(k)
  /\ runner \in Early => Len(views) = Len(replies)
  /\ runner = "wait" => Len(views) = Len(replies) + 1
  /\ runner \notin Early \cup {"wait"} /\ answer # "error" => Len(views) = Len(replies) + 1

Earned ==
  /\ views = <<FairTrial(k), FairTrial(k)>>
  /\ replies[1] = replies[2]
  /\ replies[1] = IF verdict = "killed" THEN "assertionFailure" ELSE "passed"

View == [content : [Source -> (SUBSET Candidate) \cup {Torn}], text : [TestFile -> Text]]

PlaceInv ==
  /\ TypeOK /\ views \in Seq(View)
  /\ bridge \notin Testing \cup {"killed"} => runner = "none"
  /\ gotest => runner = "wait"
  /\ bridge \in {"module", "coverage", "control", "replay"} => Len(replies) < 2
  /\ bridge = "compile" => replies = <<>> /\ views = <<>>
  /\ bridge \in {"read", "write", "compile", "replay", "restore"} => k \in Candidate

SourceInv ==
  /\ bridge \in {"module", "coverage", "control", "discover", "next", "read", "write", "report"} => content = Originals
  /\ bridge \in {"compile", "replay"} => content = Mutant(k)
  /\ bridge = "restore" => \A s \in Source : s # SourceOf[k] => content[s] = {}
  /\ bridge \in {"write", "compile", "replay", "restore"} => saved = {}
  /\ SourcesRestored

CallInv ==
  /\ ~Ended => Condemned \/ CleanCall
  /\ bridge = "done" /\ exit = 0 => (\E j \in Candidate : outcomes[j] = "toolError") \/ (Pristine /\ ~orphan)

TrialInv ==
  /\ bridge = "replay" => Condemned \/ FairSoFar
  /\ bridge = "restore" /\ ~broken /\ verdict \in {"killed", "survived"} => Doubted \/ Earned

BInv == PlaceInv /\ SourceInv /\ CallInv /\ TrialInv

-----------------------------------------------------------------------------
(* What a call of the runner does by itself, with its tests and with its signals. *)
CallMoves == RunnerStep \/ TestsStep \/ Terminate \/ KillRunner

(* Its flags stay flags, and its tests run in one step of the call only. *)
LEMMA CallFlags ==
  ASSUME RunnerTypeOK, gotest => runner = "wait", CallMoves
  PROVE  /\ helper' \in BOOLEAN /\ sigterm' \in BOOLEAN /\ gotest' \in BOOLEAN /\ orphan' \in BOOLEAN
         /\ gotest' => runner' = "wait"
<1> USE DEF RunnerTypeOK
<1>1. CASE Prepare
  <2>1. UNCHANGED <<sigterm, gotest, orphan>> /\ runner # "wait"
    BY <1>1 DEF Prepare, Instrument, WriteTransformed, WriteFails, WriteHelper, groups
  <2>2. helper' = helper \/ helper' \in BOOLEAN
    <3>1. CASE WriteHelper
      BY <3>1 DEF WriteHelper
    <3>2. CASE ~WriteHelper
      BY <1>1, <3>2 DEF Prepare, Instrument, WriteTransformed, WriteFails, tests
    <3> QED
      BY <3>1, <3>2
  <2> QED
    BY <2>1, <2>2
<1>2. CASE CleanUp
  <2>1. UNCHANGED <<sigterm, gotest, orphan>> /\ runner # "wait"
    BY <1>2 DEF CleanUp, Drain, VerifyInstalled, RestoreFile, RemoveHelper, groups
  <2>2. helper' = helper \/ helper' = FALSE
    BY <1>2 DEF CleanUp, Drain, VerifyInstalled, RestoreFile, RemoveHelper, tests
  <2> QED
    BY <2>1, <2>2
<1>3. CASE TestsInterrupted \/ TestsEnd \/ TestsTimeOut
  <2>1. UNCHANGED <<helper, sigterm, orphan>> /\ gotest' = FALSE
    BY <1>3 DEF TestsInterrupted, TestsEnd, TestsTimeOut, EndTests, tests
  <2> QED
    BY <2>1
<1>4. CASE TestsEdit
  BY <1>4 DEF TestsEdit, call, groups
<1>5. CASE OrphanEnds
  <2>1. UNCHANGED <<helper, sigterm, gotest, runner>> /\ orphan' = FALSE
    BY <1>5 DEF OrphanEnds, tests, call
  <2> QED
    BY <2>1
<1>6. CASE Terminate
  <2>1. UNCHANGED <<helper, runner, gotest, orphan>> /\ sigterm' = TRUE
    BY <1>6 DEF Terminate, tests, groups
  <2> QED
    BY <2>1
<1>7. CASE KillRunner
  <2>1. sigterm' = sigterm /\ gotest' = FALSE /\ (orphan' <=> orphan \/ gotest) /\ orphan' \in BOOLEAN
    BY <1>7 DEF KillRunner
  <2>2. helper' = helper \/ helper' = TRUE
    BY <1>7 DEF KillRunner, tests
  <2> QED
    BY <2>1, <2>2
<1> QED
  BY <1>1, <1>2, <1>3, <1>4, <1>5, <1>6, <1>7 DEF CallMoves, RunnerStep, TestsStep

(* Its other variables stay in their domains; mishaps are counted, and no call
   begins by itself. *)
LEMMA CallTypes ==
  ASSUME RunnerTypeOK, gotest => runner = "wait", CallMoves
  PROVE  /\ RunnerTypeOK'
         /\ mishaps' >= mishaps /\ (runner = "none" => runner' = "none")
<1> DEFINE Data == /\ text' \in [TestFile -> Text] /\ runner' \in RunnerLabel
                   /\ base' \in [TestFile -> Text] /\ todo' \in SUBSET TestFile
                   /\ answer' \in Status \cup {"error"} /\ mishaps' \in 0..MaxMishaps
                   /\ mishaps' >= mishaps /\ (runner = "none" => runner' = "none")
<1> USE MishapAssumption DEF RunnerTypeOK, Text, RunnerLabel, Mishap
<1>1. ASSUME Instrument PROVE Data
  BY <1>1 DEF Instrument, tests
<1>2. ASSUME WriteTransformed PROVE Data
  BY <1>2 DEF WriteTransformed, Instrumented
<1>3. ASSUME WriteFails PROVE Data
  BY <1>3 DEF WriteFails
<1>4. ASSUME WriteHelper PROVE Data
  BY <1>4 DEF WriteHelper
<1>5. ASSUME Drain PROVE Data
  BY <1>5 DEF Drain, tests
<1>6. ASSUME VerifyInstalled PROVE Data
  BY <1>6 DEF VerifyInstalled, tests
<1>7. ASSUME RestoreFile PROVE Data
  BY <1>7 DEF RestoreFile
<1>8. ASSUME RemoveHelper PROVE Data
  <2>1. UNCHANGED <<text, base, todo>> /\ runner' = "exit" /\ answer' \in {answer, "error"}
    BY <1>8 DEF RemoveHelper
  <2>2. mishaps' = mishaps \/ Mishap
    BY <1>8 DEF RemoveHelper
  <2> QED
    BY <1>8, <2>1, <2>2 DEF RemoveHelper
<1>9. ASSUME TestsInterrupted \/ TestsEnd \/ TestsTimeOut PROVE Data
  <2>1. UNCHANGED <<text, base, todo, mishaps>> /\ runner' \in {"drain", "verify"} /\ answer' \in Status \cup {"error"}
        /\ runner = "wait"
    BY <1>9 DEF TestsInterrupted, TestsEnd, TestsTimeOut, EndTests, tests, Status
  <2> QED
    BY <2>1
<1>10. ASSUME TestsEdit PROVE Data
  BY <1>10 DEF TestsEdit, call
<1>11. ASSUME OrphanEnds PROVE Data
  <2>1. UNCHANGED <<text, call, mishaps>>
    BY <1>11 DEF OrphanEnds, tests
  <2> QED
    BY <2>1 DEF call
<1>12. ASSUME Terminate PROVE Data
  BY <1>12 DEF Terminate, tests
<1>13. ASSUME KillRunner PROVE Data
  <2>1. UNCHANGED <<base, todo, mishaps>> /\ runner' = "exit" /\ answer' = "error" /\ runner # "none"
    BY <1>13 DEF KillRunner
  <2>2. text' \in [TestFile -> Text]
    <3>1. text' = text \/ \E f \in todo : text' = [text EXCEPT ![f] = "torn"]
      BY <1>13 DEF KillRunner, tests
    <3> QED
      BY <3>1
  <2> QED
    BY <2>1, <2>2
<1>14. Data
  BY <1>1, <1>2, <1>3, <1>4, <1>5, <1>6, <1>7, <1>8, <1>9, <1>10, <1>11, <1>12, <1>13
     DEF CallMoves, RunnerStep, Prepare, CleanUp, TestsStep
<1> QED
  BY <1>14, CallFlags

(* A call that began clean answers with the files put back, or with an error. *)
LEMMA CallStaysClean ==
  ASSUME RunnerTypeOK, gotest => runner = "wait", CleanCall, CallMoves
  PROVE  CleanCall'
<1> USE DEF CleanCall
<1>1. CASE Instrument
  <2>1. UNCHANGED <<text, helper, answer, orphan>> /\ runner = "instrument" /\ runner' \in {"write", "exit"}
    BY <1>1 DEF Instrument, tests, groups
  <2>2. answer = "error" /\ ~orphan /\ Pristine
    BY <2>1
  <2>3. runner' = "write" => base' = text /\ todo' = TestFile
    BY <1>1 DEF Instrument
  <2>4. text = Shipped
    BY <2>2 DEF Pristine, Shipped, RunnerTypeOK
  <2> QED
    BY <2>1, <2>2, <2>3, <2>4 DEF Pristine, Shipped
<1>2. CASE WriteTransformed
  <2>1. UNCHANGED <<base, answer, orphan>> /\ runner = "write" /\ ~orphan /\ answer = "error" /\ base = Shipped
    BY <1>2 DEF WriteTransformed, groups
  <2>2. CASE todo = {} /\ runner' = "helper" /\ UNCHANGED <<text, todo>>
    BY <2>1, <2>2
  <2>3. ASSUME NEW f \in todo, text' = [text EXCEPT ![f] = Instrumented(base[f])], todo' = todo \ {f}, runner' = runner
        PROVE  CleanCall'
    <3>1. f \in TestFile /\ Instrumented(base[f]) = "instrumented" /\ text \in [TestFile -> Text]
      BY <2>1, <2>3 DEF Instrumented, Shipped, RunnerTypeOK
    <3>2. \A g \in TestFile : text'[g] = IF g \in todo' THEN "original" ELSE "instrumented"
      BY <2>1, <2>3, <3>1
    <3> QED
      BY <2>1, <2>3, <3>2
  <2> QED
    BY <1>2, <2>2, <2>3 DEF WriteTransformed
<1>3. CASE WriteFails
  <2>1. UNCHANGED <<base, answer, orphan>> /\ runner = "write" /\ runner' = "restore"
    BY <1>3 DEF WriteFails, groups
  <2> QED
    BY <2>1
<1>4. CASE WriteHelper
  <2>1. UNCHANGED <<text, base, answer, orphan>> /\ runner = "helper" /\ runner' \in {"test", "restore"}
    BY <1>4 DEF WriteHelper, groups
  <2> QED
    BY <2>1
<1>5. CASE TestsInterrupted \/ TestsEnd \/ TestsTimeOut
  <2>1. UNCHANGED <<base, orphan>> /\ runner = "wait" /\ runner' \in {"drain", "verify"}
    BY <1>5 DEF TestsInterrupted, TestsEnd, TestsTimeOut, EndTests, tests
  <2> QED
    BY <2>1
<1>6. CASE Drain
  <2>1. UNCHANGED <<base, orphan>> /\ runner = "drain" /\ runner' = "verify"
    BY <1>6 DEF Drain, groups
  <2> QED
    BY <2>1
<1>7. CASE VerifyInstalled
  <2>1. UNCHANGED <<text, base, orphan>> /\ runner = "verify" /\ runner' = "restore" /\ todo' = TestFile
    BY <1>7 DEF VerifyInstalled, tests, groups
  <2>2. answer' # "error" => Installed
    BY <1>7 DEF VerifyInstalled
  <2>3. Installed => \A f \in TestFile : text[f] = "instrumented"
    BY <2>1 DEF Installed, Instrumented, Shipped
  <2> QED
    BY <2>1, <2>2, <2>3
<1>8. CASE RestoreFile
  <2>1. UNCHANGED <<base, orphan, runner>> /\ runner = "restore" /\ base = Shipped /\ ~orphan
    BY <1>8 DEF RestoreFile, groups
  <2>2. PICK f \in todo : /\ todo' = todo \ {f}
                          /\ answer' = "error" \/ (text' = [text EXCEPT ![f] = base[f]] /\ answer' = answer)
    BY <1>8 DEF RestoreFile
  <2>3. answer' # "error" => \A g \in TestFile : text'[g] = IF g \in todo' THEN "instrumented" ELSE "original"
    BY <2>1, <2>2 DEF Shipped, RunnerTypeOK
  <2> QED
    BY <2>1, <2>3
<1>9. CASE RemoveHelper
  <2>1. UNCHANGED <<text, orphan>> /\ runner = "restore" /\ todo = {} /\ runner' = "exit" /\ ~orphan
    BY <1>9 DEF RemoveHelper, groups
  <2>2. answer' # "error" => ~helper' /\ answer # "error"
    BY <1>9 DEF RemoveHelper
  <2> QED
    BY <2>1, <2>2 DEF Pristine
<1>10. CASE TestsEdit
  <2>1. UNCHANGED <<runner, answer, base, orphan>> /\ (gotest \/ orphan)
    BY <1>10 DEF TestsEdit, call, groups
  <2>2. runner = "wait" \/ (runner = "exit" /\ answer = "error")
    BY <2>1
  <2> QED
    BY <2>1, <2>2
<1>11. CASE OrphanEnds
  <2>1. UNCHANGED <<text, helper, runner, base, todo, answer>> /\ ~orphan'
    BY <1>11 DEF OrphanEnds, tests, call
  <2> QED
    BY <2>1 DEF Pristine
<1>12. CASE Terminate
  <2>1. UNCHANGED <<text, helper, runner, base, todo, answer, orphan>>
    BY <1>12 DEF Terminate, tests, groups
  <2> QED
    BY <2>1 DEF Pristine
<1>13. CASE KillRunner
  <2>1. runner' = "exit" /\ answer' = "error"
    BY <1>13 DEF KillRunner
  <2> QED
    BY <2>1
<1> QED
  BY <1>1, <1>2, <1>3, <1>4, <1>5, <1>6, <1>7, <1>8, <1>9, <1>10, <1>11, <1>12, <1>13
     DEF CallMoves, RunnerStep, Prepare, CleanUp, TestsStep

(* Tests are begun by LaunchTests only, and an answer that is no error is the tests'. *)
LEMMA CallFlow ==
  ASSUME CleanCall, CallMoves
  PROVE  /\ runner' \in Early => runner \in Early
         /\ runner' = "wait" => runner = "wait"
         /\ runner' \notin Early \cup {"wait"} /\ answer' # "error" =>
              runner = "wait" \/ (runner \notin Early \cup {"wait"} /\ answer # "error")
<1> USE DEF Early
<1>1. CASE Prepare
  <2>1. runner \in {"instrument", "write", "helper"} /\ answer' = answer /\ runner' # "wait"
    BY <1>1 DEF Prepare, Instrument, WriteTransformed, WriteFails, WriteHelper
  <2>2. answer = "error"
    BY <2>1 DEF CleanCall
  <2> QED
    BY <2>1, <2>2
<1>2. CASE CleanUp
  <2>1. runner \in {"drain", "verify", "restore"} /\ runner' \in {"verify", "restore", "exit"} /\ answer' \in {answer, "error"}
    BY <1>2 DEF CleanUp, Drain, VerifyInstalled, RestoreFile, RemoveHelper
  <2> QED
    BY <2>1
<1>3. CASE TestsInterrupted \/ TestsEnd \/ TestsTimeOut
  BY <1>3 DEF TestsInterrupted, TestsEnd, TestsTimeOut, EndTests
<1>4. CASE TestsEdit \/ OrphanEnds
  BY <1>4 DEF TestsEdit, OrphanEnds, call
<1>5. CASE Terminate \/ KillRunner
  BY <1>5 DEF Terminate, KillRunner
<1> QED
  BY <1>1, <1>2, <1>3, <1>4, <1>5 DEF CallMoves, RunnerStep, TestsStep

(* Once a call is over and none of its tests is alive, the files stay as they are. *)
LEMMA CallOver ==
  ASSUME runner = "none", ~gotest, ~orphan, CallMoves
  PROVE  FALSE
<1> QED
  BY DEF CallMoves, RunnerStep, Prepare, CleanUp, TestsStep, Instrument, WriteTransformed, WriteFails, WriteHelper, Drain,
         VerifyInstalled, RestoreFile, RemoveHelper, TestsInterrupted, TestsEnd, TestsTimeOut, EndTests, TestsEdit, OrphanEnds,
         Terminate, KillRunner

-----------------------------------------------------------------------------
(* The bridge begins with the project as it was shipped. *)
LEMMA InitBInv == Init => BInv
<1> SUFFICES ASSUME Init
             PROVE  BInv
  OBVIOUS
<1> USE MishapAssumption, PlanAssumption
<1>1. RunnerTypeOK
  <2>1. helper \in BOOLEAN /\ sigterm \in BOOLEAN /\ gotest \in BOOLEAN /\ orphan \in BOOLEAN
    BY DEF Init, RunnerInit
  <2>2. text \in [TestFile -> Text] /\ base \in [TestFile -> Text] /\ todo \in SUBSET TestFile
    BY DEF Init, RunnerInit, Text
  <2>3. runner \in RunnerLabel /\ answer \in Status \cup {"error"} /\ mishaps \in 0..MaxMishaps
    BY DEF Init, RunnerInit, RunnerLabel
  <2> QED
    BY <2>1, <2>2, <2>3 DEF RunnerTypeOK
<1>2. /\ content \in [Source -> (SUBSET Candidate) \cup {Torn}] /\ bridge = "module" /\ runner = "none"
      /\ covered \in SUBSET Candidate /\ k \in 1..(Candidates + 1) /\ saved \in SUBSET Candidate
      /\ replies = <<>> /\ views = <<>> /\ Len(replies) <= 2
      /\ verdict \in Verdict /\ outcomes \in [Candidate -> Verdict \cup {"none"}] /\ exit \in ExitCode
  BY DEF Init, RunnerInit, Verdict, ExitCode
<1>3. {broken, late, cancelled} \subseteq BOOLEAN
  BY DEF Init
<1>4. PlaceInv
  <2>1. ~gotest /\ replies \in Seq(Status) /\ views \in Seq(View) /\ bridge \in BridgeLabel
    BY <1>2 DEF Init, RunnerInit, BridgeLabel
  <2> QED
    BY <1>1, <1>2, <1>3, <2>1 DEF PlaceInv, TypeOK
<1>5. SourceInv
  BY <1>2 DEF Init, SourceInv, Originals, SourcesRestored
<1>6. CleanCall
  BY DEF Init, RunnerInit, CleanCall, Pristine
<1> QED
  BY <1>2, <1>4, <1>5, <1>6 DEF BInv, CallInv, TrialInv

(* A call that moves touches nothing of the bridge's, and the sources neither. *)
LEMMA CallStable == BInv /\ (RunnerRuns \/ TestsRun \/ SignalRunner \/ GraceIsOver) => BInv'
<1> SUFFICES ASSUME BInv, RunnerRuns \/ TestsRun \/ SignalRunner \/ GraceIsOver
             PROVE  BInv'
  OBVIOUS
<1>1. /\ CallMoves
      /\ UNCHANGED <<content, bridge, covered, k, saved, broken, verdict, outcomes, replies, cancelled, exit, views>>
      /\ late' \in BOOLEAN
  BY DEF RunnerRuns, TestsRun, SignalRunner, GraceIsOver, CallMoves, bridgeVars, plan, BInv, PlaceInv, TypeOK
<1>2. RunnerTypeOK /\ (gotest => runner = "wait")
  BY DEF BInv, PlaceInv, TypeOK
<1>3. /\ RunnerTypeOK' /\ (gotest' => runner' = "wait")
      /\ mishaps' >= mishaps /\ (runner = "none" => runner' = "none")
  BY <1>1, <1>2, CallTypes, CallFlags
<1>4. TypeOK'
  BY <1>1, <1>3 DEF BInv, PlaceInv, TypeOK
<1>5. PlaceInv'
  BY <1>1, <1>3, <1>4 DEF BInv, PlaceInv
<1>6. SourceInv'
  <2>1. mishaps \in Nat /\ mishaps' \in Nat
    BY <1>2, <1>3, MishapAssumption DEF RunnerTypeOK
  <2>2. SourcesRestored'
    BY <1>1, <1>3, <2>1 DEF BInv, SourceInv, SourcesRestored, Originals
  <2> QED
    BY <1>1, <2>2 DEF BInv, SourceInv, Originals, Mutant
<1>7. Condemned' = Condemned /\ Doubted' = Doubted /\ Ended' = Ended /\ Earned' = Earned
  BY <1>1 DEF Condemned, Doubted, Ended, Earned, FairTrial, Mutant
<1>8. CleanCall => CleanCall'
  BY <1>1, <1>2, CallStaysClean
<1>9. CallInv'
  <2>1. bridge = "done" => runner = "none" /\ ~gotest
    BY <1>2 DEF BInv, PlaceInv, Testing
  <2>2. ~(bridge = "done" /\ ~orphan)
    BY <1>1, <2>1, CallOver
  <2> QED
    BY <1>1, <1>7, <1>8, <2>2 DEF BInv, CallInv
<1>10. TrialInv'
  <2>1. CleanCall /\ FairSoFar => FairSoFar'
    <3> SUFFICES ASSUME CleanCall, FairSoFar
                 PROVE  FairSoFar'
      OBVIOUS
    <3>1. /\ runner' \in Early => runner \in Early
          /\ runner' = "wait" => runner = "wait"
          /\ runner' \notin Early \cup {"wait"} /\ answer' # "error" =>
               runner = "wait" \/ (runner \notin Early \cup {"wait"} /\ answer # "error")
      BY <1>1, CallFlow
    <3>2. FairTrial(k)' = FairTrial(k)
      BY <1>1 DEF FairTrial, Mutant
    <3> QED
      BY <1>1, <3>1, <3>2 DEF FairSoFar
  <2>2. bridge = "replay" => Condemned \/ CleanCall
    BY DEF BInv, CallInv, Ended
  <2> QED
    BY <1>1, <1>7, <2>1, <2>2 DEF BInv, TrialInv
<1> QED
  BY <1>5, <1>6, <1>9, <1>10 DEF BInv

(* A call is made in a testing phase, and begins with the files as they are. *)
LEMMA InvokeStable == BInv /\ Invoke => BInv'
<1> SUFFICES ASSUME BInv, Invoke
             PROVE  BInv'
  OBVIOUS
<1>1. /\ bridge \in Testing /\ runner = "none" /\ runner' = "instrument" /\ answer' = "error" /\ base' = text /\ todo' = {}
      /\ UNCHANGED <<text, helper, gotest, orphan, mishaps, content, bridge, covered, k, saved, broken, verdict, outcomes,
                     replies, cancelled, exit, views>>
      /\ sigterm' = FALSE /\ late' = FALSE
  BY DEF Invoke, StartRunner, tests, groups, plan
<1>2. RunnerTypeOK'
  <2>1. sigterm' \in BOOLEAN
    BY <1>1
  <2> QED
    BY <1>1, <2>1 DEF BInv, PlaceInv, TypeOK, RunnerTypeOK, RunnerLabel
<1>3. TypeOK'
  <2>1. {broken', late', cancelled'} \subseteq BOOLEAN
    BY <1>1 DEF BInv, PlaceInv, TypeOK
  <2> QED
    BY <1>1, <1>2, <2>1 DEF BInv, PlaceInv, TypeOK
<1>4. PlaceInv'
  BY <1>1, <1>3 DEF BInv, PlaceInv
<1>5. SourceInv'
  BY <1>1 DEF BInv, SourceInv, SourcesRestored, Originals, Mutant
<1>6. Condemned' = Condemned /\ Doubted' = Doubted /\ Ended' = Ended
  BY <1>1 DEF Condemned, Doubted, Ended
<1>7. CleanCall => CleanCall'
  BY <1>1 DEF CleanCall, Pristine
<1>8. FairSoFar => FairSoFar'
  BY <1>1 DEF FairSoFar, FairTrial, Mutant, Early
<1>9. bridge \notin {"done", "restore"}
  BY <1>1 DEF Testing
<1> QED
  BY <1>1, <1>4, <1>5, <1>6, <1>7, <1>8, <1>9 DEF BInv, CallInv, TrialInv

(* What the tests of a clean call see of the test files is their rewritten form. *)
LEMMA LaunchStable == BInv /\ LaunchTests => BInv'
<1> SUFFICES ASSUME BInv, LaunchTests
             PROVE  BInv'
  OBVIOUS
<1>1. /\ runner = "test" /\ runner' \in {"wait", "verify"}
      /\ UNCHANGED <<text, helper, base, todo, sigterm, answer, orphan, content, bridge, covered, k, saved, broken, verdict,
                     outcomes, replies, late, cancelled, exit>>
      /\ views' = IF gotest' THEN Append(views, [content |-> content, text |-> text]) ELSE views
  BY DEF LaunchTests, StartTests, tests, plan
<1>2. ~gotest
  BY <1>1 DEF BInv, PlaceInv
<1>3. (gotest' /\ runner' = "wait") \/ (~gotest' /\ runner' = "verify")
  BY <1>2 DEF LaunchTests, StartTests
<1>4. gotest' \in BOOLEAN /\ mishaps' \in 0..MaxMishaps /\ mishaps' >= mishaps
  <2>1. gotest' = TRUE \/ gotest' = gotest
    BY DEF LaunchTests, StartTests
  <2>2. mishaps' = mishaps \/ Mishap
    BY DEF LaunchTests, StartTests
  <2>3. gotest' \in BOOLEAN
    BY <2>1 DEF BInv, PlaceInv, TypeOK, RunnerTypeOK
  <2>4. mishaps' \in 0..MaxMishaps /\ mishaps' >= mishaps
    BY <2>2, MishapAssumption DEF BInv, PlaceInv, TypeOK, RunnerTypeOK, Mishap
  <2> QED
    BY <2>3, <2>4
<1>5. TypeOK'
  <2>1. RunnerTypeOK'
    BY <1>1, <1>4 DEF BInv, PlaceInv, TypeOK, RunnerTypeOK, RunnerLabel
  <2> QED
    BY <1>1, <2>1 DEF BInv, PlaceInv, TypeOK
<1>6. views \in Seq(View) /\ [content |-> content, text |-> text] \in View
  BY DEF BInv, PlaceInv, TypeOK, RunnerTypeOK, View
<1>7. views' \in Seq(View)
  BY <1>1, <1>6
<1>8. bridge \in Testing \cup {"killed"}
  BY <1>1 DEF BInv, PlaceInv
<1>9. PlaceInv'
  BY <1>1, <1>3, <1>5, <1>7, <1>8 DEF BInv, PlaceInv, Testing
<1>10. SourceInv'
  <2>1. SourcesRestored'
    BY <1>1, <1>8 DEF SourcesRestored, Testing
  <2> QED
    BY <1>1, <2>1 DEF BInv, SourceInv, Originals, Mutant
<1>11. Condemned' = Condemned /\ Doubted' = Doubted /\ Ended' = Ended
  BY <1>1 DEF Condemned, Doubted, Ended
<1>12. CleanCall => CleanCall'
  BY <1>1 DEF CleanCall
<1>13. bridge = "replay" /\ CleanCall /\ FairSoFar => FairSoFar'
  <2> SUFFICES ASSUME bridge = "replay", CleanCall, FairSoFar
               PROVE  FairSoFar'
    OBVIOUS
  <2>1. text = [f \in TestFile |-> "instrumented"] /\ answer = "error"
    BY <1>1 DEF CleanCall, BInv, PlaceInv, TypeOK, RunnerTypeOK
  <2>2. [content |-> content, text |-> text] = FairTrial(k)
    BY <2>1 DEF FairTrial, BInv, SourceInv
  <2>3. FairTrial(k)' = FairTrial(k)
    BY <1>1 DEF FairTrial, Mutant
  <2>4. Len(views) = Len(replies) /\ \A i \in 1..Len(views) : views[i] = FairTrial(k)
    BY <1>1 DEF FairSoFar, Early
  <2>5. CASE gotest'
    <3>1. views' = Append(views, FairTrial(k)) /\ FairTrial(k) \in View
      BY <1>1, <1>6, <2>2, <2>5
    <3>2. Len(views') = Len(views) + 1 /\ \A i \in 1..Len(views') : views'[i] = FairTrial(k)
      BY <1>6, <2>4, <3>1
    <3> QED
      BY <1>1, <1>3, <2>1, <2>3, <2>4, <2>5, <3>2 DEF FairSoFar, Early
  <2>6. CASE ~gotest'
    BY <1>1, <1>3, <2>1, <2>3, <2>4, <2>6 DEF FairSoFar, Early
  <2> QED
    BY <2>5, <2>6
<1>14. bridge \notin {"done", "restore"}
  BY <1>8 DEF Testing
<1>15. bridge = "replay" => Condemned \/ CleanCall
  BY DEF BInv, CallInv, Ended
<1> QED
  BY <1>1, <1>9, <1>10, <1>11, <1>12, <1>13, <1>14, <1>15 DEF BInv, CallInv, TrialInv

(* A finished call that gave no error has left the files clean. *)
LEMMA ReapedClean ==
  ASSUME BInv, Reap, ~cancelled, Replied, Reply # "toolError", CleanCall
  PROVE  CleanCall' /\ Pristine' /\ ~orphan' /\ answer # "error" /\ runner = "exit"
<1>1. runner = "exit" /\ answer # "error"
  BY DEF Replied, Reply
<1>2. Pristine /\ ~orphan
  BY <1>1 DEF CleanCall
<1>3. UNCHANGED <<text, helper, orphan>> /\ runner' = "none"
  BY DEF Reap, tests, groups
<1> QED
  BY <1>1, <1>2, <1>3 DEF CleanCall, Pristine

(* A finished call frees the bridge for its next step. *)
LEMMA ReapFacts ==
  ASSUME BInv, Reap, Replied
  PROVE  /\ RunnerTypeOK' /\ ~gotest' /\ runner' = "none" /\ mishaps' = mishaps /\ Reply \in Status
<1>1. RunnerTypeOK /\ (gotest => runner = "wait")
  BY DEF BInv, PlaceInv, TypeOK
<1>2. UNCHANGED <<text, helper, base, todo, sigterm, answer, gotest, orphan, mishaps>> /\ runner' = "none"
  BY DEF Reap, tests, groups
<1>3. ~gotest
  BY <1>1 DEF Replied
<1>4. Reply \in Status
  BY <1>1 DEF Reply, RunnerTypeOK, Status
<1> QED
  BY <1>1, <1>2, <1>3, <1>4 DEF RunnerTypeOK, RunnerLabel

(* Before the first mutant nothing is written, and a failed control ends the bridge. *)
LEMMA BaselineStable == BInv /\ Baseline => BInv'
<1> SUFFICES ASSUME BInv, Baseline
             PROVE  BInv'
  OBVIOUS
<1>1. /\ bridge \in {"module", "coverage", "control", "discover"}
      /\ UNCHANGED <<content, k, saved, broken, verdict, outcomes, late, cancelled>>
  BY DEF Baseline, ReadModulePath, FreshCoverage, RunControlTwice, DiscoverPlan, plan
<1>2. content = Originals /\ SourcesRestored /\ (Condemned <=> Doubted)
  BY <1>1 DEF BInv, SourceInv, Condemned
<1>3. \/ Reap /\ Replied
      \/ UNCHANGED runnerVars /\ runner = "none" /\ ~gotest
  <2>1. bridge \in {"module", "discover"} => runner = "none" /\ ~gotest
    BY DEF BInv, PlaceInv, Testing
  <2> QED
    BY <2>1 DEF Baseline, ReadModulePath, FreshCoverage, RunControlTwice, DiscoverPlan
<1>4. RunnerTypeOK' /\ ~gotest' /\ runner' = "none" /\ mishaps' = mishaps
  <2>1. CASE Reap /\ Replied
    BY <2>1, ReapFacts
  <2>2. CASE UNCHANGED runnerVars /\ runner = "none" /\ ~gotest
    BY <2>2 DEF BInv, PlaceInv, TypeOK, RunnerTypeOK, runnerVars, tests, call, groups
  <2> QED
    BY <1>3, <2>1, <2>2
<1>5. \/ bridge' = "done" /\ exit' \in {4, 5, 6}
      \/ bridge' \in {"coverage", "control", "discover", "next"} /\ exit' = exit
  BY DEF Baseline, ReadModulePath, FreshCoverage, RunControlTwice, DiscoverPlan, Fail
<1>6. covered' \in SUBSET Candidate
  BY DEF Baseline, ReadModulePath, FreshCoverage, RunControlTwice, DiscoverPlan, plan, BInv, PlaceInv, TypeOK
<1>7. /\ replies' \in Seq(Status) /\ Len(replies') <= 2 /\ views' \in Seq(View)
      /\ bridge' \in {"coverage", "control"} => Len(replies') < 2
  <2>1. replies \in Seq(Status) /\ Len(replies) <= 2 /\ views \in Seq(View) /\ (bridge # "discover" => Len(replies) < 2)
    BY <1>1 DEF BInv, PlaceInv, TypeOK
  <2>2. CASE ReadModulePath \/ DiscoverPlan
    BY <2>1, <2>2 DEF ReadModulePath, DiscoverPlan, plan, Fail
  <2>3. CASE FreshCoverage
    BY <2>1, <2>3 DEF FreshCoverage, plan, Fail
  <2>4. CASE RunControlTwice
    <3>1. Reply \in Status
      BY <2>4, ReapFacts DEF RunControlTwice
    <3>2. (replies' = replies \/ replies' = <<Reply>> \/ replies' = <<>>) /\ views' = <<>> /\ bridge = "control"
      BY <2>4 DEF RunControlTwice
    <3>3. <<Reply>> \in Seq(Status) /\ Len(<<Reply>>) = 1
      BY <3>1
    <3>4. CASE replies' = <<Reply>>
      BY <3>2, <3>3, <3>4
    <3>5. CASE replies' = replies
      BY <2>1, <3>2, <3>5
    <3>6. CASE replies' = <<>>
      BY <3>2, <3>6
    <3> QED
      BY <3>2, <3>4, <3>5, <3>6
  <2> QED
    BY <2>2, <2>3, <2>4 DEF Baseline
<1>8. TypeOK'
  <2>1. bridge' \in BridgeLabel /\ exit' \in ExitCode
    BY <1>5 DEF BInv, PlaceInv, TypeOK, BridgeLabel, Testing, ExitCode
  <2> QED
    BY <1>1, <1>4, <1>6, <1>7, <2>1 DEF BInv, PlaceInv, TypeOK
<1>9. PlaceInv'
  BY <1>4, <1>5, <1>7, <1>8 DEF PlaceInv
<1>10. SourceInv'
  BY <1>1, <1>2, <1>5 DEF SourceInv, SourcesRestored, Originals
<1>11. CallInv'
  <2>1. bridge' # "done" => Doubted \/ CleanCall
    BY <1>1, <1>2 DEF BInv, CallInv, Ended
  <2>2. Doubted' = Doubted
    BY <1>1 DEF Doubted
  <2>3. CleanCall /\ bridge' # "done" => CleanCall'
    <3>0. bridge \in {"module", "discover"} => runner = "none"
      BY DEF BInv, PlaceInv, Testing
    <3>1. CASE Reap /\ Replied
      <4>1. bridge' # "done" => ~cancelled /\ Reply # "toolError"
        BY <3>1, <3>0 DEF Replied, Baseline, ReadModulePath, FreshCoverage, RunControlTwice, DiscoverPlan, Fail
      <4> QED
        BY <3>1, <4>1, ReapedClean
    <3>2. CASE UNCHANGED runnerVars
      BY <3>2 DEF CleanCall, Pristine, runnerVars, tests, call, groups
    <3> QED
      BY <1>3, <3>1, <3>2
  <2> QED
    BY <1>5, <2>1, <2>2, <2>3 DEF CallInv, Ended, Condemned
<1>12. TrialInv'
  BY <1>5 DEF TrialInv
<1> QED
  BY <1>9, <1>10, <1>11, <1>12 DEF BInv

(* A candidate is taken up and its mutant written; a failed writing is put back, too. *)
LEMMA MutantStable == BInv /\ (NextCandidate \/ ReadSource \/ WriteMutant \/ Compile) => BInv'
<1> SUFFICES ASSUME BInv, NextCandidate \/ ReadSource \/ WriteMutant \/ Compile
             PROVE  BInv'
  OBVIOUS
<1>1. /\ bridge \in {"next", "read", "write", "compile"}
      /\ UNCHANGED <<text, helper, runner, base, todo, sigterm, answer, gotest, orphan, covered, late, cancelled>>
  BY DEF NextCandidate, ReadSource, WriteMutant, Compile, runnerVars, tests, call, groups
<1>2. runner = "none" /\ ~gotest
  BY <1>1 DEF BInv, PlaceInv, Testing
<1>3. mishaps' \in 0..MaxMishaps /\ mishaps' >= mishaps
  <2>1. mishaps' = mishaps \/ Mishap
    BY DEF NextCandidate, ReadSource, WriteMutant, Compile, runnerVars
  <2> QED
    BY <2>1, MishapAssumption DEF BInv, PlaceInv, TypeOK, RunnerTypeOK, Mishap
<1>4. RunnerTypeOK'
  BY <1>1, <1>3 DEF BInv, PlaceInv, TypeOK, RunnerTypeOK
<1>5. k \in 1..(Candidates + 1) /\ outcomes \in [Candidate -> Verdict \cup {"none"}] /\ (bridge # "next" => k \in Candidate)
  BY <1>1 DEF BInv, PlaceInv, TypeOK
<1>6. CleanCall' <=> CleanCall
  BY <1>1 DEF CleanCall, Pristine
<1>7. Doubted \/ CleanCall
  BY <1>1 DEF BInv, CallInv, Ended, Condemned
<1>8. CASE NextCandidate
  <2>1. /\ UNCHANGED <<content, saved, broken, verdict, replies, views>> /\ mishaps' = mishaps
        /\ bridge' \in {"done", "report", "next", "read"}
        /\ bridge' = "done" => exit' = 6
        /\ bridge' # "done" => exit' = exit
        /\ bridge' = "read" => k' = k /\ k \in covered
    BY <1>8 DEF NextCandidate, Fail, runnerVars
  <2>2. \/ k' = k /\ outcomes' = outcomes
        \/ k \in Candidate /\ k' = k + 1 /\ outcomes' = [outcomes EXCEPT ![k] = "uncovered"]
    BY <1>8 DEF NextCandidate
  <2>3. k' \in 1..(Candidates + 1) /\ outcomes' \in [Candidate -> Verdict \cup {"none"}]
    BY <1>5, <2>2, PlanAssumption DEF Candidate, Verdict
  <2>4. Doubted => Doubted'
    BY <1>5, <2>2, PlanAssumption DEF Doubted, Candidate
  <2>5. TypeOK'
    <3>1. bridge' \in BridgeLabel /\ exit' \in ExitCode
      BY <2>1 DEF BInv, PlaceInv, TypeOK, BridgeLabel, ExitCode
    <3> QED
      BY <1>1, <1>4, <2>1, <2>3, <3>1 DEF BInv, PlaceInv, TypeOK
  <2>6. PlaceInv'
    <3>1. covered \in SUBSET Candidate
      BY DEF BInv, PlaceInv, TypeOK
    <3> QED
      BY <1>1, <1>2, <2>1, <2>5, <3>1 DEF BInv, PlaceInv, Candidate
  <2>7. SourceInv'
    BY <1>8, <2>1 DEF BInv, SourceInv, SourcesRestored, Originals, NextCandidate
  <2>8. CallInv' /\ TrialInv'
    BY <1>6, <1>7, <2>1, <2>4 DEF CallInv, TrialInv, Condemned
  <2> QED
    BY <2>6, <2>7, <2>8 DEF BInv
<1>9. CASE ReadSource
  <2>1. /\ UNCHANGED <<content, k, broken, verdict, outcomes, replies, views>> /\ mishaps' = mishaps /\ bridge = "read"
        /\ \/ bridge' = "done" /\ exit' = 6 /\ saved' = saved
           \/ bridge' = "write" /\ exit' = exit /\ saved' = content[SourceOf[k]]
    BY <1>9 DEF ReadSource, Fail, runnerVars
  <2>2. content = Originals /\ content[SourceOf[k]] = {}
    BY <1>5, <2>1, PlanAssumption DEF BInv, SourceInv, Originals
  <2>3. TypeOK'
    <3>1. bridge' \in BridgeLabel /\ exit' \in ExitCode /\ saved' \in SUBSET Candidate
      BY <2>1, <2>2 DEF BInv, PlaceInv, TypeOK, BridgeLabel, ExitCode
    <3> QED
      BY <1>1, <1>4, <2>1, <3>1 DEF BInv, PlaceInv, TypeOK
  <2>4. PlaceInv'
    BY <1>1, <1>2, <1>5, <2>1, <2>3 DEF BInv, PlaceInv, Candidate
  <2>5. SourceInv'
    BY <2>1, <2>2 DEF SourceInv, SourcesRestored, Originals
  <2>6. CallInv' /\ TrialInv'
    BY <1>6, <1>7, <2>1 DEF CallInv, TrialInv, Condemned, Doubted
  <2> QED
    BY <2>4, <2>5, <2>6 DEF BInv
<1>10. CASE WriteMutant
  <2>1. /\ UNCHANGED <<k, saved, verdict, outcomes, exit>> /\ bridge = "write" /\ replies' = <<>> /\ views' = <<>>
        /\ \/ bridge' = "compile" /\ broken' = broken /\ content' = [content EXCEPT ![SourceOf[k]] = saved \cup {k}]
           \/ bridge' = "restore" /\ broken' = TRUE
              /\ (content' = content \/ content' = [content EXCEPT ![SourceOf[k]] = Torn])
    BY <1>10 DEF WriteMutant
  <2>2. content = Originals /\ saved = {} /\ SourceOf[k] \in Source /\ k \in Candidate
    BY <1>5, <2>1, PlanAssumption DEF BInv, SourceInv
  <2>3. content' \in [Source -> (SUBSET Candidate) \cup {Torn}]
    BY <2>1, <2>2 DEF Originals
  <2>4. TypeOK'
    <3>1. bridge' \in BridgeLabel /\ replies' \in Seq(Status) /\ Len(replies') <= 2
      BY <2>1 DEF BridgeLabel
    <3>2. broken' \in BOOLEAN
      <4>1. broken' = broken \/ broken' = TRUE
        BY <2>1
      <4> QED
        BY <4>1 DEF BInv, PlaceInv, TypeOK
    <3>3. {broken', late', cancelled'} \subseteq BOOLEAN
      BY <1>1, <3>2 DEF BInv, PlaceInv, TypeOK
    <3> QED
      BY <1>1, <1>4, <2>1, <2>3, <3>1, <3>3 DEF BInv, PlaceInv, TypeOK
  <2>5. PlaceInv'
    <3>1. views' \in Seq(View) /\ bridge' \in {"compile", "restore"}
      BY <2>1
    <3> QED
      BY <1>1, <1>2, <2>1, <2>2, <2>4, <3>1 DEF PlaceInv
  <2>6. SourceInv'
    <3>1. bridge' = "compile" => content' = Mutant(k)
      BY <2>1, <2>2 DEF Originals, Mutant
    <3>2. \A s \in Source : s # SourceOf[k] => content'[s] = {}
      BY <2>1, <2>2 DEF Originals
    <3>3. k' = k /\ saved' = {} /\ bridge' \in {"compile", "restore"}
      BY <2>1, <2>2
    <3>4. Mutant(k)' = Mutant(k)
      BY <3>3 DEF Mutant
    <3> QED
      BY <3>1, <3>2, <3>3, <3>4 DEF SourceInv, SourcesRestored
  <2>7. CallInv' /\ TrialInv'
    <3>1. Doubted' = Doubted /\ bridge' \in {"compile", "restore"} /\ verdict' = verdict
      BY <2>1 DEF Doubted
    <3>2. bridge' = "restore" => broken'
      BY <2>1
    <3> QED
      BY <1>6, <1>7, <3>1, <3>2 DEF CallInv, TrialInv, Condemned
  <2> QED
    BY <2>5, <2>6, <2>7 DEF BInv
<1>11. CASE Compile
  <2>1. /\ UNCHANGED <<content, k, saved, broken, outcomes, replies, exit, views>> /\ mishaps' = mishaps /\ bridge = "compile"
        /\ \/ bridge' = "restore" /\ verdict' \in {"toolError", "timedOut", "compileError"}
           \/ bridge' = "replay" /\ verdict' = verdict
    BY <1>11 DEF Compile, Judged, runnerVars
  <2>2. replies = <<>> /\ views = <<>> /\ content = Mutant(k) /\ saved = {} /\ k \in Candidate
    BY <1>5, <2>1 DEF BInv, PlaceInv, SourceInv
  <2>3. TypeOK'
    <3>1. bridge' \in BridgeLabel /\ verdict' \in Verdict
      BY <2>1 DEF BInv, PlaceInv, TypeOK, BridgeLabel, Testing, Verdict
    <3> QED
      BY <1>1, <1>4, <2>1, <3>1 DEF BInv, PlaceInv, TypeOK
  <2>4. PlaceInv'
    BY <1>1, <1>2, <2>1, <2>2, <2>3 DEF BInv, PlaceInv
  <2>5. SourceInv'
    BY <2>1, <2>2 DEF SourceInv, SourcesRestored, Mutant
  <2>6. CallInv'
    BY <1>6, <1>7, <2>1 DEF CallInv, Condemned, Doubted
  <2>7. TrialInv'
    <3>1. FairSoFar'
      BY <1>1, <1>2, <2>1, <2>2 DEF FairSoFar, Early
    <3> QED
      BY <2>1, <3>1 DEF TrialInv
  <2> QED
    BY <2>4, <2>5, <2>6, <2>7 DEF BInv
<1> QED
  BY <1>8, <1>9, <1>10, <1>11

(* Two replies make the verdict; one reply to a replay that was not fair, or
   could not be cleaned up, makes it a tool error. *)
LEMMA ReplayStable == BInv /\ Replay => BInv'
<1> SUFFICES ASSUME BInv, Replay
             PROVE  BInv'
  OBVIOUS
<1>1. /\ bridge = "replay" /\ Replied /\ Reap /\ replies' = Append(replies, Reply)
      /\ UNCHANGED <<content, covered, k, saved, broken, outcomes, late, cancelled, exit, views>>
  BY DEF Replay
<1>2. RunnerTypeOK' /\ ~gotest' /\ runner' = "none" /\ mishaps' = mishaps /\ Reply \in Status
  BY <1>1, ReapFacts
<1>3. /\ replies \in Seq(Status) /\ (Len(replies) = 0 \/ Len(replies) = 1) /\ views \in Seq(View) /\ k \in Candidate
      /\ content = Mutant(k) /\ saved = {}
  <2>1. replies \in Seq(Status) /\ Len(replies) < 2 /\ views \in Seq(View) /\ k \in Candidate
    BY <1>1 DEF BInv, PlaceInv, TypeOK
  <2>2. PICK n \in Nat : n = Len(replies)
    BY <2>1
  <2>3. content = Mutant(k) /\ saved = {}
    BY <1>1 DEF BInv, SourceInv
  <2>4. n = 0 \/ n = 1
    BY <2>1, <2>2
  <2> QED
    BY <2>1, <2>2, <2>3, <2>4
<1>4. /\ replies' \in Seq(Status) /\ Len(replies') = Len(replies) + 1 /\ replies'[Len(replies) + 1] = Reply
      /\ Len(replies) = 1 => replies'[1] = replies[1] /\ replies[1] \in Status
  BY <1>1, <1>2, <1>3
<1>5. \/ bridge' = "replay" /\ verdict' = verdict /\ Len(replies) = 0 /\ ~cancelled
      \/ bridge' = "restore" /\ verdict' = "toolError" /\ cancelled
      \/ bridge' = "restore" /\ verdict' = Classify(replies[1], Reply) /\ Len(replies) = 1 /\ ~cancelled
  BY <1>1 DEF Replay, Judged
<1>6. TypeOK'
  <2>1. bridge' \in BridgeLabel
    BY <1>5 DEF BridgeLabel, Testing
  <2>2. verdict' \in Verdict
    <3>1. Len(replies) = 1 => Classify(replies[1], Reply) \in Verdict
      BY <1>2, <1>4 DEF Classify, VerdictOf, Verdict, Status
    <3> QED
      BY <1>5, <3>1 DEF BInv, PlaceInv, TypeOK, Verdict
  <2>3. Len(replies') <= 2
    <3>1. PICK n \in Nat : n = Len(replies')
      BY <1>4
    <3>2. PICK m \in {0, 1} : m = Len(replies)
      BY <1>3
    <3>3. n = m + 1
      BY <1>4, <3>1, <3>2
    <3>4. n = 1 \/ n = 2
      BY <3>1, <3>2, <3>3
    <3> QED
      BY <3>1, <3>4
  <2> QED
    BY <1>1, <1>2, <1>4, <2>1, <2>2, <2>3 DEF BInv, PlaceInv, TypeOK
<1>7. PlaceInv'
  <2>1. bridge' \in {"replay", "restore"} /\ (bridge' = "replay" => Len(replies') < 2)
    BY <1>3, <1>4, <1>5
  <2> QED
    BY <1>1, <1>2, <1>3, <1>6, <2>1 DEF PlaceInv, Candidate
<1>8. SourceInv'
  <2>1. bridge' \in {"replay", "restore"}
    BY <1>5
  <2>2. Mutant(k)' = Mutant(k) /\ \A s \in Source : s # SourceOf[k] => content[s] = {}
    BY <1>1, <1>3 DEF Mutant
  <2> QED
    BY <1>1, <1>3, <2>1, <2>2 DEF SourceInv, SourcesRestored
<1>9. Doubted' = Doubted
  BY <1>1 DEF Doubted
<1>10. ASSUME cancelled \/ Reply = "toolError" \/ (Len(replies) = 1 /\ replies[1] = "toolError")
       PROVE  Condemned'
  <2>1. Reply = "toolError" \/ replies[1] = "toolError" => Classify(replies[1], Reply) = "toolError"
    BY DEF Classify, VerdictOf
  <2> QED
    BY <1>4, <1>5, <1>10, <2>1 DEF Condemned
<1>11. Condemned => Condemned'
  BY <1>1, <1>9, <1>10 DEF Condemned
<1>12. CallInv'
  <2>1. Condemned \/ CleanCall
    BY <1>1 DEF BInv, CallInv, Ended
  <2>2. CleanCall /\ ~cancelled /\ Reply # "toolError" => CleanCall'
    BY <1>1, ReapedClean
  <2>3. bridge' # "done"
    BY <1>5
  <2> QED
    BY <1>10, <1>11, <2>1, <2>2, <2>3 DEF CallInv
<1>13. ASSUME ~Condemned'
       PROVE  /\ FairSoFar /\ Len(views) = Len(replies) + 1
              /\ Reply = answer
  <2>1. ~Condemned /\ ~cancelled /\ Reply # "toolError"
    BY <1>10, <1>11, <1>13
  <2>2. FairSoFar
    BY <1>1, <2>1 DEF BInv, TrialInv
  <2>3. runner = "exit" /\ answer # "error" /\ Reply = answer
    BY <1>1, <2>1 DEF Replied, Reply
  <2> QED
    BY <2>2, <2>3 DEF FairSoFar, Early
<1>14. FairTrial(k)' = FairTrial(k)
  BY <1>1 DEF FairTrial, Mutant
<1>15. bridge' = "replay" => Condemned' \/ FairSoFar'
  BY <1>1, <1>2, <1>4, <1>13, <1>14 DEF FairSoFar, Early
<1>16. bridge' = "restore" /\ verdict' \in {"killed", "survived"} => Doubted' \/ Earned'
  <2> SUFFICES ASSUME bridge' = "restore", verdict' \in {"killed", "survived"}, ~Doubted'
               PROVE  Earned'
    OBVIOUS
  <2>1. ~Condemned'
    BY DEF Condemned
  <2>2. Len(replies) = 1 /\ verdict' = Classify(replies[1], Reply)
    BY <1>5
  <2>3. Len(views) = 2 /\ views[1] = FairTrial(k) /\ views[2] = FairTrial(k)
    BY <1>13, <2>1, <2>2, <1>3 DEF FairSoFar
  <2>4. views = <<FairTrial(k), FairTrial(k)>>
    <3> DEFINE t == <<views[1], views[2]>>
    <3>1. views[1] \in View /\ views[2] \in View
      BY <1>3, <2>3
    <3>2. t \in Seq(View) /\ Len(t) = 2 /\ \A i \in 1..2 : t[i] = views[i]
      BY <3>1
    <3> HIDE DEF t
    <3>3. views = t
      BY <1>3, <2>3, <3>2, SeqEqual
    <3> QED
      BY <2>3, <3>3 DEF t
  <2>5. replies[1] = Reply /\ Reply = IF verdict' = "killed" THEN "assertionFailure" ELSE "passed"
    BY <1>2, <2>2 DEF Classify, VerdictOf, Status
  <2>6. replies'[1] = replies[1] /\ replies'[2] = Reply
    BY <1>4, <2>2
  <2>7. views' = <<FairTrial(k)', FairTrial(k)'>>
    BY <1>1, <1>14, <2>4
  <2> QED
    BY <2>5, <2>6, <2>7 DEF Earned
<1>17. TrialInv'
  BY <1>15, <1>16 DEF TrialInv
<1> QED
  BY <1>7, <1>8, <1>12, <1>17 DEF BInv

(* The source is put back before anything is recorded, or the bridge ends without a report. *)
LEMMA RestoreStable == BInv /\ RestoreSource => BInv'
<1> SUFFICES ASSUME BInv, RestoreSource
             PROVE  BInv'
  OBVIOUS
<1>1. /\ bridge = "restore"
      /\ UNCHANGED <<text, helper, runner, base, todo, sigterm, answer, gotest, orphan, covered, saved, broken, verdict,
                     replies, late, cancelled, views>>
  BY DEF RestoreSource, tests, call, groups
<1>2. runner = "none" /\ ~gotest /\ k \in Candidate /\ saved = {} /\ SourceOf[k] \in Source
  BY <1>1, PlanAssumption DEF BInv, PlaceInv, SourceInv, Testing
<1>3. /\ content \in [Source -> (SUBSET Candidate) \cup {Torn}]
      /\ \A s \in Source : s # SourceOf[k] => content[s] = {}
  BY <1>1 DEF BInv, PlaceInv, TypeOK, SourceInv
<1>4. \/ content' = [content EXCEPT ![SourceOf[k]] = {}] /\ mishaps' = mishaps
      \/ /\ Mishap /\ bridge' = "done" /\ exit' = 6 /\ UNCHANGED <<outcomes, k>>
         /\ content' = content \/ content' = [content EXCEPT ![SourceOf[k]] = Torn]
  BY <1>2 DEF RestoreSource, Fail
<1>5. \/ bridge' = "done" /\ exit' = 6 /\ UNCHANGED <<outcomes, k>>
      \/ /\ bridge' = "next" /\ exit' = exit /\ ~broken /\ k' = k + 1 /\ mishaps' = mishaps
         /\ outcomes' = [outcomes EXCEPT ![k] = verdict]
  BY DEF RestoreSource, Fail
<1>6. content' \in [Source -> (SUBSET Candidate) \cup {Torn}]
  BY <1>3, <1>4
<1>7. content' = Originals \/ (Mishap /\ bridge' = "done")
  <2>1. [content EXCEPT ![SourceOf[k]] = {}] = Originals
    BY <1>3 DEF Originals
  <2> QED
    BY <1>4, <2>1
<1>8. mishaps \in 0..MaxMishaps /\ mishaps' \in 0..MaxMishaps /\ (Mishap => mishaps' > 0)
  <2>1. mishaps \in 0..MaxMishaps
    BY DEF BInv, PlaceInv, TypeOK, RunnerTypeOK
  <2> QED
    BY <1>4, <2>1, MishapAssumption DEF Mishap
<1>9. TypeOK'
  <2>1. RunnerTypeOK'
    BY <1>1, <1>8 DEF BInv, PlaceInv, TypeOK, RunnerTypeOK
  <2>2. bridge' \in BridgeLabel /\ exit' \in ExitCode
    BY <1>5 DEF BInv, PlaceInv, TypeOK, BridgeLabel, ExitCode
  <2>3. k' \in 1..(Candidates + 1)
    BY <1>2, <1>5, PlanAssumption DEF Candidate
  <2>4. outcomes' \in [Candidate -> Verdict \cup {"none"}]
    <3>1. outcomes \in [Candidate -> Verdict \cup {"none"}] /\ verdict \in Verdict
      BY DEF BInv, PlaceInv, TypeOK
    <3> QED
      BY <1>5, <3>1
  <2> QED
    BY <1>1, <1>6, <2>1, <2>2, <2>3, <2>4 DEF BInv, PlaceInv, TypeOK
<1>10. PlaceInv'
  BY <1>1, <1>2, <1>5, <1>9 DEF BInv, PlaceInv
<1>11. SourceInv'
  <2>1. SourcesRestored'
    BY <1>5, <1>7, <1>8 DEF SourcesRestored, Originals
  <2>2. bridge' = "next" => content' = Originals
    BY <1>7
  <2> QED
    BY <1>5, <2>1, <2>2 DEF SourceInv, Originals
<1>12. CallInv'
  <2>1. Condemned \/ CleanCall
    BY <1>1 DEF BInv, CallInv, Ended
  <2>2. CleanCall => CleanCall'
    BY <1>1 DEF CleanCall, Pristine
  <2>3. ASSUME Condemned, bridge' = "next"
        PROVE  Doubted'
    <3>1. Doubted \/ verdict = "toolError"
      BY <1>1, <2>3 DEF Condemned
    <3>2. outcomes' = [outcomes EXCEPT ![k] = verdict] /\ k' = k + 1 /\ outcomes \in [Candidate -> Verdict \cup {"none"}]
      BY <1>5, <2>3 DEF BInv, PlaceInv, TypeOK
    <3>3. CASE verdict = "toolError"
      <4>1. k \in 1..(k' - 1) /\ outcomes'[k] = "toolError"
        BY <1>2, <3>2, <3>3, PlanAssumption DEF Candidate
      <4> QED
        BY <4>1 DEF Doubted
    <3>4. CASE Doubted
      <4>1. PICK i \in 1..(k - 1) : outcomes[i] = "toolError"
        BY <3>4 DEF Doubted
      <4>2. i \in 1..(k' - 1) /\ outcomes'[i] = "toolError"
        BY <1>2, <3>2, <4>1, PlanAssumption DEF Candidate
      <4> QED
        BY <4>2 DEF Doubted
    <3> QED
      BY <3>1, <3>3, <3>4
  <2> QED
    BY <1>5, <2>1, <2>2, <2>3 DEF CallInv, Ended, Condemned
<1>13. TrialInv'
  BY <1>5 DEF TrialInv
<1> QED
  BY <1>10, <1>11, <1>12, <1>13 DEF BInv

(* The report, and the adapter's signals; the rest stutters. *)
LEMMA EndStable == BInv /\ (Report \/ Cancel \/ KillBridge \/ UNCHANGED vars) => BInv'
<1> SUFFICES ASSUME BInv, Report \/ Cancel \/ KillBridge \/ UNCHANGED vars
             PROVE  BInv'
  OBVIOUS
<1>1. /\ UNCHANGED <<text, helper, runner, base, todo, sigterm, answer, gotest, orphan, mishaps, content, covered, k, saved,
                     broken, verdict, outcomes, replies, late, views>>
      /\ cancelled' = cancelled \/ cancelled' = TRUE
  BY DEF Report, Cancel, KillBridge, vars, bridgeVars, plan, runnerVars, tests, call, groups
<1>2. \/ bridge' = bridge /\ exit' = exit
      \/ bridge' = "killed" /\ exit' = exit
      \/ bridge = "report" /\ bridge' = "done" /\ exit' \in {0, 6}
  BY DEF Report, Cancel, KillBridge, Fail, vars, bridgeVars, plan
<1>3. TypeOK'
  <2>1. RunnerTypeOK'
    BY <1>1 DEF BInv, PlaceInv, TypeOK, RunnerTypeOK
  <2>2. bridge' \in BridgeLabel /\ exit' \in ExitCode
    BY <1>2 DEF BInv, PlaceInv, TypeOK, BridgeLabel, ExitCode
  <2>3. {broken', late', cancelled'} \subseteq BOOLEAN
    <3>1. {broken, late, cancelled} \subseteq BOOLEAN
      BY DEF BInv, PlaceInv, TypeOK
    <3> QED
      BY <1>1, <3>1
  <2> QED
    BY <1>1, <2>1, <2>2, <2>3 DEF BInv, PlaceInv, TypeOK
<1>4. PlaceInv'
  BY <1>1, <1>2, <1>3 DEF BInv, PlaceInv, Testing
<1>5. SourceInv'
  <2>1. bridge = "report" => content = Originals
    BY DEF BInv, SourceInv
  <2> QED
    BY <1>1, <1>2, <2>1 DEF BInv, SourceInv, SourcesRestored, Originals, Mutant
<1>6. CleanCall' = CleanCall /\ Doubted' = Doubted /\ Earned' = Earned /\ FairSoFar' = FairSoFar
  BY <1>1 DEF CleanCall, Pristine, Doubted, Earned, FairSoFar, FairTrial, Mutant
<1>7. CASE bridge' = bridge /\ exit' = exit
  <2>1. Condemned' = Condemned /\ Ended' = Ended
    BY <1>1, <1>7 DEF Condemned, Doubted, Ended
  <2> QED
    BY <1>1, <1>4, <1>5, <1>6, <1>7, <2>1 DEF BInv, CallInv, TrialInv, Pristine
<1>8. CASE bridge' = "killed" /\ exit' = exit
  BY <1>4, <1>5, <1>8 DEF BInv, CallInv, TrialInv, Ended
<1>9. CASE bridge = "report" /\ bridge' = "done" /\ exit' \in {0, 6}
  <2>1. Doubted \/ CleanCall
    BY <1>9 DEF BInv, CallInv, Ended, Condemned
  <2>2. Doubted => \E j \in Candidate : outcomes[j] = "toolError"
    BY PlanAssumption DEF Doubted, Candidate, BInv, PlaceInv, TypeOK
  <2>3. CleanCall => Pristine /\ ~orphan
    BY <1>9 DEF CleanCall, BInv, PlaceInv, Testing
  <2>4. CallInv'
    BY <1>1, <1>9, <2>1, <2>2, <2>3 DEF CallInv, Ended, Pristine
  <2> QED
    BY <1>4, <1>5, <1>9, <2>4 DEF BInv, TrialInv
<1> QED
  BY <1>2, <1>7, <1>8, <1>9

-----------------------------------------------------------------------------

(* The invariant holds in every state, whatever the tests do and whenever the
   bridge and its runners are signalled and killed. *)
THEOREM BridgeInvariant == Spec => []BInv
<1>1. BInv /\ [Next]_vars => BInv'
  BY CallStable, InvokeStable, LaunchStable, BaselineStable, MutantStable, ReplayStable, RestoreStable, EndStable
     DEF Next, BridgeStep, Campaign
<1> QED
  BY InitBInv, <1>1, PTL DEF Spec

(* Every variable stays in its domain (TypeOK). *)
THEOREM BridgeTypeCorrect == Spec => []TypeOK
<1>1. BInv => TypeOK
  BY DEF BInv, PlaceInv
<1> QED
  BY BridgeInvariant, <1>1, PTL

(* While tests run the sources are the original ones with, in a replay, exactly
   the current mutant applied (withMutationRestored). *)
THEOREM MutantsAreTestedAlone == Spec => []OneMutantAtATime
<1>1. BInv => OneMutantAtATime
  <2> SUFFICES ASSUME BInv, gotest, ~Ended
               PROVE  /\ bridge \in Testing
                      /\ content = IF bridge = "replay" THEN Mutant(k) ELSE Originals
    BY DEF OneMutantAtATime
  <2>1. bridge \in Testing
    BY DEF BInv, PlaceInv, Ended
  <2> QED
    BY <2>1 DEF BInv, SourceInv, Testing
<1> QED
  BY BridgeInvariant, <1>1, PTL

(* A bridge that ends has put every source back, or a system call failed and it
   gives no report (main.go:472). *)
THEOREM SourcesAreRestored == Spec => []SourcesRestored
<1>1. BInv => SourcesRestored
  BY DEF BInv, SourceInv
<1> QED
  BY BridgeInvariant, <1>1, PTL

(* A bridge that ends has no runner left, and one that reports without tool
   errors no trace of any of its runs (main.go:585). *)
THEOREM NoRunnerIsLeft == Spec => []NothingIsLeft
<1>1. BInv => NothingIsLeft
  <2> SUFFICES ASSUME BInv, bridge = "done"
               PROVE  /\ runner = "none" /\ ~gotest
                      /\ exit = 0 /\ (\A j \in Candidate : outcomes[j] # "toolError") => Pristine /\ ~orphan
    BY DEF NothingIsLeft
  <2>1. runner = "none" /\ ~gotest
    BY DEF BInv, PlaceInv, Testing
  <2> QED
    BY <2>1 DEF BInv, CallInv
<1> QED
  BY BridgeInvariant, <1>1, PTL

(* A recorded killed or survived was earned by two equal runs that both saw the
   mutant under the original tests, unless a tool error condemns the report
   (classifyMutant, Execute). *)
THEOREM VerdictsOfTheBridge == Spec => VerdictIsEarned
<1> DEFINE Step == \A j \in Candidate :
       outcomes'[j] # outcomes[j] /\ outcomes'[j] \in {"killed", "survived"} =>
         \/ \E i \in 1..(j - 1) : outcomes[i] = "toolError"
         \/ /\ views = <<FairTrial(j), FairTrial(j)>>
            /\ replies[1] = replies[2]
            /\ replies[1] = IF outcomes'[j] = "killed" THEN "assertionFailure" ELSE "passed"
<1>1. BInv /\ [Next]_vars => [Step]_vars
  <2> SUFFICES ASSUME BInv, [Next]_vars, NEW j \in Candidate,
                      outcomes'[j] # outcomes[j], outcomes'[j] \in {"killed", "survived"}
               PROVE  \/ \E i \in 1..(j - 1) : outcomes[i] = "toolError"
                      \/ /\ views = <<FairTrial(j), FairTrial(j)>>
                         /\ replies[1] = replies[2]
                         /\ replies[1] = IF outcomes'[j] = "killed" THEN "assertionFailure" ELSE "passed"
    OBVIOUS
  <2>1. outcomes' # outcomes /\ outcomes \in [Candidate -> Verdict \cup {"none"}]
    BY DEF BInv, PlaceInv, TypeOK
  <2>2. NextCandidate \/ RestoreSource
    BY <2>1 DEF Next, BridgeStep, Campaign, Baseline, Invoke, ReadModulePath, FreshCoverage, RunControlTwice, DiscoverPlan,
         ReadSource, WriteMutant, Compile, Replay, Report, LaunchTests, RunnerRuns, TestsRun, SignalRunner, GraceIsOver,
         Cancel, KillBridge, vars, bridgeVars, plan
  <2>3. ~NextCandidate
    BY <2>1 DEF NextCandidate
  <2>4. bridge = "restore" /\ ~broken /\ outcomes' = [outcomes EXCEPT ![k] = verdict]
    BY <2>1, <2>2, <2>3 DEF RestoreSource
  <2>5. j = k /\ outcomes'[j] = verdict
    BY <2>1, <2>4
  <2> QED
    BY <2>4, <2>5 DEF BInv, TrialInv, Doubted, Earned
<1> QED
  BY BridgeInvariant, <1>1, PTL DEF Spec, VerdictIsEarned
=============================================================================
