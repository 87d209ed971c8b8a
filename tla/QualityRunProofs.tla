-------------------------- MODULE QualityRunProofs --------------------------
(***************************************************************************)
(* What is proved of one sentinel-go command, for any project, any number  *)
(* of edits, any answer of the bridge and a kill at any step.              *)
(***************************************************************************)
EXTENDS QualityRun, TLAPS

(***************************************************************************)
(* The inductive invariant, by what a label says of the command.           *)
(***************************************************************************)
Before   == {"project", "doctor", "history", "scope", "initialize", "start"}
InCrap   == {"coverage", "analyze"}
Asking   == {"executables", "resolve", "request", "capture"}
InBridge == {"bridge", "terminate", "reap"}
Copied   == {"copy", "launch", "verify", "validate", "remove"} \cup InBridge
Mutating == Asking \cup Copied \cup {"judge"}

(* what the CRAP component leaves to the mutation component *)
CrapVerdict ==
  IF ~HasCrap THEN crap = None /\ exit = Passed
  ELSE IF crap = None THEN exit \in {BaselineFailed, DependencyError}
  ELSE exit = IF CrapPass THEN Passed ELSE QualityFailed

(* how far the run is *)
RunInv ==
  /\ ~HasMutation => options.sources = {}
  /\ pc \in Before \cup InCrap => crap = None /\ mutation = None /\ failure = 0 /\ exit = Passed
  /\ pc \in Before \cup InCrap \cup Mutating \cup {"record"} => evidence = None
  /\ pc \in InCrap \cup Mutating \cup {"record"} => started
  /\ pc = "doctor" => options.command = "doctor"
  /\ pc = "history" => options.command = "history"
  /\ pc \in {"scope", "initialize", "start"} => HasCrap \/ HasMutation
  /\ pc \in InCrap => HasCrap
  /\ pc \in Mutating => HasMutation /\ CrapVerdict

(* what the mutation component has so far: a report or an error, never both *)
ReportInv ==
  /\ failure \in {0, ToolError, UsageConfigError, BaselineFailed, DependencyError, BackendError}
  /\ pc \in Mutating \ {"remove", "judge"} => mutation = None
  /\ pc \in Asking \cup {"copy", "launch", "bridge", "validate"} => failure = 0
  /\ pc = "terminate" => failure # 0
  /\ pc \in {"reap", "verify", "validate"} /\ failure = 0 => raw \in RawReport
  /\ pc \in {"remove", "judge"} => (mutation = None <=> failure # 0)

(* the snapshot is there while the bridge may live, and is of one version *)
SnapshotInv ==
  /\ pc \in Copied => root /\ copy \in [version : 0..MaxEdits, files : SUBSET File]
  /\ bridge => pc \in InBridge \cup {"killed"} /\ started /\ evidence = None /\ root
  /\ pc \in {"copy", "launch"} \cup InBridge => copy.version <= version
  /\ pc = "verify" => copy.version <= ended /\ ended <= version
  /\ pc = "validate" => copy.version = ended

(* the scope is the user's *)
ScopeInv ==
  pc \in {"initialize", "start"} \cup InCrap \cup Asking \cup Copied \/ bridge =>
    (options.sources # {} => scope = options.sources)

(* what is put on record, and what is told *)
OutcomeInv ==
  /\ pc = "record" =>
       /\ exit \in {Passed, ToolError, QualityFailed, BaselineFailed, DependencyError, BackendError}
       /\ exit = Passed => ComponentsPass \/ failure = UsageConfigError
       /\ exit = QualityFailed => ~ComponentsPass
       /\ HasMutation /\ mutation # None /\ "toolError" \in mutation =>
            exit = BackendError \/ (options.command = "check" /\ crap = None)
  /\ pc \in {"output", "done"} /\ exit = Passed /\ (HasCrap \/ HasMutation) =>
       ComponentsPass /\ evidence = [exit |-> Passed, certified |-> TRUE]

QInv ==
  /\ TypeOK /\ RunInv /\ ReportInv /\ SnapshotInv /\ ScopeInv /\ OutcomeInv
  /\ MutationReportIsCurrent /\ EvidenceErrorHasCause

-----------------------------------------------------------------------------
(* The place of each exit code in failurePriorities; a code is chosen by it. *)
LEMMA Priorities ==
  /\ Priority(Passed) = 0 /\ Priority(UsageConfigError) = 0 /\ Priority(QualityFailed) = 1
  /\ Priority(BaselineFailed) = 2 /\ Priority(Cancelled) = 3 /\ Priority(BackendError) = 4
  /\ Priority(DependencyError) = 5 /\ Priority(ToolError) = 6 /\ Priority(EvidenceError) = 7
<1> DEFINE s == Severity
<1>1. /\ DOMAIN s = 1..7 /\ s[1] = 2 /\ s[2] = 4 /\ s[3] = 8 /\ s[4] = 6 /\ s[5] = 5 /\ s[6] = 1 /\ s[7] = 7
  BY DEF Severity, QualityFailed, BaselineFailed, Cancelled, BackendError, DependencyError, ToolError, EvidenceError
<1>2. ASSUME NEW code, NEW i \in 1..7, s[i] = code
      PROVE  Priority(code) = i
  <2>1. \A j \in DOMAIN s : s[j] = code => j = i
    BY <1>1, <1>2
  <2> QED
    BY <1>1, <1>2, <2>1 DEF Priority
<1>3. ASSUME NEW code, \A i \in 1..7 : s[i] # code
      PROVE  Priority(code) = 0
  BY <1>1, <1>3 DEF Priority
<1> HIDE DEF s
<1>4. Priority(0) = 0 /\ Priority(3) = 0
  BY <1>1, <1>3
<1>5. /\ Priority(2) = 1 /\ Priority(4) = 2 /\ Priority(8) = 3 /\ Priority(6) = 4
      /\ Priority(5) = 5 /\ Priority(1) = 6 /\ Priority(7) = 7
  BY <1>1, <1>2
<1> QED
  BY <1>4, <1>5 DEF Passed, UsageConfigError, QualityFailed, BaselineFailed, Cancelled, BackendError,
                    DependencyError, ToolError, EvidenceError

(* Nothing is decided before the command begins. *)
LEMMA InitQInv == Init => QInv
<1> SUFFICES ASSUME Init
             PROVE  QInv
  OBVIOUS
<1>1. TypeOK
  <2>1. {root, bridge, started, storeFailed} \subseteq BOOLEAN
    BY DEF Init
  <2>2. /\ version \in 0..MaxEdits /\ ended \in 0..MaxEdits /\ pc \in Label
        /\ {failure, exit} \subseteq Passed..Cancelled
    BY EditsAssumption DEF Init, Label, Passed, Cancelled
  <2>3. files \subseteq File /\ scope \subseteq File
    BY DEF Init
  <2> QED
    BY <2>1, <2>2, <2>3 DEF Init, TypeOK
<1>2. /\ RunInv /\ ReportInv /\ SnapshotInv /\ ScopeInv /\ OutcomeInv
      /\ MutationReportIsCurrent /\ EvidenceErrorHasCause
  BY DEF Init, RunInv, ReportInv, SnapshotInv, ScopeInv, OutcomeInv, MutationReportIsCurrent,
         EvidenceErrorHasCause, Before, InCrap, Asking, InBridge, Copied, Mutating, HasMutation, Passed
<1> QED
  BY <1>1, <1>2 DEF QInv

(* Up to its run the command has no report, and a failure is told by its code. *)
LEMMA PrepareStable == QInv /\ PrepareStep => QInv'
<1> SUFFICES ASSUME QInv, PrepareStep
             PROVE  QInv'
  OBVIOUS
<1> USE DEF Passed, ToolError, QualityFailed, UsageConfigError, BaselineFailed, DependencyError,
            BackendError, EvidenceError, Cancelled
<1>1. /\ pc \in Before
      /\ UNCHANGED <<version, files, options, crap, mutation, failure, copy, root, bridge, raw, matching, ended, evidence>>
  BY DEF PrepareStep, CanonicalProject, Doctor, History, ResolveScope, Initialize, Start, project, reports,
         snapshot, backend, store, Before
<1>2. /\ crap = None /\ mutation = None /\ failure = 0 /\ exit = 0 /\ evidence = None /\ ~bridge
  BY <1>1 DEF QInv, RunInv, SnapshotInv, Before, InBridge
<1>3. /\ exit' \in {0, 1, 3, 5, 7} /\ started' \in {started, TRUE, FALSE} /\ storeFailed' \in {storeFailed, TRUE}
      /\ scope' \in {scope, files}
  BY <1>2 DEF PrepareStep, CanonicalProject, Doctor, History, ResolveScope, Initialize, Start, Finish, store
<1>4. options.command \in {"crap", "mutation", "check", "doctor", "history"} /\ (pc \in {"initialize", "start"} => HasCrap \/ HasMutation)
  BY CommandAssumption DEF QInv, TypeOK, RunInv
<1>5. /\ pc' \in {"doctor", "history", "scope", "initialize", "start", "coverage", "executables", "output"}
      /\ pc' = "output" /\ exit' = 0 => options.command \in {"doctor", "history"}
      /\ pc' = "output" /\ exit' = 7 => storeFailed'
      /\ pc' # "output" => exit' = 0
      /\ pc' \in {"coverage", "executables"} => started'
      /\ pc' = "doctor" => options.command = "doctor"
      /\ pc' = "history" => options.command = "history"
      /\ pc' \in {"scope", "initialize", "start"} => HasCrap \/ HasMutation
      /\ pc' = "coverage" => HasCrap
      /\ pc' = "executables" => HasMutation /\ ~HasCrap
      /\ pc' \in {"initialize", "start", "coverage", "executables"} /\ options.sources # {} => scope' = options.sources
  <2>1. CASE CanonicalProject
    BY <2>1, <1>1, <1>2, <1>4 DEF CanonicalProject, Finish, HasCrap, HasMutation, QInv, RunInv
  <2>2. CASE Doctor \/ History
    BY <2>2, <1>1, <1>2, <1>4 DEF Doctor, History, Finish, HasCrap, HasMutation, QInv, RunInv
  <2>3. CASE ResolveScope
    BY <2>3, <1>1, <1>2, <1>4 DEF ResolveScope, Finish, QInv, RunInv
  <2>4. CASE Initialize \/ Start
    <3>1. options.sources # {} => scope = options.sources
      BY <2>4 DEF Initialize, Start, QInv, ScopeInv
    <3> QED
      BY <2>4, <3>1, <1>1, <1>2, <1>4 DEF Initialize, Start, Finish, QInv, RunInv
  <2> QED
    BY <2>1, <2>2, <2>3, <2>4 DEF PrepareStep
<1>6. HasCrap' = HasCrap /\ HasMutation' = HasMutation
  BY <1>1 DEF HasCrap, HasMutation
<1>7. TypeOK'
  <2>1. {root', bridge', started', storeFailed'} \subseteq BOOLEAN
    BY <1>1, <1>3 DEF QInv, TypeOK
  <2>2. pc' \in Label /\ {failure', exit'} \subseteq Passed..Cancelled /\ files' \subseteq File /\ scope' \subseteq File
    BY <1>1, <1>2, <1>3, <1>5 DEF Label, QInv, TypeOK
  <2> QED
    BY <1>1, <2>1, <2>2 DEF QInv, TypeOK
<1>8. RunInv'
  <2>1. pc' = "executables" => CrapVerdict'
    BY <1>1, <1>2, <1>5, <1>6 DEF CrapVerdict
  <2> QED
    BY <1>1, <1>2, <1>5, <1>6, <2>1 DEF QInv, RunInv, Before, InCrap, Mutating, Asking, Copied, InBridge
<1>9. ReportInv' /\ SnapshotInv'
  BY <1>1, <1>2, <1>5 DEF ReportInv, SnapshotInv, Mutating, Asking, Copied, InBridge
<1>10. ScopeInv'
  BY <1>1, <1>2, <1>5 DEF ScopeInv, InCrap, Asking, Copied, InBridge
<1>11. OutcomeInv' /\ EvidenceErrorHasCause'
  BY <1>1, <1>2, <1>5, <1>6 DEF OutcomeInv, EvidenceErrorHasCause, HasCrap, HasMutation
<1>12. MutationReportIsCurrent'
  BY <1>1, <1>2 DEF MutationReportIsCurrent
<1> QED
  BY <1>7, <1>8, <1>9, <1>10, <1>11, <1>12 DEF QInv

(* The CRAP component leaves its verdict, or an exit code without a report. *)
LEMMA CrapStable == QInv /\ CrapStep => QInv'
<1> SUFFICES ASSUME QInv, CrapStep
             PROVE  QInv'
  OBVIOUS
<1> USE DEF Passed, ToolError, QualityFailed, UsageConfigError, BaselineFailed, DependencyError,
            BackendError, EvidenceError, Cancelled
<1>1. /\ pc \in InCrap
      /\ UNCHANGED <<version, files, options, scope, mutation, failure, copy, root, bridge, raw, matching, ended, started,
                     evidence, storeFailed>>
  BY DEF CrapStep, CoverageProfile, AnalyzeCrap, CrapEnds, InCrap, project, reports, snapshot, backend, store
<1>2. /\ crap = None /\ mutation = None /\ failure = 0 /\ exit = 0 /\ evidence = None /\ ~bridge /\ started /\ HasCrap
      /\ options.sources # {} => scope = options.sources
      /\ ~HasMutation => options.sources = {}
  BY <1>1 DEF QInv, RunInv, SnapshotInv, ScopeInv, InCrap, InBridge
<1>3. HasCrap' = HasCrap /\ HasMutation' = HasMutation
  BY <1>1 DEF HasCrap, HasMutation
<1>4. /\ ChooseFailure(0, 0) = 0 /\ ChooseFailure(0, 2) = 2 /\ ChooseFailure(0, 4) = 4 /\ ChooseFailure(0, 5) = 5
  BY Priorities DEF ChooseFailure
<1>5. \/ pc' = "analyze" /\ crap' = None /\ exit' = 0
      \/ /\ pc' = IF HasMutation THEN "executables" ELSE "record"
         /\ \/ crap' = None /\ exit' \in {4, 5}
            \/ crap' \in SUBSET Row /\ exit' = IF crap' = {"pass"} THEN 0 ELSE 2
  <2>1. CASE CoverageProfile
    BY <2>1, <1>2, <1>4 DEF CoverageProfile, CrapEnds, reports
  <2>2. CASE AnalyzeCrap
    <3>1. CASE CrapEnds(None, DependencyError)
      BY <3>1, <1>2, <1>4 DEF CrapEnds
    <3>2. CASE \E rows \in SUBSET Row : CrapEnds(rows, IF rows = {"pass"} THEN Passed ELSE QualityFailed)
      BY <3>2, <1>2, <1>4 DEF CrapEnds
    <3> QED
      BY <2>2, <3>1, <3>2 DEF AnalyzeCrap
  <2> QED
    BY <2>1, <2>2 DEF CrapStep
<1>6. crap' \in SUBSET Row => crap' # None
  BY NoneAssumption
<1>7. pc' # "analyze" => CrapVerdict'
  BY <1>2, <1>3, <1>5, <1>6 DEF CrapVerdict, CrapPass
<1>8. TypeOK'
  <2>1. pc' \in Label /\ {failure', exit'} \subseteq Passed..Cancelled /\ crap' \in (SUBSET Row) \cup {None}
    BY <1>1, <1>2, <1>5 DEF Label
  <2> QED
    BY <1>1, <2>1 DEF QInv, TypeOK
<1>9. RunInv' /\ ReportInv' /\ SnapshotInv'
  BY <1>1, <1>2, <1>3, <1>5, <1>7 DEF RunInv, ReportInv, SnapshotInv, Before, InCrap, Mutating, Asking, Copied, InBridge
<1>10. ScopeInv'
  BY <1>1, <1>2 DEF ScopeInv
<1>11. OutcomeInv'
  <2>1. pc' \notin {"output", "done"}
    BY <1>5
  <2>2. pc' = "record" => ~HasMutation /\ exit' \in {0, 2, 4, 5} /\ (exit' = 0 => CrapPass') /\ (exit' = 2 => ~CrapPass')
    BY <1>5, <1>6 DEF CrapPass
  <2> QED
    BY <1>2, <1>3, <2>1, <2>2 DEF OutcomeInv, ComponentsPass
<1>12. MutationReportIsCurrent' /\ EvidenceErrorHasCause'
  BY <1>1, <1>2, <1>5 DEF MutationReportIsCurrent, EvidenceErrorHasCause
<1> QED
  BY <1>8, <1>9, <1>10, <1>11, <1>12 DEF QInv

(* The scope is resolved again, and the snapshot is made of one version. *)
LEMMA RequestStable == QInv /\ RequestStep => QInv'
<1> SUFFICES ASSUME QInv, RequestStep
             PROVE  QInv'
  OBVIOUS
<1> USE DEF Passed, ToolError, QualityFailed, UsageConfigError, BaselineFailed, DependencyError,
            BackendError, EvidenceError, Cancelled
<1>1. /\ pc \in Asking \cup {"copy"}
      /\ UNCHANGED <<version, files, options, crap, mutation, exit, bridge, raw, matching, ended, started, evidence,
                     storeFailed>>
  BY DEF RequestStep, ResolveExecutables, ResolveAgain, ValidateRequest, Capture, Copy, AdapterFails, Asking,
         project, reports, snapshot, backend, store
<1>2. /\ mutation = None /\ failure = 0 /\ evidence = None /\ ~bridge /\ started /\ HasMutation /\ CrapVerdict
      /\ options.sources # {} => scope = options.sources
  BY <1>1 DEF QInv, RunInv, ReportInv, SnapshotInv, ScopeInv, Asking, Mutating, Copied, InBridge
<1>3. HasCrap' = HasCrap /\ HasMutation' = HasMutation /\ CrapVerdict'
  BY <1>1, <1>2 DEF HasCrap, HasMutation, CrapVerdict, CrapPass
<1>4. \/ pc' = "judge" /\ failure' \in {3, 5, 6}
      \/ pc' \in {"resolve", "request", "capture"} /\ failure' = 0
      \/ pc' = "copy" /\ failure' = 0 /\ root' = TRUE /\ copy' = [version |-> version, files |-> files]
      \/ pc' = "launch" /\ failure' = 0 /\ root' = root /\ copy' = copy /\ pc = "copy"
  BY <1>2 DEF RequestStep, ResolveExecutables, ResolveAgain, ValidateRequest, Capture, Copy, AdapterFails, reports
<1>5. scope' \in {scope, files} /\ root' \in BOOLEAN /\ copy' \in {copy, [version |-> version, files |-> files]}
  BY DEF RequestStep, ResolveExecutables, ResolveAgain, ValidateRequest, Capture, Copy, QInv, TypeOK, snapshot
<1>6. options.sources # {} => scope' = options.sources
  BY <1>2 DEF RequestStep, ResolveExecutables, ResolveAgain, ValidateRequest, Capture, Copy, ScopeMatches
<1>7. version \in 0..MaxEdits /\ [version |-> version, files |-> files] \in [version : 0..MaxEdits, files : SUBSET File]
  BY DEF QInv, TypeOK
<1>8. TypeOK'
  <2>1. /\ pc' \in Label /\ {failure', exit'} \subseteq Passed..Cancelled /\ scope' \subseteq File
        /\ copy' \in [version : 0..MaxEdits, files : SUBSET File] \cup {None}
    BY <1>1, <1>4, <1>5, <1>7 DEF Label, QInv, TypeOK
  <2>2. {root', bridge', started', storeFailed'} \subseteq BOOLEAN
    BY <1>1, <1>5 DEF QInv, TypeOK
  <2> QED
    BY <1>1, <2>1, <2>2 DEF QInv, TypeOK
<1>9. RunInv' /\ ReportInv'
  BY <1>1, <1>2, <1>3, <1>4 DEF QInv, RunInv, ReportInv, Before, InCrap, Mutating, Asking, Copied, InBridge
<1>10. SnapshotInv'
  <2>1. pc' = "launch" => root /\ copy \in [version : 0..MaxEdits, files : SUBSET File] /\ copy.version <= version
    BY <1>4 DEF QInv, SnapshotInv, Copied
  <2>2. pc' = "copy" => copy'.version <= version
    BY <1>4, <1>7
  <2> QED
    BY <1>1, <1>2, <1>4, <1>7, <2>1, <2>2 DEF SnapshotInv, Copied, InBridge
<1>11. ScopeInv' /\ OutcomeInv' /\ MutationReportIsCurrent' /\ EvidenceErrorHasCause'
  BY <1>1, <1>2, <1>4, <1>6 DEF ScopeInv, OutcomeInv, MutationReportIsCurrent, EvidenceErrorHasCause
<1> QED
  BY <1>8, <1>9, <1>10, <1>11 DEF QInv

(* When the bridge's group is gone, the snapshot is not younger than that moment. *)
BridgeStep == BridgeAnswers \/ Launch \/ BridgeTimesOut \/ BridgeStops \/ Reap

LEMMA BridgeStable == QInv /\ BridgeStep => QInv'
<1> SUFFICES ASSUME QInv, BridgeStep
             PROVE  QInv'
  OBVIOUS
<1> USE DEF Passed, ToolError, QualityFailed, UsageConfigError, BaselineFailed, DependencyError,
            BackendError, EvidenceError, Cancelled
<1>1. /\ pc \in {"launch"} \cup InBridge
      /\ UNCHANGED <<version, files, options, scope, crap, mutation, exit, copy, root, started, evidence, storeFailed>>
  BY DEF BridgeStep, BridgeAnswers, Launch, BridgeReports, BridgeFails, BridgeTimesOut, BridgeStops, Reap, AdapterFails,
         Deadline, InBridge, project, reports, snapshot, backend, store
<1>2. /\ mutation = None /\ evidence = None /\ started /\ HasMutation /\ CrapVerdict /\ root
      /\ copy \in [version : 0..MaxEdits, files : SUBSET File] /\ copy.version <= version /\ version \in 0..MaxEdits
      /\ options.sources # {} => scope = options.sources
      /\ pc = "launch" => ~bridge
      /\ pc \in {"launch", "bridge"} => failure = 0
      /\ pc = "terminate" => failure # 0
      /\ pc = "reap" /\ failure = 0 => raw \in RawReport
      /\ failure \in {0, 1, 3, 4, 5, 6}
  BY <1>1 DEF QInv, TypeOK, RunInv, ReportInv, SnapshotInv, ScopeInv, Asking, Mutating, Copied, InBridge
<1>3. HasCrap' = HasCrap /\ HasMutation' = HasMutation /\ CrapVerdict'
  BY <1>1, <1>2 DEF HasCrap, HasMutation, CrapVerdict, CrapPass
<1>4. \/ pc' = "bridge" /\ failure' = 0 /\ UNCHANGED <<raw, ended>>
      \/ pc' = "terminate" /\ failure' = 6 /\ UNCHANGED <<raw, ended>>
      \/ pc' = "reap" /\ (failure' = 0 => raw' \in RawReport) /\ raw' \in RawReport \cup {raw} /\ UNCHANGED ended
      \/ pc' = "verify" /\ ~bridge' /\ ended' = version /\ raw' = raw /\ (failure' = 0 => raw' \in RawReport)
  BY <1>2 DEF BridgeStep, BridgeAnswers, Launch, BridgeReports, BridgeFails, BridgeCode, BridgeTimesOut, BridgeStops,
              Reap, AdapterFails, reports, backend
<1>5. failure' \in {0, 1, 3, 4, 5, 6} /\ bridge' \in BOOLEAN
  <2>1. failure' \in {failure, 4, 5, 6}
    BY DEF BridgeStep, BridgeAnswers, Launch, BridgeReports, BridgeFails, BridgeCode, BridgeTimesOut, BridgeStops,
           Reap, AdapterFails, reports
  <2>2. bridge' = bridge \/ bridge' = TRUE \/ bridge' = FALSE
    BY DEF BridgeStep, BridgeAnswers, Launch, BridgeReports, BridgeFails, BridgeTimesOut, BridgeStops, Reap, backend
  <2> QED
    BY <1>2, <2>1, <2>2 DEF QInv, TypeOK
<1>6. TypeOK'
  <2>1. /\ pc' \in Label /\ {failure', exit'} \subseteq Passed..Cancelled /\ raw' \in RawReport \cup {None}
        /\ ended' \in 0..MaxEdits
    BY <1>1, <1>2, <1>4, <1>5 DEF Label, QInv, TypeOK
  <2>3. matching' \subseteq File
    <3>1. CASE BridgeReports
      <4>1. raw'.inventory \subseteq File
        BY <3>1 DEF BridgeReports, RawReport
      <4> QED
        BY <3>1, <4>1 DEF BridgeReports
    <3>2. CASE ~BridgeReports
      <4>1. matching' = matching
        BY <3>2 DEF BridgeStep, BridgeAnswers, Launch, BridgeFails, BridgeTimesOut, BridgeStops, Reap, backend
      <4> QED
        BY <4>1 DEF QInv, TypeOK
    <3> QED
      BY <3>1, <3>2
  <2>2. {root', bridge', started', storeFailed'} \subseteq BOOLEAN
    BY <1>1, <1>5 DEF QInv, TypeOK
  <2> QED
    BY <1>1, <2>1, <2>2, <2>3 DEF QInv, TypeOK
<1>7. RunInv' /\ ReportInv'
  BY <1>1, <1>2, <1>3, <1>4, <1>5 DEF QInv, RunInv, ReportInv, Before, InCrap, Mutating, Asking, Copied, InBridge
<1>8. SnapshotInv'
  BY <1>1, <1>2, <1>4 DEF SnapshotInv, Copied, InBridge
<1>9. ScopeInv' /\ OutcomeInv' /\ MutationReportIsCurrent' /\ EvidenceErrorHasCause'
  BY <1>1, <1>2, <1>4 DEF ScopeInv, OutcomeInv, MutationReportIsCurrent, EvidenceErrorHasCause
<1> QED
  BY <1>6, <1>7, <1>8, <1>9 DEF QInv

(* What the bridge's group still writes is written before any report is accepted. *)
LEMMA WritesStable == QInv /\ BridgeWrites => QInv'
<1> SUFFICES ASSUME QInv, BridgeWrites
             PROVE  QInv'
  OBVIOUS
<1>1. /\ UNCHANGED <<version, files, options, pc, scope, crap, mutation, failure, exit, copy, root, bridge, raw, ended,
                     started, evidence, storeFailed>>
      /\ bridge /\ raw # None /\ pc # "killed" /\ matching' \in SUBSET raw.inventory
  BY DEF BridgeWrites, Stopped, project, reports, snapshot, store
<1>2. mutation = None
  BY <1>1 DEF QInv, ReportInv, SnapshotInv, Mutating, Asking, Copied, InBridge
<1>3. HasCrap' = HasCrap /\ HasMutation' = HasMutation /\ CrapPass' = CrapPass /\ ComponentsPass' = ComponentsPass
      /\ CrapVerdict' = CrapVerdict
  BY <1>1 DEF HasCrap, HasMutation, CrapPass, MutationPass, ComponentsPass, CrapVerdict
<1>4. TypeOK'
  <2>1. raw \in RawReport
    BY <1>1 DEF QInv, TypeOK
  <2>2. raw.inventory \subseteq File
    BY <2>1 DEF RawReport
  <2>3. matching' \subseteq File
    BY <1>1, <2>2
  <2> QED
    BY <1>1, <2>3 DEF QInv, TypeOK
<1>5. RunInv' /\ ReportInv' /\ SnapshotInv' /\ ScopeInv'
  BY <1>1, <1>3 DEF QInv, RunInv, ReportInv, SnapshotInv, ScopeInv
<1>6. OutcomeInv' /\ MutationReportIsCurrent' /\ EvidenceErrorHasCause'
  BY <1>1, <1>2, <1>3 DEF QInv, OutcomeInv, MutationReportIsCurrent, EvidenceErrorHasCause
<1> QED
  BY <1>4, <1>5, <1>6 DEF QInv

(* A report is accepted where the original is at last what it was at first: versions
   only grow, so it was the same when the bridge's group was gone. *)
LEMMA VerifyStable == QInv /\ (VerifyOriginal \/ ValidateResult \/ RemoveSnapshot) => QInv'
<1> SUFFICES ASSUME QInv, VerifyOriginal \/ ValidateResult \/ RemoveSnapshot
             PROVE  QInv'
  OBVIOUS
<1> USE DEF Passed, ToolError, QualityFailed, UsageConfigError, BaselineFailed, DependencyError,
            BackendError, EvidenceError, Cancelled
<1>1. /\ pc \in {"verify", "validate", "remove"}
      /\ UNCHANGED <<version, files, options, scope, crap, exit, copy, bridge, ended, started, evidence, storeFailed>>
  BY DEF VerifyOriginal, ValidateResult, RemoveSnapshot, AdapterFails, project, reports, snapshot, backend, store
<1>1a. matching' \subseteq File
  <2>1. matching' = matching \/ matching' = {}
    BY DEF VerifyOriginal, ValidateResult, RemoveSnapshot
  <2> QED
    BY <2>1 DEF QInv, TypeOK
<1>2. /\ evidence = None /\ started /\ HasMutation /\ CrapVerdict /\ root /\ ~bridge
      /\ copy \in [version : 0..MaxEdits, files : SUBSET File] /\ version \in 0..MaxEdits /\ ended \in 0..MaxEdits
      /\ options.sources # {} => scope = options.sources
      /\ failure \in {0, 1, 3, 4, 5, 6}
      /\ pc \in {"verify", "validate"} => mutation = None
      /\ pc = "verify" => copy.version <= ended /\ ended <= version /\ (failure = 0 => raw \in RawReport)
      /\ pc = "validate" => copy.version = ended /\ failure = 0 /\ raw \in RawReport
      /\ pc = "remove" => (mutation = None <=> failure # 0)
  BY <1>1 DEF QInv, TypeOK, RunInv, ReportInv, SnapshotInv, ScopeInv, Asking, Mutating, Copied, InBridge
<1>3. HasCrap' = HasCrap /\ HasMutation' = HasMutation /\ CrapVerdict'
  BY <1>1, <1>2 DEF HasCrap, HasMutation, CrapVerdict, CrapPass
<1>4. CASE VerifyOriginal
  <2>1. /\ mutation' = None /\ root' = root
        /\ \/ pc' = "remove" /\ failure' # 0 /\ failure' \in {failure, 1} /\ raw' \in {raw, None}
           \/ pc' = "validate" /\ failure' = 0 /\ raw' = raw /\ raw \in RawReport /\ copy.version = ended
    <3>1. OriginalUnchanged => copy.version = ended
      BY <1>2, <1>4 DEF VerifyOriginal, OriginalUnchanged
    <3> QED
      BY <1>2, <1>4, <3>1 DEF VerifyOriginal, AdapterFails, reports, snapshot
  <2>2. TypeOK'
    <3>1. pc' \in Label /\ {failure', exit'} \subseteq Passed..Cancelled /\ raw' \in RawReport \cup {None}
      BY <1>1, <1>2, <2>1 DEF Label, QInv, TypeOK
    <3> QED
      BY <1>1, <1>1a, <2>1, <3>1 DEF QInv, TypeOK
  <2>3. RunInv' /\ ReportInv' /\ SnapshotInv'
    BY <1>1, <1>2, <1>3, <2>1 DEF QInv, RunInv, ReportInv, SnapshotInv, Before, InCrap, Mutating, Asking, Copied, InBridge
  <2>4. ScopeInv' /\ OutcomeInv' /\ MutationReportIsCurrent' /\ EvidenceErrorHasCause'
    BY <1>1, <1>2, <2>1 DEF ScopeInv, OutcomeInv, MutationReportIsCurrent, EvidenceErrorHasCause
  <2> QED
    BY <2>2, <2>3, <2>4 DEF QInv
<1>5. CASE ValidateResult
  <2>1. /\ root' = root /\ pc' = "remove"
        /\ \/ mutation' = None /\ failure' = 6 /\ raw' = None
           \/ mutation' = raw.statuses /\ failure' = 0 /\ raw' = raw /\ matching' = matching /\ ReportMatches
    BY <1>2, <1>5 DEF ValidateResult, AdapterFails, reports, snapshot
  <2>2. raw \in RawReport /\ copy.version = ended
    BY <1>2, <1>5 DEF ValidateResult
  <2>3. raw.statuses \in SUBSET Status /\ raw.statuses # None
    BY <2>2, NoneAssumption DEF RawReport
  <2>4. TypeOK'
    <3>1. /\ pc' \in Label /\ {failure', exit'} \subseteq Passed..Cancelled /\ raw' \in RawReport \cup {None}
          /\ mutation' \in (SUBSET Status) \cup {None}
      BY <1>1, <1>2, <2>1, <2>2, <2>3 DEF Label, QInv, TypeOK
    <3> QED
      BY <1>1, <1>1a, <2>1, <3>1 DEF QInv, TypeOK
  <2>5. RunInv' /\ ReportInv' /\ SnapshotInv'
    BY <1>1, <1>2, <1>3, <2>1, <2>3 DEF QInv, RunInv, ReportInv, SnapshotInv, Before, InCrap, Mutating, Asking, Copied, InBridge
  <2>6. MutationReportIsCurrent'
    BY <1>1, <2>1, <2>2 DEF MutationReportIsCurrent, ReportMatches
  <2>7. ScopeInv' /\ OutcomeInv' /\ EvidenceErrorHasCause'
    BY <1>1, <1>2, <2>1 DEF ScopeInv, OutcomeInv, EvidenceErrorHasCause
  <2> QED
    BY <2>4, <2>5, <2>6, <2>7 DEF QInv
<1>6. CASE RemoveSnapshot
  <2>1. /\ pc' = "judge" /\ pc = "remove" /\ failure' \in {failure, 5}
        /\ \/ ~root' /\ mutation' = mutation /\ failure' = failure /\ raw' = raw
           \/ mutation' = None /\ raw' = None /\ failure' # 0
    <3>1. CASE root' = FALSE /\ UNCHANGED <<mutation, failure, raw>>
      BY <3>1, <1>6 DEF RemoveSnapshot
    <3>2. CASE mutation' = None /\ raw' = None /\ failure' = IF failure = 0 THEN DependencyError ELSE failure
      BY <3>2, <1>6 DEF RemoveSnapshot
    <3> QED
      BY <1>6, <3>1, <3>2 DEF RemoveSnapshot
  <2>2. TypeOK'
    <3>1. pc' \in Label /\ {failure', exit'} \subseteq Passed..Cancelled
      BY <1>1, <1>2, <2>1 DEF Label, QInv, TypeOK
    <3>2. root' = FALSE \/ root' = root
      BY <1>6 DEF RemoveSnapshot
    <3>3. {root', bridge', started', storeFailed'} \subseteq BOOLEAN
      BY <1>1, <3>2 DEF QInv, TypeOK
    <3> QED
      BY <1>1, <1>1a, <2>1, <3>1, <3>3 DEF QInv, TypeOK
  <2>3. RunInv' /\ ReportInv' /\ SnapshotInv'
    BY <1>1, <1>2, <1>3, <2>1 DEF QInv, RunInv, ReportInv, SnapshotInv, Before, InCrap, Mutating, Asking, Copied, InBridge
  <2>4. MutationReportIsCurrent'
    BY <1>1, <2>1 DEF QInv, MutationReportIsCurrent
  <2>5. ScopeInv' /\ OutcomeInv' /\ EvidenceErrorHasCause'
    BY <1>1, <1>2, <2>1 DEF ScopeInv, OutcomeInv, EvidenceErrorHasCause
  <2> QED
    BY <2>2, <2>3, <2>4, <2>5 DEF QInv
<1> QED
  BY <1>4, <1>5, <1>6

(* The milder failure gives way; what the record's rules will refuse has one of two causes. *)
LEMMA JudgeStable == QInv /\ Judge => QInv'
<1> SUFFICES ASSUME QInv, Judge
             PROVE  QInv'
  OBVIOUS
<1> USE DEF Passed, ToolError, QualityFailed, UsageConfigError, BaselineFailed, DependencyError,
            BackendError, EvidenceError, Cancelled
<1>1. /\ pc = "judge" /\ pc' = "record" /\ exit' = ChooseFailure(exit, MutationOutcome)
      /\ UNCHANGED <<version, files, options, scope, crap, mutation, failure, copy, root, bridge, raw, matching, ended, started,
                     evidence, storeFailed>>
  BY DEF Judge, project, reports, snapshot, backend, store
<1>2. /\ evidence = None /\ started /\ HasMutation /\ CrapVerdict /\ ~bridge
      /\ failure \in {0, 1, 3, 4, 5, 6} /\ (mutation = None <=> failure # 0)
      /\ ~HasMutation => options.sources = {}
  BY <1>1 DEF QInv, RunInv, ReportInv, SnapshotInv, Mutating, InBridge
<1>3. HasCrap' = HasCrap /\ HasMutation' = HasMutation /\ CrapPass' = CrapPass /\ MutationPass' = MutationPass
      /\ ComponentsPass' = ComponentsPass
  BY <1>1 DEF HasCrap, HasMutation, CrapPass, MutationPass, ComponentsPass
<1>4. exit \in {0, 2, 4, 5} /\ (exit = 0 => (HasCrap => CrapPass)) /\ (exit = 2 => HasCrap /\ ~CrapPass)
      /\ (exit = 5 => HasCrap /\ crap = None)
  BY <1>2 DEF CrapVerdict
<1>5. \A a \in {0, 2, 4, 5}, b \in {0, 1, 2, 3, 4, 5, 6} :
        /\ ChooseFailure(a, b) \in {0, 1, 2, 4, 5, 6}
        /\ ChooseFailure(a, b) = 0 => a = 0 /\ b \in {0, 3}
        /\ ChooseFailure(a, b) = 2 => a = 2 \/ b = 2
        /\ b = 6 => ChooseFailure(a, b) = 6 \/ a = 5
  BY Priorities DEF ChooseFailure
<1>6. CASE failure # 0
  <2>1. MutationOutcome = failure /\ mutation = None
    BY <1>2, <1>6 DEF MutationOutcome
  <2>2. exit' \in {0, 1, 2, 4, 5, 6} /\ (exit' = 0 => failure = 3) /\ (exit' = 2 => ~ComponentsPass)
    BY <1>1, <1>2, <1>4, <1>5, <1>6, <2>1 DEF ComponentsPass
  <2> QED
    BY <1>1, <1>3, <2>1, <2>2, <1>2 DEF QInv, TypeOK, Label, RunInv, ReportInv, SnapshotInv, ScopeInv, OutcomeInv,
       MutationReportIsCurrent, EvidenceErrorHasCause, Before, InCrap, Mutating, Asking, Copied, InBridge
<1>7. CASE failure = 0
  <2>1. mutation # None
    BY <1>2, <1>7
  <2>2. MutationOutcome \in {0, 2, 6} /\ (MutationOutcome = 0 => MutationPass) /\ (MutationOutcome = 2 => ~MutationPass)
        /\ ("toolError" \in mutation => MutationOutcome = 6)
    BY <1>7 DEF MutationOutcome
  <2>3. exit' \in {0, 1, 2, 4, 5, 6} /\ (exit' = 0 => ComponentsPass) /\ (exit' = 2 => ~ComponentsPass)
        /\ ("toolError" \in mutation => exit' = 6 \/ exit = 5)
    BY <1>1, <1>2, <1>4, <1>5, <2>2 DEF ComponentsPass
  <2>4. exit = 5 => options.command = "check" /\ crap = None
    BY <1>2, <1>4 DEF HasCrap, HasMutation
  <2> QED
    BY <1>1, <1>3, <2>3, <2>4, <1>2 DEF QInv, TypeOK, Label, RunInv, ReportInv, SnapshotInv, ScopeInv, OutcomeInv,
       MutationReportIsCurrent, EvidenceErrorHasCause, Before, InCrap, Mutating, Asking, Copied, InBridge
<1> QED
  BY <1>6, <1>7

(* The record comes before the output, and code 7 instead of a record. *)
LEMMA RecordStable == QInv /\ (RecordQualityRun \/ Output) => QInv'
<1> SUFFICES ASSUME QInv, RecordQualityRun \/ Output
             PROVE  QInv'
  OBVIOUS
<1> USE DEF Passed, ToolError, QualityFailed, UsageConfigError, BaselineFailed, DependencyError,
            BackendError, EvidenceError, Cancelled
<1>1. /\ pc \in {"record", "output"} /\ pc' \in {"output", "done"}
      /\ UNCHANGED <<version, files, options, scope, crap, mutation, failure, copy, root, bridge, raw, matching, ended, started>>
  BY DEF RecordQualityRun, Output, Finish, project, reports, snapshot, backend, store
<1>2. HasCrap' = HasCrap /\ HasMutation' = HasMutation /\ CrapPass' = CrapPass /\ MutationPass' = MutationPass
      /\ ComponentsPass' = ComponentsPass
  BY <1>1 DEF HasCrap, HasMutation, CrapPass, MutationPass, ComponentsPass
<1>3. ~bridge
  BY <1>1 DEF QInv, SnapshotInv, InBridge
<1>4. /\ exit' \in Passed..Cancelled /\ evidence' \in [exit : Passed..Cancelled, certified : BOOLEAN] \cup {None}
      /\ storeFailed' = storeFailed \/ storeFailed' = TRUE
  <2>1. exit \in Passed..Cancelled /\ evidence \in [exit : Passed..Cancelled, certified : BOOLEAN] \cup {None}
    BY DEF QInv, TypeOK
  <2>2. Record \in [exit : Passed..Cancelled, certified : BOOLEAN]
    BY <2>1 DEF Record
  <2>3. exit' \in {exit, 7, 1} /\ evidence' \in {evidence, Record, None}
    BY DEF RecordQualityRun, Output, Finish, store
  <2>4. storeFailed' = storeFailed \/ storeFailed' = TRUE
    BY DEF RecordQualityRun, Output, store
  <2> QED
    BY <2>1, <2>2, <2>3, <2>4
<1>5. TypeOK'
  <2>1. {root', bridge', started', storeFailed'} \subseteq BOOLEAN
    BY <1>1, <1>4 DEF QInv, TypeOK
  <2>2. pc' \in Label /\ {failure', exit'} \subseteq Passed..Cancelled
    BY <1>1, <1>4 DEF QInv, TypeOK, Label
  <2> QED
    BY <1>1, <1>4, <2>1, <2>2 DEF QInv, TypeOK
<1>6. RunInv' /\ ReportInv' /\ SnapshotInv' /\ ScopeInv'
  BY <1>1, <1>2, <1>3 DEF QInv, RunInv, ReportInv, SnapshotInv, ScopeInv, Before, InCrap, Mutating, Asking, Copied, InBridge
<1>7. CASE Output
  <2>1. pc = "output" /\ pc' = "done" /\ exit' \in {exit, 1} /\ evidence' = evidence
    BY <1>7 DEF Output, store
  <2> QED
    BY <1>1, <1>2, <1>5, <1>6, <2>1 DEF QInv, OutcomeInv, MutationReportIsCurrent, EvidenceErrorHasCause
<1>8. CASE RecordQualityRun
  <2>1. pc = "record" /\ pc' = "output"
    BY <1>8 DEF RecordQualityRun, Finish
  <2>2. \/ Acceptable /\ evidence' = Record /\ exit' = exit
        \/ exit' = 7 /\ (~Acceptable \/ storeFailed')
    BY <1>8 DEF RecordQualityRun, Finish
  <2>3. /\ exit \in {0, 1, 2, 4, 5, 6}
        /\ exit = 0 => ComponentsPass \/ failure = 3
        /\ exit = 2 => ~ComponentsPass
        /\ HasMutation /\ mutation # None /\ "toolError" \in mutation => exit = 6 \/ (options.command = "check" /\ crap = None)
    BY <2>1 DEF QInv, OutcomeInv
  <2>4. ~Acceptable => failure = 3 \/ (options.command = "check" /\ crap = None /\ mutation # None /\ "toolError" \in mutation)
    BY <2>3 DEF Acceptable
  <2>5. Acceptable /\ exit = 0 => ComponentsPass /\ Record = [exit |-> 0, certified |-> TRUE]
    BY DEF Acceptable, Record
  <2>6. OutcomeInv'
    BY <1>2, <2>1, <2>2, <2>5 DEF OutcomeInv
  <2>7. EvidenceErrorHasCause'
    BY <1>1, <2>1, <2>2, <2>3, <2>4 DEF EvidenceErrorHasCause
  <2>8. MutationReportIsCurrent'
    BY <1>1, <2>1 DEF QInv, MutationReportIsCurrent
  <2> QED
    BY <1>5, <1>6, <2>6, <2>7, <2>8 DEF QInv
<1> QED
  BY <1>7, <1>8

(* An edit moves the project only; a killed command leaves its bridge, which ends alone. *)
LEMMA SurroundingsStable == QInv /\ (Edit \/ Kill \/ OrphanStops \/ UNCHANGED vars) => QInv'
<1> SUFFICES ASSUME QInv, Edit \/ Kill \/ OrphanStops \/ UNCHANGED vars
             PROVE  QInv'
  OBVIOUS
<1>1. /\ UNCHANGED <<options, scope, crap, mutation, failure, exit, copy, root, raw, matching, ended, started, evidence,
                     storeFailed>>
      /\ pc' \in {pc, "killed"} /\ files' \in SUBSET File /\ version' \in {version, version + 1}
      /\ version' # version => version < MaxEdits
      /\ bridge' = bridge \/ bridge' = FALSE
      /\ bridge' => bridge
  BY DEF Edit, Kill, OrphanStops, vars, project, reports, snapshot, backend, store, QInv, TypeOK
<1>2. HasCrap' = HasCrap /\ HasMutation' = HasMutation /\ CrapPass' = CrapPass /\ ComponentsPass' = ComponentsPass
      /\ CrapVerdict' = CrapVerdict
  BY <1>1 DEF HasCrap, HasMutation, CrapPass, MutationPass, ComponentsPass, CrapVerdict
<1>3. version \in 0..MaxEdits /\ version' \in 0..MaxEdits /\ version <= version' /\ ended \in 0..MaxEdits
  BY <1>1, EditsAssumption DEF QInv, TypeOK
<1>4. TypeOK'
  <2>1. {root', bridge', started', storeFailed'} \subseteq BOOLEAN
    BY <1>1 DEF QInv, TypeOK
  <2>2. pc' \in Label
    BY <1>1 DEF QInv, TypeOK, Label
  <2> QED
    BY <1>1, <1>3, <2>1, <2>2 DEF QInv, TypeOK
<1>5. RunInv' /\ ReportInv' /\ ScopeInv'
  BY <1>1, <1>2 DEF QInv, RunInv, ReportInv, ScopeInv, Before, InCrap, Mutating, Asking, Copied, InBridge
<1>6. SnapshotInv'
  <2>1. copy \in [version : 0..MaxEdits, files : SUBSET File] => copy.version \in 0..MaxEdits
    OBVIOUS
  <2> QED
    BY <1>1, <1>3, <2>1 DEF QInv, SnapshotInv, Copied, InBridge
<1>7. OutcomeInv' /\ MutationReportIsCurrent' /\ EvidenceErrorHasCause'
  BY <1>1, <1>2 DEF QInv, OutcomeInv, MutationReportIsCurrent, EvidenceErrorHasCause
<1> QED
  BY <1>4, <1>5, <1>6, <1>7 DEF QInv

-----------------------------------------------------------------------------
(* The invariant holds of every reachable state. *)
THEOREM CommandInvariant == Spec => []QInv
<1>1. Init => QInv
  BY InitQInv
<1>2. QInv /\ [Next]_vars => QInv'
  BY PrepareStable, CrapStable, RequestStable, BridgeStable, WritesStable, VerifyStable, JudgeStable, RecordStable, SurroundingsStable
     DEF Next, Progress, AdapterStep, EndStep, BridgeStep, BridgeSteps
<1> QED
  BY <1>1, <1>2, PTL DEF Spec

(* TypeOK: every variable stays in its domain. *)
THEOREM CommandTypeCorrect == Spec => []TypeOK
<1>1. QInv => TypeOK
  BY DEF QInv
<1> QED
  BY CommandInvariant, <1>1, PTL

(* PassMeansEvidence: exit code 0 is backed by passed components and a certified record. *)
THEOREM PassIsBacked == Spec => []PassMeansEvidence
<1>1. QInv => PassMeansEvidence
  BY DEF QInv, OutcomeInv, PassMeansEvidence, Passed
<1> QED
  BY CommandInvariant, <1>1, PTL

(* EvidenceErrorHasCause: exit code 7 is the store's failure, or one of the two
   classifications that the record's rules refuse. *)
THEOREM EvidenceErrorIsExplained == Spec => []EvidenceErrorHasCause
<1>1. QInv => EvidenceErrorHasCause
  BY DEF QInv
<1> QED
  BY CommandInvariant, <1>1, PTL

(* MutationReportIsCurrent: an accepted report is over the files that were asked for, with
   the bytes it names, and an original that had not changed. *)
THEOREM ReportIsOverTheOriginal == Spec => []MutationReportIsCurrent
<1>1. QInv => MutationReportIsCurrent
  BY DEF QInv
<1> QED
  BY CommandInvariant, <1>1, PTL

(* NamedScopeHolds: the bridge is given the sources the user named. *)
THEOREM ScopeIsTheUsers == Spec => []NamedScopeHolds
<1>1. QInv => NamedScopeHolds
  BY DEF QInv, ScopeInv, NamedScopeHolds
<1> QED
  BY CommandInvariant, <1>1, PTL

(* BackendOnlyInsideRun: while the bridge lives, its run is marked and not concluded,
   and its directory is there, also after a kill. *)
THEOREM BackendStaysInsideItsRun == Spec => []BackendOnlyInsideRun
<1>1. QInv => BackendOnlyInsideRun
  BY DEF QInv, SnapshotInv, BackendOnlyInsideRun
<1> QED
  BY CommandInvariant, <1>1, PTL
=============================================================================
