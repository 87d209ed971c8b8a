----------------------------- MODULE QualityRun -----------------------------
(***************************************************************************)
(* One sentinel-go command, from its arguments to its exit code            *)
(* (internal/cli, internal/orchestrator, internal/mutation's adapter and   *)
(* internal/workspace's snapshot), beside a developer who edits the        *)
(* project, the bridge process and a kill of the command.                  *)
(*                                                                         *)
(* A file of the project is a name and the contents of the whole project   *)
(* are a version: every edit gives a content that was not there before.    *)
(* A CRAP report is the set of kinds its rows have, a mutation report the  *)
(* set of statuses its mutants have ("survived" stands for every status    *)
(* that is neither killed nor toolError).  The evidence store is its       *)
(* contract: a call works or fails; EvidenceStore models its inside.       *)
(* The bridge is any process that may answer anything: the adapter is      *)
(* written not to trust it.                                                *)
(***************************************************************************)
EXTENDS Integers

CONSTANTS File,      \* the production Go files the project may have
          Commands,  \* the commands of this instance
          MaxEdits,  \* bound: how often the developer edits the project
          None       \* no report, no snapshot, no evidence

ASSUME CommandAssumption == Commands \subseteq {"crap", "mutation", "check", "doctor", "history"}
ASSUME EditsAssumption == MaxEdits \in Nat

VARIABLES
  version, files,      \* the project: its contents and its production files
  options,             \* the parsed arguments
  pc,                  \* the next step of the command
  scope,               \* options.Sources, then the adapter's request.Sources
  started,             \* the run's marker is in the store
  crap, mutation,      \* the reports of the two components
  failure,             \* the exit code of the mutation component's error, 0 for none
  exit,                \* the exit code so far
  copy, root,          \* the snapshot's manifest; whether its directory exists
  bridge,              \* some process of the bridge's group is alive
  raw,                 \* the bridge's report
  matching,            \* the files of the snapshot whose bytes have the digest the report names
  evidence,            \* the terminal record in the store
  ended,               \* observer: the project's version when the bridge's group was gone
  storeFailed          \* observer: a call of the evidence store failed on its own account

project == <<version, files>>
reports == <<crap, mutation, failure>>
snapshot == <<copy, root>>
backend == <<bridge, raw, matching, ended>>
store == <<started, evidence, storeFailed>>
vars == <<project, options, pc, scope, reports, exit, snapshot, backend, store>>

(***************************************************************************)
(* Exit codes, verdicts and records.                                       *)
(***************************************************************************)
Passed == 0
ToolError == 1
QualityFailed == 2
UsageConfigError == 3
BaselineFailed == 4
DependencyError == 5
BackendError == 6
EvidenceError == 7
Cancelled == 8

Row == {"pass", "fail"}   \* above the limit or of unknown coverage: fail
Status == {"killed", "survived", "toolError"}

ASSUME NoneAssumption == \A rows \in SUBSET Row, statuses \in SUBSET Status : None \notin {rows, statuses}

(* failurePriorities, from the mildest; a code that is not listed has none *)
Severity == <<QualityFailed, BaselineFailed, Cancelled, BackendError, DependencyError, ToolError, EvidenceError>>

Priority(code) ==
  IF \E i \in DOMAIN Severity : Severity[i] = code
    THEN CHOOSE i \in DOMAIN Severity : Severity[i] = code
    ELSE 0

ChooseFailure(current, candidate) ==
  IF Priority(candidate) > Priority(current) THEN candidate ELSE current

HasCrap == options.command \in {"crap", "check"}
HasMutation == options.command \in {"mutation", "check"}

(* no callable at all is not a pass, neither is no mutant *)
CrapPass == crap # None /\ crap = {"pass"}
MutationPass == mutation # None /\ mutation = {"killed"}

ComponentsPass == (HasCrap => CrapPass) /\ (HasMutation => MutationPass)

Record == [exit |-> exit, certified |-> exit = Passed /\ ComponentsPass]

(* validateTerminal; terminalExitCodes has no usageConfigError *)
AcceptableBug ==
  /\ exit # UsageConfigError
  /\ HasMutation /\ mutation # None /\ "toolError" \in mutation => exit = BackendError

Acceptable ==
  /\ exit # UsageConfigError
  /\ HasMutation /\ mutation # None /\ "toolError" \in mutation => exit = BackendError
  /\ exit = Passed => ComponentsPass
  /\ exit = QualityFailed => ~ComponentsPass

(***************************************************************************)
(* Control.                                                                *)
(***************************************************************************)
Label == {"project", "doctor", "history", "scope", "initialize", "start", "coverage", "analyze",
          "executables", "resolve", "request", "capture", "copy", "launch", "bridge", "terminate",
          "reap", "verify", "validate", "remove", "judge", "record", "output", "done", "killed"}

Stopped == pc \in {"done", "killed"}

Finish(code) == exit' = code /\ pc' = "output"

CrapEnds(report, code) ==
  /\ crap' = report
  /\ exit' = ChooseFailure(exit, code)
  /\ pc' = IF HasMutation THEN "executables" ELSE "record"
  /\ UNCHANGED <<mutation, failure>>

(* the adapter, or the scope check before it, ends with an AdapterError *)
AdapterFails(code, label) ==
  /\ failure' = code
  /\ pc' = label
  /\ UNCHANGED <<crap, mutation>>

(***************************************************************************)
(* The command up to its run.                                              *)
(***************************************************************************)
CanonicalProject ==
  /\ pc = "project"
  /\ \/ options.command # "doctor" /\ Finish(UsageConfigError)
     \/ /\ pc' = CASE options.command \in {"doctor", "history"} -> options.command
                   [] HasMutation -> "scope"
                   [] OTHER -> "initialize"
        /\ UNCHANGED exit
  /\ UNCHANGED <<project, options, scope, reports, snapshot, backend, store>>

Doctor ==
  /\ pc = "doctor"
  /\ \E code \in {Passed, DependencyError} : Finish(code)
  /\ UNCHANGED <<project, options, scope, reports, snapshot, backend, store>>

History ==
  /\ pc = "history"
  /\ \/ Finish(Passed) /\ UNCHANGED storeFailed
     \/ Finish(EvidenceError) /\ storeFailed' = TRUE
  /\ UNCHANGED <<project, options, scope, reports, snapshot, backend, started, evidence>>

(* an unreadable project or a narrowed scope is refused before any state is written *)
ResolveScope ==
  /\ pc = "scope"
  /\ \/ Finish(UsageConfigError) /\ UNCHANGED scope
     \/ /\ options.sources \in {{}, files}
        /\ scope' = files
        /\ pc' = "initialize"
        /\ UNCHANGED exit
  /\ UNCHANGED <<project, options, reports, snapshot, backend, store>>

Initialize ==
  /\ pc = "initialize"
  /\ \/ pc' = "start" /\ UNCHANGED <<exit, storeFailed>>
     \/ Finish(ToolError) /\ UNCHANGED storeFailed
     \/ Finish(EvidenceError) /\ storeFailed' = TRUE
  /\ UNCHANGED <<project, options, scope, reports, snapshot, backend, started, evidence>>

(* a Start that fails may have published its marker *)
Start ==
  /\ pc = "start"
  /\ \/ /\ started' = TRUE
        /\ pc' = IF HasCrap THEN "coverage" ELSE "executables"
        /\ UNCHANGED <<exit, storeFailed>>
     \/ started' \in BOOLEAN /\ Finish(EvidenceError) /\ storeFailed' = TRUE
  /\ UNCHANGED <<project, options, scope, reports, snapshot, backend, evidence>>

(***************************************************************************)
(* The CRAP component.                                                     *)
(***************************************************************************)
CoverageProfile ==
  /\ pc = "coverage"
  /\ \/ pc' = "analyze" /\ UNCHANGED <<reports, exit>>
     \/ ~options.profile /\ CrapEnds(None, BaselineFailed)
  /\ UNCHANGED <<project, options, scope, snapshot, backend, store>>

AnalyzeCrap ==
  /\ pc = "analyze"
  /\ \/ CrapEnds(None, DependencyError)
     \/ \E rows \in IF files = {} THEN {{}} ELSE SUBSET Row :
          CrapEnds(rows, IF rows = {"pass"} THEN Passed ELSE QualityFailed)
  /\ UNCHANGED <<project, options, scope, snapshot, backend, store>>

(***************************************************************************)
(* The mutation component: scope, request, snapshot.                       *)
(***************************************************************************)
ResolveExecutables ==
  /\ pc = "executables"
  /\ \/ pc' = "resolve" /\ UNCHANGED reports
     \/ AdapterFails(DependencyError, "judge")
  /\ UNCHANGED <<project, options, scope, exit, snapshot, backend, store>>

ScopeMatchesBug == TRUE
ScopeMatches == scope \in {{}, files}

(* RunMutation resolves the scope again; a failed walk is no AdapterError *)
ResolveAgain ==
  /\ pc = "resolve"
  /\ \/ AdapterFails(BackendError, "judge") /\ UNCHANGED scope
     \/ ~ScopeMatches /\ AdapterFails(UsageConfigError, "judge") /\ UNCHANGED scope
     \/ ScopeMatches /\ scope' = files /\ pc' = "request" /\ UNCHANGED reports
  /\ UNCHANGED <<project, options, exit, snapshot, backend, store>>

(* a timeout, an executable or a source path that is refused; no source at all always is *)
ValidateRequest ==
  /\ pc = "request"
  /\ \/ \E code \in {UsageConfigError, DependencyError} : AdapterFails(code, "judge")
     \/ scope # {} /\ pc' = "capture" /\ UNCHANGED reports
  /\ UNCHANGED <<project, options, scope, exit, snapshot, backend, store>>

Capture ==
  /\ pc = "capture"
  /\ \/ AdapterFails(DependencyError, "judge") /\ UNCHANGED snapshot
     \/ /\ copy' = [version |-> version, files |-> files]
        /\ root' = TRUE
        /\ pc' = "copy"
        /\ UNCHANGED reports
  /\ UNCHANGED <<project, options, scope, exit, backend, store>>

(* a copy that differs, or an original that changed meanwhile, gives the snapshot up *)
Copy ==
  /\ pc = "copy"
  /\ \/ AdapterFails(DependencyError, "judge") /\ root' \in BOOLEAN
     \/ version = copy.version /\ pc' = "launch" /\ UNCHANGED <<reports, root>>
  /\ UNCHANGED <<project, options, scope, exit, copy, backend, store>>

(***************************************************************************)
(* The bridge: a process group that is terminated at its deadline, killed  *)
(* after a grace period, and always swept once its leader has gone.        *)
(***************************************************************************)
RawReport == [inventory : SUBSET File, statuses : SUBSET Status]

Launch ==
  /\ pc = "launch"
  /\ \/ \E code \in {DependencyError, BackendError} :
          AdapterFails(code, "verify") /\ ended' = version /\ UNCHANGED bridge
     \/ bridge' = TRUE /\ pc' = "bridge" /\ UNCHANGED <<reports, ended>>
  /\ UNCHANGED <<project, options, scope, exit, snapshot, raw, matching, store>>

BridgeReports ==
  /\ pc = "bridge"
  /\ raw' \in RawReport
  /\ matching' \in SUBSET raw'.inventory
  /\ pc' = "reap"
  /\ UNCHANGED <<project, options, scope, reports, exit, snapshot, bridge, ended, store>>

(* its leader has reported, others of its group still write the snapshot *)
BridgeWrites ==
  /\ bridge /\ raw # None /\ ~Stopped
  /\ matching' \in SUBSET raw.inventory
  /\ UNCHANGED <<project, options, pc, scope, reports, exit, snapshot, bridge, raw, ended, store>>

BridgeCodeBug == BaselineFailed..(Cancelled + 1)
BridgeCode == BaselineFailed..BackendError

(* these exit codes are passed on; any other, and a report that is malformed,
   too large or too late, is a BackendError *)
BridgeFails ==
  /\ pc = "bridge"
  /\ \E code \in BridgeCode : AdapterFails(code, "reap")
  /\ UNCHANGED <<project, options, scope, exit, snapshot, backend, store>>

DeadlineBug == FALSE
Deadline == pc = "bridge"

BridgeTimesOut ==
  /\ Deadline
  /\ AdapterFails(BackendError, "terminate")
  /\ UNCHANGED <<project, options, scope, exit, snapshot, backend, store>>

(* the leader obeys SIGTERM, or is killed when WaitDelay is over *)
BridgeStops ==
  /\ pc = "terminate"
  /\ pc' = "reap"
  /\ UNCHANGED <<project, options, scope, reports, exit, snapshot, backend, store>>

ReapBug ==
  /\ pc = "reap"
  /\ bridge' \in {bridge, FALSE}
  /\ ended' = version
  /\ pc' = "verify"
  /\ UNCHANGED <<project, options, scope, reports, exit, snapshot, raw, matching, store>>

(* SIGKILL to the group, whatever is left of it *)
Reap ==
  /\ pc = "reap"
  /\ bridge' = FALSE
  /\ ended' = version
  /\ pc' = "verify"
  /\ UNCHANGED <<project, options, scope, reports, exit, snapshot, raw, matching, store>>

OriginalUnchangedBug == files = copy.files
OriginalUnchanged == version = copy.version

(* a changed original outranks every error of the bridge *)
VerifyOriginal ==
  /\ pc = "verify"
  /\ \/ AdapterFails(ToolError, "remove") /\ raw' = None /\ matching' = {}
     \/ /\ OriginalUnchanged
        /\ pc' = IF failure = 0 THEN "validate" ELSE "remove"
        /\ UNCHANGED <<reports, raw, matching>>
  /\ UNCHANGED <<project, options, scope, exit, snapshot, bridge, ended, store>>

(* The bytes in the snapshot are compared with the digests the bridge itself
   reports, not with the snapshot's manifest. *)
ReportMatches == raw.inventory = scope /\ scope \subseteq matching

ValidateResult ==
  /\ pc = "validate"
  /\ \/ AdapterFails(BackendError, "remove") /\ raw' = None /\ matching' = {}
     \/ /\ ReportMatches
        /\ mutation' = raw.statuses
        /\ pc' = "remove"
        /\ UNCHANGED <<crap, failure, raw, matching>>
  /\ UNCHANGED <<project, options, scope, exit, snapshot, bridge, ended, store>>

(* finishAdapter: the first error stays, a failed removal alone is an error; nothing
   reads what a failed removal leaves *)
RemoveSnapshot ==
  /\ pc = "remove"
  /\ \/ root' = FALSE /\ UNCHANGED <<mutation, failure, raw>>
     \/ /\ UNCHANGED root
        /\ mutation' = None /\ raw' = None
        /\ failure' = IF failure = 0 THEN DependencyError ELSE failure
  /\ matching' = {}
  /\ pc' = "judge"
  /\ UNCHANGED <<project, options, scope, crap, exit, copy, bridge, ended, store>>

MutationOutcomeBug ==
  IF failure # 0 THEN failure ELSE IF MutationPass THEN Passed ELSE QualityFailed

MutationOutcome ==
  CASE failure # 0 -> failure
    [] failure = 0 /\ "toolError" \in mutation -> BackendError
    [] failure = 0 /\ "toolError" \notin mutation -> IF MutationPass THEN Passed ELSE QualityFailed

Judge ==
  /\ pc = "judge"
  /\ exit' = ChooseFailure(exit, MutationOutcome)
  /\ pc' = "record"
  /\ UNCHANGED <<project, options, scope, reports, snapshot, backend, store>>

(***************************************************************************)
(* The record, the output, the end.                                        *)
(***************************************************************************)

(* Append refuses an unacceptable record; one that fails may have committed *)
RecordQualityRun ==
  /\ pc = "record"
  /\ \/ Acceptable /\ evidence' = Record /\ pc' = "output" /\ UNCHANGED <<exit, storeFailed>>
     \/ ~Acceptable /\ Finish(EvidenceError) /\ UNCHANGED <<evidence, storeFailed>>
     \/ /\ evidence' \in {None} \cup (IF Acceptable THEN {Record} ELSE {})
        /\ Finish(EvidenceError)
        /\ storeFailed' = TRUE
  /\ UNCHANGED <<project, options, scope, reports, snapshot, backend, started>>

Output ==
  /\ pc = "output"
  /\ pc' = "done"
  /\ exit' \in {exit, ToolError}
  /\ UNCHANGED <<project, options, scope, reports, snapshot, backend, store>>

(* the developer *)
Edit ==
  /\ ~Stopped
  /\ version < MaxEdits
  /\ version' = version + 1
  /\ files' \in SUBSET File
  /\ UNCHANGED <<options, pc, scope, reports, exit, snapshot, backend, store>>

Kill ==
  /\ ~Stopped
  /\ pc' = "killed"
  /\ UNCHANGED <<project, options, scope, reports, exit, snapshot, backend, store>>

(* a bridge whose parent was killed ends by its own timeout *)
OrphanStops ==
  /\ pc = "killed" /\ bridge
  /\ bridge' = FALSE
  /\ UNCHANGED <<project, options, pc, scope, reports, exit, snapshot, raw, matching, ended, store>>

-----------------------------------------------------------------------------

Init ==
  /\ version = 0
  /\ files \in SUBSET File
  /\ options \in [command : Commands, sources : SUBSET File, profile : BOOLEAN]
  /\ options.command \notin {"mutation", "check"} => options.sources = {}
  /\ options.command \notin {"crap", "check"} => ~options.profile
  /\ pc = "project"
  /\ scope = {}
  /\ crap = None /\ mutation = None /\ failure = 0
  /\ exit = Passed
  /\ copy = None /\ root = FALSE
  /\ bridge = FALSE /\ raw = None /\ matching = {} /\ ended = 0
  /\ started = FALSE /\ evidence = None /\ storeFailed = FALSE

PrepareStep == CanonicalProject \/ Doctor \/ History \/ ResolveScope \/ Initialize \/ Start
CrapStep == CoverageProfile \/ AnalyzeCrap
RequestStep == ResolveExecutables \/ ResolveAgain \/ ValidateRequest \/ Capture \/ Copy
BridgeAnswers == BridgeReports \/ BridgeFails
BridgeSteps == BridgeAnswers \/ BridgeWrites \/ OrphanStops
AdapterStep == Launch \/ BridgeTimesOut \/ BridgeStops \/ Reap \/ VerifyOriginal \/ ValidateResult \/ RemoveSnapshot
EndStep == Judge \/ RecordQualityRun \/ Output

(* what sentinel-go does by itself *)
Progress == PrepareStep \/ CrapStep \/ RequestStep \/ AdapterStep \/ EndStep

Next == Progress \/ BridgeSteps \/ Edit \/ Kill

Spec == Init /\ [][Next]_vars

(* The command runs on; go test has its own ten minutes, the context of the
   bridge its deadline.  Nothing makes the bridge answer. *)
FairSpec == Spec /\ WF_vars(Progress)

-----------------------------------------------------------------------------
(***************************************************************************)
(* Properties.                                                             *)
(***************************************************************************)

(* Every variable stays in its domain; the exit code is one the command
   documents (cli.go:12-22). *)
TypeOK ==
  /\ version \in 0..MaxEdits
  /\ files \subseteq File /\ scope \subseteq File
  /\ options \in [command : Commands, sources : SUBSET File, profile : BOOLEAN]
  /\ pc \in Label
  /\ crap \in (SUBSET Row) \cup {None}
  /\ mutation \in (SUBSET Status) \cup {None}
  /\ {failure, exit} \subseteq Passed..Cancelled
  /\ copy \in [version : 0..MaxEdits, files : SUBSET File] \cup {None}
  /\ raw \in RawReport \cup {None} /\ matching \subseteq File
  /\ ended \in 0..MaxEdits
  /\ {root, bridge, started, storeFailed} \subseteq BOOLEAN
  /\ evidence \in [exit : Passed..Cancelled, certified : BOOLEAN] \cup {None}

(* Exit code 0 of a quality command is never the command's word alone: every
   component that was asked for passed and the store holds a certified record
   of it (executeQuality, validateTerminal). *)
PassMeansEvidence ==
  pc = "done" /\ exit = Passed /\ (HasCrap \/ HasMutation) =>
    ComponentsPass /\ evidence = [exit |-> Passed, certified |-> TRUE]

(* Exit code 7 says the evidence store failed.  Two classifications are lost in
   it: a mutation tool error behind a missing CRAP report, and the adapter's
   usage errors, both of which the record's own rules refuse (recordQualityRun,
   validateTerminalPrecedence, terminalExitCodes). *)
EvidenceErrorHasCause ==
  pc = "output" /\ exit = EvidenceError =>
    \/ storeFailed
    \/ options.command = "check" /\ crap = None /\ mutation # None /\ "toolError" \in mutation
    \/ failure = UsageConfigError

(* A mutation report is accepted only for the files the bridge was asked for, with
   their bytes in the snapshot those the report names until the snapshot goes, and
   for an original that is at the end of the bridge's group what it was when it was
   copied (adapter.go:55, "proves the original project did not change"); and never
   over a snapshot that could not be removed, whatever failed before
   (finishAdapter).  That the bytes named are the original's is the bridge's word
   alone: the adapter does not hold them against the snapshot's manifest. *)
MutationReportIsCurrent ==
  mutation # None =>
    /\ raw.inventory = scope
    /\ root => scope \subseteq matching
    /\ copy.version = ended
    /\ pc \in {"judge", "record", "output", "done"} => ~root

(* The bridge is given the sources the user named, or none at all: not those
   that the project has by then (ResolveMutationSourceInventory twice). *)
NamedScopeHolds ==
  bridge /\ options.sources # {} => scope = options.sources

(* While a process of the bridge lives, the run's marker is published, its
   terminal record is not, and the directory it works in is there: also when
   sentinel-go itself is killed (store.go:31, runBridgeGroup). *)
BackendOnlyInsideRun ==
  bridge => started /\ evidence = None /\ root

(* A run that was started comes to an end, whatever the bridge does
   (mutationBackendTimeout, runBridgeGroup). *)
StartedRunConcludes == started ~> Stopped

(* TestMissingFailedReportGetsAValidFailClosedComponent (cli_test.go:376): a
   started run whose store works has a terminal record also when a report is
   missing. *)
FailedRunIsRecorded ==
  pc = "output" /\ started /\ ~storeFailed => evidence # None

=============================================================================
