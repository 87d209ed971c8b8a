# Verification of SENTINEL_GO

SENTINEL_GO judges the quality of a Go project: it measures CRAP (complexity
against coverage), lets a mutation backend run over a copy of the project, and
writes what it found into an evidence store that later commands read. This
directory models the parts of it whose correctness depends on order: who holds
which lock, what is on disk when a process dies, what a test process really did
when its report is read, which moment of an edited project a result speaks of.
The models are checked with TLC on small instances; every invariant and every action
property of a passing run, and the refinement of the abstract store, is also proved with
TLAPS, for every instance.

Paths are relative to the repository, `bridge` is
`third_party/mutate4go/cmd/sentinel-mutate4go-bridge/main.go`.

## The system

A command runs as a chain of processes, each in a process group of its own:

    sentinel-go            parses, takes the scope, owns the run and its evidence
      go test              coverage for CRAP
      mutate4go bridge     in a snapshot of the project: one mutant after another
        test runner        rewrites the test files, runs them, puts them back
          go test          one test binary per package, events through a FIFO

The processes talk by arguments, exit codes, one JSON report each and signals:
SIGTERM, a grace period, SIGKILL to the group. Two more commands stand beside
this chain and use its parts: `sentinel-go-reference-runner` runs the typed test
runner in the project itself while a snapshot guards it, and
`sentinel-go-mutesting-probe` runs it over copies for the mutants of another tool. They share files: the project
(also with its developer), the snapshot, and the evidence store (also with
other `sentinel-go` processes).

| component | state it keeps | operations | what is hard about it |
|---|---|---|---|
| evidence store (`internal/evidence`: store, lock, files, commit_sequence, project_state) | `runs/<id>/started.json`, `events/`, `evidence.json`; `project.json`; `commit-sequence.json`; `commit.lock` | Initialize, Start, Append, Load, Fingerprint | two kinds of locks, neither enough alone; a kill between any two system calls; several files published one after another |
| evidence contract (`evidence_contract.go`, `canonical.go`, ...) | none | validate, canonicalise, authenticate | the record's rules must admit every outcome the command can have |
| command line (`internal/cli`) | the outcome so far | crap, mutation, check, doctor, history | several failures, one exit code; record before output |
| orchestrator (`internal/orchestrator`) | the reports | AnalyzeCrap, RunMutation, scope inventory | the project changes between readings |
| mutation adapter and gate (`internal/mutation`) | the bridge process, the snapshot | Run, verify, remove; EvaluateCounts, aggregate JSON | deadline, cancellation, an untrusted child, errors while cleaning up |
| snapshot workspace (`internal/workspace`) | the copy and its manifest | Create, VerifyOriginal, Remove | copied file by file beside edits |
| history view (`internal/history`) | none | summarise loaded runs | - |
| mutation bridge (`bridge`) | the mutated source, the replies so far | coverage, two controls, discovery, per candidate: write, compile, two replays, restore | restore on every path, also on cancellation; who saw which mutant |
| bridge reference profile (`reference*.go` beside `bridge`) | none | the same with full records | cross-checks of records |
| typed test runner (`internal/runner`: execute, restore) | the rewritten test files, the helper, the FIFO | rewrite, run, collect, verify, restore | tests that hang, detach, edit their own sources; a kill half-way |
| runner classifier (`classifier.go`) | none | Classify | joins two event streams written by processes that may die |
| runner instrumentation (`instrument.go`, `assertion.go`) | none | rewrite a test file, generate the helper | the helper's reports around panics, cleanups, `os.Exit` |
| reference execution (`internal/referenceexecution`) | the guard, the failures so far | guard, run, verify, remove, write the receipt | cancellation and a failing cleanup together |
| go-mutesting adapter (`internal/gomutesting`) | the template, a copy and its guard, the records | two controls, two replays of each candidate, clean up | three time limits with different meanings |
| CRAP analysis (`internal/crap`) | the profile's segments, the rows | parse, join coverage, score, order | nested callables, a check of neighbours only, identities without positions, exact arithmetic, a project that changes between measuring and reading |
| upstream mutate4go, toolchain environment, run ids, scripts | - | - | not modelled, see below |

What makes each of them correct: for the store, that it is an append-only log of
complete bundles under unique sequences, whatever dies; for a command, that exit
code 0 is backed by certified evidence, that other codes say what happened, and
that no result is reported for a project that is not the one that was measured;
for the bridge and the runner, that every file is put back, no process is left,
and a verdict was earned by two equal test runs over the right mutant; for the
classifier, that it calls nothing an assertion failure or a pass that was not
one; for the workspace, that a copy is the project as it was at one moment and that
every later change is noticed; for CRAP, that every statement counts once and a
pass is earned by every callable.

`PROJECT.json` lists the hazards of this code line by line, with the properties
that are there for them.

## The modules

| module | what it models |
|---|---|
| `EvidenceLog` | the abstract store: sequences are handed out in order, a run is committed under the newest one while that is pending, and one whose writer gave up is a gap for ever |
| `EvidenceStore` | the store call by call and system call by system call |
| `MCEvidenceStore` | its small instances |
| `EvidenceStoreProofs` | its inductive invariant `IInv` and six theorems: what is on disk |
| `EvidenceStoreOutcomeProofs` | two more invariants and six theorems: what the calls answer |
| `QualityRun`, `MCQualityRun` | a `sentinel-go` command beside its bridge and an editing developer |
| `QualityRunProofs` | its inductive invariant (`CommandInvariant`) and six theorems |
| `TypedRunner` | one call of the test runner: the test files, the helper, signals |
| `MutationBridge`, `MCMutationBridge` | the bridge, composed with the runners it calls |
| `MutationBridgeProofs` | the inductive invariant of the two (`BridgeInvariant`) and five theorems |
| `Classifier` | the classification of a test run, as operators over the events |
| `TestRun`, `MCTestRun` | test binaries that run, report and die; composed with the classifier |
| `TestRunProofs` | their inductive invariant (`TestRunInvariant`) and three theorems |
| `Workspace` | Create, VerifyOriginal and Remove entry by entry beside whoever edits the project |
| `ReferenceExecution`, `MCReferenceExecution` | the reference runner, composed with the workspace and a caller that cancels |
| `WorkspaceProofs` | the inductive invariants of the two (`WorkspaceInvariant`, `ReferenceInvariant`; `ReferenceIInv` is the first one again, of the workspace in use) and nine theorems |
| `GoMutesting` | the go-mutesting adapter: controls, candidates, three limits, three snapshots at a time |
| `GoMutestingProofs` | its inductive invariant (`AdapterInvariant`) and three theorems |
| `CrapReport`, `MCCrapReport` | the CRAP component: profile, sources, identities, scores, order |
| `CrapReportProofs` | its inductive invariant (`CrapInvariant`) and three theorems |

A definition whose name ends in `Bug` is a plausible mistake in the definition
after it. No specification uses one; each shows that a property notices it.

### EvidenceStore

A goroutine is a program counter and the locals of its call. `Call(t)` starts an
operation with any valid arguments; then `t` walks through
`ensureStateRoots`, the process-local RWMutex (`AcquireMutex`), the kernel's
record lock on `commit.lock` (`AcquireByteLock`), the body and the release. The
record lock belongs to a process: `byteLock[p]` is not counted, an unlock or the
close of any descriptor of the file by any goroutine of `p` drops it
(`CloseLock`, `Release`). A file written in place is torn and then whole; a file
published by rename or by link has a temporary name and a final one, and is not
readable while it has two links. `SetupFault` and `DiskFault` make a system call
fail and take the error path from there, `Crash(p)` kills a process between any
two steps: its files stay, its locks go.

Abstracted: the contents of the files (an authenticated JSON file is whole or not
whole; a payload is its sequence), the validation of arguments before the
directory is touched, and the size of `evidence.json`, which is its number of
findings against `ReadLimit`. `MaxSequence` stands for the largest uint64.

### QualityRun

One action per call of `executeQuality`: project, scope, Initialize, Start,
coverage, analysis, executables, the scope again, the adapter's request,
snapshot, bridge, reaping, verification, validation, removal, judgement, record,
output. Every one of them can fail with the exit code the code gives it. A
developer may edit the project (`Edit`: a new version, any set of files) at any
moment, the bridge may answer anything or nothing, the command may be killed.
`version` identifies all contents of the project, so a snapshot or a report can
be compared with the moment it belongs to. The evidence store appears as its
contract: its calls work or fail, and a failing one may have left what it wrote.
The adapter trusts the bridge in one respect, and the model says so: it reads the
files of the snapshot after the last process of the group is gone and compares them
with the digests the report itself names, not with those of the manifest. `matching`
is the set of files that have them; the bridge picks it with its report
(`BridgeReports`), and what is left of its group may change it later (`BridgeWrites`).
`ended` and `storeFailed` only observe.

### TypedRunner and MutationBridge

The runner's state is the text of every test file (original, rewritten, torn,
edited by a test), the generated helper, its own place, and whether its `go test`
group runs. The actions are the steps of `Execute`: `Instrument`,
`WriteTransformed`, `WriteHelper`, `StartTests`, the three ends of the tests,
`Drain` (the FIFO, under its own deadline), `VerifyInstalled`, `RestoreFile`,
`RemoveHelper`. `Terminate` and `KillRunner` are what the bridge does to it: a
killed runner leaves its files as they were at that moment and its `go test`
group alive (`orphan`), because that group is another one.

The bridge EXTENDS it: `Invoke` starts a runner, `LaunchTests` starts its tests
(and records in the observer `views` what they see), `SignalRunner` and
`GraceIsOver` end the call's context, and each phase consumes a reply. A source is
the set of candidates applied to it, so "this mutant and no other" is an
equation. `mishaps` bounds the failing writes and the edits by tests.

### Classifier and TestRun

`Classifier` translates `Classify` and `classifiedRunStatus`. Their answer depends
only on the order of the events of each test and of all TestMains together, so a
stream is kept split by test; `private[Main]` is the stream of the TestMains of
all packages, which carry no package name. Events with a foreign nonce, duplicate
inventory entries and cached results cannot occur in a FIFO made for one run with
`-count=1` and are left out. Every package of the inventory has a test: only such a
package is given the helper (`selectRunnablePackages`).

`TestRun` produces the events the way the helper does and keeps, beside them, what
really became of every test and binary (`state`, `process`). A test may return,
fail, skip, differ in its output, panic in its body, panic in a cleanup after it
was reported, run its own binary again as a child that inherits nonce and FIFO;
a binary may fail to build, die in an initialiser, or die at any later moment, even
after its last event (`lost`). What `go test` reports of a test whose binary died
is left open: a failure or nothing.

### Workspace and ReferenceExecution

A file is an inode (`node`) and a content (`text`), each numbered by the edit that
made it; `state` says whether a path is not yet made, a lawful regular file, unlawful
(a link, a foreign owner) or gone. A walk (`captureManifest`) lists the directories
one by one, looks at each file (`Inspect`: Lstat and open) and digests it later
(`Digest`); whatever does not fit refuses the call. Create is a walk, the root of the
copy, one step per file copied, and a second walk that must find the same manifest;
VerifyOriginal is a walk against the manifest; Remove may fail and leave the
directory. `Edit` interleaves with all of it. `atCapture` and `atVerify` only observe.

Its walks are why a snapshot is one moment at all: the first walk alone may see a
mixture that never was. The argument is that an edit is never undone here; an edit
that is undone while a walk is under way, back to the same inode and the same bytes,
would not be noticed, since an identity holds no time. The model leaves such an edit
out and says so at `Edit`.

`ReferenceExecution` EXTENDS it: `executeWith` calls Create, starts the typed runner
in the project itself, then verifies and removes the guard whatever happened, and
`lifecycleError` joins what went wrong. `Cancel` may happen at any moment,
`RunnerLeavesFile` is a test file the runner could not put back. The receipt is the
digest it names. `runnerFailed` and `inTime` (the cancellation came before `LastLook`)
only observe: `FailuresAreTold` asks for each of the two by name, as for the guard left
behind and the changed input. A cancellation after the last look is too late by the
code: the receipt is written and the exit code is 0.

### GoMutesting

One step per call of `Run`, `executePlan`, `runFresh` and `runGuarded`. A call of the
workspace is one step, which the two properties of `Workspace` justify: each answers
for one moment. A copy is the version of the project it was made from, the candidate
applied to it and whether tests have written into it (`TestsWrite`). The deferred
`finishSnapshot` calls run in their order, innermost first, and may each fail on
their own. The context ends once, by the deadline or by the caller; `FinalizeRun` looks at
it a last time. Discovery refuses a missing source (exit 3) and one that cannot be read,
is too large or cannot be rendered (`SourceUnusable`, exit 6).

### CrapReport

`CoverageProfile` gives any profile or fails; its lines are read one by one, in any
order (`ReadLine`, `RefuseLine`), since the order is the profile's. `ValidateSegments`
sorts each file's segments, ties in any order as `sort.Slice` leaves them, and
compares neighbours. The sources are listed at one moment and read at later ones
(`ProductionGoSources`, `AnalyzeSource`), with edits between. A source is its
callables, each with its place, its name or binding hint, its signature and the role it
plays where it stands, and the positions of its decisions. `Described` is the hash of
`makeCallableIdentity`: the callable's own signature and semantic site, the chain of names
down to it, and the identity of the declared function around it. `collectLiterals` hands
that one on to literals in literals, so that of a literal in between only the name counts,
and no position does at all. `OrderReport` sorts the rows, ties in any order, and looks each row up by
its identity again, as `orderCrapReport` does. A score is a fraction of integers.

A position is one number for line and column. A statement weight above
`SafeInteger` stands for one above 2^53 - 1.

## What the runs check

| run | instance | shows |
|---|---|---|
| `store_processes` | two processes of one goroutine, two runs (one with two findings), all calls, one crash, one fault | `TypeOK`, `LockExcludes`, `SequencesUnique`, `EvidenceImpliesBundle`, `LoadReturnsTheLog`, `SuccessIsTruthful`, `AppendFailsForCause`, `QuietStoreIsClean`, `CommittedIsImmutable`, and `ImplementsLog`: the store refines `EvidenceLog` |
| `store_live` | two goroutines of one process, one of another, one crash | the RWMutex and the record lock together serialise the writers (`ImplementsLog` again), and under fairness every call returns (`CallsReturn`) |
| `quality_run` | every command, two files, two edits | `PassMeansEvidence`, `EvidenceErrorHasCause`, `MutationReportIsCurrent`, `NamedScopeHolds`, `BackendOnlyInsideRun`, and `StartedRunConcludes` |
| `bridge_run` | two candidates of one source and another source, two test files, two mishaps | `OneMutantAtATime`, `VerdictIsEarned`, `SourcesRestored`, `NothingIsLeft`, and `BridgeEnds` |
| `test_run` | two binaries; a test, an example and a test; one child | `AssertionIsReal`, `PassIsReal`, `PlainRunsAreClassified` |
| `reference_run` | two files and one that may be made, two directories, two edits, a cancellation | `SnapshotIsOneMoment`, `ChangesAreNoticed`, `ReceiptNamesTheInput`, `FailuresAreTold` |
| `gomutesting_run` | two candidates, one edit, every failing step, deadline, limit and cancellation | `VerdictIsEarned`, `ReportIsCurrent`, `LimitsAreToldApart`, and `RunEnds` |
| `crap_run` | two paths, five sources, profiles of up to three of eleven lines, one edit | `CountedOnce`, `PassIsEarned`, `WorstFirst` |

Every property stands with a mutant in `PROJECT.json`, a change of one definition
under which it fails in its run.

### Disagreements the runs found

* `store_duplicate`: Initialize opens and closes `commit.lock` outside the
  RWMutex. On POSIX the close drops the record lock of the whole process, also
  the one an Append of another goroutine holds; a second process then commits
  under the same sequence, and every later Load fails. The `sentinel-go` command
  never uses a store from two goroutines, so it is not exposed; the package's own
  concurrency test asks for more than that.
* `store_crash_gap`: a writer killed while a temporary file exists, or a Start
  killed before its marker, makes every later Append fail: the crash leaves more
  than the gap its test describes.
* `store_oversize`: Append writes an `evidence.json` of any size, Load refuses one
  of 1 MiB.
* `quality_unrecorded`: a check whose CRAP analysis fails (5) and whose mutation
  report has a tool error (6) picks 5; the record's own rule demands 6, refuses it,
  and the run ends with 7 and without evidence.

Found on the way, without a run of their own: the adapter compares the files of the
snapshot with the digests the bridge reports and never with its own manifest, so that
the bridge put its mutants back is the bridge's word (`SourcesRestored` of `bridge_run`
checks it of the bridge itself); the adapter's usage errors (3) have no
entry in `failurePriorities`, so such a run counts as passed until the record refuses
it, and the command ends with 7; two goroutines that read the store
share one record lock, and the first to leave drops it for the other; Start builds
its directory under the shared lock, so a Load beside it may be refused; files that
appear between the second discovery and the snapshot are copied but not mutated; a
skipped test turns an otherwise passing run into a tool error, since `go test`
succeeds and the classifier does not; a binary that dies in an initialiser without
any event reads as a compile error; a binary that dies after its last event leaves
an assertion failure an assertion failure, and turns a pass into a tool error; two
literals of one signature that are the same argument of the same function within one
callable (two `sort.Slice(xs, func...)`, say) have one identity, and the whole CRAP
component is refused, as a test asks; the same holds of one call site inside two literals
of a function, however different the calls are that those two stand in; a zero-width marker at the start of another
segment makes the overlap check depend on which of the two the sort leaves first; a
segment that straddles two callables is counted by neither; coverage measured before
an edit is joined with the source after it, and only a callable left without
statements shows.

### Bounds, and why they are enough

* Two processes and three goroutines: a conflict over the store is between two
  callers, a lost lock needs a third. Two runs give every pair of sequences, equal
  and different; three sequences reach the end of the counter. One crash and one
  fault place a failure at every step and leave a second caller to meet what is
  left. Two findings give an event before the last one.
* Two edits: one can fall before and one after any reading, and an edit and its
  undoing are different versions. Two files give every proper part of a scope.
* Two candidates on one source: what the first leaves behind meets the second in
  the same file; the idle source shows that nothing else is touched. Two test files
  give a partly restored project. Two mishaps are a failure while cleaning up after
  another one.
* Three files in two directories: an edit can fall behind the walk, before it and in
  a directory not yet read, and a file can be made in each of these places. Two edits
  put one into the walk and one after it.
* Two candidates of the adapter: what a first leaves meets a second. One edit falls
  at every step.
* Two paths give a file without coverage beside one with it; callables three deep
  give a literal within a literal, which the outermost must not exclude by itself;
  seven decisions are the score of exactly eight. Three lines are two neighbours and
  one beyond them.
* Two test binaries, one of them with two tests: enough for counts over packages
  to be made up by the wrong package. One child writes any prefix of its events.

`MaxCrashes`, `MaxFaults`, `MaxEdits`, `MaxMishaps` and `MaxChildren` are the only
bounds in guards, `MaxLines` bounds the profiles of `MCCrapReport`. `CHECK_DEADLOCK FALSE` stands where the system ends: a command, a
bridge, an adapter, a report and a test run stop. The store never does, and is checked for deadlock.

### Fairness

* Store: a goroutine inside a call runs on (weak fairness per goroutine); waiting
  for the RWMutex or the record lock is strongly fair, since Go's RWMutex does not
  starve a waiter and the kernel wakes the waiters of a record lock. Nothing makes a
  goroutine call, and crashes and faults are never forced.
* Command: `sentinel-go` runs on. Its children are bounded by the code: `go test`
  has its own limit of ten minutes, the bridge's context has a deadline, after which
  its group is killed. The bridge need not answer.
* Bridge: the bridge runs on, the context of a runner's call ends
  (`options.timeout` and two seconds), and so does the grace period
  (`command.WaitDelay`). Neither the runner nor the tests have to do anything;
  compilation is killed at its deadline, and one step here.
* Adapter: its own steps are taken, the deadline of its context passes, and a runner
  whose context has ended is killed. The tests need not end by themselves.

## What is proved

`EvidenceStoreProofs` holds for any number of processes, goroutines, runs,
findings, crashes and faults, under `StoreAssumption` (the constants' types).
All but type correctness also assume `OneGoroutinePerProcess`, which is how
`sentinel-go` uses the store: without it `SequencesUnique` is false
(`store_duplicate`).

| theorem | says |
|---|---|
| `TypeCorrect` | `Spec => []TypeOK` |
| `MutualExclusion` | `Spec => []LockExcludes` |
| `UniqueSequences` | `Spec => []SequencesUnique` |
| `CompleteBundles` | `Spec => []EvidenceImpliesBundle` |
| `ImmutableCommits` | `Spec => CommittedIsImmutable` |
| `Implementation` | `Spec => ImplementsLog` |

None of these invariants is inductive, and the same is true of the modules below. That a committed sequence is new follows
from what the writer has done since it read the counter, and from its having been
alone meanwhile. The inductive invariant is therefore

    IInv == TypeInv /\ LockTable /\ StartProgress /\ AppendProgress /\ CommittedRuns

`TypeInv` adds to `TypeOK` what a label says of the call (`CallShape`).
`LockTable` ties the kernel's table to who is inside the lock, which gives mutual
exclusion. `StartProgress` and `AppendProgress` say, for every label, how much of a
run directory or of a bundle its writer has built, and that a writer that owns a
sequence owns one above every committed run and equal to the counter.
`CommittedRuns` is the goal with the state of the run's directory added. Each
group of actions has its lemma (`LockStable`, `StartStable`, `ReadStable`,
`PublishStable`, `EventStable`, `FaultStable`); the lemma `AppendAlone` says that
while one goroutine is in an Append the directory is its own. The refinement maps
`final["sequence"]` to the highest sequence, the final names of the evidence files
to the log, and `Owed` (some Append owns a sequence it has not committed under) to
`pending`. A step is an allocation, an abandonment, a commit or a stutter:
`OwedFrame` shows that nobody comes to own a sequence while the counter stays, so a
gap is never filled later, and `CommitSettles` that a commit leaves none owed.

`EvidenceStoreOutcomeProofs` goes from what is on disk to what the callers are told,
under `OneGoroutinePerProcess` throughout. The last three theorems hold of a store whose
evidence fits the reader's limit (`EvidenceFits`), and need it: one oversize commit makes
every later scan fail, which is the finding of `store_oversize`.

| theorem | says |
|---|---|
| `LoadsReturnTheLog` | `Spec => []LoadReturnsTheLog` |
| `TruthfulSuccess` | `Spec => []SuccessIsTruthful` |
| `GapsStay` | `Spec => GapsAreForEver`, read off `Implementation` |
| `AppendsFailForCause` | `EvidenceFits` gives `Spec => []AppendFailsForCause` |
| `QuietStoresAreClean` | `EvidenceFits` gives `Spec => []QuietStoreIsClean` |
| `WhatFitsIsReadable` | `EvidenceFits` gives `Spec => []AppendedIsReadable` |

`OutcomeInv` says what a call has to show from the step on at which its answer is settled
until it gives it (`OutcomeAt`), and that the directories and the keys are there before
anyone needs them (`LayoutBuilt`, `KeysFirst`). It survives the steps of others: they do
not touch the locals of a call (`OthersGoOn`), and while it is inside the lock they change
no file, but for a Start that builds its run beside a reader (`Undisturbed`). `QuietInv` is about a store in which
nothing was killed and nothing failed: every temporary name, every half-built run and
every event without its evidence then belongs to somebody who is at work on it
(`TemporariesOwned`, `BuildsOwned`, `EventsOwned`). So an Append that has the lock finds
nobody else's (`WayIsFree`), its scan succeeds (`ScanSucceeds`), and it can be refused only
for what was already true of its own run (`RefusedAt`), which stays true until it answers
(`RefusalsStable`). A crash or a fault ends the premise, not the invariant.

`WorkspaceProofs` holds for any files, directories, original project and number of
edits, under `WorkspaceAssumption`.

| theorem | says |
|---|---|
| `WorkspaceTypeCorrect` | `WorkspaceSpec => []WorkspaceTypeOK` |
| `SnapshotIsFaithful` | `WorkspaceSpec => []SnapshotIsOneMoment` |
| `VerificationIsSound` | `WorkspaceSpec => []ChangesAreNoticed` |
| `ReferenceUsesWorkspace` | `Spec => WorkspaceSpec`: the reference execution uses its workspace by its calls only |
| `GuardIsFaithful`, `GuardVerificationIsSound` | the two results, for the guard of the reference execution |
| `ReferenceTypeCorrect` | `Spec => []TypeOK` |
| `ReceiptIsHonest` | `Spec => []ReceiptNamesTheInput` |
| `EveryFailureIsTold` | `Spec => []FailuresAreTold` |

A walk reads its files at different moments, so nothing it has found so far is the
project at any time. `Later` orders the states a path goes through. What a walk has
found lies between the project when it began (`PastOf`) and the project now
(`FutureOf`); of the files it has not reached, only those that were made behind it
are missing (`Missed`). Two walks that find the same manifest are therefore a
sandwich: the project at the end of the first lies between the two, every file of it
has one identity on both sides, and so it is the manifest. `SnapshotIsOneMoment`
follows for the copy, whose texts were read in between, and `ChangesAreNoticed` for
a verification. Above it, `RInv` says of each stage of the reference execution which
calls of the workspace have been answered (`StageInv`), between which moments the
runner ran (`MomentInv`, `InputInv`) and what is owed to the caller (`ToldInv`), and `NamedInv`
that a failed runner and a cancellation in time are among the failures by name.

`CrapReportProofs` holds for any paths, any sources whose callables nest as syntax
does, any profiles and any number of edits, under `CrapAssumption`.

| theorem | says |
|---|---|
| `StatementsAreCountedOnce` | `Spec => []CountedOnce` |
| `PassIsEarnedByAll` | `Spec => []PassIsEarned` |
| `FirstRowDecides` | `Spec => []WorstFirst` |

The code leaves out of a callable the literals directly in it; the property speaks of
the innermost callable around a segment. The two agree because of every chain of
callables between a callable and one in it there is an outermost
(`DirectLiteralHolds`, by the least start), and because nested callables that hold one
segment hold one another (`OneInnermost`). `NeighboursAreEnough` carries the
comparison of neighbours to all pairs of a sorted file. `LookupFindsTheRow` needs that
no source with two equal identities was read: identities hold the path, so they differ
between files. `FollowersPass` multiplies out two fractions. The inductive invariant
`CInv` ties the rows to what was read, whatever is edited later.

`GoMutestingProofs` holds for any number of candidates and edits and any reports of
the runners, under `GoMutestingAssumption` (the statuses a runner can report).

| theorem | says |
|---|---|
| `AdapterInvariant` | `Spec => []GInv` |
| `VerdictsAreEarned` | `Spec => []VerdictIsEarned` |
| `ReportsAreCurrent` | `Spec => []ReportIsCurrent` |
| `LimitsApart` | `Spec => []LimitsAreToldApart` |

A verdict is recorded long after the copies it was earned over are gone, so the
invariant carries what was known when they were there. `CopyInv`: a copy is the template
with this candidate from the moment it is made until its tests run, and that is what its guard
holds. `ReplyInv`: a reply is over whatever the copy has become, until its guard is
verified; after that, while there is no error, it is over the pure copy
(`CloseGuardStable`). `ErrorInv`: an error is never forgotten, only replaced by a
failed clean-up (`FinishFacts`), so that no error at the end means that every snapshot
was verified and removed. `CountInv` counts replies and records, and ties a record to
its candidate. `RecordInv` is then the property of every record.

`QualityRunProofs` holds for any files, any subset of the five commands, any number of
edits and any exit codes and reports of the bridge, under `CommandAssumption`,
`EditsAssumption` and `NoneAssumption` (the value for "no report" is not a report).

| theorem | says |
|---|---|
| `CommandTypeCorrect` | `Spec => []TypeOK` |
| `PassIsBacked` | `Spec => []PassMeansEvidence` |
| `EvidenceErrorIsExplained` | `Spec => []EvidenceErrorHasCause` |
| `ReportIsOverTheOriginal` | `Spec => []MutationReportIsCurrent` |
| `ScopeIsTheUsers` | `Spec => []NamedScopeHolds` |
| `BackendStaysInsideItsRun` | `Spec => []BackendOnlyInsideRun` |

`QInv` says for every step of the command what it has by then. `RunInv` and `ReportInv`:
no component is judged before it has run, and the mutation component has a report or an
error, never both. `SnapshotInv` orders the versions of the project: that of the copy,
that at the end of the bridge's group, the present one. They only grow, so a copy that
equals the original at the verification equalled it when the group was gone
(`ReportIsOverTheOriginal`). `WritesStable` is the step of a process of the group that
writes beside the command: it changes `matching` while nobody has judged it. `ScopeInv` carries the user's sources past the second
resolution of the scope. `OutcomeInv` follows the priorities of the exit codes up to the
record: an exit code of 0 that is not backed can only stem from the adapter's usage
error, and a tool error that is not the outcome only from a missing CRAP report, which
are the two causes of exit code 7 beside a failing store.

`MutationBridgeProofs` holds for any sources, test files, candidates and number of
mishaps, any tests, and signals and kills at any step, under `PlanAssumption` and
`MishapAssumption`.

| theorem | says |
|---|---|
| `BridgeTypeCorrect` | `Spec => []TypeOK` |
| `MutantsAreTestedAlone` | `Spec => []OneMutantAtATime` |
| `SourcesAreRestored` | `Spec => []SourcesRestored` |
| `NoRunnerIsLeft` | `Spec => []NothingIsLeft` |
| `VerdictsOfTheBridge` | `Spec => VerdictIsEarned` |

The runner never checks that it was started on clean test files, and a killed one leaves
them rewritten and its tests alive. What saves the bridge is an alternative that every
step keeps: either a tool error is on record or about to be (`Condemned`), or the call
under way began with the files as they were shipped (`CleanCall`), and then an answer
other than an error means that it put them back (`CallStaysClean`). A kill, a failed
clean-up and a file edited by the tests all end in an error, which is why no verdict
after them counts. `TrialInv` adds what the tests of this candidate saw: while nothing
is condemned, each reply belongs to one run of the rewritten tests over exactly this
mutant. After a failed write the verdict of an earlier candidate is still in its variable,
so the invariant speaks of it only where `broken` is false, which is also where
`RestoreSource` records it.

`TestRunProofs` holds for any packages with their tests, of any kinds, any number of
children, and deaths at any step, under `InventoryAssumption` and `ChildAssumption`.

| theorem | says |
|---|---|
| `TestRunInvariant` | `Spec => []TInv` |
| `PassedRunsPassed` | `Spec => []PassIsReal` |
| `AssertionsAreReal` | `Spec => []AssertionIsReal` |
| `PlainRunsAreSaid` | `Spec => []PlainRunsAreClassified` |

The events of the TestMains carry no package, so what the classifier concludes from them
is an argument about numbers, and the invariant is one of counting. `StartsCounted`: at
least as many starts were written as packages entered their TestMain and children were
run. `MainCounts`: without children, the starts, returns and normal returns differ by just
the processes between them (`Moves` carries one process from set to set). `Tests` ties the
events of a test to what became of it and to how far its process is. A run is called an
assertion failure only when every test has two official events, so every package was
entered; a TestMain event was then seen, so all counts must be those of the packages; a
child would have made the starts one too many (`AssertionStep`). Hence there was none, and
as many normal returns as packages leave no package that did not return
(`ReturnedProcesses`). A pass needs no count: `go test` succeeded, so nothing died or
failed, and a skip is no pass of the classifier (`PassStep`).

Checked by TLC only: liveness (`CallsReturn`, `StartedRunConcludes`, `BridgeEnds`,
`RunEnds`), since the prover does not handle ENABLED and fairness. What the recursive
functions of the Go code compute over syntax trees is data to the models, and neither
checked nor proved.

## What is not modelled

* Loss of power: the models let a process die, not the disk forget. What a file
  system keeps of data that was not synced is its promise, not this code's.
* An edit that is undone within a walk, see Workspace above.
* The history view: a fold over the runs that Load returned, without state.
* The aggregate gate's counts, its rate and its JSON, and the decimal text of a
  score: arithmetic and rendering without state. The killed-only verdict is in
  `QualityRun`, the exact score in `CrapReport`.
* Parsing, canonical JSON, HMACs, identifiers: no state; a refused command line or
  record writes nothing.
* How syntax trees are read and rewritten: callables and signatures of the CRAP
  analyzer, the instrumentation of the test files, and the mutation rules of the
  vendored mutate4go. A source is what comes out of it.
* The reference profile of the bridge and the digests of `internal/runner/replay.go`:
  records of runs whose order `MutationBridge` has; two replays are equal or not.
* The build and install scripts, the environment of child processes.
