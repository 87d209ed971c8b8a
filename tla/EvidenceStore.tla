--------------------------- MODULE EvidenceStore ---------------------------
(***************************************************************************)
(* The evidence store of internal/evidence: the state-v1 directory of one  *)
(* project, shared by the goroutines of several sentinel-go processes.     *)
(* An action is one system call that changes the directory, or a group of  *)
(* reads a call makes between two of them; so a writer can be killed, or a *)
(* disk fault can stop it, between any two changes.                        *)
(*                                                                         *)
(* A file written under its final name (started.json, an event) is first   *)
(* torn, then whole.  A file published from ".X.tmp" (project.json,        *)
(* commit-sequence.json, evidence.json) is a pair: tmp[x] is what is under *)
(* the temporary name, final[x] the payload under the final one.  While    *)
(* both names are links to one file its link count is 2 and openOwnerFile  *)
(* refuses to read it.                                                     *)
(*                                                                         *)
(* The arguments of a call are taken to be valid: what Start, Append and   *)
(* Fingerprint check of them before they touch the directory (validateDraft*)
(* and the semantics of a terminal record) is left out.                    *)
(***************************************************************************)
EXTENDS Integers

CONSTANTS
    Process,      \* the operating-system processes that use the project
    Thread,       \* their goroutines
    ProcessOf,    \* ProcessOf[t]: the process of goroutine t
    RunId,        \* the identities of runs
    NoRun,        \* what a goroutine outside Start and Append works on
    Findings,     \* Findings[r]: how many findings the terminal run r carries
    Calls,        \* Calls[t]: the store operations goroutine t may call
    ReadLimit,    \* findings with which evidence.json reaches 1 MiB, too long to read
    MaxSequence,  \* stands for math.MaxUint64
    MaxCrashes,   \* bound on the number of killed processes
    MaxFaults     \* bound on the number of failing system calls

Operation == {"Initialize", "Start", "Append", "Load", "Fingerprint"}
Published == RunId \cup {"project", "sequence"}

ASSUME StoreAssumption ==
    /\ ProcessOf \in [Thread -> Process]
    /\ Findings \in [RunId -> Nat]
    /\ Calls \in [Thread -> SUBSET Operation]
    /\ ReadLimit \in Nat \ {0}
    /\ MaxSequence \in Nat \ {0}
    /\ MaxCrashes \in Nat
    /\ MaxFaults \in Nat
    /\ RunId \cap {"project", "sequence", NoRun} = {}

VARIABLES
    \* The directory, which survives every process.
    layout,    \* which of "root", "runs" and "lock" (commit.lock) exist
    tmp,       \* tmp[x]: "none", "own" (a file of its own) or "twin" (a link to X)
    final,     \* final[x]: 0 when X is absent, else its payload; for
               \* commit-sequence.json and evidence.json that is the sequence
    stage,     \* stage[r]: how far runs/r has been built by Start
    torn,      \* torn[r]: ordinals of event files created and not yet written
    written,   \* written[r]: ordinals of whole event files
    \* The kernel's record lock on commit.lock, one per process.
    byteLock,
    \* Each goroutine's call: where it is, and its locals.
    pc, op, run,
    target,    \* the file being published
    ticket,    \* the sequence allocated to this Append
    scanned,   \* the completed runs readCompleted returned
    cursor,    \* the next event to write
    result,    \* "none" until the call has its error value
    \* Bookkeeping of the bounds.
    crashes, faults

disk == <<layout, tmp, final, stage, torn, written>>
locals == <<op, run, target, ticket, scanned, cursor>>
bounds == <<crashes, faults>>
vars == <<disk, byteLock, pc, locals, result, bounds>>

-----------------------------------------------------------------------------
(* Labels: where a goroutine is in its call. *)

EnsureLabels == {"makeRoot", "makeRuns", "openLock", "closeLock"}
StartLabels == {"mkdir", "mark", "fill", "events"}
PublishLabels == {"create", "write", "publish", "remove"}
EventLabels == {"event", "writeEvent"}
\* Inside the action that withProcessLock runs, with the byte lock taken.
BodyLabels == {"inspect", "keys", "scan", "allocate", "checkSequence", "unlock"}
              \cup StartLabels \cup PublishLabels \cup EventLabels
Label == {"idle", "mutex", "byteLock", "return"} \cup EnsureLabels \cup BodyLabels

\* Bug: Append reads and writes under the shared lock.
ModeOfBug(o) == IF o = "Initialize" THEN "exclusive" ELSE "shared"

ModeOf(o) == IF o \in {"Initialize", "Append"} THEN "exclusive" ELSE "shared"

InBody(t) == pc[t] \in BodyLabels
Exclusive(t) == ModeOf(op[t]) = "exclusive"

\* readOwnerFile: the file exists and has one link.
Readable(x) == final[x] # 0 /\ tmp[x] # "twin"

-----------------------------------------------------------------------------
(* What readCompleted accepts. *)

StartedMarker(r) == stage[r] \in {"started", "ready"}

Committed == {r \in RunId : final[r] # 0}

\* readEvidence and readManifest accept the bundle of a completed run.
IntactBundle(r) ==
    /\ Readable(r)
    /\ Findings[r] < ReadLimit
    /\ written[r] = 1 .. Findings[r]
    /\ torn[r] = {}

ScanAccepts ==
    /\ "runs" \in layout
    /\ \A r \in RunId : stage[r] # "none" => StartedMarker(r)
    /\ \A r \in Committed : IntactBundle(r)
    /\ \A r, s \in Committed : final[r] = final[s] => r = s

\* requireEmptyTerminalArea, after validateStarted.
MayCommit(r) ==
    /\ stage[r] = "ready"
    /\ final[r] = 0
    /\ written[r] \cup torn[r] = {}

-----------------------------------------------------------------------------
(* Steps of one goroutine. *)

Goto(t, label) == pc' = [pc EXCEPT ![t] = label]

\* The action has its error value; deferred unlock and close follow.
Finish(t, outcome) ==
    /\ Goto(t, "unlock")
    /\ result' = [result EXCEPT ![t] = outcome]

\* The call returns without having taken the lock.
ReturnEarly(t, outcome) ==
    /\ Goto(t, "return")
    /\ result' = [result EXCEPT ![t] = outcome]

\* The goroutines in S are outside any call, with no locals left.
Leave(S) ==
    /\ pc' = [t \in Thread |-> IF t \in S THEN "idle" ELSE pc[t]]
    /\ op' = [t \in Thread |-> IF t \in S THEN "Load" ELSE op[t]]
    /\ run' = [t \in Thread |-> IF t \in S THEN NoRun ELSE run[t]]
    /\ target' = [t \in Thread |-> IF t \in S THEN "project" ELSE target[t]]
    /\ ticket' = [t \in Thread |-> IF t \in S THEN 0 ELSE ticket[t]]
    /\ scanned' = [t \in Thread |-> IF t \in S THEN {} ELSE scanned[t]]
    /\ cursor' = [t \in Thread |-> IF t \in S THEN 1 ELSE cursor[t]]
    /\ result' = [t \in Thread |-> IF t \in S THEN "none" ELSE result[t]]

\* A goroutine calls the store.  Load of a project without state is empty,
\* and so needs no lock; the other calls refuse one (withExistingState).
Call(t) ==
    /\ pc[t] = "idle"
    /\ \E o \in Calls[t] :
        /\ op' = [op EXCEPT ![t] = o]
        /\ \/ /\ o \in {"Start", "Append"}
              /\ \E r \in RunId : run' = [run EXCEPT ![t] = r]
           \/ /\ o \notin {"Start", "Append"}
              /\ UNCHANGED run
        /\ \/ /\ o = "Initialize"
              /\ Goto(t, "makeRoot")
              /\ UNCHANGED result
           \/ /\ o # "Initialize" /\ "root" \in layout
              /\ Goto(t, "mutex")
              /\ UNCHANGED result
           \/ /\ o # "Initialize" /\ "root" \notin layout
              /\ ReturnEarly(t, IF o = "Load" THEN "ok" ELSE "error")
    /\ UNCHANGED <<disk, byteLock, target, ticket, scanned, cursor, bounds>>

\* ensureStateRoots: idempotent mkdirs and the creation of commit.lock.
MakeRoot(t) ==
    /\ pc[t] = "makeRoot"
    /\ layout' = layout \cup {"root"}
    /\ Goto(t, "makeRuns")
    /\ UNCHANGED <<tmp, final, stage, torn, written, byteLock, locals, result, bounds>>

MakeRuns(t) ==
    /\ pc[t] = "makeRuns"
    /\ layout' = layout \cup {"runs"}
    /\ Goto(t, "openLock")
    /\ UNCHANGED <<tmp, final, stage, torn, written, byteLock, locals, result, bounds>>

OpenLock(t) ==
    /\ pc[t] = "openLock"
    /\ layout' = layout \cup {"lock"}
    /\ Goto(t, "closeLock")
    /\ UNCHANGED <<tmp, final, stage, torn, written, byteLock, locals, result, bounds>>

\* Closing any descriptor of commit.lock drops the record lock of the whole
\* process, whichever goroutine took it.
CloseLock(t) ==
    /\ pc[t] = "closeLock"
    /\ byteLock' = [byteLock EXCEPT ![ProcessOf[t]] = "none"]
    /\ Goto(t, "mutex")
    /\ UNCHANGED <<disk, locals, result, bounds>>

\* Bug: no process-local mutex.
HoldsMutexBug(t) == FALSE

\* The process-local RWMutex is held from AcquireMutex to Release.
HoldsMutex(t) == pc[t] = "byteLock" \/ InBody(t)

AcquireMutex(t) ==
    /\ pc[t] = "mutex"
    /\ \A u \in Thread \ {t} :
         ProcessOf[u] = ProcessOf[t] /\ HoldsMutex(u) => ~Exclusive(t) /\ ~Exclusive(u)
    /\ Goto(t, "byteLock")
    /\ UNCHANGED <<disk, byteLock, locals, result, bounds>>

\* Bug: a reader does not wait for the writer.
ByteLockFreeBug(t) ==
    ~Exclusive(t) \/ \A p \in Process \ {ProcessOf[t]} : byteLock[p] = "none"

\* fcntl(F_SETLKW) conflicts only with the locks of other processes.
ByteLockFree(t) ==
    \A p \in Process \ {ProcessOf[t]} :
        byteLock[p] = "none" \/ (byteLock[p] = "shared" /\ ~Exclusive(t))

AcquireByteLock(t) ==
    /\ pc[t] = "byteLock"
    /\ "lock" \in layout
    /\ ByteLockFree(t)
    /\ byteLock' = [byteLock EXCEPT ![ProcessOf[t]] = ModeOf(op[t])]
    /\ Goto(t, IF op[t] = "Initialize" THEN "inspect" ELSE "keys")
    /\ UNCHANGED <<disk, locals, result, bounds>>

\* openLockFile(path, false) finds no commit.lock; the mutex is released.
LockFileMissing(t) ==
    /\ pc[t] = "byteLock"
    /\ "lock" \notin layout
    /\ ReturnEarly(t, "error")
    /\ UNCHANGED <<disk, byteLock, locals, bounds>>

\* Bug: the record lock is never given back.
ReleaseBug(t) ==
    /\ pc[t] = "unlock"
    /\ Goto(t, "return")
    /\ UNCHANGED <<disk, byteLock, locals, result, bounds>>

\* Unlocking drops the record lock of the whole process, too; then the file
\* is closed and the mutex is released.
Release(t) ==
    /\ pc[t] = "unlock"
    /\ byteLock' = [byteLock EXCEPT ![ProcessOf[t]] = "none"]
    /\ Goto(t, "return")
    /\ UNCHANGED <<disk, locals, result, bounds>>

Return(t) ==
    /\ pc[t] = "return"
    /\ Leave({t})
    /\ UNCHANGED <<disk, byteLock, bounds>>

\* initializeLocked: an existing project.json is only validated.
Inspect(t) ==
    /\ pc[t] = "inspect"
    /\ \/ /\ final["project"] # 0
          /\ Finish(t, IF Readable("project") THEN "ok" ELSE "error")
          /\ UNCHANGED target
       \/ /\ final["project"] = 0
          /\ target' = [target EXCEPT ![t] = "project"]
          /\ Goto(t, "create")
          /\ UNCHANGED result
    /\ UNCHANGED <<disk, byteLock, op, run, ticket, scanned, cursor, bounds>>

\* withExistingState: no operation without the keys of project.json.
ReadKeys(t) ==
    /\ pc[t] = "keys"
    /\ \/ /\ ~Readable("project")
          /\ Finish(t, "error")
       \/ /\ Readable("project") /\ op[t] = "Fingerprint"
          /\ Finish(t, "ok")
       \/ /\ Readable("project") /\ op[t] # "Fingerprint"
          /\ Goto(t, IF op[t] = "Start" THEN "mkdir" ELSE "scan")
          /\ UNCHANGED result
    /\ UNCHANGED <<disk, byteLock, locals, bounds>>

-----------------------------------------------------------------------------
(* Start: runs/r, then started.json, then runs/r/events. *)

\* Bug: a run directory that exists is built anew.
MakeRunRootBug(t) ==
    /\ pc[t] = "mkdir"
    /\ stage' = [stage EXCEPT ![run[t]] = "made"]
    /\ Goto(t, "mark")
    /\ UNCHANGED <<layout, tmp, final, torn, written, byteLock, locals, result, bounds>>

MakeRunRoot(t) ==
    /\ pc[t] = "mkdir"
    /\ \/ /\ "runs" \notin layout \/ stage[run[t]] # "none"
          /\ Finish(t, "error")
          /\ UNCHANGED stage
       \/ /\ "runs" \in layout /\ stage[run[t]] = "none"
          /\ stage' = [stage EXCEPT ![run[t]] = "made"]
          /\ Goto(t, "mark")
          /\ UNCHANGED result
    /\ UNCHANGED <<layout, tmp, final, torn, written, byteLock, locals, bounds>>

CreateStarted(t) ==
    /\ pc[t] = "mark"
    /\ stage' = [stage EXCEPT ![run[t]] = "torn"]
    /\ Goto(t, "fill")
    /\ UNCHANGED <<layout, tmp, final, torn, written, byteLock, locals, result, bounds>>

WriteStarted(t) ==
    /\ pc[t] = "fill"
    /\ stage' = [stage EXCEPT ![run[t]] = "started"]
    /\ Goto(t, "events")
    /\ UNCHANGED <<layout, tmp, final, torn, written, byteLock, locals, result, bounds>>

MakeEventsRoot(t) ==
    /\ pc[t] = "events"
    /\ stage' = [stage EXCEPT ![run[t]] = "ready"]
    /\ Finish(t, "ok")
    /\ UNCHANGED <<layout, tmp, final, torn, written, byteLock, locals, bounds>>

-----------------------------------------------------------------------------
(* Append and Load: readCompleted, then the commit sequence. *)

Scan(t) ==
    /\ pc[t] = "scan"
    /\ \/ /\ ScanAccepts
          /\ op[t] = "Append" => MayCommit(run[t])
          /\ scanned' = [scanned EXCEPT ![t] = Committed]
          /\ Goto(t, IF op[t] = "Append" THEN "allocate" ELSE "checkSequence")
          /\ UNCHANGED result
       \/ /\ ~ScanAccepts \/ (op[t] = "Append" /\ ~MayCommit(run[t]))
          /\ Finish(t, "error")
          /\ UNCHANGED scanned
    /\ UNCHANGED <<disk, byteLock, op, run, target, ticket, cursor, bounds>>

\* Bug: the counter is required to be ahead of the completed runs.
SequenceCurrentBug(t) ==
    /\ tmp["sequence"] # "twin"
    /\ \A r \in scanned[t] : final[r] < final["sequence"]

\* readSequence can read the counter (an absent one reads as 0), and the
\* counter has not fallen behind the completed runs.
SequenceCurrent(t) ==
    /\ tmp["sequence"] # "twin"
    /\ \A r \in scanned[t] : final[r] <= final["sequence"]

CheckSequence(t) ==
    /\ pc[t] = "checkSequence"
    /\ Finish(t, IF SequenceCurrent(t) THEN "ok" ELSE "error")
    /\ UNCHANGED <<disk, byteLock, locals, bounds>>

\* Bug: the sequence after the newest committed run, gaps being reused.
NextSequenceBug ==
    CHOOSE n \in 1 .. MaxSequence + 1 :
        /\ \A r \in Committed : final[r] < n
        /\ n = 1 \/ \E r \in Committed : final[r] = n - 1

NextSequence == final["sequence"] + 1

\* Bug: the last value is passed.
ExhaustedBug == FALSE

Exhausted == final["sequence"] = MaxSequence

\* allocateSequence up to the write: the last value is never passed.
Allocate(t) ==
    /\ pc[t] = "allocate"
    /\ \/ /\ SequenceCurrent(t) /\ ~Exhausted
          /\ ticket' = [ticket EXCEPT ![t] = NextSequence]
          /\ target' = [target EXCEPT ![t] = "sequence"]
          /\ Goto(t, "create")
          /\ UNCHANGED result
       \/ /\ ~SequenceCurrent(t) \/ Exhausted
          /\ Finish(t, "error")
          /\ UNCHANGED <<ticket, target>>
    /\ UNCHANGED <<disk, byteLock, op, run, scanned, cursor, bounds>>

-----------------------------------------------------------------------------
(* publishNoReplace and atomicReplace, for project.json, then for the      *)
(* sequence and the evidence of an Append.                                 *)

Payload(t) == IF target[t] = "project" THEN 1 ELSE ticket[t]

\* Bug: evidence is published by replacing, too.
ReplacesBug(t) == ticket[t] > 1

\* writeSequence replaces the counter when there is one to replace.
Replaces(t) == target[t] = "sequence" /\ ticket[t] > 1

CreateTemporary(t) ==
    /\ pc[t] = "create"
    /\ \/ /\ tmp[target[t]] = "none"
          /\ tmp' = [tmp EXCEPT ![target[t]] = "own"]
          /\ Goto(t, "write")
          /\ UNCHANGED result
       \/ /\ tmp[target[t]] # "none"       \* O_EXCL
          /\ Finish(t, "error")
          /\ UNCHANGED tmp
    /\ UNCHANGED <<layout, final, stage, torn, written, byteLock, locals, bounds>>

\* Write, fsync and close: only the owner of the file reads it under this name.
WriteTemporary(t) ==
    /\ pc[t] = "write"
    /\ Goto(t, "publish")
    /\ UNCHANGED <<disk, byteLock, locals, result, bounds>>

\* What follows a file that is safely published.
AfterPublish(t) ==
    \/ /\ target[t] = "sequence"
       /\ cursor' = [cursor EXCEPT ![t] = 1]
       /\ Goto(t, "event")
       /\ UNCHANGED result
    \/ /\ target[t] # "sequence"
       /\ Finish(t, "ok")
       /\ UNCHANGED cursor

Rename(t) ==
    /\ pc[t] = "publish" /\ Replaces(t)
    /\ final' = [final EXCEPT ![target[t]] = Payload(t)]
    /\ tmp' = [tmp EXCEPT ![target[t]] = "none"]
    /\ AfterPublish(t)
    /\ UNCHANGED <<layout, stage, torn, written, byteLock, op, run, target, ticket, scanned, bounds>>

Link(t) ==
    /\ pc[t] = "publish" /\ ~Replaces(t)
    /\ \/ /\ final[target[t]] = 0
          /\ final' = [final EXCEPT ![target[t]] = Payload(t)]
          /\ tmp' = [tmp EXCEPT ![target[t]] = "twin"]
          /\ Goto(t, "remove")
          /\ UNCHANGED result
       \/ /\ final[target[t]] # 0          \* EEXIST: the temporary is removed
          /\ tmp' = [tmp EXCEPT ![target[t]] = "none"]
          /\ Finish(t, "error")
          /\ UNCHANGED final
    /\ UNCHANGED <<layout, stage, torn, written, byteLock, locals, bounds>>

\* Bug: the temporary name is left behind.
RemoveTemporaryBug(t) ==
    /\ pc[t] = "remove"
    /\ AfterPublish(t)
    /\ UNCHANGED <<disk, byteLock, op, run, target, ticket, scanned, bounds>>

RemoveTemporary(t) ==
    /\ pc[t] = "remove"
    /\ tmp' = [tmp EXCEPT ![target[t]] = "none"]
    /\ AfterPublish(t)
    /\ UNCHANGED <<layout, final, stage, torn, written, byteLock, op, run, target, ticket, scanned, bounds>>

-----------------------------------------------------------------------------
(* publishEvents: one file per finding, then the evidence. *)

CreateEvent(t) ==
    /\ pc[t] = "event"
    /\ cursor[t] <= Findings[run[t]]
    /\ \/ /\ cursor[t] \notin torn[run[t]] \cup written[run[t]]
          /\ torn' = [torn EXCEPT ![run[t]] = @ \cup {cursor[t]}]
          /\ Goto(t, "writeEvent")
          /\ UNCHANGED result
       \/ /\ cursor[t] \in torn[run[t]] \cup written[run[t]]
          /\ Finish(t, "error")
          /\ UNCHANGED torn
    /\ UNCHANGED <<layout, tmp, final, stage, written, byteLock, locals, bounds>>

WriteEvent(t) ==
    /\ pc[t] = "writeEvent"
    /\ torn' = [torn EXCEPT ![run[t]] = @ \ {cursor[t]}]
    /\ written' = [written EXCEPT ![run[t]] = @ \cup {cursor[t]}]
    /\ cursor' = [cursor EXCEPT ![t] = @ + 1]
    /\ Goto(t, "event")
    /\ UNCHANGED <<layout, tmp, final, stage, byteLock, op, run, target, ticket, scanned, result, bounds>>

\* Bug: the evidence is published before the last event.
EventsDoneBug(t) ==
    /\ pc[t] = "event"
    /\ cursor[t] >= Findings[run[t]]
    /\ target' = [target EXCEPT ![t] = run[t]]
    /\ Goto(t, "create")
    /\ UNCHANGED <<disk, byteLock, op, run, ticket, scanned, cursor, result, bounds>>

EventsDone(t) ==
    /\ pc[t] = "event"
    /\ cursor[t] > Findings[run[t]]
    /\ target' = [target EXCEPT ![t] = run[t]]
    /\ Goto(t, "create")
    /\ UNCHANGED <<disk, byteLock, op, run, ticket, scanned, cursor, result, bounds>>

-----------------------------------------------------------------------------
(* Failures. *)

\* A call of t fails before it is inside the action under the lock: in
\* ensureStateRoots, or when commit.lock cannot be opened or locked.
SetupFault(t) ==
    /\ faults < MaxFaults
    /\ faults' = faults + 1
    /\ ReturnEarly(t, "error")
    /\ \/ /\ pc[t] \in EnsureLabels \cup {"byteLock"}
          /\ UNCHANGED byteLock
       \/ /\ pc[t] = "closeLock"     \* closed, then the sync of the root fails
          /\ byteLock' = [byteLock EXCEPT ![ProcessOf[t]] = "none"]
    /\ UNCHANGED <<disk, locals, crashes>>

\* A system call of t fails under the lock (no space, an I/O error) and the
\* call takes its error path.  That tries to remove the file being written,
\* ignoring whether it can; what was published before stays.
DiskFault(t) ==
    /\ faults < MaxFaults
    /\ faults' = faults + 1
    /\ Finish(t, "error")
    /\ \/ /\ pc[t] \in BodyLabels \ {"unlock"}
          /\ UNCHANGED <<tmp, final, stage, torn>>
       \/ /\ pc[t] = "fill"
          /\ stage' = [stage EXCEPT ![run[t]] = "made"]
          /\ UNCHANGED <<tmp, final, torn>>
       \/ /\ pc[t] = "events"     \* the directory is made, its sync fails
          /\ stage' = [stage EXCEPT ![run[t]] = "ready"]
          /\ UNCHANGED <<tmp, final, torn>>
       \/ /\ pc[t] \in {"write", "publish", "remove"}
          /\ tmp' = [tmp EXCEPT ![target[t]] = "none"]
          /\ UNCHANGED <<final, stage, torn>>
       \/ /\ pc[t] = "publish" /\ Replaces(t)     \* renamed, its sync fails
          /\ final' = [final EXCEPT ![target[t]] = Payload(t)]
          /\ tmp' = [tmp EXCEPT ![target[t]] = "none"]
          /\ UNCHANGED <<stage, torn>>
       \/ /\ pc[t] = "writeEvent"
          /\ torn' = [torn EXCEPT ![run[t]] = @ \ {cursor[t]}]
          /\ UNCHANGED <<tmp, final, stage>>
    /\ UNCHANGED <<layout, written, byteLock, locals, crashes>>

\* Process p is killed: the kernel drops its record lock, the directory
\* stays as it is, and a new process takes its place.
Crash(p) ==
    /\ crashes < MaxCrashes
    /\ \E t \in Thread : ProcessOf[t] = p /\ pc[t] # "idle"
    /\ crashes' = crashes + 1
    /\ byteLock' = [byteLock EXCEPT ![p] = "none"]
    /\ Leave({t \in Thread : ProcessOf[t] = p})
    /\ UNCHANGED <<disk, faults>>

-----------------------------------------------------------------------------
Init ==
    /\ layout = {}
    /\ tmp = [x \in Published |-> "none"]
    /\ final = [x \in Published |-> 0]
    /\ stage = [r \in RunId |-> "none"]
    /\ torn = [r \in RunId |-> {}]
    /\ written = [r \in RunId |-> {}]
    /\ byteLock = [p \in Process |-> "none"]
    /\ pc = [t \in Thread |-> "idle"]
    /\ op = [t \in Thread |-> "Load"]
    /\ run = [t \in Thread |-> NoRun]
    /\ target = [t \in Thread |-> "project"]
    /\ ticket = [t \in Thread |-> 0]
    /\ scanned = [t \in Thread |-> {}]
    /\ cursor = [t \in Thread |-> 1]
    /\ result = [t \in Thread |-> "none"]
    /\ crashes = 0
    /\ faults = 0

InitializeStep(t) == MakeRoot(t) \/ MakeRuns(t) \/ OpenLock(t) \/ CloseLock(t) \/ Inspect(t)
LockStep(t) == AcquireMutex(t) \/ AcquireByteLock(t) \/ LockFileMissing(t) \/ Release(t) \/ Return(t)
StartStep(t) == MakeRunRoot(t) \/ CreateStarted(t) \/ WriteStarted(t) \/ MakeEventsRoot(t)
ReadStep(t) == ReadKeys(t) \/ Scan(t) \/ CheckSequence(t) \/ Allocate(t)
PublishStep(t) == CreateTemporary(t) \/ WriteTemporary(t) \/ Rename(t) \/ Link(t) \/ RemoveTemporary(t)
EventStep(t) == CreateEvent(t) \/ WriteEvent(t) \/ EventsDone(t)

\* The steps a goroutine takes by itself once it has called the store.
Step(t) ==
    \/ InitializeStep(t) \/ LockStep(t) \/ StartStep(t)
    \/ ReadStep(t) \/ PublishStep(t) \/ EventStep(t)

Next ==
    \/ \E t \in Thread : Call(t) \/ Step(t) \/ SetupFault(t) \/ DiskFault(t)
    \/ \E p \in Process : Crash(p)

Spec == Init /\ [][Next]_vars

Fairness ==
    /\ \A t \in Thread : WF_vars(Step(t))
    \* RWMutex does not starve a waiter, and the kernel wakes the processes
    \* that wait for a record lock when it is dropped.
    /\ \A t \in Thread : SF_vars(AcquireMutex(t)) /\ SF_vars(AcquireByteLock(t))

FairSpec == Spec /\ Fairness

-----------------------------------------------------------------------------
(* Properties. *)

Stage == {"none", "made", "torn", "started", "ready"}

\* Every variable stays in its domain; in particular neither the counter nor
\* a published sequence passes the largest uint64.
TypeOK ==
    /\ layout \in SUBSET {"root", "runs", "lock"}
    /\ tmp \in [Published -> {"none", "own", "twin"}]
    /\ final \in [Published -> 0 .. MaxSequence]
    /\ stage \in [RunId -> Stage]
    /\ torn \in [RunId -> SUBSET Nat]
    /\ written \in [RunId -> SUBSET Nat]
    /\ byteLock \in [Process -> {"none", "shared", "exclusive"}]
    /\ pc \in [Thread -> Label]
    /\ op \in [Thread -> Operation]
    /\ run \in [Thread -> RunId \cup {NoRun}]
    /\ target \in [Thread -> Published]
    /\ ticket \in [Thread -> 0 .. MaxSequence]
    /\ scanned \in [Thread -> SUBSET RunId]
    /\ cursor \in [Thread -> Nat \ {0}]
    /\ result \in [Thread -> {"none", "ok", "error"}]
    /\ crashes \in 0 .. MaxCrashes
    /\ faults \in 0 .. MaxFaults

\* Nobody runs under the commit lock beside a goroutine that holds it
\* exclusively, in whichever process it runs (withProcessLock).
LockExcludes ==
    \A t, u \in Thread : t # u /\ InBody(t) /\ InBody(u) => ~Exclusive(t) /\ ~Exclusive(u)

\* No two runs are ever committed under one sequence, and the counter has
\* never fallen behind a committed run: the error cases of sequenceTracker
\* and of nextSequence cannot arise from the store's own writes.
SequencesUnique ==
    /\ \A r, s \in Committed : final[r] = final[s] => r = s
    /\ \A r \in Committed : final[r] <= final["sequence"]

\* An evidence.json is visible only above a complete bundle: its start
\* marker, and every event its manifest lists, whole (Append publishes
\* "immutable events, then evidence").
EvidenceImpliesBundle ==
    \A r \in Committed : StartedMarker(r) /\ written[r] = 1 .. Findings[r] /\ torn[r] = {}

\* What is committed stays as it was: no later call, crash or fault changes
\* or removes a committed evidence.json, its events or its start marker.
CommittedIsImmutable ==
    [][\A r \in Committed :
         /\ final'[r] = final[r] /\ stage'[r] = stage[r]
         /\ written'[r] = written[r] /\ torn'[r] = torn[r]]_vars

\* A Load that succeeds returns exactly the runs that are committed when it
\* gives up the lock: no committed run is missing and none is torn.
LoadReturnsTheLog ==
    \A t \in Thread : pc[t] = "unlock" /\ op[t] = "Load" /\ result[t] = "ok" => scanned[t] = Committed

\* Success is truthful: Append has committed its run under the sequence it
\* was given, Start has left a complete run directory.
SuccessIsTruthful ==
    \A t \in Thread : pc[t] = "unlock" /\ result[t] = "ok" =>
        /\ op[t] = "Append" => final[run[t]] = ticket[t] /\ Readable(run[t])
        /\ op[t] = "Start" => stage[run[t]] = "ready" /\ final[run[t]] = 0

\* The reasons for which an Append may be refused: the run was not started
\* completely, it is terminal already, or the sequence is exhausted.
AppendRefusable(r) ==
    stage[r] # "ready" \/ final[r] # 0 \/ final["sequence"] = MaxSequence

\* As long as nothing was killed and no disk operation failed, an Append
\* fails only for a reason of its own run: never because of what other
\* goroutines and processes are doing to the store at the same time.
AppendFailsForCause ==
    \A t \in Thread :
        crashes = 0 /\ faults = 0 /\ pc[t] = "unlock" /\ op[t] = "Append" /\ result[t] = "error"
        => AppendRefusable(run[t])

\* What the test of the append-only bundle asks for: with nothing killed and
\* nothing failed, every run that was appended can be loaded.
AppendedIsReadable ==
    crashes = 0 /\ faults = 0 /\ (\A t \in Thread : ~InBody(t)) =>
        \A r \in Committed : IntactBundle(r)

\* What the test of the crash gap asks for: a killed writer leaves a gap in
\* the sequences, and later runs are appended past it.
CrashLeavesAGap ==
    \A t \in Thread :
        faults = 0 /\ pc[t] = "unlock" /\ op[t] = "Append" /\ result[t] = "error"
        => AppendRefusable(run[t])

\* While nothing was killed and nothing failed, a store nobody is inside is
\* readable and holds no temporary file.
QuietStoreIsClean ==
    crashes = 0 /\ faults = 0 /\ (\A t \in Thread : ~InBody(t)) =>
        /\ \A x \in Published : tmp[x] = "none"
        /\ "runs" \in layout => ScanAccepts

\* t owns a sequence its run is not committed under yet.
Holding(t) ==
    \/ pc[t] = "remove" /\ target[t] = "sequence"
    \/ pc[t] \in EventLabels
    \/ pc[t] \in {"create", "write", "publish"} /\ target[t] = run[t]
Owed == \E t \in Thread : op[t] = "Append" /\ Holding(t)

\* The store implements the append-only log it is meant to be: in particular a
\* sequence that a killed or failed Append had allocated is never used again.
Log == INSTANCE EvidenceLog WITH
           highest <- final["sequence"],
           log <- [r \in RunId |-> final[r]],
           pending <- Owed
ImplementsLog == Log!Spec

\* Every call returns, however the locks are fought over and whoever dies.
CallsReturn == \A t \in Thread : pc[t] # "idle" ~> pc[t] = "idle"
=============================================================================
