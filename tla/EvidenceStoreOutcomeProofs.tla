--------------------- MODULE EvidenceStoreOutcomeProofs ---------------------
(***************************************************************************)
(* Proofs about what the calls of EvidenceStore return, on top of the      *)
(* invariant of EvidenceStoreProofs: a successful call has done what it    *)
(* says, and while nothing was killed and nothing failed an Append is      *)
(* refused only for its own sake and leaves nothing behind.                *)
(***************************************************************************)
EXTENDS EvidenceStoreProofs

\* Every evidence.json can be read back.  Without it one oversize commit ends
\* every later scan.
EvidenceFits == \A r \in RunId : Findings[r] < ReadLimit

-----------------------------------------------------------------------------
(* The invariant. *)

\* Whoever is inside the lock has found commit.lock, which ensureStateRoots
\* creates after runs.
LayoutBuilt ==
    /\ "lock" \in layout => "runs" \in layout
    /\ \A t \in Thread : pc[t] = "openLock" \/ InBody(t) => "runs" \in layout

\* Runs are started only under the keys of project.json.
KeysFirst ==
    /\ \A r \in RunId : stage[r] # "none" => final["project"] # 0
    /\ \A t \in Thread : pc[t] \in StartLabels => final["project"] # 0

\* What t has to show when its call is about to succeed.
OutcomeAt(t) ==
    /\ pc[t] = "checkSequence" => op[t] = "Load"
    /\ pc[t] = "remove" /\ op[t] = "Append" /\ target[t] = run[t] =>
         final[run[t]] = ticket[t] /\ ticket[t] # 0
    /\ pc[t] = "unlock" /\ result[t] = "ok" /\ op[t] = "Append" =>
         final[run[t]] = ticket[t] /\ Readable(run[t])
    /\ pc[t] = "unlock" /\ result[t] = "ok" /\ op[t] = "Start" =>
         stage[run[t]] = "ready" /\ final[run[t]] = 0
    /\ op[t] = "Load" /\ (pc[t] = "checkSequence" \/ (pc[t] = "unlock" /\ result[t] = "ok")) =>
         scanned[t] = Committed

Outcomes == \A t \in Thread : OutcomeAt(t)

Quiet == crashes = 0 /\ faults = 0

\* t has ".X.tmp" of the file x it is publishing.
HasTemporary(t, x) ==
    /\ pc[t] \in {"write", "publish", "remove"} /\ target[t] = x
    /\ tmp[x] = "twin" => pc[t] = "remove"

\* In a quiet store whatever is unfinished is being finished by someone.
TemporariesOwned == \A x \in Published : tmp[x] # "none" => \E t \in Thread : HasTemporary(t, x)
BuildsOwned ==
    \A r \in RunId : stage[r] \notin {"none", "ready"} =>
        \E t \in Thread : pc[t] \in {"mark", "fill", "events"} /\ run[t] = r
EventsOwned ==
    \A r \in RunId : final[r] = 0 /\ written[r] \cup torn[r] # {} =>
        \E t \in Thread : op[t] = "Append" /\ run[t] = r /\ Holding(t)

\* An Append that is about to fail has a reason.
RefusedAt(t) ==
    pc[t] = "unlock" /\ op[t] = "Append" /\ result[t] = "error" => AppendRefusable(run[t])

Tidy == TemporariesOwned /\ BuildsOwned /\ EventsOwned /\ \A t \in Thread : RefusedAt(t)

OutcomeInv == LayoutBuilt /\ KeysFirst /\ Outcomes
QuietInv == Quiet => Tidy

-----------------------------------------------------------------------------
(* Who can disturb whom. *)

\* t takes a step of its own; a crash is the only other step.
Acts(t) == Call(t) \/ Step(t) \/ SetupFault(t) \/ DiskFault(t)

SameLocals(u) == SameCall(u) /\ scanned'[u] = scanned[u] /\ result'[u] = result[u]

\* A step of t leaves the call of every other goroutine where it is.
LEMMA OthersGoOn ==
    ASSUME NEW t \in Thread, Acts(t), NEW u \in Thread, u # t, TypeInv
    PROVE  SameLocals(u)
<1> USE DEF SameLocals, SameCall, Goto, Finish, ReturnEarly, locals, TypeInv, TypeOK
<1>1. CASE Call(t)
  BY <1>1 DEF Call
<1>2. CASE InitializeStep(t)
  BY <1>2 DEF InitializeStep, MakeRoot, MakeRuns, OpenLock, CloseLock, Inspect
<1>3. CASE LockStep(t)
  BY <1>3 DEF LockStep, AcquireMutex, AcquireByteLock, LockFileMissing, Release, Return, Leave
<1>4. CASE StartStep(t)
  BY <1>4 DEF StartStep, MakeRunRoot, CreateStarted, WriteStarted, MakeEventsRoot
<1>5. CASE ReadStep(t)
  BY <1>5 DEF ReadStep, ReadKeys, Scan, CheckSequence, Allocate
<1>6. CASE PublishStep(t)
  BY <1>6 DEF PublishStep, CreateTemporary, WriteTemporary, Rename, Link, RemoveTemporary, AfterPublish
<1>7. CASE EventStep(t)
  BY <1>7 DEF EventStep, CreateEvent, WriteEvent, EventsDone
<1>8. CASE SetupFault(t) \/ DiskFault(t)
  BY <1>8 DEF SetupFault, DiskFault
<1>9. QED
  BY <1>1, <1>2, <1>3, <1>4, <1>5, <1>6, <1>7, <1>8 DEF Acts, Step

\* A crash leaves the directory alone, and every goroutine outside or as it was.
LEMMA CrashLeaves ==
    ASSUME NEW p \in Process, Crash(p), NEW u \in Thread
    PROVE  UNCHANGED disk /\ (pc'[u] = "idle" \/ SameLocals(u))
BY DEF Crash, Leave, SameLocals, SameCall

\* Outside the lock only the layout is touched.
LEMMA OutsideSteps ==
    ASSUME NEW t \in Thread, Call(t) \/ InitializeStep(t) \/ LockStep(t) \/ SetupFault(t)
    PROVE  UNCHANGED <<tmp, final, stage, torn, written>> /\ layout \subseteq layout'
BY DEF Call, InitializeStep, MakeRoot, MakeRuns, OpenLock, CloseLock, Inspect, LockStep, AcquireMutex,
   AcquireByteLock, LockFileMissing, Release, Return, SetupFault, disk

\* Reading touches nothing.
LEMMA ReadingSteps ==
    ASSUME NEW t \in Thread, ReadStep(t)
    PROVE  UNCHANGED disk
BY DEF ReadStep, ReadKeys, Scan, CheckSequence, Allocate

\* Start touches its run directory, which is not complete yet.
LEMMA StartingSteps ==
    ASSUME IInv, NEW t \in Thread, StartStep(t)
    PROVE  /\ UNCHANGED <<layout, tmp, final, torn, written>>
           /\ op[t] = "Start" /\ InBody(t) /\ run[t] \in RunId
           /\ stage' = stage \/ (stage[run[t]] # "ready" /\ \E s \in Stage : stage' = [stage EXCEPT ![run[t]] = s])
<1>1. UNCHANGED <<layout, tmp, final, torn, written>> /\ pc[t] \in StartLabels
  BY DEF StartStep, MakeRunRoot, CreateStarted, WriteStarted, MakeEventsRoot, StartLabels
<1>2. op[t] = "Start" /\ InBody(t) /\ run[t] \in RunId
  BY <1>1 DEF IInv, TypeInv, CallShape, CallShapeAt, InBody, BodyLabels, StartLabels
<1>3. stage' = stage \/ (stage[run[t]] # "ready" /\ \E s \in Stage : stage' = [stage EXCEPT ![run[t]] = s])
  BY DEF StartStep, MakeRunRoot, CreateStarted, WriteStarted, MakeEventsRoot, Stage, IInv, Progress, StartProgress
<1>4. QED
  BY <1>1, <1>2, <1>3

\* What publishing and the events change is changed by an exclusive holder.
LEMMA WritingSteps ==
    ASSUME IInv, NEW t \in Thread, PublishStep(t) \/ EventStep(t)
    PROVE  UNCHANGED <<layout, stage>> /\ InBody(t) /\ Exclusive(t)
<1>1. UNCHANGED <<layout, stage>> /\ pc[t] \in PublishLabels \cup EventLabels
  BY DEF PublishStep, EventStep, CreateTemporary, WriteTemporary, Rename, Link, RemoveTemporary, CreateEvent,
     WriteEvent, EventsDone, PublishLabels, EventLabels, disk
<1>2. QED
  BY <1>1 DEF IInv, TypeInv, CallShape, CallShapeAt, InBody, BodyLabels, Exclusive, ModeOf

\* A failing system call changes what the step it fails in would have changed.
LEMMA FaultingSteps ==
    ASSUME IInv, NEW t \in Thread, DiskFault(t)
    PROVE  /\ UNCHANGED <<layout, written>> /\ InBody(t)
           /\ Exclusive(t) \/ UNCHANGED <<tmp, final, torn>>
           /\ \/ stage' = stage
              \/ /\ op[t] = "Start" /\ run[t] \in RunId /\ stage[run[t]] # "ready" /\ pc[t] \in StartLabels
                 /\ \E s \in Stage \ {"none"} : stage' = [stage EXCEPT ![run[t]] = s]
<1>1. UNCHANGED <<layout, written>> /\ InBody(t)
  BY DEF DiskFault, InBody, BodyLabels, StartLabels, PublishLabels, EventLabels
<1>2. ASSUME ~Exclusive(t) PROVE UNCHANGED <<tmp, final, torn>>
  <2>1. pc[t] \notin PublishLabels \cup EventLabels
    BY <1>2 DEF IInv, TypeInv, CallShape, CallShapeAt, Exclusive, ModeOf
  <2>2. QED
    BY <2>1 DEF DiskFault, PublishLabels, EventLabels
<1>3. ASSUME stage' # stage
      PROVE  /\ op[t] = "Start" /\ run[t] \in RunId /\ stage[run[t]] # "ready" /\ pc[t] \in StartLabels
             /\ \E s \in Stage \ {"none"} : stage' = [stage EXCEPT ![run[t]] = s]
  <2>1. pc[t] \in {"fill", "events"} /\ \E s \in Stage \ {"none"} : stage' = [stage EXCEPT ![run[t]] = s]
    BY <1>3 DEF DiskFault, Stage
  <2>2. QED
    BY <2>1 DEF IInv, TypeInv, CallShape, CallShapeAt, Progress, StartProgress, StartLabels
<1>4. QED
  BY <1>1, <1>2, <1>3

\* While u is inside the lock, another goroutine changes no file, except that
\* a Start beside a reader builds a run directory that is not complete yet.
LEMMA Undisturbed ==
    ASSUME OneGoroutinePerProcess, IInv, NEW t \in Thread, Acts(t), NEW u \in Thread, u # t, InBody(u)
    PROVE  /\ UNCHANGED <<tmp, final, torn, written>>
           /\ Exclusive(u) => UNCHANGED stage
           /\ \A r \in RunId : stage[r] = "ready" => stage'[r] = "ready"
<1>1. InBody(t) => ~Exclusive(t) /\ ~Exclusive(u)
  BY TableExcludes DEF IInv, LockExcludes
<1>2. CASE Call(t) \/ InitializeStep(t) \/ LockStep(t) \/ SetupFault(t)
  BY <1>2, OutsideSteps
<1>3. CASE ReadStep(t)
  BY <1>3, ReadingSteps DEF disk
<1>4. CASE StartStep(t)
  <2>1. stage \in [RunId -> Stage]
    BY DEF IInv, TypeInv, TypeOK
  <2>2. QED
    BY <1>1, <1>4, <2>1, StartingSteps
<1>5. CASE PublishStep(t) \/ EventStep(t)
  BY <1>1, <1>5, WritingSteps
<1>6. CASE DiskFault(t)
  <2>1. stage \in [RunId -> Stage]
    BY DEF IInv, TypeInv, TypeOK
  <2>2. QED
    BY <1>1, <1>6, <2>1, FaultingSteps
<1>7. QED
  BY <1>2, <1>3, <1>4, <1>5, <1>6 DEF Acts, Step

-----------------------------------------------------------------------------
(* The layout and the keys. *)

\* The empty project.
LEMMA OutcomeInit == Init => OutcomeInv /\ QuietInv
BY DEF Init, OutcomeInv, LayoutBuilt, KeysFirst, Outcomes, OutcomeAt, QuietInv, Quiet, Tidy, TemporariesOwned,
   BuildsOwned, EventsOwned, RefusedAt, InBody, BodyLabels, StartLabels, PublishLabels, EventLabels

\* runs is there before commit.lock, and nothing of the layout is ever removed.
LEMMA LayoutStable ==
    ASSUME IInv, LayoutBuilt, [Next]_vars
    PROVE  LayoutBuilt'
<1> USE DEF Goto, Finish, ReturnEarly, locals, disk
<1> DEFINE At(u) == pc[u] = "openLock" \/ InBody(u)
<1>1. ASSUME layout \subseteq layout', "lock" \in layout' => "runs" \in layout',
             \A u \in Thread : At(u)' => At(u) \/ "runs" \in layout'
      PROVE  LayoutBuilt'
  BY <1>1 DEF LayoutBuilt
<1>2. pc \in [Thread -> Label]
  BY DEF IInv, TypeInv, TypeOK
<1>3. ASSUME UNCHANGED layout, \A u \in Thread : pc'[u] \in BodyLabels \cup {"openLock"} => At(u)
      PROVE  LayoutBuilt'
  BY <1>1, <1>3 DEF LayoutBuilt, InBody
<1>4. ASSUME NEW t \in Thread, MakeRoot(t) \/ MakeRuns(t) \/ OpenLock(t) PROVE LayoutBuilt'
  <2>1. /\ \A u \in Thread : u # t => pc'[u] = pc[u]
        /\ \/ pc'[t] = "makeRuns" /\ layout' = layout \cup {"root"}
           \/ pc'[t] = "openLock" /\ layout' = layout \cup {"runs"}
           \/ pc'[t] = "closeLock" /\ layout' = layout \cup {"lock"} /\ pc[t] = "openLock"
    BY <1>2, <1>4 DEF MakeRoot, MakeRuns, OpenLock
  <2>2. "lock" \in layout' => "runs" \in layout'
    BY <2>1 DEF LayoutBuilt
  <2>3. \A u \in Thread : At(u)' => At(u) \/ "runs" \in layout'
    BY <2>1 DEF InBody, BodyLabels, StartLabels, PublishLabels, EventLabels
  <2>4. QED
    BY <1>1, <2>1, <2>2, <2>3
<1>5. ASSUME NEW t \in Thread, AcquireByteLock(t) PROVE LayoutBuilt'
  <2>1. "lock" \in layout /\ UNCHANGED layout
    BY <1>5 DEF AcquireByteLock
  <2>2. QED
    BY <1>1, <2>1 DEF LayoutBuilt
<1>6. ASSUME NEW t \in Thread, Call(t) \/ CloseLock(t) \/ Inspect(t) \/ LockFileMissing(t) \/ AcquireMutex(t)
                                 \/ Release(t)
             \/ Return(t) \/ SetupFault(t)
      PROVE  LayoutBuilt'
  <2>1. UNCHANGED layout
    BY <1>6 DEF Call, CloseLock, Inspect, LockFileMissing, AcquireMutex, Release, Return, SetupFault
  <2>2. \A u \in Thread : pc'[u] \in BodyLabels \cup {"openLock"} => At(u)
    BY <1>2, <1>6 DEF Call, CloseLock, Inspect, LockFileMissing, AcquireMutex, Release, Return, Leave, SetupFault,
       InBody, BodyLabels, StartLabels, PublishLabels, EventLabels
  <2>3. QED
    BY <1>3, <2>1, <2>2
<1>7. ASSUME NEW t \in Thread, StartStep(t) \/ ReadStep(t) \/ PublishStep(t) \/ EventStep(t) \/ DiskFault(t)
      PROVE  LayoutBuilt'
  <2>1. UNCHANGED layout /\ InBody(t)
    BY <1>7, StartingSteps, ReadingSteps, WritingSteps, FaultingSteps DEF ReadStep, ReadKeys, Scan, CheckSequence,
       Allocate, InBody, BodyLabels
  <2>2. \A u \in Thread : u # t => pc'[u] = pc[u]
    BY <1>7, OthersGoOn DEF Acts, Step, SameLocals, SameCall, IInv
  <2>3. QED
    BY <1>3, <2>1, <2>2 DEF InBody
<1>8. ASSUME NEW p \in Process, Crash(p) PROVE LayoutBuilt'
  <2>1. \A u \in Thread : pc'[u] = "idle" \/ pc'[u] = pc[u]
    BY <1>8, CrashLeaves DEF SameLocals, SameCall
  <2>2. UNCHANGED layout
    BY <1>8 DEF Crash
  <2>3. QED
    BY <1>3, <2>1, <2>2 DEF InBody, BodyLabels, StartLabels, PublishLabels, EventLabels
<1>9. CASE UNCHANGED vars
  BY <1>3, <1>9 DEF vars, InBody
<1>10. QED
  BY <1>4, <1>5, <1>6, <1>7, <1>8, <1>9 DEF Next, Step, InitializeStep, LockStep

\* project.json is never removed.
LEMMA ProjectStays ==
    ASSUME IInv, [Next]_vars, final["project"] # 0
    PROVE  final'["project"] # 0
<1>1. final \in [Published -> 0 .. MaxSequence] /\ "project" \in Published
  BY DEF IInv, TypeInv, TypeOK, Published
<1>2. ASSUME NEW t \in Thread, Rename(t) \/ DiskFault(t) PROVE final'["project"] = final["project"]
  BY <1>1, <1>2 DEF Rename, DiskFault, Replaces
<1>3. ASSUME NEW t \in Thread, Link(t) PROVE final'["project"] # 0
  BY <1>1, <1>3 DEF Link
<1>4. QED
  BY <1>2, <1>3, FinalFrame

\* Start is reached only with the keys of project.json in hand.
LEMMA KeysStable ==
    ASSUME IInv, KeysFirst, [Next]_vars
    PROVE  KeysFirst'
<1> USE DEF Goto, Finish, ReturnEarly, locals, disk
<1>1. pc \in [Thread -> Label] /\ stage \in [RunId -> Stage]
  BY DEF IInv, TypeInv, TypeOK
<1>2. ASSUME UNCHANGED stage, \A u \in Thread : pc'[u] \in StartLabels => pc[u] \in StartLabels \/ final["project"] # 0
      PROVE  KeysFirst'
  BY <1>2, ProjectStays DEF KeysFirst
<1>3. ASSUME final["project"] # 0 PROVE KeysFirst'
  BY <1>3, ProjectStays DEF KeysFirst
<1>4. ASSUME NEW t \in Thread, Call(t) \/ InitializeStep(t) \/ LockStep(t) \/ SetupFault(t) PROVE KeysFirst'
  <2>1. \A u \in Thread : pc'[u] \in StartLabels => pc[u] \in StartLabels
    BY <1>1, <1>4 DEF Call, InitializeStep, MakeRoot, MakeRuns, OpenLock, CloseLock, Inspect, LockStep, AcquireMutex,
       AcquireByteLock, LockFileMissing, Release, Return, Leave, SetupFault, StartLabels
  <2>2. QED
    BY <1>2, <1>4, <2>1, OutsideSteps
<1>5. ASSUME NEW t \in Thread, ReadStep(t) PROVE KeysFirst'
  <2>1. \A u \in Thread : pc'[u] \in StartLabels => pc[u] \in StartLabels \/ final["project"] # 0
    BY <1>1, <1>5 DEF ReadStep, ReadKeys, Readable, Scan, CheckSequence, Allocate, StartLabels
  <2>2. QED
    BY <1>2, <1>5, <2>1, ReadingSteps
<1>6. ASSUME NEW t \in Thread, StartStep(t) PROVE KeysFirst'
  <2>1. pc[t] \in StartLabels
    BY <1>6 DEF StartStep, MakeRunRoot, CreateStarted, WriteStarted, MakeEventsRoot, StartLabels
  <2>2. QED
    BY <1>3, <2>1 DEF KeysFirst
<1>7. ASSUME NEW t \in Thread, PublishStep(t) \/ EventStep(t) PROVE KeysFirst'
  <2>1. \A u \in Thread : pc'[u] \in StartLabels => pc[u] \in StartLabels
    BY <1>1, <1>7 DEF PublishStep, EventStep, CreateTemporary, WriteTemporary, Rename, Link, RemoveTemporary,
       AfterPublish, CreateEvent, WriteEvent, EventsDone, StartLabels
  <2>2. QED
    BY <1>2, <1>7, <2>1, WritingSteps
<1>8. ASSUME NEW t \in Thread, DiskFault(t) PROVE KeysFirst'
  <2>1. \A u \in Thread : pc'[u] \in StartLabels => pc[u] \in StartLabels
    BY <1>1, <1>8 DEF DiskFault, StartLabels
  <2>2. stage' = stage \/ pc[t] \in StartLabels
    BY <1>8, FaultingSteps
  <2>3. QED
    BY <1>2, <1>3, <2>1, <2>2 DEF KeysFirst
<1>9. ASSUME NEW p \in Process, Crash(p) PROVE KeysFirst'
  <2>1. \A u \in Thread : pc'[u] \in StartLabels => pc[u] \in StartLabels
    BY <1>9, CrashLeaves DEF SameLocals, SameCall, StartLabels
  <2>2. UNCHANGED stage
    BY <1>9 DEF Crash
  <2>3. QED
    BY <1>2, <2>1, <2>2
<1>10. CASE UNCHANGED vars
  BY <1>2, <1>10 DEF vars
<1>11. QED
  BY <1>4, <1>5, <1>6, <1>7, <1>8, <1>9, <1>10 DEF Next, Step

-----------------------------------------------------------------------------
(* What a successful call has done. *)

\* What a goroutine inside the lock has established is not undone by others.
LEMMA OutcomeKept ==
    ASSUME OneGoroutinePerProcess, IInv, NEW t \in Thread, Acts(t), NEW u \in Thread, u # t, OutcomeAt(u)
    PROVE  OutcomeAt(u)'
<1>1. SameLocals(u)
  BY OthersGoOn DEF IInv
<1>2. CASE InBody(u)
  <2>1. /\ UNCHANGED <<tmp, final>>
        /\ \A r \in RunId : stage[r] = "ready" => stage'[r] = "ready"
    BY <1>2, Undisturbed
  <2>2. Committed' = Committed
    BY <2>1 DEF Committed
  <2>3. pc[u] = "unlock" /\ op[u] = "Start" => run[u] \in RunId
    BY DEF IInv, TypeInv, CallShape, CallShapeAt
  <2>4. QED
    BY <1>1, <2>1, <2>2, <2>3 DEF OutcomeAt, SameLocals, SameCall, Readable
<1>3. CASE ~InBody(u)
  BY <1>1, <1>3 DEF OutcomeAt, SameLocals, SameCall, InBody, BodyLabels, PublishLabels
<1>4. QED
  BY <1>2, <1>3

\* A goroutine that is not about to succeed has nothing to show.
LEMMA NothingToShow ==
    ASSUME NEW t \in Thread,
           pc'[t] \notin {"checkSequence", "remove"},
           pc'[t] = "unlock" => result'[t] # "ok" \/ op'[t] \notin {"Append", "Start", "Load"}
    PROVE  OutcomeAt(t)'
BY DEF OutcomeAt

\* Each step of t establishes what its label says.
LEMMA OutcomeReached ==
    ASSUME IInv, NEW t \in Thread, Acts(t), OutcomeAt(t)
    PROVE  OutcomeAt(t)'
<1> USE DEF Goto, Finish, ReturnEarly, locals
<1>1. /\ pc \in [Thread -> Label] /\ op \in [Thread -> Operation] /\ result \in [Thread -> {"none", "ok", "error"}]
      /\ final \in [Published -> 0 .. MaxSequence] /\ tmp \in [Published -> {"none", "own", "twin"}]
      /\ stage \in [RunId -> Stage] /\ scanned \in [Thread -> SUBSET RunId]
  BY DEF IInv, TypeInv, TypeOK
<1>2. CASE Call(t)
  <2>1. pc'[t] \in {"makeRoot", "mutex", "return"}
    BY <1>1, <1>2 DEF Call
  <2>2. QED
    BY <2>1, NothingToShow
<1>3. CASE InitializeStep(t)
  <2>1. \/ pc'[t] \in {"makeRuns", "openLock", "closeLock", "mutex", "create"}
        \/ (pc[t] = "inspect" /\ pc'[t] = "unlock" /\ op' = op)
    BY <1>1, <1>3 DEF InitializeStep, MakeRoot, MakeRuns, OpenLock, CloseLock, Inspect
  <2>2. pc[t] = "inspect" => op[t] = "Initialize"
    BY DEF IInv, TypeInv, CallShape, CallShapeAt
  <2>3. QED
    BY <2>1, <2>2, NothingToShow
<1>4. CASE LockStep(t) \/ SetupFault(t)
  <2>1. pc'[t] \in {"byteLock", "inspect", "keys", "return", "idle"}
    BY <1>1, <1>4 DEF LockStep, AcquireMutex, AcquireByteLock, LockFileMissing, Release, Return, Leave, SetupFault
  <2>2. QED
    BY <2>1, NothingToShow
<1>5. CASE MakeRunRoot(t) \/ CreateStarted(t) \/ WriteStarted(t)
  <2>1. pc'[t] \in {"mark", "fill", "events"} \/ (pc'[t] = "unlock" /\ result'[t] = "error")
    BY <1>1, <1>5 DEF MakeRunRoot, CreateStarted, WriteStarted
  <2>2. QED
    BY <2>1, NothingToShow
<1>6. CASE MakeEventsRoot(t)
  <2>1. /\ pc'[t] = "unlock" /\ op[t] = "Start" /\ UNCHANGED <<op, run, final>>
        /\ run[t] \in RunId /\ stage[run[t]] = "started" /\ stage'[run[t]] = "ready"
    BY <1>1, <1>6 DEF MakeEventsRoot, IInv, TypeInv, CallShape, CallShapeAt, StartLabels, Progress, StartProgress
  <2>2. final[run[t]] = 0
    BY <2>1 DEF IInv, Progress, CommittedRuns
  <2>3. QED
    BY <2>1, <2>2 DEF OutcomeAt
<1>7. CASE ReadKeys(t)
  <2>1. pc'[t] \in {"mkdir", "scan"} \/ (pc'[t] = "unlock" /\ (result'[t] = "error" \/ op'[t] = "Fingerprint"))
    BY <1>1, <1>7 DEF ReadKeys
  <2>2. QED
    BY <2>1, NothingToShow
<1>8. CASE Scan(t)
  <2>1. op[t] \in {"Append", "Load"} /\ UNCHANGED <<op, final>>
    BY <1>8 DEF Scan, IInv, TypeInv, CallShape, CallShapeAt, disk
  <2>2. CASE pc'[t] = "checkSequence"
    <3>1. op[t] = "Load" /\ scanned'[t] = Committed
      BY <1>1, <1>8, <2>1, <2>2 DEF Scan
    <3>2. Committed' = Committed
      BY <2>1 DEF Committed
    <3>3. QED
      BY <2>1, <2>2, <3>1, <3>2 DEF OutcomeAt
  <2>3. CASE pc'[t] # "checkSequence"
    <3>1. pc'[t] = "allocate" \/ (pc'[t] = "unlock" /\ result'[t] = "error")
      BY <1>1, <1>8, <2>3 DEF Scan
    <3>2. QED
      BY <3>1, NothingToShow
  <2>4. QED
    BY <2>2, <2>3
<1>9. CASE CheckSequence(t)
  <2>1. pc[t] = "checkSequence" /\ pc'[t] = "unlock" /\ UNCHANGED <<op, final, scanned>>
    BY <1>1, <1>9 DEF CheckSequence, disk
  <2>2. op[t] = "Load" /\ scanned[t] = Committed
    BY <2>1 DEF OutcomeAt
  <2>3. Committed' = Committed
    BY <2>1 DEF Committed
  <2>4. QED
    BY <2>1, <2>2, <2>3 DEF OutcomeAt
<1>10. CASE Allocate(t) \/ CreateTemporary(t) \/ WriteTemporary(t) \/ EventStep(t)
  <2>1. \/ pc'[t] \in {"create", "write", "publish", "event", "writeEvent"}
        \/ pc'[t] = "unlock" /\ result'[t] = "error"
    BY <1>1, <1>10 DEF Allocate, CreateTemporary, WriteTemporary, EventStep, CreateEvent, WriteEvent, EventsDone
  <2>2. QED
    BY <2>1, NothingToShow
<1>11. CASE Rename(t)
  <2>1. pc'[t] = "event"
    BY <1>1, <1>11 DEF Rename, Replaces, AfterPublish
  <2>2. QED
    BY <2>1, NothingToShow
<1>12. CASE Link(t)
  <2>1. CASE pc'[t] = "remove"
    <3>1. pc[t] = "publish" /\ final' = [final EXCEPT ![target[t]] = Payload(t)]
          /\ UNCHANGED <<op, run, target, ticket>>
      BY <1>1, <1>12, <2>1 DEF Link
    <3>2. ASSUME op[t] = "Append", target[t] = run[t] PROVE final'[run[t]] = ticket[t] /\ ticket[t] # 0
      <4>1. run[t] \in RunId /\ run[t] \in Published /\ run[t] # "project"
        BY <3>1, <3>2, StoreAssumption DEF IInv, TypeInv, CallShape, CallShapeAt, Published
      <4>2. final'[run[t]] = ticket[t]
        BY <1>1, <3>1, <3>2, <4>1 DEF Payload
      <4>3. final[run[t]] < ticket[t]
        BY <3>1, <3>2, <4>1 DEF IInv, Progress, AppendProgress, AppendAt, Holding
      <4>4. ticket[t] # 0
        BY <1>1, <4>1, <4>3, StoreAssumption
      <4>5. QED
        BY <4>2, <4>4
    <3>3. QED
      BY <2>1, <3>1, <3>2 DEF OutcomeAt
  <2>2. CASE pc'[t] # "remove"
    <3>1. pc'[t] = "unlock" /\ result'[t] = "error"
      BY <1>1, <1>12, <2>2 DEF Link
    <3>2. QED
      BY <3>1, NothingToShow
  <2>3. QED
    BY <2>1, <2>2
<1>13. CASE RemoveTemporary(t)
  <2>1. CASE target[t] = "sequence"
    <3>1. pc'[t] = "event"
      BY <1>1, <1>13, <2>1 DEF RemoveTemporary, AfterPublish
    <3>2. QED
      BY <3>1, NothingToShow
  <2>2. CASE target[t] # "sequence"
    <3>1. pc[t] = "remove" /\ pc'[t] = "unlock" /\ tmp' = [tmp EXCEPT ![target[t]] = "none"]
          /\ UNCHANGED <<op, run, final, ticket>>
      BY <1>1, <1>13, <2>2 DEF RemoveTemporary, AfterPublish
    <3>2. \/ op[t] = "Initialize"
          \/ op[t] = "Append" /\ target[t] = run[t] /\ run[t] \in RunId
      BY <2>2, <3>1 DEF IInv, TypeInv, CallShape, CallShapeAt, PublishLabels
    <3>3. ASSUME op[t] = "Append" PROVE final'[run[t]] = ticket[t] /\ Readable(run[t])'
      <4>1. final[run[t]] = ticket[t] /\ ticket[t] # 0
        BY <3>1, <3>2, <3>3 DEF OutcomeAt
      <4>2. tmp'[run[t]] = "none"
        BY <1>1, <3>1, <3>2, <3>3 DEF Published
      <4>3. QED
        BY <3>1, <4>1, <4>2 DEF Readable
    <3>4. QED
      BY <3>1, <3>2, <3>3 DEF OutcomeAt
  <2>3. QED
    BY <2>1, <2>2
<1>14. CASE DiskFault(t)
  <2>1. pc'[t] = "unlock" /\ result'[t] = "error"
    BY <1>1, <1>14 DEF DiskFault
  <2>2. QED
    BY <2>1, NothingToShow
<1>15. QED
  BY <1>2, <1>3, <1>4, <1>5, <1>6, <1>7, <1>8, <1>9, <1>10, <1>11, <1>12, <1>13, <1>14
  DEF Acts, Step, StartStep, ReadStep, PublishStep

\* A crash takes only calls with it that have not returned.
LEMMA OutcomeAfterCrash ==
    ASSUME IInv, NEW p \in Process, Crash(p), Outcomes
    PROVE  Outcomes'
<1> SUFFICES ASSUME NEW u \in Thread PROVE OutcomeAt(u)'
  BY DEF Outcomes
<1>1. UNCHANGED <<tmp, final, stage>> /\ (pc'[u] = "idle" \/ SameLocals(u))
  BY CrashLeaves DEF disk
<1>2. Committed' = Committed
  BY <1>1 DEF Committed
<1>3. OutcomeAt(u)
  BY DEF Outcomes
<1>4. QED
  BY <1>1, <1>2, <1>3 DEF OutcomeAt, SameLocals, SameCall, Readable

\* Every step keeps every goroutine's account of its call true.
LEMMA OutcomesStable ==
    ASSUME OneGoroutinePerProcess, IInv, Outcomes, [Next]_vars
    PROVE  Outcomes'
<1>1. ASSUME NEW t \in Thread, Acts(t) PROVE Outcomes'
  BY <1>1, OutcomeKept, OutcomeReached DEF Outcomes
<1>2. ASSUME NEW p \in Process, Crash(p) PROVE Outcomes'
  BY <1>2, OutcomeAfterCrash
<1>3. CASE UNCHANGED vars
  <2>1. Committed' = Committed
    BY <1>3 DEF Committed, vars, disk
  <2>2. QED
    BY <1>3, <2>1 DEF Outcomes, OutcomeAt, Readable, vars, disk, locals
<1>4. QED
  BY <1>1, <1>2, <1>3 DEF Next, Acts

\* The invariant of the outcomes, on top of the store's.
LEMMA OutcomeInductive ==
    ASSUME OneGoroutinePerProcess
    PROVE  Spec => [](IInv /\ OutcomeInv)
<1>1. Init => OutcomeInv
  BY OutcomeInit
<1>2. IInv /\ OutcomeInv /\ [Next]_vars => OutcomeInv'
  BY LayoutStable, KeysStable, OutcomesStable DEF OutcomeInv
<1>. QED
  BY <1>1, <1>2, Inductive, PTL DEF Spec

\* LoadReturnsTheLog: a Load that succeeds returns exactly the committed
\* runs, in whatever order the calls, crashes and faults of others come.
THEOREM LoadsReturnTheLog ==
    ASSUME OneGoroutinePerProcess
    PROVE  Spec => []LoadReturnsTheLog
<1>1. OutcomeInv => LoadReturnsTheLog
  BY DEF OutcomeInv, Outcomes, OutcomeAt, LoadReturnsTheLog
<1>. QED
  BY <1>1, OutcomeInductive, PTL

\* SuccessIsTruthful: an Append that succeeds has its run committed and
\* readable under its own sequence, a Start its run directory complete.
THEOREM TruthfulSuccess ==
    ASSUME OneGoroutinePerProcess
    PROVE  Spec => []SuccessIsTruthful
<1>1. OutcomeInv => SuccessIsTruthful
  BY DEF OutcomeInv, Outcomes, OutcomeAt, SuccessIsTruthful
<1>. QED
  BY <1>1, OutcomeInductive, PTL

-----------------------------------------------------------------------------
(* A store in which nothing was killed and nothing failed. *)

\* Nothing is unfinished that nobody is finishing: where no file is being
\* published and no run built, every temporary name is free and readCompleted
\* accepts what it finds.
LEMMA ScanSucceeds ==
    ASSUME EvidenceFits, IInv, Tidy, "runs" \in layout,
           \A u \in Thread : pc[u] \notin {"mark", "fill", "events", "write", "publish", "remove"}
    PROVE  (\A x \in Published : tmp[x] = "none") /\ ScanAccepts
<1>1. \A x \in Published : tmp[x] = "none"
  BY DEF Tidy, TemporariesOwned, HasTemporary
<1>2. \A r \in RunId : stage[r] # "none" => StartedMarker(r)
  BY DEF Tidy, BuildsOwned, StartedMarker
<1>3. \A r \in Committed : IntactBundle(r)
  <2> SUFFICES ASSUME NEW r \in RunId, final[r] # 0 PROVE IntactBundle(r)
    BY DEF Committed
  <2>1. Readable(r)
    BY <1>1 DEF Readable, Published
  <2>2. written[r] = 1 .. Findings[r] /\ torn[r] = {}
    BY DEF IInv, Progress, CommittedRuns
  <2>3. QED
    BY <2>1, <2>2 DEF IntactBundle, EvidenceFits
<1>4. \A r, s \in Committed : final[r] = final[s] => r = s
  BY DEF IInv, Progress, CommittedRuns, Committed
<1>5. QED
  BY <1>1, <1>2, <1>3, <1>4 DEF ScanAccepts

\* An Append about to read or to take a name finds no one else's work in its way.
LEMMA WayIsFree ==
    ASSUME OneGoroutinePerProcess, IInv, Tidy, NEW t \in Thread, InBody(t), Exclusive(t)
    PROVE  /\ \A u \in Thread : u # t => pc[u] \notin BodyLabels
           /\ pc[t] \notin {"write", "publish", "remove"} => \A x \in Published : tmp[x] = "none"
           /\ ~Holding(t) => \A r \in RunId : final[r] = 0 => written[r] \cup torn[r] = {}
<1>1. \A u \in Thread : u # t => pc[u] \notin BodyLabels
  BY Alone DEF IInv, InBody
<1>2. \A u \in Thread : u # t => ~Holding(u) /\ pc[u] \notin {"write", "publish", "remove"}
  BY <1>1 DEF Holding, BodyLabels, PublishLabels, EventLabels
<1>3. QED
  BY <1>1, <1>2 DEF Tidy, TemporariesOwned, HasTemporary, EventsOwned

\* In a quiet store an Append gives up only with a reason.
LEMMA RefusalHasReason ==
    ASSUME OneGoroutinePerProcess, EvidenceFits, IInv, OutcomeInv, Tidy, NEW t \in Thread, Step(t),
           op[t] = "Append", pc'[t] = "unlock", result'[t] = "error"
    PROVE  AppendRefusable(run[t]) /\ (ReadKeys(t) \/ Scan(t) \/ Allocate(t))
<1> USE DEF Goto, Finish, ReturnEarly, locals
<1>1. /\ pc \in [Thread -> Label] /\ result \in [Thread -> {"none", "ok", "error"}]
      /\ final \in [Published -> 0 .. MaxSequence] /\ "project" \in Published /\ "sequence" \in Published
      /\ scanned \in [Thread -> SUBSET RunId] /\ target \in [Thread -> Published]
       /\ ticket \in [Thread -> 0 .. MaxSequence]
  BY DEF IInv, TypeInv, TypeOK, Published
<1>2. Exclusive(t)
  BY DEF Exclusive, ModeOf
<1>3. CASE InitializeStep(t)
  BY <1>1, <1>3 DEF InitializeStep, MakeRoot, MakeRuns, OpenLock, CloseLock, Inspect, IInv, TypeInv,
     CallShape, CallShapeAt
<1>4. CASE LockStep(t)
  BY <1>1, <1>4 DEF LockStep, AcquireMutex, AcquireByteLock, LockFileMissing, Release, Return, Leave
<1>5. CASE StartStep(t)
  BY <1>5, StartingSteps
<1>6. CASE ReadKeys(t)
  <2>1. pc[t] = "keys" /\ InBody(t) /\ ~Readable("project")
    BY <1>1, <1>6 DEF ReadKeys, InBody, BodyLabels
  <2>2. tmp["project"] = "none"
    BY <1>1, <1>2, <2>1, WayIsFree
  <2>3. run[t] \in RunId /\ final["project"] = 0
    BY <2>1, <2>2 DEF Readable, IInv, TypeInv, CallShape, CallShapeAt
  <2>4. stage[run[t]] = "none"
    BY <2>3 DEF OutcomeInv, KeysFirst
  <2>5. QED
    BY <1>6, <2>4 DEF AppendRefusable
<1>7. CASE Scan(t)
  <2>1. pc[t] = "scan" /\ InBody(t) /\ run[t] \in RunId /\ (~ScanAccepts \/ ~MayCommit(run[t]))
    BY <1>1, <1>7 DEF Scan, InBody, BodyLabels, IInv, TypeInv, CallShape, CallShapeAt
  <2>2. "runs" \in layout
    BY <2>1 DEF OutcomeInv, LayoutBuilt
  <2>3. \A u \in Thread : pc[u] \notin {"mark", "fill", "events", "write", "publish", "remove"}
    BY <1>2, <2>1, WayIsFree DEF BodyLabels, StartLabels, PublishLabels
  <2>4. ScanAccepts
    BY <2>2, <2>3, ScanSucceeds
  <2>5. ~Holding(t)
    BY <2>1 DEF Holding, EventLabels
  <2>6. final[run[t]] = 0 => written[run[t]] \cup torn[run[t]] = {}
    BY <1>2, <2>1, <2>5, WayIsFree
  <2>7. QED
    BY <1>7, <2>1, <2>4, <2>6 DEF MayCommit, AppendRefusable
<1>8. CASE CheckSequence(t)
  BY <1>8 DEF CheckSequence, OutcomeInv, Outcomes, OutcomeAt
<1>9. CASE Allocate(t)
  <2>1. pc[t] = "allocate" /\ InBody(t) /\ (~SequenceCurrent(t) \/ Exhausted)
    BY <1>1, <1>9 DEF Allocate, InBody, BodyLabels
  <2>2. tmp["sequence"] = "none"
    BY <1>1, <1>2, <2>1, WayIsFree
  <2>3. SequenceCurrent(t)
    BY <1>1, <2>2 DEF SequenceCurrent, IInv, Progress, CommittedRuns
  <2>4. QED
    BY <1>9, <2>1, <2>3 DEF Exhausted, AppendRefusable
<1>10. CASE CreateTemporary(t)
  <2>1. pc[t] = "create" /\ InBody(t) /\ tmp[target[t]] # "none"
    BY <1>1, <1>10 DEF CreateTemporary, InBody, BodyLabels, PublishLabels
  <2>2. QED
    BY <1>1, <1>2, <2>1, WayIsFree
<1>11. CASE WriteTemporary(t) \/ RemoveTemporary(t) \/ Rename(t)
  <2>1. pc'[t] = "publish" \/ pc'[t] = "event" \/ result'[t] = "ok"
    BY <1>1, <1>11 DEF WriteTemporary, RemoveTemporary, Rename, AfterPublish
  <2>2. QED
    BY <2>1
<1>12. CASE Link(t)
  <2>1. pc[t] = "publish" /\ ~Replaces(t) /\ final[target[t]] # 0
    BY <1>1, <1>12 DEF Link
  <2>2. target[t] \in {"sequence", run[t]} /\ AppendAt(t)
    BY <2>1 DEF IInv, TypeInv, CallShape, CallShapeAt, PublishLabels, Progress, AppendProgress
  <2>3. CASE target[t] = run[t]
    <3>1. final[run[t]] = 0
      BY <2>1, <2>2, <2>3 DEF AppendAt, Holding
    <3>2. QED
      BY <2>1, <2>3, <3>1
  <2>4. CASE target[t] = "sequence"
    <3>1. ticket[t] = final["sequence"] + 1
      BY <2>1, <2>2, <2>4 DEF AppendAt, Allocating
    <3>2. final["sequence"] \in Nat /\ final["sequence"] # 0 /\ ~(ticket[t] > 1)
      BY <1>1, <2>1, <2>4, StoreAssumption DEF Replaces
    <3>3. QED
      BY <3>1, <3>2
  <2>5. QED
    BY <2>2, <2>3, <2>4
<1>13. CASE EventStep(t)
  <2>1. pc[t] = "event" /\ cursor[t] \in torn[run[t]] \cup written[run[t]]
    BY <1>1, <1>13 DEF EventStep, CreateEvent, WriteEvent, EventsDone
  <2>2. written[run[t]] = 1 .. (cursor[t] - 1) /\ torn[run[t]] = {} /\ cursor[t] \in Nat
    BY <2>1 DEF IInv, TypeInv, TypeOK, Progress, AppendProgress, AppendAt
  <2>3. QED
    BY <2>1, <2>2
<1>14. QED
  BY <1>3, <1>4, <1>5, <1>6, <1>7, <1>8, <1>9, <1>10, <1>11, <1>12, <1>13 DEF Step, ReadStep, PublishStep

\* A step of a quiet store is a call, or a step of a goroutine by itself.
LEMMA QuietSteps ==
    ASSUME IInv, [Next]_vars, Quiet'
    PROVE  Quiet /\ (UNCHANGED vars \/ \E t \in Thread : Call(t) \/ Step(t))
<1>1. crashes \in Nat /\ faults \in Nat
  BY StoreAssumption DEF IInv, TypeInv, TypeOK
<1>2. ASSUME NEW p \in Process, Crash(p) PROVE FALSE
  BY <1>1, <1>2 DEF Crash, Quiet
<1>3. ASSUME NEW t \in Thread, SetupFault(t) \/ DiskFault(t) PROVE FALSE
  BY <1>1, <1>3 DEF SetupFault, DiskFault, Quiet
<1>4. ASSUME NEW t \in Thread, Call(t) \/ InitializeStep(t) \/ LockStep(t) \/ StartStep(t)
      PROVE  UNCHANGED bounds
  BY <1>4 DEF Call, InitializeStep, MakeRoot, MakeRuns, OpenLock, CloseLock, Inspect, LockStep, AcquireMutex,
     AcquireByteLock, LockFileMissing, Release, Return, StartStep, MakeRunRoot, CreateStarted, WriteStarted,
     MakeEventsRoot
<1>5. ASSUME NEW t \in Thread, ReadStep(t) \/ PublishStep(t) \/ EventStep(t)
      PROVE  UNCHANGED bounds
  BY <1>5 DEF ReadStep, ReadKeys, Scan, CheckSequence, Allocate, PublishStep, CreateTemporary, WriteTemporary,
     Rename, Link, RemoveTemporary, EventStep, CreateEvent, WriteEvent, EventsDone
<1>6. CASE UNCHANGED vars
  BY <1>6 DEF Quiet, vars, bounds
<1>7. QED
  BY <1>2, <1>3, <1>4, <1>5, <1>6 DEF Next, Step, Quiet, bounds

\* Each group of steps starts at its own labels.
LEMMA WhereStepsStart ==
    ASSUME NEW t \in Thread
    PROVE  /\ PublishStep(t) => pc[t] \in PublishLabels
           /\ EventStep(t) => pc[t] \in EventLabels
           /\ StartStep(t) => pc[t] \in StartLabels
           /\ Call(t) \/ InitializeStep(t) \/ LockStep(t) \/ ReadStep(t) =>
                pc[t] \notin PublishLabels \cup EventLabels \cup StartLabels
<1> USE DEF PublishLabels, EventLabels, StartLabels
<1>1. PublishStep(t) => pc[t] \in PublishLabels
  BY DEF PublishStep, CreateTemporary, WriteTemporary, Rename, Link, RemoveTemporary
<1>2. EventStep(t) => pc[t] \in EventLabels
  BY DEF EventStep, CreateEvent, WriteEvent, EventsDone
<1>3. StartStep(t) => pc[t] \in StartLabels
  BY DEF StartStep, MakeRunRoot, CreateStarted, WriteStarted, MakeEventsRoot
<1>4. Call(t) \/ InitializeStep(t) => pc[t] \notin PublishLabels \cup EventLabels \cup StartLabels
  BY DEF Call, InitializeStep, MakeRoot, MakeRuns, OpenLock, CloseLock, Inspect
<1>5. LockStep(t) \/ ReadStep(t) => pc[t] \notin PublishLabels \cup EventLabels \cup StartLabels
  BY DEF LockStep, AcquireMutex, AcquireByteLock, LockFileMissing, Release, Return, ReadStep, ReadKeys, Scan,
     CheckSequence, Allocate
<1>6. QED
  BY <1>1, <1>2, <1>3, <1>4, <1>5

\* A temporary name in use belongs to someone who is publishing under it.
LEMMA TemporariesStable ==
    ASSUME IInv, TemporariesOwned, NEW t \in Thread, Call(t) \/ Step(t)
    PROVE  TemporariesOwned'
<1> USE DEF Goto, Finish, locals
<1> SUFFICES ASSUME NEW x \in Published, tmp'[x] # "none" PROVE \E u \in Thread : HasTemporary(u, x)'
  BY DEF TemporariesOwned
<1>1. /\ pc \in [Thread -> Label] /\ tmp \in [Published -> {"none", "own", "twin"}] /\ target \in [Thread -> Published]
  BY DEF IInv, TypeInv, TypeOK
<1>2. \A u \in Thread : u # t => SameLocals(u)
  BY OthersGoOn DEF Acts, IInv
<1>3. ASSUME NEW u \in Thread, u # t, HasTemporary(u, x), tmp'[x] = tmp[x] PROVE HasTemporary(u, x)'
  BY <1>2, <1>3 DEF HasTemporary, SameLocals, SameCall
<1>4. CASE ~PublishStep(t)
  <2>1. UNCHANGED tmp
    <3>1. EventStep(t) => UNCHANGED tmp
      BY DEF EventStep, CreateEvent, WriteEvent, EventsDone, disk
    <3>2. QED
      BY <1>4, <3>1, OutsideSteps, ReadingSteps, StartingSteps DEF Step, disk
  <2>2. PICK u \in Thread : HasTemporary(u, x)
    BY <2>1 DEF TemporariesOwned
  <2>3. u # t
    BY <1>4, <2>2, WhereStepsStart
    DEF Step, HasTemporary, PublishLabels, EventLabels, StartLabels
  <2>4. QED
    BY <1>3, <2>1, <2>2, <2>3
<1>5. CASE PublishStep(t)
  <2>1. target' = target
    BY <1>5 DEF PublishStep, CreateTemporary, WriteTemporary, Rename, Link, RemoveTemporary
  <2>2. CASE x # target[t]
    <3>1. tmp'[x] = tmp[x]
      BY <1>1, <1>5, <2>2 DEF PublishStep, CreateTemporary, WriteTemporary, Rename, Link, RemoveTemporary, disk
    <3>2. PICK u \in Thread : HasTemporary(u, x)
      BY <3>1 DEF TemporariesOwned
    <3>3. u # t
      BY <2>2, <3>2 DEF HasTemporary
    <3>4. QED
      BY <1>3, <3>1, <3>2, <3>3
  <2>3. CASE x = target[t]
    <3>1. CASE CreateTemporary(t)
      <4>1. CASE pc'[t] = "write"
        <5>1. tmp'[x] = "own"
          BY <1>1, <2>3, <3>1, <4>1 DEF CreateTemporary
        <5>2. QED
          BY <2>1, <2>3, <4>1, <5>1 DEF HasTemporary
      <4>2. CASE pc'[t] # "write"
        <5>1. tmp' = tmp /\ pc[t] = "create"
          BY <1>1, <3>1, <4>2 DEF CreateTemporary
        <5>2. PICK u \in Thread : HasTemporary(u, x)
          BY <5>1 DEF TemporariesOwned
        <5>3. u # t
          BY <5>1, <5>2 DEF HasTemporary
        <5>4. QED
          BY <1>3, <5>1, <5>2, <5>3
      <4>3. QED
        BY <4>1, <4>2
    <3>2. CASE WriteTemporary(t)
      <4>1. pc[t] = "write" /\ pc'[t] = "publish" /\ tmp' = tmp
        BY <1>1, <3>2 DEF WriteTemporary, disk
      <4>2. PICK u \in Thread : HasTemporary(u, x)
        BY <4>1 DEF TemporariesOwned
      <4>3. CASE u = t
        BY <2>1, <2>3, <4>1, <4>2, <4>3 DEF HasTemporary
      <4>4. CASE u # t
        BY <1>3, <4>1, <4>2, <4>4
      <4>5. QED
        BY <4>3, <4>4
    <3>3. CASE Link(t)
      <4>1. pc'[t] = "remove"
        BY <1>1, <2>3, <3>3 DEF Link
      <4>2. QED
        BY <2>1, <2>3, <4>1 DEF HasTemporary
    <3>4. CASE Rename(t) \/ RemoveTemporary(t)
      <4>1. tmp'[x] = "none"
        BY <1>1, <2>3, <3>4 DEF Rename, RemoveTemporary
      <4>2. QED
        BY <4>1
    <3>5. QED
      BY <1>5, <3>1, <3>2, <3>3, <3>4 DEF PublishStep
  <2>4. QED
    BY <2>2, <2>3
<1>6. QED
  BY <1>4, <1>5

\* A run directory under construction belongs to a Start that is building it.
LEMMA BuildsStable ==
    ASSUME IInv, BuildsOwned, NEW t \in Thread, Call(t) \/ Step(t)
    PROVE  BuildsOwned'
<1> USE DEF Goto, Finish, locals
<1> DEFINE Builds(u, r) == pc[u] \in {"mark", "fill", "events"} /\ run[u] = r
<1> SUFFICES ASSUME NEW r \in RunId, stage'[r] \notin {"none", "ready"} PROVE \E u \in Thread : Builds(u, r)'
  BY DEF BuildsOwned
<1>1. pc \in [Thread -> Label] /\ stage \in [RunId -> Stage]
  BY DEF IInv, TypeInv, TypeOK
<1>2. ASSUME NEW u \in Thread, u # t, Builds(u, r) PROVE Builds(u, r)'
  BY <1>2, OthersGoOn DEF Acts, IInv, SameLocals, SameCall
<1>3. CASE ~StartStep(t)
  <2>1. UNCHANGED stage
    BY <1>3, OutsideSteps, ReadingSteps, WritingSteps DEF Step, disk
  <2>2. PICK u \in Thread : Builds(u, r)
    BY <2>1 DEF BuildsOwned
  <2>3. u # t
    BY <1>3, <2>2, WhereStepsStart DEF Step, PublishLabels, EventLabels, StartLabels
  <2>4. QED
    BY <1>2, <2>2, <2>3
<1>4. CASE StartStep(t)
  <2>1. run' = run /\ run[t] \in RunId
    BY <1>4, StartingSteps DEF StartStep, MakeRunRoot, CreateStarted, WriteStarted, MakeEventsRoot
  <2>2. CASE r # run[t]
    <3>1. stage'[r] = stage[r]
      BY <1>1, <1>4, <2>2 DEF StartStep, MakeRunRoot, CreateStarted, WriteStarted, MakeEventsRoot
    <3>2. PICK u \in Thread : Builds(u, r)
      BY <3>1 DEF BuildsOwned
    <3>3. u # t
      BY <2>2, <3>2
    <3>4. QED
      BY <1>2, <3>2, <3>3
  <2>3. CASE r = run[t]
    <3>1. CASE MakeRunRoot(t) /\ pc'[t] = "unlock"
      <4>1. stage' = stage /\ pc[t] = "mkdir"
        BY <1>1, <3>1 DEF MakeRunRoot
      <4>2. PICK u \in Thread : Builds(u, r)
        BY <4>1 DEF BuildsOwned
      <4>3. u # t
        BY <4>1, <4>2
      <4>4. QED
        BY <1>2, <4>2, <4>3
    <3>2. CASE MakeEventsRoot(t)
      BY <1>1, <2>1, <2>3, <3>2 DEF MakeEventsRoot
    <3>3. CASE ~(MakeRunRoot(t) /\ pc'[t] = "unlock") /\ ~MakeEventsRoot(t)
      <4>1. pc'[t] \in {"mark", "fill", "events"}
        BY <1>1, <1>4, <3>3 DEF StartStep, MakeRunRoot, CreateStarted, WriteStarted
      <4>2. QED
        BY <2>1, <2>3, <4>1
    <3>4. QED
      BY <3>1, <3>2, <3>3
  <2>4. QED
    BY <2>2, <2>3
<1>5. QED
  BY <1>3, <1>4

\* An Append that owns a sequence goes on owning it until its run is committed.
LEMMA HoldingGoesOn ==
    ASSUME OneGoroutinePerProcess, EvidenceFits, IInv, OutcomeInv, Tidy, NEW t \in Thread, op[t] = "Append",
           PublishStep(t) \/ EventStep(t), Holding(t)
    PROVE  op'[t] = "Append" /\ run'[t] = run[t] /\ (Holding(t)' \/ final'[run[t]] # 0)
<1> USE DEF Goto, Finish, locals, disk
<1>1. /\ pc \in [Thread -> Label] /\ result \in [Thread -> {"none", "ok", "error"}] /\ run[t] \in RunId
      /\ final \in [Published -> 0 .. MaxSequence] /\ target \in [Thread -> Published] /\ run[t] # "sequence"
      /\ run[t] # "project" /\ run[t] \in Published
  BY WhereStepsStart, StoreAssumption DEF IInv, TypeInv, TypeOK, CallShape, CallShapeAt, PublishLabels, EventLabels,
     Published
<1>2. op' = op /\ run' = run
  BY DEF PublishStep, CreateTemporary, WriteTemporary, Rename, Link, RemoveTemporary, EventStep, CreateEvent,
     WriteEvent, EventsDone
<1>3. ~(pc'[t] = "unlock" /\ result'[t] = "error")
  <2>1. Step(t) /\ pc[t] \in PublishLabels \cup EventLabels
    BY WhereStepsStart DEF Step
  <2>2. ~(ReadKeys(t) \/ Scan(t) \/ Allocate(t))
    BY <2>1 DEF ReadKeys, Scan, Allocate, PublishLabels, EventLabels
  <2>3. QED
    BY <2>1, <2>2, RefusalHasReason
<1>4. CASE CreateTemporary(t) \/ WriteTemporary(t)
  <2>1. pc[t] \in {"create", "write"} /\ target[t] = run[t]
    BY <1>4 DEF CreateTemporary, WriteTemporary, Holding, EventLabels
  <2>2. pc'[t] \in {"write", "publish"} /\ target'[t] = target[t]
    BY <1>1, <1>3, <1>4 DEF CreateTemporary, WriteTemporary
  <2>3. QED
    BY <1>2, <2>1, <2>2 DEF Holding
<1>5. CASE Rename(t) \/ Link(t)
  <2>1. pc[t] = "publish" /\ target[t] = run[t] /\ ~Replaces(t)
    BY <1>1, <1>5 DEF Rename, Link, Holding, Replaces, EventLabels
  <2>2. final' = [final EXCEPT ![run[t]] = ticket[t]]
    BY <1>1, <1>3, <1>5, <2>1 DEF Rename, Link, Payload
  <2>3. final[run[t]] < ticket[t] /\ final[run[t]] \in Nat /\ ticket[t] \in Nat
    BY <1>1, StoreAssumption DEF IInv, TypeInv, TypeOK, Progress, AppendProgress, AppendAt
  <2>4. final'[run[t]] # 0
    BY <1>1, <2>2, <2>3
  <2>5. QED
    BY <1>2, <2>4
<1>6. CASE RemoveTemporary(t)
  <2>1. target[t] = "sequence"
    BY <1>1, <1>6 DEF RemoveTemporary, Holding, EventLabels
  <2>2. pc'[t] = "event"
    BY <1>1, <1>6, <2>1 DEF RemoveTemporary, AfterPublish
  <2>3. QED
    BY <1>2, <2>2 DEF Holding, EventLabels
<1>7. CASE EventStep(t)
  <2>1. \/ pc'[t] \in {"event", "writeEvent"}
        \/ pc'[t] = "create" /\ target'[t] = run[t]
    BY <1>1, <1>3, <1>7 DEF EventStep, CreateEvent, WriteEvent, EventsDone
  <2>2. QED
    BY <1>2, <2>1 DEF Holding, EventLabels
<1>8. QED
  BY <1>4, <1>5, <1>6, <1>7 DEF PublishStep

\* Events below a run that is not committed belong to the Append that is
\* writing them.
LEMMA EventsStable ==
    ASSUME OneGoroutinePerProcess, EvidenceFits, IInv, OutcomeInv, Tidy, NEW t \in Thread, Call(t) \/ Step(t)
    PROVE  EventsOwned'
<1> USE DEF Goto, Finish, locals, disk
<1> DEFINE Owner(u, r) == op[u] = "Append" /\ run[u] = r /\ Holding(u)
<1> SUFFICES ASSUME NEW r \in RunId, final'[r] = 0, written'[r] \cup torn'[r] # {}
             PROVE  \E u \in Thread : Owner(u, r)'
  BY DEF EventsOwned
<1>1. /\ final \in [Published -> 0 .. MaxSequence] /\ target \in [Thread -> Published]
      /\ written \in [RunId -> SUBSET Nat] /\ torn \in [RunId -> SUBSET Nat] /\ r \in Published
       /\ r # "project" /\ r # "sequence"
  BY StoreAssumption DEF IInv, TypeInv, TypeOK, Published
<1>2. ASSUME NEW u \in Thread, u # t, Owner(u, r) PROVE Owner(u, r)'
  BY <1>2, OthersGoOn DEF Acts, IInv, SameLocals, SameCall, Holding
<1>3. CASE ~PublishStep(t) /\ ~EventStep(t)
  <2>1. UNCHANGED <<final, written, torn>>
    BY <1>3, OutsideSteps, ReadingSteps, StartingSteps DEF Step
  <2>2. PICK u \in Thread : Owner(u, r)
    BY <2>1 DEF Tidy, EventsOwned
  <2>3. u # t
    BY <1>3, <2>2, WhereStepsStart DEF Step, Holding, PublishLabels, EventLabels, StartLabels
  <2>4. QED
    BY <1>2, <2>2, <2>3
<1>4. CASE PublishStep(t) \/ EventStep(t)
  <2>1. InBody(t) /\ Exclusive(t) /\ pc[t] \in PublishLabels \cup EventLabels
    BY <1>4, WritingSteps, WhereStepsStart
  <2>2. \A u \in Thread : u # t => ~Holding(u)
    BY <2>1, WayIsFree DEF Holding, BodyLabels, PublishLabels, EventLabels
  <2>3. \/ op[t] = "Initialize" /\ target[t] = "project" /\ pc[t] \in PublishLabels
        \/ op[t] = "Append" /\ run[t] \in RunId /\ (pc[t] \in EventLabels \/ target[t] \in {"sequence", run[t]})
    BY <2>1 DEF IInv, TypeInv, CallShape, CallShapeAt, EventLabels, PublishLabels
  <2>4. CASE op[t] = "Append" /\ run[t] = r
    <3>1. CASE Holding(t)
      BY <1>4, <2>4, <3>1, HoldingGoesOn
    <3>2. CASE Allocating(t)
      <4>1. pc[t] \in {"create", "write", "publish"} /\ PublishStep(t)
        BY <1>4, <2>1, <3>2, WhereStepsStart DEF Allocating, PublishLabels, EventLabels
      <4>2. UNCHANGED <<written, torn>>
        BY <4>1 DEF PublishStep, CreateTemporary, WriteTemporary, Rename, Link, RemoveTemporary
      <4>3. written[r] = {} /\ torn[r] = {}
        BY <2>4, <3>2 DEF IInv, Progress, AppendProgress, AppendAt
      <4>4. QED
        BY <4>2, <4>3
    <3>3. CASE ~Holding(t) /\ ~Allocating(t)
      <4>1. pc[t] = "remove" /\ target[t] = run[t]
        BY <2>1, <2>3, <2>4, <3>3 DEF Holding, Allocating, PublishLabels, EventLabels
      <4>2. final[r] # 0
        BY <2>4, <4>1 DEF OutcomeInv, Outcomes, OutcomeAt
      <4>3. final' = final
        BY <1>4, <4>1 DEF PublishStep, EventStep, CreateTemporary, WriteTemporary, Rename, Link, RemoveTemporary,
           CreateEvent, WriteEvent, EventsDone
      <4>4. QED
        BY <4>2, <4>3
    <3>4. QED
      BY <3>1, <3>2, <3>3
  <2>5. CASE ~(op[t] = "Append" /\ run[t] = r)
    <3>1. final[r] = 0 => written[r] \cup torn[r] = {}
      BY <2>2, <2>5 DEF Tidy, EventsOwned
    <3>2. final'[r] = final[r] \/ final'[r] # 0
      <4>1. ASSUME Rename(t) \/ Link(t) PROVE final'[r] = final[r]
        <5>1. target[t] # r
          BY <1>1, <2>3, <2>5, <4>1 DEF Rename, Link, EventLabels
        <5>2. QED
          BY <1>1, <4>1, <5>1 DEF Rename, Link
      <4>2. ASSUME ~Rename(t), ~Link(t) PROVE final' = final
        BY <1>4, <4>2 DEF PublishStep, EventStep, CreateTemporary, WriteTemporary, RemoveTemporary,
           CreateEvent, WriteEvent, EventsDone
      <4>3. QED
        BY <4>1, <4>2
    <3>3. written'[r] = written[r] /\ torn'[r] = torn[r]
      <4>1. CASE PublishStep(t)
        BY <4>1 DEF PublishStep, CreateTemporary, WriteTemporary, Rename, Link, RemoveTemporary
      <4>2. CASE EventStep(t)
        <5>1. run[t] # r
          BY <2>3, <2>5, <4>2, WhereStepsStart DEF PublishLabels, EventLabels
        <5>2. QED
          BY <1>1, <4>2, <5>1 DEF EventStep, CreateEvent, WriteEvent, EventsDone
      <4>3. QED
        BY <1>4, <4>1, <4>2
    <3>4. QED
      BY <3>1, <3>2, <3>3
  <2>6. QED
    BY <2>4, <2>5
<1>5. QED
  BY <1>3, <1>4

\* The reason for which an Append is about to be refused stays.
LEMMA RefusalsStable ==
    ASSUME OneGoroutinePerProcess, EvidenceFits, IInv, OutcomeInv, Tidy, NEW t \in Thread, Call(t) \/ Step(t),
           NEW u \in Thread
    PROVE  RefusedAt(u)'
<1> USE DEF Goto, Finish, ReturnEarly, locals, disk
<1>1. SUFFICES ASSUME pc'[u] = "unlock", op'[u] = "Append", result'[u] = "error" PROVE AppendRefusable(run[u])'
  BY DEF RefusedAt
<1>2. CASE u # t
  <2>1. SameLocals(u) /\ Acts(t)
    BY <1>2, OthersGoOn DEF Acts, IInv
  <2>2. InBody(u) /\ Exclusive(u) /\ AppendRefusable(run[u])
    BY <1>1, <2>1 DEF SameLocals, SameCall, InBody, BodyLabels, Exclusive, ModeOf, Tidy, RefusedAt
  <2>3. UNCHANGED <<final, stage>>
    BY <1>2, <2>1, <2>2, Undisturbed
  <2>4. QED
    BY <2>1, <2>2, <2>3 DEF AppendRefusable, SameLocals, SameCall
<1>3. CASE u = t
  <2>1. pc \in [Thread -> Label] /\ op \in [Thread -> Operation]
    BY DEF IInv, TypeInv, TypeOK
  <2>2. Step(t)
    BY <1>1, <1>3, <2>1 DEF Call
  <2>3. op' = op
    <3>1. ~Return(t)
      BY <1>1, <1>3, <2>1 DEF Return, Leave
    <3>2. InitializeStep(t) \/ LockStep(t) => op' = op
      BY <3>1 DEF InitializeStep, MakeRoot, MakeRuns, OpenLock, CloseLock, Inspect, LockStep, AcquireMutex,
         AcquireByteLock, LockFileMissing, Release
    <3>3. StartStep(t) \/ ReadStep(t) => op' = op
      BY DEF StartStep, MakeRunRoot, CreateStarted, WriteStarted, MakeEventsRoot, ReadStep, ReadKeys, Scan,
         CheckSequence, Allocate
    <3>4. PublishStep(t) \/ EventStep(t) => op' = op
      BY DEF PublishStep, CreateTemporary, WriteTemporary, Rename, Link, RemoveTemporary, EventStep, CreateEvent,
         WriteEvent, EventsDone
    <3>5. QED
      BY <2>2, <3>2, <3>3, <3>4 DEF Step
  <2>4. AppendRefusable(run[t]) /\ (ReadKeys(t) \/ Scan(t) \/ Allocate(t))
    BY <1>1, <1>3, <2>2, <2>3, RefusalHasReason
  <2>5. UNCHANGED <<final, stage, run>>
    BY <2>4 DEF ReadKeys, Scan, Allocate
  <2>6. QED
    BY <1>3, <2>4, <2>5 DEF AppendRefusable
<1>4. QED
  BY <1>2, <1>3

\* The quiet part of the invariant: it needs the outcomes, and every
\* evidence.json within the limit of a read.
LEMMA QuietInductive ==
    ASSUME OneGoroutinePerProcess, EvidenceFits
    PROVE  Spec => [](IInv /\ OutcomeInv /\ QuietInv)
<1>1. Init => QuietInv
  BY OutcomeInit
<1>2. ASSUME IInv, OutcomeInv, QuietInv, [Next]_vars, Quiet' PROVE Tidy'
  <2>1. Tidy /\ (UNCHANGED vars \/ \E t \in Thread : Call(t) \/ Step(t))
    BY <1>2, QuietSteps DEF QuietInv
  <2>2. CASE UNCHANGED vars
    BY <2>1, <2>2 DEF Tidy, TemporariesOwned, HasTemporary, BuildsOwned, EventsOwned, Holding, RefusedAt,
       AppendRefusable, vars, disk, locals
  <2>3. ASSUME NEW t \in Thread, Call(t) \/ Step(t) PROVE Tidy'
    <3>1. TemporariesOwned' /\ BuildsOwned' /\ EventsOwned'
      BY <1>2, <2>1, <2>3, TemporariesStable, BuildsStable, EventsStable DEF Tidy
    <3>2. \A u \in Thread : RefusedAt(u)'
      BY <1>2, <2>1, <2>3, RefusalsStable
    <3>3. QED
      BY <3>1, <3>2 DEF Tidy
  <2>4. QED
    BY <2>1, <2>2, <2>3
<1>3. IInv /\ OutcomeInv /\ QuietInv /\ [Next]_vars => QuietInv'
  BY <1>2 DEF QuietInv
<1>. QED
  BY <1>1, <1>3, OutcomeInductive, PTL DEF Spec

\* AppendFailsForCause: without a crash or a fault no interleaving with other
\* calls makes an Append fail.
THEOREM AppendsFailForCause ==
    ASSUME OneGoroutinePerProcess, EvidenceFits
    PROVE  Spec => []AppendFailsForCause
<1>1. QuietInv => AppendFailsForCause
  BY DEF QuietInv, Quiet, Tidy, RefusedAt, AppendFailsForCause
<1>. QED
  BY <1>1, QuietInductive, PTL

\* QuietStoreIsClean: without a crash or a fault a store nobody is inside has
\* no temporary file, and readCompleted accepts it.
THEOREM QuietStoresAreClean ==
    ASSUME OneGoroutinePerProcess, EvidenceFits
    PROVE  Spec => []QuietStoreIsClean
<1>1. ASSUME IInv, QuietInv, crashes = 0, faults = 0, \A t \in Thread : ~InBody(t)
      PROVE  /\ \A x \in Published : tmp[x] = "none"
             /\ "runs" \in layout => ScanAccepts
  <2>1. Tidy
    BY <1>1 DEF QuietInv, Quiet
  <2>2. \A u \in Thread : pc[u] \notin {"mark", "fill", "events", "write", "publish", "remove"}
    BY <1>1 DEF InBody, BodyLabels, StartLabels, PublishLabels
  <2>3. \A x \in Published : tmp[x] = "none"
    BY <2>1, <2>2 DEF Tidy, TemporariesOwned, HasTemporary
  <2>4. QED
    BY <1>1, <2>1, <2>2, <2>3, ScanSucceeds
<1>2. IInv /\ QuietInv => QuietStoreIsClean
  BY <1>1 DEF QuietStoreIsClean
<1>. QED
  BY <1>2, QuietInductive, PTL

\* AppendedIsReadable: a run that fits the reader's limit can be loaded once it
\* is committed, so size is the only thing that can make an appended run unreadable.
THEOREM WhatFitsIsReadable ==
    ASSUME OneGoroutinePerProcess, EvidenceFits
    PROVE  Spec => []AppendedIsReadable
<1>1. IInv /\ QuietStoreIsClean => AppendedIsReadable
  <2> SUFFICES ASSUME IInv, QuietStoreIsClean, crashes = 0, faults = 0, \A t \in Thread : ~InBody(t),
                      NEW r \in RunId, final[r] # 0
               PROVE  IntactBundle(r)
    BY DEF AppendedIsReadable, Committed
  <2>1. Readable(r)
    BY DEF QuietStoreIsClean, Readable, Published
  <2>2. written[r] = 1 .. Findings[r] /\ torn[r] = {}
    BY DEF IInv, Progress, CommittedRuns
  <2>3. QED
    BY <2>1, <2>2 DEF IntactBundle, EvidenceFits
<1>. QED
  BY <1>1, QuietStoresAreClean, Inductive, PTL

\* A sequence that no run has and no Append owns any more.
Gap(q) == (\A r \in RunId : final[r] # q) /\ (q = final["sequence"] => ~Owed)

\* What allocateCommitSequence promises of a failed or killed Append: its sequence
\* is a gap, which no step fills or hands out again.
GapsAreForEver == [][\A q \in 1 .. final["sequence"] : Gap(q) => Gap(q)']_vars

\* GapsAreForEver: what the abstract log says of a gap, of the store that implements it.
THEOREM GapsStay ==
    ASSUME OneGoroutinePerProcess
    PROVE  Spec => GapsAreForEver
<1>1. ASSUME IInv, IInv', [Next]_vars, NEW q \in 1 .. final["sequence"], Gap(q) PROVE Gap(q)'
  <2>1. [Log!Next]_(Log!vars)
    BY <1>1, LogStep
  <2>2. final["sequence"] \in Nat
    BY <1>1, StoreAssumption DEF IInv, TypeInv, TypeOK, Published
  <2>3. CASE Log!Allocate
    <3>1. final'["sequence"] = final["sequence"] + 1
      BY <2>3 DEF Log!Allocate
    <3>2. \A r \in RunId : final'[r] = final[r]
      BY <2>3 DEF Log!Allocate
    <3>3. QED
      BY <1>1, <2>2, <3>1, <3>2 DEF Gap
  <2>4. CASE Log!Abandon
    <3>1. final'["sequence"] = final["sequence"] /\ (\A r \in RunId : final'[r] = final[r]) /\ ~Owed'
      BY <2>4 DEF Log!Abandon
    <3>2. QED
      BY <1>1, <3>1 DEF Gap
  <2>5. ASSUME NEW r \in RunId, Log!Commit(r) PROVE Gap(q)'
    <3>1. Owed /\ ~Owed' /\ final'["sequence"] = final["sequence"]
      BY <2>5 DEF Log!Commit
    <3>2. q # final["sequence"]
      BY <1>1, <3>1 DEF Gap
    <3>3. [s \in RunId |-> final'[s]] = [[s \in RunId |-> final[s]] EXCEPT ![r] = final["sequence"]]
      BY <2>5 DEF Log!Commit
    <3>4. \A s \in RunId : final'[s] = IF s = r THEN final["sequence"] ELSE final[s]
      BY <3>3
    <3>5. QED
      BY <1>1, <3>1, <3>2, <3>4 DEF Gap
  <2>6. CASE UNCHANGED Log!vars
    <3>1. final'["sequence"] = final["sequence"] /\ [s \in RunId |-> final'[s]] = [s \in RunId |-> final[s]]
          /\ Owed' = Owed
      BY <2>6 DEF Log!vars
    <3>2. \A s \in RunId : final'[s] = final[s]
      BY <3>1
    <3>3. QED
      BY <1>1, <3>1, <3>2 DEF Gap
  <2>7. QED
    BY <2>1, <2>3, <2>4, <2>5, <2>6 DEF Log!Next
<1>2. IInv /\ IInv' /\ [Next]_vars => \A q \in 1 .. final["sequence"] : Gap(q) => Gap(q)'
  BY <1>1
<1>3. QED
  BY <1>2, Inductive, PTL DEF Spec, GapsAreForEver
=============================================================================
