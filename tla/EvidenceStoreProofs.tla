------------------------ MODULE EvidenceStoreProofs ------------------------
(***************************************************************************)
(* Proofs about EvidenceStore, for every number of processes, runs,        *)
(* findings, crashes and disk faults.  They assume what the sentinel-go    *)
(* command guarantees: no process uses the store from two goroutines.      *)
(***************************************************************************)
EXTENDS EvidenceStore, TLAPS

OneGoroutinePerProcess ==
    \A t, u \in Thread : ProcessOf[t] = ProcessOf[u] => t = u

-----------------------------------------------------------------------------
(* The inductive invariant. *)

\* What a goroutine's place in its call says of the call.
CallShapeAt(t) ==
    /\ pc[t] # "idle" /\ op[t] \in {"Start", "Append"} => run[t] \in RunId
    /\ pc[t] \in StartLabels => op[t] = "Start"
    /\ pc[t] \in EventLabels \cup {"allocate"} => op[t] = "Append"
    /\ pc[t] = "scan" => op[t] \in {"Append", "Load"}
    /\ pc[t] = "inspect" => op[t] = "Initialize"
    /\ pc[t] \in {"checkSequence", "keys"} => op[t] # "Initialize"
    /\ pc[t] \in PublishLabels =>
         \/ op[t] = "Initialize" /\ target[t] = "project"
         \/ op[t] = "Append" /\ target[t] \in {"sequence", run[t]}
CallShape == \A t \in Thread : CallShapeAt(t)

\* The kernel's lock table agrees with who is inside the lock.
LockTable ==
    /\ \A t \in Thread : InBody(t) => byteLock[ProcessOf[t]] = ModeOf(op[t])
    /\ \A p, q \in Process : p # q /\ byteLock[p] = "exclusive" => byteLock[q] = "none"

\* Start builds a run directory nobody else builds.
StartProgress ==
    /\ \A t \in Thread :
        /\ pc[t] = "mark" => stage[run[t]] = "made"
        /\ pc[t] = "fill" => stage[run[t]] = "torn"
        /\ pc[t] = "events" => stage[run[t]] = "started"
    /\ \A t, u \in Thread :
        t # u /\ pc[t] \in StartLabels \ {"mkdir"} /\ pc[u] \in StartLabels \ {"mkdir"}
        => run[t] # run[u]

\* t is publishing the new value of the counter, or has not begun to.
Allocating(t) ==
    pc[t] = "allocate" \/ (pc[t] \in {"create", "write", "publish"} /\ target[t] = "sequence")

\* How far the Append of t has come with the bundle of its run.
AppendAt(t) ==
    /\ op[t] = "Append" /\ (Allocating(t) \/ Holding(t)) => stage[run[t]] = "ready" /\ final[run[t]] = 0
    /\ op[t] = "Append" /\ Allocating(t) => written[run[t]] = {} /\ torn[run[t]] = {}
    /\ op[t] = "Append" /\ pc[t] # "allocate" /\ Allocating(t) => ticket[t] = final["sequence"] + 1
    /\ op[t] = "Append" /\ Holding(t) =>
         ticket[t] = final["sequence"] /\ \A r \in RunId : final[r] < ticket[t]
    /\ op[t] = "Append" /\ pc[t] = "remove" /\ target[t] = "sequence" =>
         written[run[t]] = {} /\ torn[run[t]] = {}
    /\ pc[t] = "event" =>
         /\ cursor[t] <= Findings[run[t]] + 1
         /\ written[run[t]] = 1 .. (cursor[t] - 1) /\ torn[run[t]] = {}
    /\ pc[t] = "writeEvent" =>
         /\ cursor[t] <= Findings[run[t]]
         /\ written[run[t]] = 1 .. (cursor[t] - 1) /\ torn[run[t]] = {cursor[t]}
    /\ op[t] = "Append" /\ pc[t] \in {"create", "write", "publish"} /\ target[t] = run[t] =>
         written[run[t]] = 1 .. Findings[run[t]] /\ torn[run[t]] = {}

AppendProgress == \A t \in Thread : AppendAt(t)

\* What is true of the committed runs.
CommittedRuns ==
    /\ \A r \in RunId : final[r] <= final["sequence"]
    /\ \A r, s \in RunId : final[r] # 0 /\ final[r] = final[s] => r = s
    /\ \A r \in RunId : final[r] # 0 =>
         stage[r] = "ready" /\ written[r] = 1 .. Findings[r] /\ torn[r] = {}

TypeInv == TypeOK /\ CallShape
Progress == StartProgress /\ AppendProgress /\ CommittedRuns
IInv == TypeInv /\ LockTable /\ Progress

-----------------------------------------------------------------------------
(* Type correctness. *)

\* Every variable is in its domain initially.
LEMMA TypeInit == Init => TypeInv
BY StoreAssumption DEF Init, TypeInv, TypeOK, CallShape, CallShapeAt, Published, Operation, Label, EnsureLabels,
   BodyLabels,
   StartLabels, PublishLabels, EventLabels, Stage

\* A step of one goroutine cannot disturb what the others' labels say.
LEMMA OtherShapes ==
    ASSUME CallShape, NEW t \in Thread, CallShapeAt(t)',
           \A u \in Thread : u # t => /\ pc'[u] = pc[u] /\ op'[u] = op[u]
                                     /\ run'[u] = run[u] /\ target'[u] = target[u]
    PROVE  CallShape'
BY DEF CallShape, CallShapeAt

\* Every step keeps every variable in its domain and the call in its shape.
LEMMA TypeStep == TypeInv /\ [Next]_vars => TypeInv'
<1> SUFFICES ASSUME TypeInv, [Next]_vars PROVE TypeInv'
  OBVIOUS
<1> USE StoreAssumption DEF TypeInv, TypeOK, CallShape, CallShapeAt, Published, Operation, Label, EnsureLabels, BodyLabels,
    StartLabels, PublishLabels, EventLabels, Stage, disk, locals, bounds, Goto
<1>1. ASSUME NEW t \in Thread, Call(t) PROVE TypeInv'
  <2>1. PICK o \in Operation : op' = [op EXCEPT ![t] = o]
    BY <1>1 DEF Call
  <2>2. \/ o \in {"Start", "Append"} /\ \E r \in RunId : run' = [run EXCEPT ![t] = r]
        \/ o \notin {"Start", "Append"} /\ UNCHANGED run
    BY <1>1, <2>1 DEF Call
  <2>3. /\ \E label \in {"makeRoot", "mutex", "return"} : pc' = [pc EXCEPT ![t] = label]
        /\ UNCHANGED <<disk, byteLock, target, ticket, scanned, cursor, bounds>>
    BY <1>1 DEF Call, ReturnEarly
  <2>4. TypeOK'
    <3>1. op' \in [Thread -> Operation]
      BY ONLY <2>1, TypeOK DEF TypeOK
    <3>2. run' \in [Thread -> RunId \cup {NoRun}]
      BY ONLY <2>2, TypeOK DEF TypeOK
    <3>3. pc' \in [Thread -> Label]
      BY ONLY <2>3, TypeOK DEF TypeOK, Label, EnsureLabels
    <3>4. result' \in [Thread -> {"none", "ok", "error"}]
      BY <1>1 DEF Call, ReturnEarly
    <3>5. QED
      BY ONLY <2>3, <3>1, <3>2, <3>3, <3>4, TypeOK DEF TypeOK, disk, bounds
  <2>5. CallShapeAt(t)'
    BY ONLY <2>1, <2>2, <2>3, TypeOK
    DEF TypeOK, CallShapeAt, StartLabels, EventLabels, PublishLabels
  <2>6. CallShape'
    BY ONLY <2>1, <2>2, <2>3, <2>5, TypeOK, CallShape, OtherShapes DEF TypeOK
  <2>7. QED
    BY ONLY <2>4, <2>6 DEF TypeInv
<1>2. ASSUME NEW t \in Thread, MakeRoot(t) PROVE TypeInv'
  BY <1>2 DEF MakeRoot
<1>3. ASSUME NEW t \in Thread, MakeRuns(t) PROVE TypeInv'
  BY <1>3 DEF MakeRuns
<1>4. ASSUME NEW t \in Thread, OpenLock(t) PROVE TypeInv'
  BY <1>4 DEF OpenLock
<1>5. ASSUME NEW t \in Thread, CloseLock(t) PROVE TypeInv'
  BY <1>5 DEF CloseLock
<1>6. ASSUME NEW t \in Thread, Inspect(t) PROVE TypeInv'
  BY <1>6 DEF Inspect, Finish
<1>7. ASSUME NEW t \in Thread, AcquireMutex(t) PROVE TypeInv'
  BY <1>7 DEF AcquireMutex
<1>8. ASSUME NEW t \in Thread, AcquireByteLock(t) PROVE TypeInv'
  BY <1>8 DEF AcquireByteLock, ModeOf
<1>9. ASSUME NEW t \in Thread, LockFileMissing(t) PROVE TypeInv'
  BY <1>9 DEF LockFileMissing, ReturnEarly
<1>10. ASSUME NEW t \in Thread, Release(t) PROVE TypeInv'
  BY <1>10 DEF Release
<1>11. ASSUME NEW t \in Thread, Return(t) PROVE TypeInv'
  BY <1>11 DEF Return, Leave
<1>12. ASSUME NEW t \in Thread, MakeRunRoot(t) PROVE TypeInv'
  <2>1. CASE stage' = [stage EXCEPT ![run[t]] = "made"] /\ Goto(t, "mark") /\ UNCHANGED result
    BY <1>12, <2>1 DEF MakeRunRoot
  <2>2. CASE Finish(t, "error") /\ UNCHANGED stage
    BY <1>12, <2>2 DEF MakeRunRoot, Finish
  <2>3. QED
    BY <1>12, <2>1, <2>2 DEF MakeRunRoot
<1>13. ASSUME NEW t \in Thread, CreateStarted(t) PROVE TypeInv'
  BY <1>13 DEF CreateStarted
<1>14. ASSUME NEW t \in Thread, WriteStarted(t) PROVE TypeInv'
  BY <1>14 DEF WriteStarted
<1>15. ASSUME NEW t \in Thread, MakeEventsRoot(t) PROVE TypeInv'
  BY <1>15 DEF MakeEventsRoot, Finish
<1>16. ASSUME NEW t \in Thread, ReadKeys(t) PROVE TypeInv'
  BY <1>16 DEF ReadKeys, Finish
<1>17. ASSUME NEW t \in Thread, Scan(t) PROVE TypeInv'
  <2>1. CASE Finish(t, "error") /\ UNCHANGED scanned
    BY <1>17, <2>1 DEF Scan, Finish
  <2>2. CASE /\ scanned' = [scanned EXCEPT ![t] = Committed]
             /\ Goto(t, IF op[t] = "Append" THEN "allocate" ELSE "checkSequence")
             /\ UNCHANGED result
    <3>1. Committed \in SUBSET RunId
      BY DEF Committed
    <3>2. pc[t] = "scan" /\ UNCHANGED <<disk, byteLock, op, run, target, ticket, cursor, bounds>>
      BY <1>17 DEF Scan
    <3>3. TypeOK'
      BY <2>2, <3>1, <3>2
    <3>4. CallShape'
      BY <2>2, <3>2
    <3>5. QED
      BY <3>3, <3>4
  <2>3. QED
    BY <1>17, <2>1, <2>2 DEF Scan
<1>18. ASSUME NEW t \in Thread, CheckSequence(t) PROVE TypeInv'
  BY <1>18 DEF CheckSequence, Finish
<1>19. ASSUME NEW t \in Thread, Allocate(t) PROVE TypeInv'
  <2>1. CASE Finish(t, "error") /\ UNCHANGED <<ticket, target>>
    BY <1>19, <2>1 DEF Allocate, Finish
  <2>2. CASE /\ ~Exhausted
             /\ ticket' = [ticket EXCEPT ![t] = NextSequence]
             /\ target' = [target EXCEPT ![t] = "sequence"]
             /\ Goto(t, "create")
             /\ UNCHANGED result
    <3>1. NextSequence \in 0 .. MaxSequence
      <4>1. final["sequence"] \in 0 .. MaxSequence
        OBVIOUS
      <4>2. final["sequence"] # MaxSequence
        BY <2>2 DEF Exhausted
      <4>3. QED
        BY ONLY StoreAssumption, <4>1, <4>2 DEF NextSequence
    <3>2. pc[t] = "allocate" /\ UNCHANGED <<disk, byteLock, op, run, scanned, cursor, bounds>>
      BY <1>19 DEF Allocate
    <3>3. TypeOK'
      BY <2>2, <3>1, <3>2
    <3>4. CallShape'
      BY <2>2, <3>2
    <3>5. QED
      BY <3>3, <3>4
  <2>3. QED
    BY <1>19, <2>1, <2>2 DEF Allocate
<1>20. ASSUME NEW t \in Thread, CreateTemporary(t) PROVE TypeInv'
  <2>1. CASE tmp' = [tmp EXCEPT ![target[t]] = "own"] /\ Goto(t, "write") /\ UNCHANGED result
    BY <1>20, <2>1 DEF CreateTemporary
  <2>2. CASE Finish(t, "error") /\ UNCHANGED tmp
    BY <1>20, <2>2 DEF CreateTemporary, Finish
  <2>3. QED
    BY <1>20, <2>1, <2>2 DEF CreateTemporary
<1>21. ASSUME NEW t \in Thread, WriteTemporary(t) PROVE TypeInv'
  BY <1>21 DEF WriteTemporary
<1>22. ASSUME NEW t \in Thread, Rename(t) PROVE TypeInv'
  <2>1. /\ \E label \in {"event", "unlock"} : pc' = [pc EXCEPT ![t] = label]
        /\ UNCHANGED <<layout, stage, torn, written, byteLock, op, run, target, ticket, scanned, bounds>>
    BY <1>22 DEF Rename, AfterPublish, Finish
  <2>2. TypeOK'
    <3>1. final' \in [Published -> 0 .. MaxSequence]
      BY <1>22 DEF Rename, Payload
    <3>2. tmp' \in [Published -> {"none", "own", "twin"}]
      BY <1>22 DEF Rename
    <3>3. cursor' \in [Thread -> Nat \ {0}] /\ result' \in [Thread -> {"none", "ok", "error"}]
      <4>1. /\ cursor' = cursor \/ cursor' = [cursor EXCEPT ![t] = 1]
            /\ result' = result \/ result' = [result EXCEPT ![t] = "ok"]
        BY ONLY <1>22 DEF Rename, AfterPublish, Finish
      <4>2. QED
        BY ONLY <4>1, TypeOK DEF TypeOK
    <3>4. pc' \in [Thread -> Label]
      BY ONLY <2>1, TypeOK DEF TypeOK, Label, BodyLabels, EventLabels
    <3>5. QED
      BY ONLY <2>1, <3>1, <3>2, <3>3, <3>4, TypeOK DEF TypeOK, bounds
  <2>3. op[t] = "Append"
    BY <1>22, StoreAssumption DEF Rename, Replaces
  <2>4. CallShapeAt(t)'
    <3>1. pc[t] = "publish"
      BY <1>22 DEF Rename
    <3>2. QED
      BY ONLY <2>1, <2>3, <3>1, TypeOK, CallShape
      DEF TypeOK, CallShape, CallShapeAt, StartLabels, EventLabels, PublishLabels
  <2>5. CallShape'
    BY ONLY <2>1, <2>4, TypeOK, CallShape, OtherShapes DEF TypeOK
  <2>6. QED
    BY ONLY <2>2, <2>5 DEF TypeInv
<1>23. ASSUME NEW t \in Thread, Link(t) PROVE TypeInv'
  <2>1. Payload(t) \in 0 .. MaxSequence
    BY DEF Payload
  <2>2. CASE /\ final' = [final EXCEPT ![target[t]] = Payload(t)]
             /\ tmp' = [tmp EXCEPT ![target[t]] = "twin"]
             /\ Goto(t, "remove") /\ UNCHANGED result
    BY <1>23, <2>1, <2>2 DEF Link
  <2>3. CASE /\ tmp' = [tmp EXCEPT ![target[t]] = "none"]
             /\ Finish(t, "error") /\ UNCHANGED final
    BY <1>23, <2>3 DEF Link, Finish
  <2>4. QED
    BY <1>23, <2>2, <2>3 DEF Link
<1>24. ASSUME NEW t \in Thread, RemoveTemporary(t) PROVE TypeInv'
  <2>1. CASE target[t] = "sequence"
    BY <1>24, <2>1 DEF RemoveTemporary, AfterPublish
  <2>2. CASE target[t] # "sequence"
    BY <1>24, <2>2 DEF RemoveTemporary, AfterPublish, Finish
  <2>3. QED
    BY <2>1, <2>2
<1>25. ASSUME NEW t \in Thread, CreateEvent(t) PROVE TypeInv'
  <2>1. CASE /\ torn' = [torn EXCEPT ![run[t]] = @ \cup {cursor[t]}]
             /\ Goto(t, "writeEvent") /\ UNCHANGED result
    BY <1>25, <2>1 DEF CreateEvent
  <2>2. CASE Finish(t, "error") /\ UNCHANGED torn
    BY <1>25, <2>2 DEF CreateEvent, Finish
  <2>3. QED
    BY <1>25, <2>1, <2>2 DEF CreateEvent
<1>26. ASSUME NEW t \in Thread, WriteEvent(t) PROVE TypeInv'
  <2>1. \A S \in SUBSET Nat, n \in Nat : S \ {n} \in SUBSET Nat /\ S \cup {n} \in SUBSET Nat
    OBVIOUS
  <2>2. TypeOK'
    BY <1>26, <2>1 DEF WriteEvent
  <2>3. CallShape'
    BY <1>26 DEF WriteEvent
  <2>4. QED
    BY <2>2, <2>3
<1>27. ASSUME NEW t \in Thread, EventsDone(t) PROVE TypeInv'
  BY <1>27 DEF EventsDone
<1>28. ASSUME NEW t \in Thread, DiskFault(t) PROVE TypeInv'
  <2>1. /\ pc' = [pc EXCEPT ![t] = "unlock"] /\ result' = [result EXCEPT ![t] = "error"]
        /\ faults' \in 0 .. MaxFaults /\ UNCHANGED <<layout, written, byteLock, locals, crashes>>
    BY <1>28 DEF DiskFault, Finish
  <2>2. CallShape'
    <3>1. /\ pc[t] # "idle" /\ pc'[t] = "unlock" /\ \A u \in Thread : u # t => pc'[u] = pc[u]
          /\ op' = op /\ run' = run /\ target' = target
      BY <1>28, <2>1 DEF DiskFault
    <3>2. QED
      BY ONLY <3>1, CallShape DEF CallShape, CallShapeAt, StartLabels, PublishLabels, EventLabels
  <2>3. tmp' \in [Published -> {"none", "own", "twin"}]
    BY <1>28 DEF DiskFault
  <2>4. final' \in [Published -> 0 .. MaxSequence]
    BY <1>28 DEF DiskFault, Payload, Replaces
  <2>5. stage' \in [RunId -> Stage]
    BY <1>28 DEF DiskFault
  <2>6. torn' \in [RunId -> SUBSET Nat]
    <3>1. \A S \in SUBSET Nat, n \in Nat : S \ {n} \in SUBSET Nat
      OBVIOUS
    <3>2. QED
      BY <1>28, <3>1 DEF DiskFault
  <2>7. QED
    BY <2>1, <2>2, <2>3, <2>4, <2>5, <2>6
<1>29. ASSUME NEW t \in Thread, SetupFault(t) PROVE TypeInv'
  BY <1>29 DEF SetupFault, ReturnEarly
<1>30. ASSUME NEW p \in Process, Crash(p) PROVE TypeInv'
  BY <1>30 DEF Crash, Leave
<1>31. CASE UNCHANGED vars
  BY <1>31 DEF vars
<1>32. QED
  BY <1>1, <1>2, <1>3, <1>4, <1>5, <1>6, <1>7, <1>8, <1>9, <1>10, <1>11, <1>12, <1>13, <1>14, <1>15,
     <1>16, <1>17, <1>18, <1>19, <1>20, <1>21, <1>22, <1>23, <1>24, <1>25, <1>26, <1>27, <1>28,
     <1>29, <1>30, <1>31
  DEF Next, Step, InitializeStep, LockStep, StartStep, ReadStep, PublishStep, EventStep

\* TypeOK of the runs holds for every instance of the store: in particular
\* neither the counter nor a published sequence passes MaxSequence.
THEOREM TypeCorrect == Spec => []TypeOK
<1>1. TypeInv => TypeOK
  BY DEF TypeInv
<1>. QED
  BY <1>1, TypeInit, TypeStep, PTL DEF Spec

-----------------------------------------------------------------------------
(* Mutual exclusion. *)

\* Initially nobody is inside.
LEMMA LockInit == Init => LockTable
BY DEF Init, LockTable, InBody, BodyLabels, StartLabels, PublishLabels, EventLabels

\* A step that leaves the lock table alone and lets nobody in preserves it.
LEMMA LockFrame ==
    ASSUME LockTable, UNCHANGED byteLock,
           \A u \in Thread : InBody(u)' => InBody(u) /\ op'[u] = op[u]
    PROVE  LockTable'
BY DEF LockTable, ModeOf

\* A step that gives up the lock of the one goroutine of a process.
LEMMA LockDrop ==
    ASSUME OneGoroutinePerProcess, TypeInv, LockTable, NEW p \in Process,
           byteLock' = [byteLock EXCEPT ![p] = "none"],
           \A u \in Thread : InBody(u)' => ProcessOf[u] # p /\ InBody(u) /\ op'[u] = op[u]
    PROVE  LockTable'
BY StoreAssumption DEF LockTable, ModeOf, TypeInv, TypeOK

\* The lock table stays right: only the goroutine that holds the lock of its
\* process is inside, and a process that holds it exclusively holds it alone.
LEMMA LockStable ==
    ASSUME OneGoroutinePerProcess, TypeInv, LockTable, [Next]_vars
    PROVE  LockTable'
<1> USE StoreAssumption DEF OneGoroutinePerProcess, TypeInv, TypeOK, InBody, BodyLabels, StartLabels,
    PublishLabels, EventLabels, disk, locals, bounds, Goto
<1>1. ASSUME NEW t \in Thread, Call(t) PROVE LockTable'
  BY <1>1, LockFrame DEF Call, ReturnEarly
<1>2. ASSUME NEW t \in Thread, InitializeStep(t) PROVE LockTable'
  <2>1. CASE MakeRoot(t) \/ MakeRuns(t) \/ OpenLock(t)
    BY <2>1, LockFrame DEF MakeRoot, MakeRuns, OpenLock
  <2>2. CASE CloseLock(t)
    <3>1. ProcessOf[t] \in Process
      OBVIOUS
    <3>2. byteLock' = [byteLock EXCEPT ![ProcessOf[t]] = "none"]
      BY <2>2 DEF CloseLock
    <3>3. \A u \in Thread : InBody(u)' => ProcessOf[u] # ProcessOf[t] /\ InBody(u) /\ op'[u] = op[u]
      BY <2>2 DEF CloseLock
    <3>4. QED
      BY ONLY OneGoroutinePerProcess, TypeInv, LockTable, <3>1, <3>2, <3>3, LockDrop
  <2>3. CASE Inspect(t)
    BY <2>3, LockFrame DEF Inspect, Finish
  <2>4. QED
    BY <1>2, <2>1, <2>2, <2>3 DEF InitializeStep
<1>3. ASSUME NEW t \in Thread, AcquireByteLock(t) PROVE LockTable'
  <2>1. pc[t] = "byteLock" /\ ProcessOf[t] \in Process /\ ByteLockFree(t) /\ UNCHANGED op
    BY <1>3 DEF AcquireByteLock
  <2>2. byteLock' = [byteLock EXCEPT ![ProcessOf[t]] = ModeOf(op[t])]
    BY <1>3 DEF AcquireByteLock
  <2>3. ASSUME NEW u \in Thread, InBody(u)' PROVE byteLock'[ProcessOf[u]] = ModeOf(op'[u])
    <3>1. CASE u = t
      BY <2>1, <2>2, <3>1 DEF ModeOf
    <3>2. CASE u # t
      <4>1. InBody(u) /\ ProcessOf[u] # ProcessOf[t] /\ ProcessOf[u] \in Process
        BY <1>3, <2>3, <3>2 DEF AcquireByteLock
      <4>2. QED
        BY <2>1, <2>2, <4>1 DEF LockTable, ModeOf
    <3>3. QED
      BY <3>1, <3>2
  <2>4. ASSUME NEW p \in Process, NEW q \in Process, p # q, byteLock'[p] = "exclusive"
        PROVE  byteLock'[q] = "none"
    <3>1. CASE p = ProcessOf[t]
      BY <2>1, <2>2, <2>4, <3>1 DEF ByteLockFree, Exclusive
    <3>2. CASE p # ProcessOf[t]
      BY <2>1, <2>2, <2>4, <3>2 DEF ByteLockFree, LockTable
    <3>3. QED
      BY <3>1, <3>2
  <2>5. QED
    BY <2>3, <2>4 DEF LockTable, ModeOf
<1>4. ASSUME NEW t \in Thread, AcquireMutex(t) \/ LockFileMissing(t) PROVE LockTable'
  BY <1>4, LockFrame DEF AcquireMutex, LockFileMissing, ReturnEarly
<1>5. ASSUME NEW t \in Thread, Release(t) PROVE LockTable'
  <2>1. ProcessOf[t] \in Process
    OBVIOUS
  <2>2. byteLock' = [byteLock EXCEPT ![ProcessOf[t]] = "none"]
    BY <1>5 DEF Release
  <2>3. \A u \in Thread : InBody(u)' => ProcessOf[u] # ProcessOf[t] /\ InBody(u) /\ op'[u] = op[u]
    BY <1>5 DEF Release
  <2>4. QED
    BY ONLY OneGoroutinePerProcess, TypeInv, LockTable, <2>1, <2>2, <2>3, LockDrop
<1>6. ASSUME NEW t \in Thread, Return(t) PROVE LockTable'
  BY <1>6, LockFrame DEF Return, Leave
<1>7. ASSUME NEW t \in Thread, StartStep(t) PROVE LockTable'
  BY <1>7, LockFrame DEF StartStep, MakeRunRoot, CreateStarted, WriteStarted, MakeEventsRoot, Finish
<1>8. ASSUME NEW t \in Thread, ReadStep(t) PROVE LockTable'
  BY <1>8, LockFrame DEF ReadStep, ReadKeys, Scan, CheckSequence, Allocate, Finish
<1>9. ASSUME NEW t \in Thread, PublishStep(t) PROVE LockTable'
  BY <1>9, LockFrame DEF PublishStep, CreateTemporary, WriteTemporary, Rename, Link, RemoveTemporary,
     AfterPublish, Finish
<1>10. ASSUME NEW t \in Thread, EventStep(t) PROVE LockTable'
  BY <1>10, LockFrame DEF EventStep, CreateEvent, WriteEvent, EventsDone, Finish
<1>11. ASSUME NEW t \in Thread, DiskFault(t) PROVE LockTable'
  BY <1>11, LockFrame DEF DiskFault, Finish
<1>12. ASSUME NEW p \in Process, Crash(p) PROVE LockTable'
  BY <1>12, LockDrop DEF Crash, Leave
<1>13. CASE UNCHANGED vars
  BY <1>13, LockFrame DEF vars
<1>14. ASSUME NEW t \in Thread, SetupFault(t) PROVE LockTable'
  <2>1. \A u \in Thread : InBody(u)' => u # t /\ InBody(u) /\ op'[u] = op[u]
    BY <1>14 DEF SetupFault, ReturnEarly
  <2>2. CASE UNCHANGED byteLock
    BY <2>1, <2>2, LockFrame
  <2>3. CASE byteLock' = [byteLock EXCEPT ![ProcessOf[t]] = "none"]
    <3>1. ProcessOf[t] \in Process
      OBVIOUS
    <3>2. \A u \in Thread : InBody(u)' => ProcessOf[u] # ProcessOf[t] /\ InBody(u) /\ op'[u] = op[u]
      BY <2>1
    <3>3. QED
      BY ONLY OneGoroutinePerProcess, TypeInv, LockTable, <2>3, <3>1, <3>2, LockDrop
  <2>4. QED
    BY <1>14, <2>2, <2>3 DEF SetupFault
<1>15. QED
  BY <1>14, <1>1, <1>2, <1>3, <1>4, <1>5, <1>6, <1>7, <1>8, <1>9, <1>10, <1>11, <1>12,
     <1>13 DEF Next, Step, LockStep

\* The lock table rules out company beside an exclusive holder.
LEMMA TableExcludes ==
    ASSUME OneGoroutinePerProcess, LockTable
    PROVE  LockExcludes
<1> SUFFICES ASSUME NEW t \in Thread, NEW u \in Thread, t # u, InBody(t), InBody(u), Exclusive(t)
             PROVE  FALSE
  BY DEF LockExcludes
<1>1. ProcessOf[t] # ProcessOf[u] /\ ProcessOf[t] \in Process /\ ProcessOf[u] \in Process
  BY StoreAssumption DEF OneGoroutinePerProcess
<1>2. byteLock[ProcessOf[t]] = "exclusive" /\ byteLock[ProcessOf[u]] # "none"
  BY DEF LockTable, Exclusive, ModeOf
<1>3. QED
  BY <1>1, <1>2 DEF LockTable

\* LockExcludes: with one goroutine per process, nobody is inside
\* withProcessLock beside an exclusive holder, however many processes run.
THEOREM MutualExclusion ==
    ASSUME OneGoroutinePerProcess
    PROVE  Spec => []LockExcludes
<1>1. TypeInv /\ LockTable /\ [Next]_vars => (TypeInv /\ LockTable)'
  BY TypeStep, LockStable
<1>2. LockTable => LockExcludes
  BY TableExcludes
<1>. QED
  BY <1>1, <1>2, TypeInit, LockInit, PTL DEF Spec

-----------------------------------------------------------------------------
(* What a writer has done so far. *)

ProgressLabels == (StartLabels \ {"mkdir"}) \cup {"allocate"} \cup PublishLabels \cup EventLabels

\* A step of another goroutine leaves the call of u where it is.
SameCall(u) ==
    /\ pc'[u] = pc[u] /\ op'[u] = op[u] /\ run'[u] = run[u]
    /\ target'[u] = target[u] /\ ticket'[u] = ticket[u] /\ cursor'[u] = cursor[u]

\* An empty project has no call to account for.
LEMMA ProgressInit == Init => Progress
BY StoreAssumption DEF Init, Progress, StartProgress, AppendProgress, AppendAt, Allocating, Holding,
   CommittedRuns,
   StartLabels, EventLabels, Published

\* A step that leaves the runs and the counter alone preserves what is known
\* of the calls that go on as they were.
LEMMA ProgressFrame ==
    ASSUME TypeInv, TypeInv', Progress, UNCHANGED <<stage, written, torn>>,
           \A x \in RunId \cup {"sequence"} : final'[x] = final[x],
           \A u \in Thread : pc'[u] \in ProgressLabels /\ op'[u] # "Initialize" => SameCall(u)
    PROVE  Progress'
<1> USE DEF ProgressLabels, StartLabels, PublishLabels, EventLabels, SameCall
<1>1. StartProgress'
  BY DEF TypeInv, CallShape, CallShapeAt, Progress, StartProgress
<1>2. ASSUME NEW u \in Thread PROVE AppendAt(u)'
  <2>1. CASE pc'[u] \in ProgressLabels /\ op'[u] # "Initialize"
    <3>1. AppendAt(u) /\ SameCall(u)
      BY <2>1 DEF Progress, AppendProgress
    <3>2. op[u] = "Append" /\ (Allocating(u) \/ Holding(u)) => run[u] \in RunId
      BY DEF TypeInv, CallShape, CallShapeAt, Allocating, Holding
    <3>3. QED
      BY <3>1, <3>2 DEF AppendAt, Allocating, Holding
  <2>2. CASE ~(pc'[u] \in ProgressLabels /\ op'[u] # "Initialize")
    <3>1. (op'[u] = "Append" => ~(Allocating(u)' \/ Holding(u)')) /\ pc'[u] \notin EventLabels
      BY <2>2 DEF TypeInv, CallShape, CallShapeAt, Allocating, Holding
    <3>2. QED
      BY <3>1 DEF AppendAt, Allocating, Holding
  <2>3. QED
    BY <2>1, <2>2
<1>3. CommittedRuns'
  BY DEF Progress, CommittedRuns
<1>4. QED
  BY <1>1, <1>2, <1>3 DEF Progress, AppendProgress

\* The only goroutine inside is an exclusive holder.
LEMMA Alone ==
    ASSUME OneGoroutinePerProcess, LockTable, NEW t \in Thread, InBody(t), Exclusive(t),
           NEW u \in Thread, u # t
    PROVE  ~InBody(u)
BY TableExcludes DEF LockExcludes

\* A step of an Append has to account for its own call and for the runs.
LEMMA AppendAlone ==
    ASSUME OneGoroutinePerProcess, TypeInv, TypeInv', LockTable, NEW t \in Thread,
           InBody(t), op[t] = "Append", op'[t] = op[t],
           \A u \in Thread : u # t => SameCall(u),
           AppendAt(t)', CommittedRuns'
    PROVE  Progress'
<1> USE DEF BodyLabels, StartLabels, PublishLabels, EventLabels, SameCall, InBody
<1>1. \A u \in Thread : u # t => ~InBody(u)
  BY Alone DEF Exclusive, ModeOf
<1>2. StartProgress'
  BY <1>1 DEF TypeInv, CallShape, CallShapeAt, StartProgress
<1>3. ASSUME NEW u \in Thread, u # t PROVE AppendAt(u)'
  BY <1>1, <1>3 DEF AppendAt, Allocating, Holding
<1>4. QED
  BY <1>2, <1>3 DEF Progress, AppendProgress

\* A step of a Start has to account for its own run directory.
LEMMA StartAlone ==
    ASSUME OneGoroutinePerProcess, TypeInv, TypeInv', LockTable, Progress, NEW t \in Thread, NEW s,
           InBody(t), op[t] = "Start", op'[t] = op[t], run'[t] = run[t],
           \A u \in Thread : u # t => SameCall(u),
           UNCHANGED <<written, torn, final>>, stage' = [stage EXCEPT ![run[t]] = s],
           stage[run[t]] # "ready",
           pc'[t] = "mark" => s = "made",
           pc'[t] = "fill" => s = "torn",
           pc'[t] = "events" => s = "started",
           stage[run[t]] = "none" \/ pc[t] \in StartLabels \ {"mkdir"}
    PROVE  Progress'
<1> USE DEF BodyLabels, StartLabels, PublishLabels, EventLabels, SameCall, InBody
<1>1. run[t] \in RunId /\ stage \in [RunId -> Stage]
  BY DEF TypeInv, TypeOK, CallShape, CallShapeAt
<1>2. \A u \in Thread : InBody(u) => ~Exclusive(u)
  BY TableExcludes DEF LockExcludes, Exclusive, ModeOf
<1>3. \A u \in Thread : u # t /\ pc[u] \in StartLabels \ {"mkdir"} => run[u] # run[t] /\ run[u] \in RunId
  BY <1>1 DEF Progress, StartProgress, TypeInv, CallShape, CallShapeAt
<1>4. StartProgress'
  <2>1. ASSUME NEW u \in Thread
        PROVE /\ pc'[u] = "mark" => stage'[run'[u]] = "made"
              /\ pc'[u] = "fill" => stage'[run'[u]] = "torn"
              /\ pc'[u] = "events" => stage'[run'[u]] = "started"
    BY <1>1, <1>3 DEF Progress, StartProgress
  <2>2. \A u, v \in Thread : 
          u # v /\ pc'[u] \in StartLabels \ {"mkdir"} /\ pc'[v] \in StartLabels \ {"mkdir"} => run'[u] # run'[v]
    BY <1>3 DEF Progress, StartProgress
  <2>3. QED
    BY <2>1, <2>2 DEF StartProgress
<1>5. ASSUME NEW u \in Thread PROVE AppendAt(u)'
  <2>1. op'[u] = "Append" => pc'[u] \notin {"allocate"} \cup PublishLabels \cup EventLabels
    BY <1>2 DEF Exclusive, ModeOf
  <2>2. pc'[u] \notin EventLabels
    BY <2>1 DEF TypeInv, CallShape, CallShapeAt
  <2>3. QED
    BY <2>1, <2>2 DEF AppendAt, Allocating, Holding
<1>6. CommittedRuns'
  BY <1>1 DEF Progress, CommittedRuns
<1>7. QED
  BY <1>4, <1>5, <1>6 DEF Progress, AppendProgress

\* The steps of a Start.
LEMMA StartStable ==
    ASSUME OneGoroutinePerProcess, TypeInv, TypeInv', LockTable, Progress, NEW t \in Thread, StartStep(t)
    PROVE  Progress'
<1> USE DEF TypeInv, TypeOK, Goto, locals, bounds, disk, Finish
<1> DEFINE Others == \A u \in Thread : u # t => SameCall(u)
<1>1. InBody(t) /\ op[t] = "Start" /\ op'[t] = op[t] /\ run'[t] = run[t] /\ Others /\ UNCHANGED <<written, torn, final>>
  BY DEF StartStep, MakeRunRoot, CreateStarted, WriteStarted, MakeEventsRoot, SameCall, InBody,
     BodyLabels,
     StartLabels, CallShape, CallShapeAt
<1>2. CASE MakeRunRoot(t)
  <2>1. CASE Finish(t, "error") /\ UNCHANGED stage
    <3>1. \A x \in RunId \cup {"sequence"} : final'[x] = final[x]
      BY <1>1
    <3>2. \A u \in Thread : pc'[u] \in ProgressLabels /\ op'[u] # "Initialize" => SameCall(u)
      BY <1>1, <2>1 DEF ProgressLabels, StartLabels, PublishLabels, EventLabels
    <3>3. QED
      BY <1>1, <2>1, <3>1, <3>2, ProgressFrame
  <2>2. CASE ~(Finish(t, "error") /\ UNCHANGED stage)
    <3>1. /\ stage[run[t]] = "none" /\ stage' = [stage EXCEPT ![run[t]] = "made"]
          /\ pc'[t] = "mark"
      BY <1>2, <2>2 DEF MakeRunRoot
    <3>2. QED
      BY <1>1, <3>1, StartAlone
  <2>3. QED
    BY <2>1, <2>2
<1>3. CASE CreateStarted(t)
  <2>1. /\ stage[run[t]] = "made" /\ stage' = [stage EXCEPT ![run[t]] = "torn"]
        /\ pc[t] \in StartLabels \ {"mkdir"} /\ pc'[t] = "fill"
    BY <1>3 DEF CreateStarted, Progress, StartProgress, StartLabels
  <2>2. QED
    BY <1>1, <2>1, StartAlone
<1>4. CASE WriteStarted(t)
  <2>1. /\ stage[run[t]] = "torn" /\ stage' = [stage EXCEPT ![run[t]] = "started"]
        /\ pc[t] \in StartLabels \ {"mkdir"} /\ pc'[t] = "events"
    BY <1>4 DEF WriteStarted, Progress, StartProgress, StartLabels
  <2>2. QED
    BY <1>1, <2>1, StartAlone
<1>5. CASE MakeEventsRoot(t)
  <2>1. /\ stage[run[t]] = "started" /\ stage' = [stage EXCEPT ![run[t]] = "ready"]
        /\ pc[t] \in StartLabels \ {"mkdir"} /\ pc'[t] = "unlock"
    BY <1>5 DEF MakeEventsRoot, Progress, StartProgress, StartLabels
  <2>2. QED
    BY <1>1, <2>1, StartAlone
<1>6. QED
  BY <1>2, <1>3, <1>4, <1>5 DEF StartStep

\* The steps of an Append before it publishes: the scan and the allocation.
LEMMA ReadStable ==
    ASSUME OneGoroutinePerProcess, TypeInv, TypeInv', LockTable, Progress, NEW t \in Thread, ReadStep(t)
    PROVE  Progress'
<1> USE DEF TypeInv, TypeOK, Goto, locals, bounds, disk, Finish
<1>1. /\ InBody(t) /\ UNCHANGED <<stage, written, torn, final, op, run>>
      /\ \A u \in Thread : u # t => SameCall(u)
  BY DEF ReadStep, ReadKeys, Scan, CheckSequence, Allocate, SameCall, InBody, BodyLabels, StartLabels
<1>2. CASE pc'[t] \notin ProgressLabels
  BY <1>1, <1>2, ProgressFrame
<1>3. CASE Scan(t) /\ op[t] = "Append" /\ MayCommit(run[t]) /\ pc'[t] = "allocate"
  <2>1. AppendAt(t)'
    BY <1>1, <1>3 DEF AppendAt, Allocating, Holding, MayCommit, PublishLabels, EventLabels
  <2>2. CommittedRuns'
    BY <1>1 DEF Progress, CommittedRuns
  <2>3. QED
    BY <1>1, <1>3, <2>1, <2>2, AppendAlone
<1>4. CASE Allocate(t) /\ pc'[t] = "create"
  <2>1. /\ op[t] = "Append" /\ run[t] \in RunId /\ Allocating(t)
        /\ ticket'[t] = final["sequence"] + 1 /\ target'[t] = "sequence"
    BY <1>4 DEF Allocate, CallShape, CallShapeAt, Allocating, NextSequence
  <2>2. AppendAt(t)
    BY DEF Progress, AppendProgress
  <2>3. AppendAt(t)'
    BY <1>1, <1>4, <2>1, <2>2, StoreAssumption DEF AppendAt, Allocating, Holding, EventLabels
  <2>4. CommittedRuns'
    BY <1>1 DEF Progress, CommittedRuns
  <2>5. QED
    BY <1>1, <2>1, <2>3, <2>4, AppendAlone
<1>5. CASE ReadKeys(t) \/ CheckSequence(t)
  <2>1. pc'[t] \notin ProgressLabels
    BY <1>5 DEF ReadKeys, CheckSequence, ProgressLabels, StartLabels, PublishLabels, EventLabels
  <2>2. QED
    BY <1>2, <2>1
<1>6. ASSUME Scan(t) PROVE pc'[t] \notin ProgressLabels \/ (op[t] = "Append" /\ MayCommit(run[t]) /\ pc'[t] = "allocate")
  BY <1>6 DEF Scan, ProgressLabels, StartLabels, PublishLabels, EventLabels
<1>7. ASSUME Allocate(t) PROVE pc'[t] \notin ProgressLabels \/ pc'[t] = "create"
  BY <1>7 DEF Allocate, ProgressLabels, StartLabels, PublishLabels, EventLabels
<1>8. QED
  BY <1>2, <1>3, <1>4, <1>5, <1>6, <1>7 DEF ReadStep

\* Publishing project.json concerns no run.
LEMMA ProjectStable ==
    ASSUME TypeInv, TypeInv', Progress, NEW t \in Thread, PublishStep(t), op[t] = "Initialize"
    PROVE  Progress'
<1> USE DEF TypeInv, TypeOK, Goto, locals, bounds, disk, Finish
<1>1. target[t] = "project" /\ pc[t] \in PublishLabels
  BY DEF PublishStep, CreateTemporary, WriteTemporary, Rename, Link, RemoveTemporary, PublishLabels,
     CallShape, CallShapeAt
<1>2. UNCHANGED <<stage, written, torn, op, run, target, ticket>>
  BY DEF PublishStep, CreateTemporary, WriteTemporary, Rename, Link, RemoveTemporary
<1>3. \A x \in RunId \cup {"sequence"} : final'[x] = final[x]
  BY <1>1, StoreAssumption DEF PublishStep, CreateTemporary, WriteTemporary, Rename, Link,
     RemoveTemporary, Published
<1>4. \A u \in Thread : u # t => SameCall(u)
  BY <1>2 DEF PublishStep, CreateTemporary, WriteTemporary, Rename, Link, RemoveTemporary,
     AfterPublish, SameCall
<1>5. QED
  BY <1>2, <1>3, <1>4, ProgressFrame

\* Publishing the counter, then the evidence of a run: the counter moves
\* ahead of every committed run before the events are written, and the
\* evidence appears only when they are.
LEMMA PublishStable ==
    ASSUME OneGoroutinePerProcess, TypeInv, TypeInv', LockTable, Progress, NEW t \in Thread,
           PublishStep(t), op[t] = "Append"
    PROVE  Progress'
<1> USE DEF TypeInv, TypeOK, Goto, locals, bounds, disk, Finish
<1>1. /\ InBody(t) /\ run[t] \in RunId /\ target[t] \in {"sequence", run[t]}
      /\ UNCHANGED <<stage, written, torn, op, run, target, ticket>>
      /\ \A u \in Thread : u # t => SameCall(u)
  BY DEF PublishStep, CreateTemporary, WriteTemporary, Rename, Link, RemoveTemporary, AfterPublish,
     SameCall,
     InBody, BodyLabels, PublishLabels, CallShape, CallShapeAt
<1>2. run[t] # "sequence" /\ {"sequence", run[t]} \subseteq Published /\ Findings[run[t]] \in Nat
  BY <1>1, StoreAssumption DEF Published
<1>3. AppendAt(t) /\ CommittedRuns
  BY DEF Progress, AppendProgress
<1>4. AppendAt(t)' /\ CommittedRuns'
  <2>1. CASE UNCHANGED final /\ pc'[t] \notin ProgressLabels
    BY <1>1, <1>3, <2>1 DEF AppendAt, Allocating, Holding, CommittedRuns, ProgressLabels,
       PublishLabels, EventLabels
  <2>2. CASE CreateTemporary(t) /\ pc'[t] = "write"
    BY <1>1, <1>2, <1>3, <2>2 DEF CreateTemporary, AppendAt, Allocating, Holding, CommittedRuns,
       EventLabels
  <2>3. CASE WriteTemporary(t)
    BY <1>1, <1>2, <1>3, <2>3 DEF WriteTemporary, AppendAt, Allocating, Holding, CommittedRuns,
       EventLabels
  <2>4. CASE Rename(t)
    <3>1. /\ target[t] = "sequence" /\ pc[t] = "publish" /\ pc'[t] = "event" /\ cursor'[t] = 1
          /\ final' = [final EXCEPT !["sequence"] = ticket[t]]
      <4>1. target[t] = "sequence" /\ Payload(t) = ticket[t]
        BY <2>4 DEF Rename, Replaces, Payload
      <4>2. pc[t] = "publish" /\ final' = [final EXCEPT ![target[t]] = Payload(t)] /\ AfterPublish(t)
        BY <2>4 DEF Rename
      <4>3. pc'[t] = "event" /\ cursor'[t] = 1
        BY <4>1, <4>2 DEF AfterPublish
      <4>4. QED
        BY <4>1, <4>2, <4>3
    <3>2. ticket[t] = final["sequence"] + 1 /\ written[run[t]] = {} /\ torn[run[t]] = {}
      BY <1>1, <1>3, <3>1 DEF AppendAt, Allocating
    <3>3. \A r \in RunId : final'[r] = final[r] /\ final[r] < final'["sequence"] /\ final[r] \in Nat
      BY <1>2, <1>3, <3>1, <3>2, StoreAssumption DEF CommittedRuns, Published
    <3>4. final'["sequence"] = ticket[t] /\ final'["sequence"] \in Nat
      BY <1>2, <3>1, StoreAssumption
    <3>5. CommittedRuns'
      <4>1. \A r \in RunId : final'[r] <= final'["sequence"]
        BY <3>3, <3>4
      <4>2. QED
        BY <1>1, <1>3, <3>3, <4>1 DEF CommittedRuns
    <3>6. stage[run[t]] = "ready" /\ final[run[t]] = 0
      BY <1>1, <1>3, <3>1 DEF AppendAt, Allocating
    <3>7. AppendAt(t)'
      BY <1>1, <1>2, <3>1, <3>2, <3>3, <3>4, <3>6 DEF AppendAt, Allocating, Holding, EventLabels
    <3>8. QED
      BY <3>5, <3>7
  <2>5. CASE Link(t) /\ target[t] = "sequence" /\ pc'[t] = "remove"
    <3>1. pc[t] = "publish" /\ final' = [final EXCEPT !["sequence"] = ticket[t]]
      <4>1. pc[t] = "publish" /\ final' = [final EXCEPT ![target[t]] = Payload(t)]
        BY <2>5 DEF Link
      <4>2. QED
        BY <2>5, <4>1 DEF Payload
    <3>2. ticket[t] = final["sequence"] + 1 /\ written[run[t]] = {} /\ torn[run[t]] = {}
      BY <1>1, <1>3, <2>5, <3>1 DEF AppendAt, Allocating
    <3>3. \A r \in RunId : final'[r] = final[r] /\ final[r] < final'["sequence"] /\ final[r] \in Nat
      BY <1>2, <1>3, <3>1, <3>2, StoreAssumption DEF CommittedRuns, Published
    <3>4. final'["sequence"] = ticket[t] /\ final'["sequence"] \in Nat
      BY <1>2, <3>1, StoreAssumption
    <3>5. CommittedRuns'
      <4>1. \A r \in RunId : final'[r] <= final'["sequence"]
        BY <3>3, <3>4
      <4>2. QED
        BY <1>1, <1>3, <3>3, <4>1 DEF CommittedRuns
    <3>6. stage[run[t]] = "ready" /\ final[run[t]] = 0
      BY <1>1, <1>3, <2>5, <3>1 DEF AppendAt, Allocating
    <3>7. AppendAt(t)'
      BY <1>1, <1>2, <2>5, <3>1, <3>2, <3>3, <3>4, <3>6 DEF AppendAt, Allocating, Holding, EventLabels
    <3>8. QED
      BY <3>5, <3>7
  <2>6. CASE Link(t) /\ target[t] = run[t] /\ pc'[t] = "remove"
    <3>1. pc[t] = "publish" /\ final' = [final EXCEPT ![run[t]] = ticket[t]]
      <4>1. pc[t] = "publish" /\ final' = [final EXCEPT ![target[t]] = Payload(t)]
        BY <2>6 DEF Link
      <4>2. target[t] # "project"
        BY <1>1, <2>6, StoreAssumption
      <4>3. QED
        BY <2>6, <4>1, <4>2 DEF Payload
    <3>2. /\ ticket[t] = final["sequence"] /\ \A r \in RunId : final[r] < ticket[t]
          /\ stage[run[t]] = "ready" /\ written[run[t]] = 1 .. Findings[run[t]] /\ torn[run[t]] = {}
      BY <1>1, <1>3, <2>6, <3>1 DEF AppendAt, Holding
    <3>3. /\ final'["sequence"] = final["sequence"] /\ final'[run[t]] = ticket[t]
          /\ \A r \in RunId \ {run[t]} : final'[r] = final[r] /\ final[r] \in Nat
      BY <1>2, <3>1 DEF Published
    <3>4. CommittedRuns'
      <4>1. ticket[t] \in Nat
        BY StoreAssumption
      <4>2. \A r \in RunId : final'[r] <= final'["sequence"]
        BY ONLY <3>2, <3>3, <4>1
      <4>3. \A r, s \in RunId : final'[r] # 0 /\ final'[r] = final'[s] => r = s
        <5> SUFFICES ASSUME NEW r \in RunId, NEW s \in RunId, final'[r] # 0, final'[r] = final'[s]
                     PROVE  r = s
          OBVIOUS
        <5>1. CASE r # run[t] /\ s # run[t]
          BY <1>3, <3>3, <5>1 DEF CommittedRuns
        <5>2. CASE r = run[t] \/ s = run[t]
          BY <3>2, <3>3, <4>1, <5>2
        <5>3. QED
          BY <5>1, <5>2
      <4>4. \A r \in RunId : final'[r] # 0 =>
              stage'[r] = "ready" /\ written'[r] = 1 .. Findings[r] /\ torn'[r] = {}
        BY <1>1, <1>3, <3>2, <3>3 DEF CommittedRuns
      <4>5. QED
        BY <4>2, <4>3, <4>4 DEF CommittedRuns
    <3>5. AppendAt(t)'
      BY <1>1, <1>2, <2>6 DEF AppendAt, Allocating, Holding, EventLabels
    <3>6. QED
      BY <3>4, <3>5
  <2>7. CASE RemoveTemporary(t) /\ target[t] = "sequence"
    <3>1. pc[t] = "remove" /\ pc'[t] = "event" /\ cursor'[t] = 1 /\ UNCHANGED final
      BY <2>7 DEF RemoveTemporary, AfterPublish
    <3>2. AppendAt(t)'
      BY <1>1, <1>2, <1>3, <2>7, <3>1 DEF AppendAt, Allocating, Holding, EventLabels
    <3>3. CommittedRuns'
      BY <1>1, <1>3, <3>1 DEF CommittedRuns
    <3>4. QED
      BY <3>2, <3>3
  <2>8. CASE RemoveTemporary(t) /\ target[t] # "sequence"
    <3>1. UNCHANGED final /\ pc'[t] \notin ProgressLabels
      BY <2>8 DEF RemoveTemporary, AfterPublish, ProgressLabels, StartLabels, PublishLabels, EventLabels
    <3>2. QED
      BY <2>1, <3>1
  <2>9. ASSUME CreateTemporary(t) PROVE pc'[t] = "write" \/ (UNCHANGED final /\ pc'[t] \notin ProgressLabels)
    BY <2>9 DEF CreateTemporary, ProgressLabels, StartLabels, PublishLabels, EventLabels
  <2>10. ASSUME Link(t) PROVE pc'[t] = "remove" \/ (UNCHANGED final /\ pc'[t] \notin ProgressLabels)
    BY <2>10 DEF Link, ProgressLabels, StartLabels, PublishLabels, EventLabels
  <2>11. QED
    BY <1>1, <2>1, <2>2, <2>3, <2>4, <2>5, <2>6, <2>7, <2>8, <2>9, <2>10 DEF PublishStep
<1>5. QED
  BY <1>1, <1>4, AppendAlone

\* Writing the events, in order, each torn before it is whole.
LEMMA EventStable ==
    ASSUME OneGoroutinePerProcess, TypeInv, TypeInv', LockTable, Progress, NEW t \in Thread, EventStep(t)
    PROVE  Progress'
<1> USE DEF TypeInv, TypeOK, Goto, locals, bounds, disk, Finish
<1>1. /\ InBody(t) /\ op[t] = "Append" /\ run[t] \in RunId
      /\ UNCHANGED <<stage, final, op, run, ticket>>
      /\ \A u \in Thread : u # t => SameCall(u)
  BY DEF EventStep, CreateEvent, WriteEvent, EventsDone, SameCall, InBody, BodyLabels, EventLabels,
     CallShape, CallShapeAt
<1>2. AppendAt(t) /\ Holding(t) /\ CommittedRuns /\ final[run[t]] = 0
  BY <1>1 DEF Progress, AppendProgress, AppendAt, Holding, EventLabels, EventStep, CreateEvent,
     WriteEvent, EventsDone
<1>3. Findings[run[t]] \in Nat /\ run[t] \in Published /\ run[t] # "sequence" /\ cursor[t] \in Nat \ {0}
  BY <1>1, StoreAssumption DEF Published
<1>4. \A r \in RunId \ {run[t]} : written'[r] = written[r] /\ torn'[r] = torn[r]
  BY <1>1 DEF EventStep, CreateEvent, WriteEvent, EventsDone
<1>5. CommittedRuns'
  BY <1>1, <1>2, <1>4 DEF CommittedRuns
<1>6. AppendAt(t)'
  <2>1. CASE pc'[t] \notin ProgressLabels
    BY <1>1, <2>1 DEF AppendAt, Allocating, Holding, ProgressLabels, PublishLabels, EventLabels
  <2>2. CASE CreateEvent(t) /\ pc'[t] = "writeEvent"
    <3>1. torn' = [torn EXCEPT ![run[t]] = @ \cup {cursor[t]}] /\ UNCHANGED <<written, cursor, target>>
          /\ pc[t] = "event" /\ cursor[t] <= Findings[run[t]]
      BY <2>2 DEF CreateEvent
    <3>2. written[run[t]] = 1 .. (cursor[t] - 1) /\ torn'[run[t]] = {cursor[t]}
      BY <1>1, <1>2, <3>1 DEF AppendAt
    <3>3. QED
      BY <1>1, <1>2, <2>2, <3>1, <3>2 DEF AppendAt, Allocating, Holding, EventLabels
  <2>3. CASE WriteEvent(t)
    <3>1. pc[t] = "writeEvent" /\ pc'[t] = "event" /\ cursor'[t] = cursor[t] + 1
          /\ written'[run[t]] = written[run[t]] \cup {cursor[t]} /\ torn'[run[t]] = torn[run[t]] \ {cursor[t]}
      BY <1>1, <2>3 DEF WriteEvent
    <3>2. /\ cursor[t] <= Findings[run[t]] /\ torn[run[t]] = {cursor[t]}
          /\ written[run[t]] = 1 .. (cursor[t] - 1)
      BY <1>2, <3>1 DEF AppendAt
    <3>3. written'[run[t]] = 1 .. (cursor'[t] - 1) /\ torn'[run[t]] = {} /\ cursor'[t] <= Findings[run[t]] + 1
      BY ONLY <1>3, <3>1, <3>2
    <3>4. QED
      BY <1>1, <1>2, <3>1, <3>3 DEF AppendAt, Allocating, Holding, EventLabels
  <2>4. CASE EventsDone(t)
    <3>1. pc[t] = "event" /\ pc'[t] = "create" /\ target'[t] = run[t] /\ cursor[t] > Findings[run[t]]
          /\ UNCHANGED <<written, torn>>
      BY <2>4 DEF EventsDone
    <3>2. cursor[t] <= Findings[run[t]] + 1 /\ written[run[t]] = 1 .. (cursor[t] - 1) /\ torn[run[t]] = {}
      BY <1>2, <3>1 DEF AppendAt
    <3>3. written[run[t]] = 1 .. Findings[run[t]]
      <4>1. cursor[t] - 1 = Findings[run[t]]
        BY ONLY <1>3, <3>1, <3>2
      <4>2. QED
        BY <3>2, <4>1
    <3>4. QED
      BY <1>1, <1>2, <1>3, <3>1, <3>2, <3>3 DEF AppendAt, Allocating, Holding, EventLabels
  <2>5. ASSUME CreateEvent(t) PROVE pc'[t] = "writeEvent" \/ pc'[t] \notin ProgressLabels
    BY <2>5 DEF CreateEvent, ProgressLabels, StartLabels, PublishLabels, EventLabels
  <2>6. QED
    BY <2>1, <2>2, <2>3, <2>4, <2>5 DEF EventStep
<1>7. QED
  BY <1>1, <1>5, <1>6, AppendAlone

\* A failing system call leaves the committed runs alone; of what it may
\* have published, only the counter can be new.
LEMMA FaultStable ==
    ASSUME OneGoroutinePerProcess, TypeInv, TypeInv', LockTable, Progress, NEW t \in Thread, DiskFault(t)
    PROVE  Progress'
<1> USE DEF TypeInv, TypeOK, Goto, locals, bounds, disk, Finish
<1>1. /\ InBody(t) /\ pc'[t] = "unlock" /\ UNCHANGED <<written, op, run>>
      /\ \A u \in Thread : u # t => SameCall(u)
  BY DEF DiskFault, SameCall, InBody, BodyLabels, StartLabels, PublishLabels, EventLabels
<1>2. pc'[t] \notin ProgressLabels
  BY <1>1 DEF ProgressLabels, StartLabels, PublishLabels, EventLabels
<1>3. CASE UNCHANGED <<final, stage, torn>>
  BY <1>1, <1>2, <1>3, ProgressFrame
<1>4. ASSUME pc[t] \in {"events", "fill"}, UNCHANGED <<final, torn>>, NEW s, stage' = [stage EXCEPT ![run[t]] = s]
      PROVE  Progress'
  <2>1. op[t] = "Start" /\ stage[run[t]] \in {"torn", "started"} /\ pc[t] \in StartLabels \ {"mkdir"}
    BY <1>4 DEF CallShape, CallShapeAt, StartLabels, Progress, StartProgress
  <2>2. QED
    BY <1>1, <1>4, <2>1, StartAlone
<1>5. CASE pc[t] = "writeEvent" /\ UNCHANGED <<final, stage>> /\ torn' = [torn EXCEPT ![run[t]] = @ \ {cursor[t]}]
  <2>1. op[t] = "Append" /\ run[t] \in RunId /\ Holding(t)
    BY <1>5 DEF CallShape, CallShapeAt, Holding, EventLabels
  <2>2. final[run[t]] = 0
    BY <2>1 DEF Progress, AppendProgress, AppendAt
  <2>3. CommittedRuns'
    BY <1>1, <1>5, <2>2 DEF Progress, CommittedRuns
  <2>4. AppendAt(t)'
    BY <1>1 DEF AppendAt, Allocating, Holding, EventLabels
  <2>5. QED
    BY <1>1, <2>1, <2>3, <2>4, AppendAlone
<1>6. CASE /\ pc[t] = "publish" /\ Replaces(t) /\ UNCHANGED <<stage, torn>>
           /\ final' = [final EXCEPT ![target[t]] = Payload(t)]
  <2>1. op[t] = "Append" /\ run[t] \in RunId /\ target[t] = "sequence" /\ Allocating(t)
    BY <1>6, StoreAssumption DEF CallShape, CallShapeAt, Replaces, PublishLabels, Allocating
  <2>2. ticket[t] = final["sequence"] + 1 /\ final' = [final EXCEPT !["sequence"] = ticket[t]]
    BY <1>6, <2>1 DEF Progress, AppendProgress, AppendAt, Payload
  <2>3. /\ "sequence" \in Published /\ "sequence" \notin RunId /\ RunId \subseteq Published
        /\ final["sequence"] \in Nat /\ \A r \in RunId : final[r] \in Nat
    BY StoreAssumption DEF Published
  <2>4. final'["sequence"] = final["sequence"] + 1 /\ \A r \in RunId : final'[r] = final[r]
    BY <2>2, <2>3
  <2>5. CommittedRuns'
    BY <1>1, <1>6, <2>3, <2>4 DEF Progress, CommittedRuns
  <2>6. AppendAt(t)'
    BY <1>1 DEF AppendAt, Allocating, Holding, EventLabels
  <2>7. QED
    BY <1>1, <2>1, <2>5, <2>6, AppendAlone
<1>7. QED
  BY <1>3, <1>4, <1>5, <1>6 DEF DiskFault

\* Every step preserves what is known of the calls and of the runs.
LEMMA ProgressStable ==
    ASSUME OneGoroutinePerProcess, TypeInv, TypeInv', LockTable, Progress, [Next]_vars
    PROVE  Progress'
<1> USE DEF TypeInv, TypeOK, Goto, locals, bounds, disk
<1>1. ASSUME NEW t \in Thread, Call(t) \/ InitializeStep(t) \/ LockStep(t) \/ SetupFault(t) PROVE Progress'
  <2>1. UNCHANGED <<stage, written, torn>> /\ \A x \in RunId \cup {"sequence"} : final'[x] = final[x]
    BY <1>1 DEF Call, SetupFault, ReturnEarly, InitializeStep, MakeRoot, MakeRuns, OpenLock,
       CloseLock, Inspect, LockStep,
       AcquireMutex, AcquireByteLock, LockFileMissing, Release, Return
  <2>2. \A u \in Thread : u # t => SameCall(u)
    BY <1>1 DEF Call, SetupFault, ReturnEarly, InitializeStep, MakeRoot, MakeRuns, OpenLock,
       CloseLock, Inspect, Finish, LockStep,
       AcquireMutex, AcquireByteLock, LockFileMissing, Release, Return, Leave, SameCall
  <2>3. pc'[t] \notin ProgressLabels \/ op'[t] = "Initialize"
    BY <1>1 DEF Call, SetupFault, ReturnEarly, InitializeStep, MakeRoot, MakeRuns, OpenLock,
       CloseLock, Inspect, Finish, LockStep,
       AcquireMutex, AcquireByteLock, LockFileMissing, Release, Return, Leave, ProgressLabels,
       StartLabels,
       PublishLabels, EventLabels, CallShape, CallShapeAt
  <2>4. QED
    BY <2>1, <2>2, <2>3, ProgressFrame
<1>2. ASSUME NEW t \in Thread, StartStep(t) PROVE Progress'
  BY <1>2, StartStable
<1>3. ASSUME NEW t \in Thread, ReadStep(t) PROVE Progress'
  BY <1>3, ReadStable
<1>4. ASSUME NEW t \in Thread, PublishStep(t) PROVE Progress'
  <2>1. op[t] \in {"Initialize", "Append"}
    BY <1>4 DEF PublishStep, CreateTemporary, WriteTemporary, Rename, Link, RemoveTemporary,
       CallShape, CallShapeAt, PublishLabels
  <2>2. QED
    BY <1>4, <2>1, ProjectStable, PublishStable
<1>5. ASSUME NEW t \in Thread, EventStep(t) PROVE Progress'
  BY <1>5, EventStable
<1>6. ASSUME NEW t \in Thread, DiskFault(t) PROVE Progress'
  BY <1>6, FaultStable
<1>7. ASSUME NEW p \in Process, Crash(p) PROVE Progress'
  <2>1. UNCHANGED <<stage, written, torn, final>>
    BY <1>7 DEF Crash
  <2>2. \A u \in Thread : pc'[u] \in ProgressLabels => SameCall(u)
    BY <1>7 DEF Crash, Leave, SameCall, ProgressLabels, StartLabels, PublishLabels, EventLabels
  <2>3. QED
    BY <2>1, <2>2, ProgressFrame
<1>8. CASE UNCHANGED vars
  <2>1. UNCHANGED <<stage, written, torn, final>> /\ \A u \in Thread : SameCall(u)
    BY <1>8 DEF vars, SameCall
  <2>2. QED
    BY <2>1, ProgressFrame
<1>9. QED
  BY <1>1, <1>2, <1>3, <1>4, <1>5, <1>6, <1>7, <1>8 DEF Next, Step

-----------------------------------------------------------------------------
(* What the invariant gives. *)

\* The inductive invariant holds throughout.
LEMMA Inductive ==
    ASSUME OneGoroutinePerProcess
    PROVE  Spec => []IInv
<1>1. Init => IInv
  BY TypeInit, LockInit, ProgressInit DEF IInv
<1>2. IInv /\ [Next]_vars => IInv'
  BY TypeStep, LockStable, ProgressStable DEF IInv
<1>. QED
  BY <1>1, <1>2, PTL DEF Spec

\* SequencesUnique: allocateSequence never hands out a sequence that a
\* committed run has, and the counter never falls behind a committed run,
\* whatever is killed and whatever fails.
THEOREM UniqueSequences ==
    ASSUME OneGoroutinePerProcess
    PROVE  Spec => []SequencesUnique
<1>1. IInv => SequencesUnique
  BY DEF IInv, Progress, CommittedRuns, SequencesUnique, Committed
<1>. QED
  BY <1>1, Inductive, PTL

\* EvidenceImpliesBundle: an evidence.json is never visible above a bundle
\* of which a marker or an event is missing or torn, at any crash point.
THEOREM CompleteBundles ==
    ASSUME OneGoroutinePerProcess
    PROVE  Spec => []EvidenceImpliesBundle
<1>1. IInv => EvidenceImpliesBundle
  BY DEF IInv, Progress, CommittedRuns, EvidenceImpliesBundle, Committed, StartedMarker
<1>. QED
  BY <1>1, Inductive, PTL

\* A final name changes in three actions only.
LEMMA FinalFrame ==
    ASSUME [Next]_vars
    PROVE  UNCHANGED final \/ \E t \in Thread : Rename(t) \/ Link(t) \/ DiskFault(t)
<1> USE DEF disk, locals, bounds, Goto, Finish
<1>1. ASSUME NEW t \in Thread, Call(t) \/ InitializeStep(t) \/ SetupFault(t)
      PROVE  UNCHANGED final
  BY <1>1 DEF Call, SetupFault, ReturnEarly, InitializeStep, MakeRoot, MakeRuns, OpenLock, CloseLock, Inspect
<1>2. ASSUME NEW t \in Thread, LockStep(t) PROVE UNCHANGED final
  BY <1>2 DEF LockStep, AcquireMutex, AcquireByteLock, LockFileMissing, ReturnEarly, Release, Return, Leave
<1>3. ASSUME NEW t \in Thread, StartStep(t) PROVE UNCHANGED final
  BY <1>3 DEF StartStep, MakeRunRoot, CreateStarted, WriteStarted, MakeEventsRoot
<1>4. ASSUME NEW t \in Thread, ReadStep(t) \/ EventStep(t) PROVE UNCHANGED final
  BY <1>4 DEF ReadStep, ReadKeys, Scan, CheckSequence, Allocate, EventStep, CreateEvent, WriteEvent, EventsDone
<1>5. ASSUME NEW t \in Thread, CreateTemporary(t) \/ WriteTemporary(t) \/ RemoveTemporary(t)
      PROVE  UNCHANGED final
  BY <1>5 DEF CreateTemporary, WriteTemporary, RemoveTemporary, AfterPublish
<1>6. ASSUME NEW p \in Process, Crash(p) PROVE UNCHANGED final
  BY <1>6 DEF Crash, Leave
<1>7. CASE UNCHANGED vars
  BY <1>7 DEF vars
<1>8. QED
  BY <1>1, <1>2, <1>3, <1>4, <1>5, <1>6, <1>7 DEF Next, Step, PublishStep

\* A step of the store extends the log or leaves it alone, and touches no
\* file of a run that is in the log.
LEMMA StepKeepsCommitted ==
    ASSUME IInv, IInv', [Next]_vars, NEW r \in Committed
    PROVE  /\ final'[r] = final[r] /\ stage'[r] = stage[r]
           /\ written'[r] = written[r] /\ torn'[r] = torn[r]
<1> USE DEF disk, locals, bounds, Goto, Finish
<1>1. /\ r \in RunId /\ final[r] # 0 /\ r # "sequence" /\ stage[r] = "ready"
      /\ written[r] = 1 .. Findings[r] /\ torn[r] = {}
  BY StoreAssumption DEF Committed, IInv, Progress, CommittedRuns
<1>2. final \in [Published -> 0 .. MaxSequence] /\ stage \in [RunId -> Stage] /\ written \in [RunId -> SUBSET Nat]
      /\ torn \in [RunId -> SUBSET Nat]
  BY DEF IInv, TypeInv, TypeOK
<1>3. ASSUME NEW t \in Thread, Rename(t) \/ Link(t) PROVE final'[r] = final[r]
  <2>1. r \in Published
    BY <1>1 DEF Published
  <2>2. CASE Rename(t)
    BY <1>1, <1>2, <2>1, <2>2 DEF Rename, Replaces
  <2>3. CASE Link(t)
    BY <1>1, <1>2, <2>1, <2>3 DEF Link
  <2>4. QED
    BY <1>3, <2>2, <2>3
<1>4. ASSUME NEW t \in Thread, StartStep(t) PROVE stage'[r] = stage[r]
  BY <1>1, <1>2, <1>4 DEF StartStep, MakeRunRoot, CreateStarted, WriteStarted, MakeEventsRoot, IInv,
     Progress,
     StartProgress
<1>5. ASSUME NEW t \in Thread, CreateEvent(t) \/ WriteEvent(t) \/ (DiskFault(t) /\ pc[t] = "writeEvent")
      PROVE  run[t] # r
  <2>1. pc[t] \in EventLabels /\ op[t] = "Append"
    BY <1>5 DEF CreateEvent, WriteEvent, EventLabels, IInv, TypeInv, CallShape, CallShapeAt
  <2>2. final[run[t]] = 0
    BY <2>1 DEF IInv, Progress, AppendProgress, AppendAt, Holding
  <2>3. QED
    BY <1>1, <2>2
<1>6. ASSUME NEW t \in Thread, DiskFault(t) PROVE final'[r] = final[r] /\ stage'[r] = stage[r] /\ torn'[r] = torn[r]
  <2>1. pc[t] \in {"fill", "events"} => run[t] # r
    BY <1>1 DEF IInv, Progress, StartProgress
  <2>2. final'[r] = final[r]
    <3>1. r \in Published
      BY <1>1 DEF Published
    <3>2. QED
      BY <1>1, <1>2, <1>6, <3>1 DEF DiskFault, Replaces
  <2>3. stage'[r] = stage[r]
    BY <1>1, <1>2, <1>6, <2>1 DEF DiskFault
  <2>4. torn'[r] = torn[r]
    BY <1>1, <1>2, <1>5, <1>6 DEF DiskFault
  <2>5. QED
    BY <2>2, <2>3, <2>4
<1>7. UNCHANGED final \/ \E t \in Thread : Rename(t) \/ Link(t) \/ DiskFault(t)
  BY FinalFrame
<1>8. UNCHANGED stage \/ \E t \in Thread : StartStep(t) \/ DiskFault(t)
  BY DEF Next, Step, Call, SetupFault, ReturnEarly, InitializeStep, MakeRoot, MakeRuns, OpenLock,
     CloseLock, Inspect, LockStep,
     AcquireMutex, AcquireByteLock, LockFileMissing, Release, Return, ReadStep, ReadKeys, Scan,
     CheckSequence,
     Allocate, PublishStep, CreateTemporary, WriteTemporary, Rename, Link, RemoveTemporary, EventStep, CreateEvent,
     WriteEvent, EventsDone, Crash, vars
<1>9. UNCHANGED <<written, torn>> \/ \E t \in Thread : CreateEvent(t) \/ WriteEvent(t) \/ DiskFault(t)
  <2>1. ASSUME NEW t \in Thread, Call(t) \/ InitializeStep(t) \/ LockStep(t) \/ SetupFault(t)
        PROVE  UNCHANGED <<written, torn>>
    BY <2>1 DEF Call, SetupFault, ReturnEarly, InitializeStep, MakeRoot, MakeRuns, OpenLock,
       CloseLock, Inspect, LockStep,
       AcquireMutex, AcquireByteLock, LockFileMissing, Release, Return
  <2>2. ASSUME NEW t \in Thread, StartStep(t) \/ ReadStep(t) \/ PublishStep(t) PROVE UNCHANGED <<written, torn>>
    BY <2>2 DEF StartStep, MakeRunRoot, CreateStarted, WriteStarted, MakeEventsRoot, ReadStep,
       ReadKeys, Scan,
       CheckSequence, Allocate, PublishStep, CreateTemporary, WriteTemporary, Rename, Link, RemoveTemporary
  <2>3. ASSUME NEW t \in Thread, EventsDone(t) PROVE UNCHANGED <<written, torn>>
    BY <2>3 DEF EventsDone
  <2>4. ASSUME NEW p \in Process, Crash(p) PROVE UNCHANGED <<written, torn>>
    BY <2>4 DEF Crash
  <2>5. QED
    BY <2>1, <2>2, <2>3, <2>4 DEF Next, Step, EventStep, vars
<1>10. written'[r] = written[r] /\ torn'[r] = torn[r]
  <2>1. ASSUME NEW t \in Thread, CreateEvent(t) \/ WriteEvent(t) PROVE written'[r] = written[r] /\ torn'[r] = torn[r]
    BY <1>1, <1>2, <1>5, <2>1 DEF CreateEvent, WriteEvent
  <2>2. ASSUME NEW t \in Thread, DiskFault(t) PROVE UNCHANGED written
    BY <2>2 DEF DiskFault
  <2>3. QED
    BY <1>6, <1>9, <2>1, <2>2
<1>11. QED
  BY <1>3, <1>4, <1>6, <1>7, <1>8, <1>10

\* CommittedIsImmutable: nothing that is committed is ever changed.
THEOREM ImmutableCommits ==
    ASSUME OneGoroutinePerProcess
    PROVE  Spec => CommittedIsImmutable
<1>1. IInv /\ IInv' /\ [Next]_vars =>
        [\A r \in Committed :
           /\ final'[r] = final[r] /\ stage'[r] = stage[r]
           /\ written'[r] = written[r] /\ torn'[r] = torn[r]]_vars
  BY StepKeepsCommitted
<1>. QED
  BY <1>1, Inductive, PTL DEF Spec, CommittedIsImmutable

-----------------------------------------------------------------------------
(* The store implements the append-only log. *)

\* An empty project is an empty log.
LEMMA LogInit == Init => Log!Init
BY DEF Init, Log!Init, Published, Owed, Holding, EventLabels

\* While the counter stays, no goroutine comes to own a sequence.
LEMMA OwedFrame ==
    ASSUME IInv, [Next]_vars, final'["sequence"] = final["sequence"]
    PROVE  Owed' => Owed
<1> USE DEF disk, locals, bounds, Goto, Finish
<1> SUFFICES ASSUME NEW u \in Thread, op'[u] = "Append", Holding(u)'
             PROVE  op[u] = "Append" /\ Holding(u)
  BY DEF Owed
<1> DEFINE Same == pc'[u] = pc[u] /\ op'[u] = op[u] /\ run'[u] = run[u] /\ target'[u] = target[u]
<1>1. Same => op[u] = "Append" /\ Holding(u)
  BY DEF Holding
<1>2. /\ pc \in [Thread -> Label] /\ op \in [Thread -> Operation]
      /\ run \in [Thread -> RunId \cup {NoRun}] /\ target \in [Thread -> Published]
      /\ "sequence" \in Published
  BY DEF IInv, TypeInv, TypeOK, Published
<1>3. pc'[u] \in {"remove", "create", "write", "publish"} \cup EventLabels
  BY DEF Holding
<1>4. ASSUME NEW t \in Thread, Call(t) \/ InitializeStep(t) PROVE op[u] = "Append" /\ Holding(u)
  <2>1. u = t => FALSE
    BY <1>2, <1>3, <1>4 DEF Call, ReturnEarly, InitializeStep, MakeRoot, MakeRuns, OpenLock, CloseLock, Inspect,
       EventLabels, IInv, TypeInv, CallShape, CallShapeAt
  <2>2. u # t => Same
    BY <1>2, <1>4 DEF Call, ReturnEarly, InitializeStep, MakeRoot, MakeRuns, OpenLock, CloseLock, Inspect
  <2>3. QED
    BY <1>1, <2>1, <2>2
<1>5. ASSUME NEW t \in Thread, LockStep(t) \/ SetupFault(t) \/ DiskFault(t) PROVE op[u] = "Append" /\ Holding(u)
  <2>1. u = t => FALSE
    BY <1>2, <1>3, <1>5 DEF LockStep, AcquireMutex, AcquireByteLock, LockFileMissing, Release, Return, Leave,
       SetupFault, DiskFault, ReturnEarly, EventLabels
  <2>2. u # t => Same
    BY <1>2, <1>5 DEF LockStep, AcquireMutex, AcquireByteLock, LockFileMissing, Release, Return, Leave,
       SetupFault, DiskFault, ReturnEarly
  <2>3. QED
    BY <1>1, <2>1, <2>2
<1>6. ASSUME NEW t \in Thread, StartStep(t) \/ ReadKeys(t) \/ Scan(t) \/ CheckSequence(t)
      PROVE  op[u] = "Append" /\ Holding(u)
  <2>1. u = t => FALSE
    BY <1>2, <1>3, <1>6 DEF StartStep, MakeRunRoot, CreateStarted, WriteStarted, MakeEventsRoot, ReadKeys, Scan,
       CheckSequence, EventLabels
  <2>2. u # t => Same
    BY <1>2, <1>6 DEF StartStep, MakeRunRoot, CreateStarted, WriteStarted, MakeEventsRoot, ReadKeys, Scan,
       CheckSequence
  <2>3. QED
    BY <1>1, <2>1, <2>2
<1>7. ASSUME NEW t \in Thread, Allocate(t) PROVE op[u] = "Append" /\ Holding(u)
  <2>1. u # t => Same
    BY <1>2, <1>7 DEF Allocate
  <2>2. ASSUME u = t PROVE FALSE
    <3>1. run[t] \in RunId
      BY <1>7 DEF Allocate, IInv, TypeInv, CallShape, CallShapeAt
    <3>2. pc'[t] = "unlock" \/ (pc'[t] = "create" /\ target'[t] = "sequence" /\ run'[t] = run[t])
      BY <1>2, <1>7 DEF Allocate
    <3>3. QED
      BY <2>2, <3>1, <3>2, StoreAssumption DEF Holding, EventLabels
  <2>3. QED
    BY <1>1, <2>1, <2>2
<1>8. ASSUME NEW t \in Thread, CreateTemporary(t) \/ WriteTemporary(t) PROVE op[u] = "Append" /\ Holding(u)
  <2>1. UNCHANGED <<op, run, target>> /\ (u # t => pc'[u] = pc[u])
    BY <1>2, <1>8 DEF CreateTemporary, WriteTemporary
  <2>2. u = t => pc[u] \in {"create", "write"} /\ pc'[u] \in {"write", "publish", "unlock"}
    BY <1>2, <1>8 DEF CreateTemporary, WriteTemporary
  <2>3. QED
    BY <2>1, <2>2 DEF Holding, EventLabels
<1>9. ASSUME NEW t \in Thread, Rename(t) \/ Link(t) \/ RemoveTemporary(t) PROVE op[u] = "Append" /\ Holding(u)
  <2>1. UNCHANGED <<op, run, target>> /\ (u # t => pc'[u] = pc[u])
    BY <1>2, <1>9 DEF Rename, Link, RemoveTemporary, AfterPublish
  <2>2. ASSUME u = t, op[t] = "Append" PROVE Holding(u)
    <3>1. CASE RemoveTemporary(t)
      BY <1>2, <1>3, <2>1, <2>2, <3>1 DEF RemoveTemporary, AfterPublish, Holding, EventLabels
    <3>2. CASE (Rename(t) \/ Link(t)) /\ target[t] = "sequence"
      <4>1. ticket[t] = final["sequence"] + 1 /\ final["sequence"] \in Nat
        BY <1>2, <2>2, <3>2, StoreAssumption DEF Rename, Link, IInv, TypeInv, TypeOK, Progress, AppendProgress,
           AppendAt, Allocating
      <4>2. pc'[t] = "unlock" \/ final' = [final EXCEPT !["sequence"] = ticket[t]]
        BY <1>2, <3>2 DEF Rename, Link, Payload
      <4>3. pc'[t] = "unlock"
        BY <1>2, <4>1, <4>2 DEF IInv, TypeInv, TypeOK
      <4>4. QED
        BY <1>3, <2>2, <4>3 DEF EventLabels
    <3>3. CASE (Rename(t) \/ Link(t)) /\ target[t] # "sequence"
      BY <1>2, <1>3, <2>1, <2>2, <3>3 DEF Rename, Replaces, Link, Holding, EventLabels
    <3>4. QED
      BY <1>9, <3>1, <3>2, <3>3
  <2>3. QED
    BY <1>1, <2>1, <2>2
<1>10. ASSUME NEW t \in Thread, EventStep(t) PROVE op[u] = "Append" /\ Holding(u)
  <2>1. u # t => Same
    BY <1>2, <1>10 DEF EventStep, CreateEvent, WriteEvent, EventsDone
  <2>2. UNCHANGED op /\ pc[t] \in EventLabels
    BY <1>10 DEF EventStep, CreateEvent, WriteEvent, EventsDone, EventLabels
  <2>3. QED
    BY <1>1, <2>1, <2>2 DEF Holding
<1>11. ASSUME NEW p \in Process, Crash(p) PROVE op[u] = "Append" /\ Holding(u)
  <2>1. ProcessOf[u] = p => pc'[u] = "idle"
    BY <1>11 DEF Crash, Leave
  <2>2. ProcessOf[u] # p => Same
    BY <1>11 DEF Crash, Leave
  <2>3. QED
    BY <1>1, <1>3, <2>1, <2>2 DEF EventLabels
<1>12. CASE UNCHANGED vars
  BY <1>1, <1>12 DEF vars
<1>13. QED
  BY <1>4, <1>5, <1>6, <1>7, <1>8, <1>9, <1>10, <1>11, <1>12
  DEF Next, Step, ReadStep, PublishStep

\* Publishing the evidence of a run settles the sequence it was given: no
\* other Append is under way.
LEMMA CommitSettles ==
    ASSUME OneGoroutinePerProcess, IInv, NEW t \in Thread, Rename(t) \/ Link(t) \/ DiskFault(t),
           final' # final, op[t] = "Append", target[t] = run[t]
    PROVE  Owed /\ ~Owed'
<1> USE DEF disk, locals, bounds, Goto, Finish
<1>1. /\ pc \in [Thread -> Label] /\ run[t] \in RunId /\ target[t] # "sequence"
      /\ pc[t] = "publish" /\ pc'[t] \in {"remove", "unlock"}
      /\ UNCHANGED <<op, run, target>> /\ \A u \in Thread : u # t => pc'[u] = pc[u]
  <2>1. pc[t] = "publish"
    BY DEF Rename, Link, DiskFault
  <2>2. pc \in [Thread -> Label] /\ run[t] \in RunId /\ target[t] # "sequence"
    BY <2>1, StoreAssumption DEF IInv, TypeInv, TypeOK, CallShape, CallShapeAt
  <2>3. QED
    BY <2>1, <2>2 DEF Rename, Replaces, Link, DiskFault
<1>2. Owed
  BY <1>1 DEF Owed, Holding
<1>3. ASSUME NEW u \in Thread, op'[u] = "Append", Holding(u)' PROVE FALSE
  <2>1. CASE u = t
    BY <1>1, <1>3, <2>1 DEF Holding, EventLabels
  <2>2. CASE u # t
    <3>1. InBody(u) /\ Exclusive(u)
      BY <1>1, <1>3, <2>2 DEF Holding, InBody, BodyLabels, PublishLabels, EventLabels, Exclusive, ModeOf
    <3>2. InBody(t)
      BY <1>1 DEF InBody, BodyLabels, PublishLabels
    <3>3. QED
      BY <2>2, <3>1, <3>2, TableExcludes DEF LockExcludes, IInv
  <2>3. QED
    BY <2>1, <2>2
<1>4. QED
  BY <1>2, <1>3 DEF Owed

\* A step that moves neither the counter nor an evidence.json gives up a
\* sequence, or is none of the log's business.
LEMMA LogFrame ==
    ASSUME IInv, [Next]_vars, final'["sequence"] = final["sequence"],
           [r \in RunId |-> final'[r]] = [r \in RunId |-> final[r]]
    PROVE  [Log!Next]_(Log!vars)
<1>1. CASE Owed /\ ~Owed'
  BY <1>1 DEF Log!Next, Log!Abandon
<1>2. CASE Owed' = Owed
  BY <1>2 DEF Log!vars
<1>3. (Owed /\ ~Owed') \/ (Owed' = Owed)
  BY OwedFrame DEF Owed
<1>4. QED
  BY <1>1, <1>2, <1>3

\* Publishing the counter is the log's Allocate, publishing evidence its
\* Commit; every other step abandons a sequence or leaves the log alone.
LEMMA LogStep ==
    ASSUME OneGoroutinePerProcess, IInv, IInv', [Next]_vars
    PROVE  [Log!Next]_(Log!vars)
<1> USE DEF disk, locals, bounds, Goto, Finish
<1>1. final \in [Published -> 0 .. MaxSequence]
  BY DEF IInv, TypeInv, TypeOK
<1>2. ASSUME NEW t \in Thread, Rename(t) \/ Link(t) \/ DiskFault(t), final' # final
      PROVE  /\ pc[t] = "publish" /\ final' = [final EXCEPT ![target[t]] = Payload(t)]
             /\ \/ op[t] = "Initialize" /\ target[t] = "project"
                \/ op[t] = "Append" /\ run[t] \in RunId /\ target[t] \in {"sequence", run[t]}
  BY <1>2 DEF Rename, Link, DiskFault, IInv, TypeInv, CallShape, CallShapeAt, PublishLabels
<1>3. ASSUME NEW t \in Thread, Rename(t) \/ Link(t) \/ DiskFault(t), final' # final PROVE [Log!Next]_(Log!vars)
  <2>1. CASE target[t] = "project"
    <3>1. final'["sequence"] = final["sequence"] /\ \A r \in RunId : final'[r] = final[r]
      BY <1>1, <1>2, <1>3, <2>1, StoreAssumption DEF Published
    <3>2. QED
      BY <3>1, LogFrame
  <2>2. CASE op[t] = "Append" /\ target[t] = "sequence"
    <3>1. ticket[t] = final["sequence"] + 1 /\ ticket[t] \in 0 .. MaxSequence
      BY <1>2, <1>3, <2>2 DEF IInv, TypeInv, TypeOK, Progress, AppendProgress, AppendAt, Allocating
    <3>2. final' = [final EXCEPT !["sequence"] = final["sequence"] + 1]
      BY <1>2, <1>3, <2>2, <3>1 DEF Payload
    <3>3. final'["sequence"] = final["sequence"] + 1 /\ final["sequence"] < MaxSequence
      <4>1. "sequence" \in Published
        BY DEF Published
      <4>2. final'["sequence"] = final["sequence"] + 1 /\ final["sequence"] \in 0 .. MaxSequence
        BY <1>1, <3>2, <4>1
      <4>3. QED
        BY ONLY <3>1, <4>2, StoreAssumption
    <3>4. [r \in RunId |-> final'[r]] = [r \in RunId |-> final[r]]
      BY <1>1, <3>2, StoreAssumption DEF Published
    <3>5. Log!Allocate
      <4>1. Owed' \in BOOLEAN
        BY DEF Owed
      <4>2. QED
        BY <3>3, <3>4, <4>1 DEF Log!Allocate
    <3>6. QED
      BY <3>5 DEF Log!Next
  <2>3. ASSUME NEW r \in RunId, op[t] = "Append", run[t] = r, target[t] = r PROVE Log!Commit(r)
    <3>1. ticket[t] = final["sequence"] /\ final[r] = 0 /\ \A s \in RunId : final[s] < final["sequence"]
      BY <1>2, <1>3, <2>3 DEF IInv, Progress, AppendProgress, AppendAt, Holding
    <3>2. r # "project" /\ r # "sequence"
      BY StoreAssumption
    <3>3. final' = [final EXCEPT ![r] = final["sequence"]]
      BY <1>2, <1>3, <2>3, <3>1, <3>2 DEF Payload
    <3>4. final'["sequence"] = final["sequence"]
      BY <1>1, <3>2, <3>3 DEF Published
    <3>5. [s \in RunId |-> final'[s]] = [[s \in RunId |-> final[s]] EXCEPT ![r] = final["sequence"]]
      BY <1>1, <3>3 DEF Published
    <3>6. Owed /\ ~Owed'
      BY <1>3, <2>3, CommitSettles
    <3>7. QED
      BY <3>1, <3>4, <3>5, <3>6 DEF Log!Commit
  <2>4. CASE op[t] = "Append" /\ run[t] \in RunId /\ target[t] = run[t]
    <3>1. PICK r \in RunId : r = run[t]
      BY <2>4
    <3>2. Log!Commit(r)
      BY <2>3, <2>4, <3>1
    <3>3. QED
      BY <3>2 DEF Log!Next
  <2>5. QED
    BY <1>2, <1>3, <2>1, <2>2, <2>4
<1>4. UNCHANGED final \/ \E t \in Thread : Rename(t) \/ Link(t) \/ DiskFault(t)
  BY FinalFrame
<1>5. CASE UNCHANGED final
  BY <1>5, LogFrame
<1>6. QED
  BY <1>3, <1>4, <1>5

\* ImplementsLog: with one goroutine per process, every behaviour of the
\* store, its crashes and faults included, is one of the append-only log.
THEOREM Implementation ==
    ASSUME OneGoroutinePerProcess
    PROVE  Spec => ImplementsLog
<1>1. IInv /\ IInv' /\ [Next]_vars => [Log!Next]_(Log!vars)
  BY LogStep
<1>. QED
  BY <1>1, LogInit, Inductive, PTL DEF Spec, ImplementsLog, Log!Spec
=============================================================================
