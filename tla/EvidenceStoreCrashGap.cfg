SPECIFICATION Spec
CONSTANTS
    p1 = p1
    p2 = p2
    t1 = t1
    t2 = t2
    t3 = t3
    r1 = r1
    r2 = r2
    r3 = r3
    NoRun = NoRun
    Process = {p1, p2}
    Thread = {t1, t2}
    ProcessOf <- OwnProcess
    RunId = {r1, r2}
    Findings <- OneFinding
    Calls <- EveryCall
    ReadLimit = 3
    MaxSequence = 2
    MaxCrashes = 1
    MaxFaults = 0
INVARIANTS
    CrashLeavesAGap
