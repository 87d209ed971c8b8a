SPECIFICATION Spec
CONSTANTS
    p1 = p1
    p2 = p2
    t1 = t1
    t2 = t2
    t3 = t3
    r1 = r1
    r2 = r2
    r3 = r3
    NoRun = NoRun
    Process = {p1, p2}
    Thread = {t1, t2, t3}
    ProcessOf <- SharedProcess
    RunId = {r1, r2, r3}
    Findings <- NoFindings
    Calls <- WriterCalls
    ReadLimit = 3
    MaxSequence = 3
    MaxCrashes = 0
    MaxFaults = 0
INVARIANTS
    SequencesUnique
