SPECIFICATION FairSpec
CONSTANTS
  Candidates = 2
  RunnerStatus = {"passed", "assertionFailure", "timedOut"}
  MaxEdits = 1
INVARIANT VerdictIsEarned
INVARIANT ReportIsCurrent
INVARIANT LimitsAreToldApart
PROPERTY RunEnds
CHECK_DEADLOCK FALSE
