SPECIFICATION FairSpec
CONSTANTS
  File = {f1, f2}
  Commands <- AllCommands
  MaxEdits = 2
  None = None
INVARIANT TypeOK
INVARIANT PassMeansEvidence
INVARIANT EvidenceErrorHasCause
INVARIANT MutationReportIsCurrent
INVARIANT NamedScopeHolds
INVARIANT BackendOnlyInsideRun
PROPERTY StartedRunConcludes
CHECK_DEADLOCK FALSE
