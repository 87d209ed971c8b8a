SPECIFICATION Spec
CONSTANTS
  File = {f1}
  Commands <- CheckOnly
  MaxEdits = 0
  None = None
INVARIANT FailedRunIsRecorded
CHECK_DEADLOCK FALSE
