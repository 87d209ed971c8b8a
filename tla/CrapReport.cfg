SPECIFICATION Spec
CONSTANTS
  Path = {1, 2}
  Outside = 9
  Missing = Missing
  Broken = Broken
  Source <- AnySource
  Profile <- AnyProfile
  SafeInteger = 3
  MaxEdits = 1
  MaxLines = 3
INVARIANT CountedOnce
INVARIANT PassIsEarned
INVARIANT WorstFirst
CHECK_DEADLOCK FALSE
