SPECIFICATION Spec
CONSTANTS
  top = top
  sub = sub
  File = {1, 2, 3}
  Directory = {top, sub}
  DirectoryOf <- Placed
  Original = {1, 2}
  MaxEdits = 2
INVARIANT TypeOK
INVARIANT SnapshotIsOneMoment
INVARIANT ChangesAreNoticed
INVARIANT ReceiptNamesTheInput
INVARIANT FailuresAreTold
CHECK_DEADLOCK FALSE
