SPECIFICATION FairSpec
CONSTANTS
  s1 = s1
  s2 = s2
  t1 = t1
  t2 = t2
  Source = {s1, s2}
  TestFile = {t1, t2}
  Candidates = 2
  SourceOf <- SharedSource
  MaxMishaps = 2
INVARIANT TypeOK
INVARIANT OneMutantAtATime
INVARIANT SourcesRestored
INVARIANT NothingIsLeft
PROPERTY VerdictIsEarned
PROPERTY BridgeEnds
CHECK_DEADLOCK FALSE
