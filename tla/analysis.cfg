CONSTANTS
  Huge = 4
  IntMax = 3
  Contents <- MCContents
  Changes <- MCChanges
  Workloads = {1, 2}
SPECIFICATION Spec
INVARIANTS
  RankingIsOrderFree
  RankingIsSound
  ReplayIsHonest
  ThrowsOnlyOnSigned
  ConfidenceIsHonest
  CounterfactualIsSound
  TimelineIsSettled
CHECK_DEADLOCK FALSE
