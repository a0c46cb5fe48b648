CONSTANTS
  Huge = 4
  IntMax = 3
  Contents <- MCUnsettledContents
  Changes = {}
  Workloads = {1}
SPECIFICATION Spec
INVARIANT TimelineOrderIsDocumented
CHECK_DEADLOCK FALSE
