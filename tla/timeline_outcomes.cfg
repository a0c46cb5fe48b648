CONSTANTS
  Huge = 4
  IntMax = 3
  Contents <- MCConcludedContents
  Changes = {}
  Workloads = {1}
SPECIFICATION Spec
INVARIANT OutcomesAreListed
CHECK_DEADLOCK FALSE
