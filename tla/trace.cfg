CONSTANTS
  Shapes <- MCShapes
  CutShapes <- MCCutShapes
  Bodies <- MCBodies
  Garbage <- MCGarbage
  kMaxBody = 6
  MaxRecords = 2
SPECIFICATION TraceSpec
INVARIANTS
  RoundTrip
  EveryMember
  DigestStable
  LoadedWasWritten
  DamageStops
CHECK_DEADLOCK FALSE
