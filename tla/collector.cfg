CONSTANTS
  Nil = Nil
  Absent = Absent
  Undecodable = Undecodable
  worker = worker
  other = other
  operator = operator
  s1 = s1
  o1 = o1
  o2 = o2
  d1 = d1
  a1 = a1
  c1 = c1
  b1 = b1
  Client = {worker, other, operator}
  Killable = {worker}
  Source = {s1}
  ObservationId = {o1, o2}
  DecisionId = {d1}
  AttemptId = {a1}
  CandidateId = {c1}
  Boot = {b1}
  Unknown = Unknown
  ReliabilityClass = {Unknown}
  Configs <- MCConfigs
  Scenarios <- MCScenarios
  Descriptors <- MCDescriptors
  Observations <- MCObservations
  Decisions <- MCDecisions
  Outcomes <- MCOutcomes
  Epochs <- MCEpochs
  MaxRejected = 4
SPECIFICATION CSpec
INVARIANTS
  AckedIsDurable
  RepliesMatch
  StatusIsFresh
PROPERTIES
  ShutdownPersists
  NobodyWaitsForever
CHECK_DEADLOCK FALSE
