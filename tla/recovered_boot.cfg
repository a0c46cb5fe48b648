CONSTANTS
  Nil = Nil
  Absent = Absent
  Source = {s1}
  ObservationId = {o1, o2}
  DecisionId = {}
  AttemptId = {a1}
  CandidateId = {c1}
  Boot = {b1, b2}
  Unknown = Unknown
  ReliabilityClass = {Unknown}
  Configs <- MCConfigs
  Descriptors <- MCDescriptors
  Observations <- MCObservations
  Decisions <- MCDecisions
  Outcomes <- MCOutcomes
  Epochs = {1}
  MaxRejected = 0
  Generations = {1, 2}
  RegisteredGenerations = {1}
  MaxPersists = 2
SPECIFICATION PSpec
SYMMETRY Symmetry
INVARIANT BootFence
