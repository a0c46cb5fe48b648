CONSTANTS
  Nil = Nil
  Source = {s1, s2}
  ObservationId = {o1, o2, o3}
  DecisionId = {}
  AttemptId = {}
  CandidateId = {}
  Boot = {b1, b2}
  Boots = {b1, b2, Nil}
  Unknown = Unknown
  ReliabilityClass = {Unknown}
  Configs <- MCDefaultConfigs
  Descriptors <- MCDescriptors
  Observations <- MCWellFormed
  Decisions = {}
  Outcomes = {}
  Epochs = {0, 2}
  MaxRejected = 1
  MaxGeneration = 2
SPECIFICATION Spec
SYMMETRY Symmetry
PROPERTY RefusalKeepsAuthority
