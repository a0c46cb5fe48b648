CONSTANTS
  Nil = Nil
  Absent = Absent
  Source = {s1}
  ObservationId = {o1, o2}
  DecisionId = {d1}
  AttemptId = {a1}
  CandidateId = {c1}
  Boot = {b1}
  Unknown = Unknown
  ReliabilityClass = {Unknown}
  Configs <- MCConfigs
  Descriptors <- MCDescriptors
  Observations <- MCObservations
  Decisions <- MCDecisions
  Outcomes <- MCOutcomes
  Epochs = {1}
  MaxRejected = 0
  Generations = {1, 2}
  RegisteredGenerations = {1}
  MaxPersists = 3
SPECIFICATION PSpec
SYMMETRY Symmetry
INVARIANTS
  PTypeOK
  IndexesExact
  SourceOrder
  RecoveryExact
  GenerationCoversLog
  TraceSomewhere
