CONSTANTS
  Nil = Nil
  Source = {s1, s2}
  ObservationId = {i1, i2, i3}
  DecisionId = {i1, i2, i3}
  AttemptId = {b1, b2}
  CandidateId = {c1}
  Boot = {b1, b2}
  Boots = {b1, b2, Nil}
  Unknown = Unknown
  ReliabilityClass = {Unknown}
  Configs <- MCDefaultConfigs
  Descriptors <- MCDescriptors
  Observations <- MCObservations
  Decisions <- MCDecisions
  Outcomes <- MCOutcomes
  Epochs = {0, 2}
  MaxRejected = 1
  MaxGeneration = 2
SPECIFICATION OneKindSpec
SYMMETRY Symmetry
INVARIANTS
  TypeOK
  IndexesExact
  SourceOrder
  BootFence
  AuthorityCoversLog
  AttemptUnique
  OutcomeLinked
  EventsCountEvidence
PROPERTIES
  AuthorityMonotone
  AdmittedIsCurrent
  EvidenceAppendOnly
  ImplementsLedger
