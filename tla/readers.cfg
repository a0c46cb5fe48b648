CONSTANTS
  Nil = Nil
  s1 = s1
  o1 = o1
  d1 = d1
  a1 = a1
  c1 = c1
  b1 = b1
  Reader = {r1, r2}
  Calls = {"sources", "source_health", "current_source_generation", "coordinator_epoch", "decision", "outcome", "has_observation", "candidates", "observations", "decisions", "explain", "counterfactual", "compare", "replay", "timeline", "snapshot", "stats", "persist"}
  MaxCalls = 2
  Source = {s1}
  ObservationId = {o1}
  DecisionId = {d1}
  AttemptId = {a1}
  CandidateId = {c1}
  Boot = {b1}
  Unknown = Unknown
  ReliabilityClass = {Unknown}
  Configs <- MCConfigs
  Descriptors = {}
  Observations <- MCObservations
  Decisions <- MCDecisions
  Outcomes <- MCOutcomes
  Epochs = {}
  MaxRejected = 0
SPECIFICATION RSpec
SYMMETRY ReaderSymmetry
INVARIANTS
  ReadsAreCut
  SnapshotCountSound
  PersistLeavesItsCopy
CHECK_DEADLOCK FALSE
