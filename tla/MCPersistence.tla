----------------------------- MODULE MCPersistence -----------------------------
(***************************************************************************)
(* Small instances of Persistence, with well-formed arguments only: what   *)
(* the engine refuses does not reach the trace.                            *)
(***************************************************************************)
EXTENDS Persistence, TLC

CONSTANTS
  Generations,           \* bound: the generations observations carry
  RegisteredGenerations  \* bound: the generations descriptors carry

Symmetry == Permutations(ObservationId) \cup Permutations(Boot)

MCConfigs ==
  { [ enforce_stale_source_generation |-> TRUE,
      enforce_stale_worker_boot |-> TRUE,
      enforce_stale_coordinator_epoch |-> TRUE ] }

MCDescriptors == [ source_id : Source, generation : RegisteredGenerations ]

MCObservations ==
  [ observation_id : ObservationId,
    source_id : Source,
    source_generation : Generations,
    observation_generation : {1},
    worker_boot : Boot,
    coordinator_epoch : {0},
    fields : {"finite"},
    lifecycle : {"Collected"} ]

MCDecisions ==
  [ decision_id : DecisionId,
    attempt_id : AttemptId,
    placement_generation : {1},
    selected_candidate : CandidateId,
    candidate_set : { [candidates |-> {}, complete |-> FALSE, reconstructed |-> TRUE] },
    values : {"finite"},
    coordinator_epoch : {0} ]

MCOutcomes ==
  [ decision_id : DecisionId, attempt_id : {Nil}, disposition : {"Succeeded"} ]
================================================================================
