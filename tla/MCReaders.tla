------------------------------- MODULE MCReaders -------------------------------
(***************************************************************************)
(* Small instances of Readers: two threads over an engine to which an      *)
(* observation, a decision and its outcome are written.                    *)
(***************************************************************************)
EXTENDS Readers, TLC

CONSTANTS s1, o1, d1, a1, c1, b1

MCConfigs ==
  { [ enforce_stale_source_generation |-> TRUE,
      enforce_stale_worker_boot |-> TRUE,
      enforce_stale_coordinator_epoch |-> TRUE ] }

MCObservations ==
  { [ observation_id |-> o1, source_id |-> s1, source_generation |-> 1,
      observation_generation |-> 1, worker_boot |-> b1, coordinator_epoch |-> 1,
      fields |-> "finite", lifecycle |-> "Collected" ] }

MCDecisions ==
  { [ decision_id |-> d1, attempt_id |-> a1, placement_generation |-> 1,
      selected_candidate |-> c1,
      candidate_set |-> [candidates |-> {c1}, complete |-> TRUE, reconstructed |-> FALSE],
      values |-> "finite", coordinator_epoch |-> 1 ] }

MCOutcomes == { [decision_id |-> d1, attempt_id |-> a1, disposition |-> "Succeeded"] }

ReaderSymmetry == Permutations(Reader)
================================================================================
