-------------------------------- MODULE Layouts --------------------------------
(***************************************************************************)
(* What the functions of src/serialize.cpp write and read, in which order, *)
(* and which members each struct has.                                      *)
(*                                                                         *)
(* A layout is the order of the calls of one write_ or read_ function, so  *)
(* a writer and a reader that disagree, or that both leave out a member,   *)
(* show.  The calls of a function that is called for a member (the         *)
(* provenance of a measurement) stand in its place.                        *)
(***************************************************************************)
EXTENDS Integers, Sequences

(***************************************************************************)
(* The calls: a member and how it is written.  An integer or a string is   *)
(* one token, whose width is kept.                                         *)
(***************************************************************************)

Each(c, names) == [i \in 1..Len(names) |-> [name |-> <<names[i]>>, as |-> c, of |-> ""]]
U8(names) == Each("w1", names)    \* u8, boolean, enumerations
U32(names) == Each("w4", names)
U64(names) == Each("w8", names)   \* u64, i64 and f64 have the same eight bytes
Str(names) == Each("str", names)
Val(name) == << [name |-> <<name>>, as |-> "Value", of |-> ""] >>
Vec(name, s) == << [name |-> <<name>>, as |-> "vec", of |-> s] >>
Opt(name, s) == << [name |-> <<name>>, as |-> "opt", of |-> s] >>

\* A member that is a struct: the calls of its own function.
In(name, layout) ==
  [i \in 1..Len(layout) |->
     [name |-> <<name>> \o layout[i].name, as |-> layout[i].as, of |-> layout[i].of]]

write_provenance ==
  U64(<<"source_id", "source_generation">>)
  \o U8(<<"source_type", "method", "reliability", "classification">>)
  \o U64(<<"timestamp.wall", "timestamp.mono", "timestamp.uncertainty_ns",
           "worker_boot", "coordinator_epoch">>)
  \o Str(<<"collection_error", "normalized_field", "raw_field">>)

\* Mutant: the worker boot and the coordinator epoch are read in the wrong order.
read_provenance_swapped ==
  U64(<<"source_id", "source_generation">>)
  \o U8(<<"source_type", "method", "reliability", "classification">>)
  \o U64(<<"timestamp.wall", "timestamp.mono", "timestamp.uncertainty_ns",
           "coordinator_epoch", "worker_boot">>)
  \o Str(<<"collection_error", "normalized_field", "raw_field">>)

read_provenance ==
  U64(<<"source_id", "source_generation">>)
  \o U8(<<"source_type", "method", "reliability", "classification">>)
  \o U64(<<"timestamp.wall", "timestamp.mono", "timestamp.uncertainty_ns",
           "worker_boot", "coordinator_epoch">>)
  \o Str(<<"collection_error", "normalized_field", "raw_field">>)

write_confidence == U8(<<"cls">>) \o U64(<<"numerator", "denominator">>) \o Str(<<"derivation">>)
read_confidence == U8(<<"cls">>) \o U64(<<"numerator", "denominator">>) \o Str(<<"derivation">>)

write_measurement ==
  Str(<<"normalized_field", "raw_field">>) \o Val("value")
  \o U8(<<"classification">>) \o In("provenance", write_provenance)
read_measurement ==
  Str(<<"normalized_field", "raw_field">>) \o Val("value")
  \o U8(<<"classification">>) \o In("provenance", read_provenance)

write_source_descriptor ==
  U64(<<"source_id", "generation">>) \o U8(<<"type">>) \o Str(<<"name">>)
  \o U8(<<"reliability">>) \o Str(<<"endpoint">>)
  \o U64(<<"last_seen.wall", "last_seen.mono">>) \o U8(<<"synthetic">>)

\* Mutant: the last member is written and never read.
read_source_descriptor_short ==
  U64(<<"source_id", "generation">>) \o U8(<<"type">>) \o Str(<<"name">>)
  \o U8(<<"reliability">>) \o Str(<<"endpoint">>)
  \o U64(<<"last_seen.wall", "last_seen.mono">>)

read_source_descriptor ==
  U64(<<"source_id", "generation">>) \o U8(<<"type">>) \o Str(<<"name">>)
  \o U8(<<"reliability">>) \o Str(<<"endpoint">>)
  \o U64(<<"last_seen.wall", "last_seen.mono">>) \o U8(<<"synthetic">>)

write_queue_descriptor ==
  Str(<<"queue_name">>) \o U8(<<"state">>) \o U32(<<"depth">>)
  \o U64(<<"oldest_age_ns", "head_wait_ns", "expected_wait_ns">>) \o U32(<<"capacity">>)
read_queue_descriptor ==
  Str(<<"queue_name">>) \o U8(<<"state">>) \o U32(<<"depth">>)
  \o U64(<<"oldest_age_ns", "head_wait_ns", "expected_wait_ns">>) \o U32(<<"capacity">>)

write_memory_descriptor ==
  U64(<<"total_bytes", "free_bytes", "used_bytes">>) \o U8(<<"pressure">>)
  \o U64(<<"pressure_ratio">>)
read_memory_descriptor ==
  U64(<<"total_bytes", "free_bytes", "used_bytes">>) \o U8(<<"pressure">>)
  \o U64(<<"pressure_ratio">>)

write_locality_descriptor ==
  U8(<<"type">>) \o Str(<<"state_key">>) \o U64(<<"device_id", "node_id">>)
  \o U8(<<"present">>) \o U64(<<"benefit">>)
read_locality_descriptor ==
  U8(<<"type">>) \o Str(<<"state_key">>) \o U64(<<"device_id", "node_id">>)
  \o U8(<<"present">>) \o U64(<<"benefit">>)

write_constraint ==
  U8(<<"cls", "kind">>) \o Str(<<"field">>) \o Val("value") \o Str(<<"requirement_text">>)
  \o U8(<<"classification">>) \o In("provenance", write_provenance)
read_constraint ==
  U8(<<"cls", "kind">>) \o Str(<<"field">>) \o Val("value") \o Str(<<"requirement_text">>)
  \o U8(<<"classification">>) \o In("provenance", read_provenance)

write_cost_component ==
  U8(<<"kind">>) \o Str(<<"label">>) \o U64(<<"cost", "policy_weight">>)
  \o U8(<<"classification">>) \o In("provenance", write_provenance) \o Str(<<"detail">>)
read_cost_component ==
  U8(<<"kind">>) \o Str(<<"label">>) \o U64(<<"cost", "policy_weight">>)
  \o U8(<<"classification">>) \o In("provenance", read_provenance) \o Str(<<"detail">>)

write_score_component ==
  U8(<<"kind">>) \o Str(<<"label">>) \o U64(<<"value">>)
  \o U8(<<"classification">>) \o In("provenance", write_provenance)
read_score_component ==
  U8(<<"kind">>) \o Str(<<"label">>) \o U64(<<"value">>)
  \o U8(<<"classification">>) \o In("provenance", read_provenance)

write_candidate ==
  U64(<<"candidate_id", "node_id", "device_id", "generation">>) \o Str(<<"architecture">>)
  \o Vec("capabilities", "str") \o U8(<<"health">>)
  \o In("memory", write_memory_descriptor) \o In("queue", write_queue_descriptor)
  \o Vec("locality", "LocalityDescriptor") \o Vec("costs", "PlacementCostComponent")
  \o U64(<<"total_cost">>) \o Opt("rejection_reason_text", "str") \o Opt("rejection_reason", "w1")
read_candidate ==
  U64(<<"candidate_id", "node_id", "device_id", "generation">>) \o Str(<<"architecture">>)
  \o Vec("capabilities", "str") \o U8(<<"health">>)
  \o In("memory", read_memory_descriptor) \o In("queue", read_queue_descriptor)
  \o Vec("locality", "LocalityDescriptor") \o Vec("costs", "PlacementCostComponent")
  \o U64(<<"total_cost">>) \o Opt("rejection_reason_text", "str") \o Opt("rejection_reason", "w1")

write_candidate_set ==
  Vec("candidates", "PlacementCandidate") \o U8(<<"complete", "reconstructed", "classification">>)
  \o Vec("source_chain", "Provenance") \o Vec("missing_fields", "str")
read_candidate_set ==
  Vec("candidates", "PlacementCandidate") \o U8(<<"complete", "reconstructed", "classification">>)
  \o Vec("source_chain", "Provenance") \o Vec("missing_fields", "str")

write_outcome ==
  U64(<<"decision_id", "attempt_id">>) \o U8(<<"disposition">>)
  \o U64(<<"start_delay_ns", "duration_ns", "predicted_duration_ns", "memory_used_bytes">>)
  \o Str(<<"error">>) \o U8(<<"classification">>) \o In("provenance", write_provenance)
read_outcome ==
  U64(<<"decision_id", "attempt_id">>) \o U8(<<"disposition">>)
  \o U64(<<"start_delay_ns", "duration_ns", "predicted_duration_ns", "memory_used_bytes">>)
  \o Str(<<"error">>) \o U8(<<"classification">>) \o In("provenance", read_provenance)

write_observation ==
  U64(<<"observation_id", "observation_generation", "revision", "source_id", "source_generation">>)
  \o U8(<<"source_type">>)
  \o U64(<<"timestamp.wall", "timestamp.mono", "timestamp.uncertainty_ns", "worker_boot",
           "coordinator_epoch", "workload_id", "request_id", "tenant_id", "namespace_id",
           "node_id", "device_id", "decision_id", "attempt_id", "epoch">>)
  \o U8(<<"lifecycle">>) \o Vec("fields", "Measurement") \o U8(<<"reliability", "synthetic">>)
read_observation ==
  U64(<<"observation_id", "observation_generation", "revision", "source_id", "source_generation">>)
  \o U8(<<"source_type">>)
  \o U64(<<"timestamp.wall", "timestamp.mono", "timestamp.uncertainty_ns", "worker_boot",
           "coordinator_epoch", "workload_id", "request_id", "tenant_id", "namespace_id",
           "node_id", "device_id", "decision_id", "attempt_id", "epoch">>)
  \o U8(<<"lifecycle">>) \o Vec("fields", "Measurement") \o U8(<<"reliability", "synthetic">>)

\* The map of rejection reasons is written as its entries in key order.
write_decision ==
  U64(<<"decision_id", "attempt_id", "placement_generation", "observation_generation", "epoch",
        "policy_generation", "workload_id", "request_id", "tenant_id", "namespace_id",
        "node_id", "device_id">>)
  \o In("candidate_set", write_candidate_set) \o U64(<<"selected_candidate">>)
  \o Vec("rejected_candidates", "w8") \o Vec("hard_constraints", "PlacementConstraint")
  \o Vec("soft_preferences", "PlacementConstraint")
  \o Vec("score_components", "PlacementScoreComponent")
  \o Vec("cost_components", "PlacementCostComponent")
  \o U8(<<"tie_break">>) \o Str(<<"tie_break_reason", "selected_reason">>)
  \o Vec("rejection_reasons", "RejectionReasonEntry") \o In("confidence", write_confidence)
  \o U8(<<"classification", "determinism">>) \o In("provenance", write_provenance)
  \o Opt("outcome", "PlacementOutcome") \o U8(<<"lifecycle">>)
read_decision ==
  U64(<<"decision_id", "attempt_id", "placement_generation", "observation_generation", "epoch",
        "policy_generation", "workload_id", "request_id", "tenant_id", "namespace_id",
        "node_id", "device_id">>)
  \o In("candidate_set", read_candidate_set) \o U64(<<"selected_candidate">>)
  \o Vec("rejected_candidates", "w8") \o Vec("hard_constraints", "PlacementConstraint")
  \o Vec("soft_preferences", "PlacementConstraint")
  \o Vec("score_components", "PlacementScoreComponent")
  \o Vec("cost_components", "PlacementCostComponent")
  \o U8(<<"tie_break">>) \o Str(<<"tie_break_reason", "selected_reason">>)
  \o Vec("rejection_reasons", "RejectionReasonEntry") \o In("confidence", read_confidence)
  \o U8(<<"classification", "determinism">>) \o In("provenance", read_provenance)
  \o Opt("outcome", "PlacementOutcome") \o U8(<<"lifecycle">>)

write_rejection_reason == U64(<<"candidate_id">>) \o Str(<<"text">>)
read_rejection_reason == U64(<<"candidate_id">>) \o Str(<<"text">>)

write_epoch == U64(<<"epoch">>)
read_epoch == U64(<<"epoch">>)

\* What follows the kind byte of a Value; nothing does for None, kind 0.
write_value(k) ==
  CASE k \in {1, 2, 3} -> U64(<<"content">>) [] k = 4 -> U8(<<"content">>)
    [] k = 5 -> Str(<<"content">>)
read_value(k) ==
  CASE k \in {1, 2, 3} -> U64(<<"content">>) [] k = 4 -> U8(<<"content">>)
    [] k = 5 -> Str(<<"content">>)

(***************************************************************************)
(* The members of each struct (core/provenance.hpp, core/model.hpp).       *)
(***************************************************************************)

Named(names) == {<<n>> : n \in names}
Inside(name, members) == {<<name>> \o m : m \in members}

ClaimMembers ==
  [ Provenance |-> Named(
      {"source_id", "source_generation", "source_type", "method", "reliability",
       "classification", "uncertainty_ns", "worker_boot", "coordinator_epoch",
       "collection_error", "normalized_field", "raw_field",
       "timestamp.wall", "timestamp.mono", "timestamp.uncertainty_ns"}),
    Confidence |-> Named({"cls", "numerator", "denominator", "derivation"}) ]

Claim == Inside("provenance", ClaimMembers.Provenance)

ReportMembers ==
  [ Measurement |->
      Named({"normalized_field", "raw_field", "value", "classification"}) \cup Claim,
    SourceDescriptor |-> Named(
      {"source_id", "generation", "type", "name", "reliability", "endpoint", "synthetic",
       "last_seen.wall", "last_seen.mono", "last_seen.uncertainty_ns"}) ]

DescriptorMembers ==
  [ QueueDescriptor |-> Named(
      {"queue_name", "state", "depth", "oldest_age_ns", "head_wait_ns",
       "expected_wait_ns", "capacity"}),
    MemoryDescriptor |-> Named(
      {"total_bytes", "free_bytes", "used_bytes", "pressure", "pressure_ratio"}),
    LocalityDescriptor |-> Named(
      {"type", "state_key", "device_id", "node_id", "present", "benefit"}) ]

EvidenceMembers ==
  [ PlacementConstraint |->
      Named({"cls", "kind", "field", "value", "requirement_text", "classification"}) \cup Claim,
    PlacementCostComponent |->
      Named({"kind", "label", "cost", "policy_weight", "classification", "detail"}) \cup Claim,
    PlacementScoreComponent |-> Named({"kind", "label", "value", "classification"}) \cup Claim,
    PlacementCandidate |->
      Named({"candidate_id", "node_id", "device_id", "generation", "architecture",
             "capabilities", "health", "locality", "costs", "total_cost",
             "rejection_reason_text", "rejection_reason"})
      \cup Inside("memory", DescriptorMembers.MemoryDescriptor)
      \cup Inside("queue", DescriptorMembers.QueueDescriptor),
    CandidateSet |-> Named(
      {"candidates", "complete", "reconstructed", "classification", "source_chain",
       "missing_fields"}),
    PlacementOutcome |->
      Named({"decision_id", "attempt_id", "disposition", "start_delay_ns", "duration_ns",
             "predicted_duration_ns", "memory_used_bytes", "error", "classification"})
      \cup Claim ]

RecordMembers ==
  [ PlacementObservation |-> Named(
      {"observation_id", "observation_generation", "revision", "source_id",
       "source_generation", "source_type", "worker_boot", "coordinator_epoch",
       "workload_id", "request_id", "tenant_id", "namespace_id", "node_id", "device_id",
       "decision_id", "attempt_id", "epoch", "lifecycle", "fields", "reliability",
       "synthetic", "timestamp.wall", "timestamp.mono", "timestamp.uncertainty_ns"}),
    PlacementDecision |->
      Named({"decision_id", "attempt_id", "placement_generation", "observation_generation",
             "epoch", "policy_generation", "workload_id", "request_id", "tenant_id",
             "namespace_id", "node_id", "device_id", "selected_candidate",
             "rejected_candidates", "hard_constraints", "soft_preferences",
             "score_components", "cost_components", "tie_break", "tie_break_reason",
             "selected_reason", "rejection_reasons", "classification", "determinism",
             "outcome", "lifecycle"})
      \cup Inside("candidate_set", EvidenceMembers.CandidateSet)
      \cup Inside("confidence", ClaimMembers.Confidence) \cup Claim,
    RejectionReasonEntry |-> Named({"candidate_id", "text"}),
    Epoch |-> Named({"epoch"}) ]

(***************************************************************************)
(* The structs that are a record, or an element of a vector or an option.  *)
(***************************************************************************)

Primitive == {"w1", "w4", "w8", "str"}

Structs ==
  {"Provenance", "Measurement", "SourceDescriptor", "LocalityDescriptor",
   "PlacementConstraint", "PlacementCostComponent", "PlacementScoreComponent",
   "PlacementCandidate", "PlacementOutcome", "PlacementObservation",
   "PlacementDecision", "RejectionReasonEntry", "Epoch"}

Members ==
  [ Provenance |-> ClaimMembers.Provenance, Measurement |-> ReportMembers.Measurement,
    SourceDescriptor |-> ReportMembers.SourceDescriptor,
    LocalityDescriptor |-> DescriptorMembers.LocalityDescriptor,
    PlacementConstraint |-> EvidenceMembers.PlacementConstraint,
    PlacementCostComponent |-> EvidenceMembers.PlacementCostComponent,
    PlacementScoreComponent |-> EvidenceMembers.PlacementScoreComponent,
    PlacementCandidate |-> EvidenceMembers.PlacementCandidate,
    PlacementOutcome |-> EvidenceMembers.PlacementOutcome,
    PlacementObservation |-> RecordMembers.PlacementObservation,
    PlacementDecision |-> RecordMembers.PlacementDecision,
    RejectionReasonEntry |-> RecordMembers.RejectionReasonEntry,
    Epoch |-> RecordMembers.Epoch ]

WriteLayout ==
  [ Provenance |-> write_provenance, Measurement |-> write_measurement,
    SourceDescriptor |-> write_source_descriptor,
    LocalityDescriptor |-> write_locality_descriptor,
    PlacementConstraint |-> write_constraint,
    PlacementCostComponent |-> write_cost_component,
    PlacementScoreComponent |-> write_score_component,
    PlacementCandidate |-> write_candidate, PlacementOutcome |-> write_outcome,
    PlacementObservation |-> write_observation, PlacementDecision |-> write_decision,
    RejectionReasonEntry |-> write_rejection_reason, Epoch |-> write_epoch ]

ReadLayout ==
  [ Provenance |-> read_provenance, Measurement |-> read_measurement,
    SourceDescriptor |-> read_source_descriptor,
    LocalityDescriptor |-> read_locality_descriptor,
    PlacementConstraint |-> read_constraint,
    PlacementCostComponent |-> read_cost_component,
    PlacementScoreComponent |-> read_score_component,
    PlacementCandidate |-> read_candidate, PlacementOutcome |-> read_outcome,
    PlacementObservation |-> read_observation, PlacementDecision |-> read_decision,
    RejectionReasonEntry |-> read_rejection_reason, Epoch |-> read_epoch ]

\* RecordKind, and the structs that persist writes records of.
RecordKind ==
  [PlacementObservation |-> 1, PlacementDecision |-> 2, PlacementOutcome |-> 3,
   SourceDescriptor |-> 4, Epoch |-> 8]

(***************************************************************************)
(* Canonical JSON: each to_json lists the members of its struct, but for   *)
(* the uncertainty of a timestamp and all but the wall clock of a source's *)
(* last sighting.                                                          *)
(***************************************************************************)

\* Mutant: the source's last sighting is listed in full.
JsonOmitsLess == {"timestamp.uncertainty_ns"}

JsonOmits == {"timestamp.uncertainty_ns", "last_seen.mono", "last_seen.uncertainty_ns"}
================================================================================
