----------------------------- MODULE MCObservatory -----------------------------
(***************************************************************************)
(* Small instances of Observatory.  The identifier sets come from the cfg; *)
(* the sets of arguments below cover every check of the engine: for each   *)
(* operation, the well-formed calls over those identifiers and one call    *)
(* (or a few) per reason to refuse.                                        *)
(***************************************************************************)
EXTENDS ObservatoryLedger, TLC

CONSTANTS
  MaxGeneration,  \* bound: source generations are 1..MaxGeneration
  Boots           \* the boots observations carry (Nil among them or not)

\* The ids of decisions and attempts are among the observation ids and the
\* boots: no operation compares ids of two kinds, and one permutation does for
\* both.
Symmetry ==
  Permutations(Source) \cup Permutations(ObservationId) \cup Permutations(Boot)

DefaultConfig ==
  [ enforce_stale_source_generation |-> TRUE,
    enforce_stale_worker_boot |-> TRUE,
    enforce_stale_coordinator_epoch |-> TRUE ]

\* The default configuration.
MCDefaultConfigs == { DefaultConfig }

MCDescriptors == [ source_id : Source, generation : 1..MaxGeneration ]

MCWellFormed ==
  [ observation_id : ObservationId,
    source_id : Source,
    source_generation : 1..MaxGeneration,
    observation_generation : {1},
    worker_boot : Boots,
    coordinator_epoch : {1},
    fields : {"finite"},
    lifecycle : {"Collected"} ]

\* Observations that carry neither a worker boot nor more than generation 1.
MCPlain ==
  { o \in MCWellFormed : o.worker_boot = Nil /\ o.source_generation = 1 }

\* Well-formed observations, observations with invalid values, which the
\* engine refuses after the authority checks, plain ones without a
\* coordinator epoch, and malformed ones.
MCObservations ==
  MCWellFormed
  \cup { [o EXCEPT !.fields = "non-finite"] : o \in MCWellFormed }
  \cup UNION { { [o EXCEPT !.coordinator_epoch = 0],
                 [o EXCEPT !.fields = "impossible memory"],
                 [o EXCEPT !.observation_id = Nil],
                 [o EXCEPT !.source_id = Nil],
                 [o EXCEPT !.source_generation = 0],
                 [o EXCEPT !.observation_generation = 0] } : o \in MCPlain }

MCCandidateSets ==
  { [candidates |-> CandidateId, complete |-> TRUE, reconstructed |-> FALSE],
    [candidates |-> {}, complete |-> FALSE, reconstructed |-> TRUE] }

MCWellFormedDecision ==
  [ decision_id : DecisionId,
    attempt_id : AttemptId \cup {Nil},
    placement_generation : {1},
    selected_candidate : CandidateId,
    candidate_set : MCCandidateSets,
    values : {"finite"},
    coordinator_epoch : {1} ]

\* Decisions without an attempt, from complete sets.
MCPlainDecision ==
  { d \in MCWellFormedDecision : d.attempt_id = Nil /\ d.candidate_set.complete }

\* Well-formed decisions, and one per reason to refuse a plain one.
MCDecisions ==
  MCWellFormedDecision
  \cup UNION { { [d EXCEPT !.decision_id = Nil],
                 [d EXCEPT !.placement_generation = 0],
                 [d EXCEPT !.selected_candidate = Nil],
                 [d EXCEPT !.candidate_set.candidates = {}],
                 [d EXCEPT !.candidate_set.reconstructed = TRUE],
                 [d EXCEPT !.values = "non-finite"],
                 [d EXCEPT !.values = "impossible memory"] } : d \in MCPlainDecision }

MCOutcomes ==
  { o \in PlacementOutcome : o.decision_id = Nil => o.attempt_id = Nil }

(***************************************************************************)
(* Evidence of sources and evidence of decisions have nothing in common    *)
(* but the counters and the coordinator epoch: the next behaviours have    *)
(* one or the other.                                                       *)
(***************************************************************************)

NoSourceHeard == \A s \in Source : src_gen[s] = 0 /\ sources[s] = Nil
NoDecisionTaken == dec = <<>>

OneKindNext ==
  \/ \E e \in Epochs : set_coordinator_epoch(e)
  \/ /\ NoDecisionTaken
     /\ \/ \E d \in Descriptors : register_source(d)
        \/ \E s \in SourceId, rc \in ReliabilityClass : update_source_health(s, rc)
        \/ \E o \in Observations : ingest(o)
  \/ /\ NoSourceHeard
     /\ \/ \E d \in Decisions : ingest_decision(d)
        \/ \E o \in Outcomes : ingest_outcome(o)

OneKindSpec == Init /\ [][OneKindNext]_vars
================================================================================
