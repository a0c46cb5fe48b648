------------------------------ MODULE MCCollector ------------------------------
(***************************************************************************)
(* Small instances of Collector: a worker that registers and reports (the  *)
(* script of cmd_worker, shortened), a second process, and one that shuts  *)
(* the collector down.                                                     *)
(***************************************************************************)
EXTENDS Collector

LOCAL INSTANCE SequencesExt

CONSTANTS worker, other, operator, s1, o1, o2, d1, a1, c1, b1

Good(t, p) == [type |-> t, payload |-> p, wire |-> "ok"]

MCConfigs ==
  { [ enforce_stale_source_generation |-> TRUE,
      enforce_stale_worker_boot |-> TRUE,
      enforce_stale_coordinator_epoch |-> TRUE ] }

Descriptor(g) == [source_id |-> s1, generation |-> g]

Observed(i, g) ==
  [ observation_id |-> i, source_id |-> s1, source_generation |-> g,
    observation_generation |-> 1, worker_boot |-> b1, coordinator_epoch |-> 1,
    fields |-> "finite", lifecycle |-> "Collected" ]

Decided ==
  [ decision_id |-> d1, attempt_id |-> a1, placement_generation |-> 1,
    selected_candidate |-> c1,
    candidate_set |-> [candidates |-> {c1}, complete |-> TRUE, reconstructed |-> FALSE],
    values |-> "finite", coordinator_epoch |-> 1 ]

Completed == [decision_id |-> d1, attempt_id |-> a1, disposition |-> "Succeeded"]

\* What the worker and the second process send: an observation next to a
\* decision and its outcome; a registration next to one of a newer generation
\* and a status query; an observation next to a roll of the epoch and a stale
\* observation; an observation next to an unhandled message and an undecodable
\* one; a status query about an unknown source next to a frame that is refused.
MCRequests ==
  { << << Good("Observation", Observed(o1, 1)) >>,
       << Good("Decision", Decided), Good("Outcome", Completed) >> >>,
    << << Good("RegisterSource", Descriptor(1)) >>,
       << Good("RegisterSource", Descriptor(2)), Good("Status", s1),
          Good("Ping", Nil) >> >>,
    << << Good("Observation", Observed(o1, 1)) >>,
       << Good("CoordinatorEpoch", 2), Good("Observation", Observed(o2, 1)) >> >>,
    << << Good("Observation", Observed(o1, 1)) >>,
       << Good("Ping", Undecodable), Good("Observation", Undecodable) >> >>,
    << << Good("Status", s1) >>,
       << [Good("Observation", Observed(o2, 1)) EXCEPT !.wire = "refused"] >> >> }

\* The payloads, by the operation they go to.
Payloads(type) ==
  { f.payload : f \in { f \in UNION { ToSet(r[1]) \cup ToSet(r[2]) : r \in MCRequests } :
                        f.type = type /\ f.payload # Undecodable } }

MCDescriptors == Payloads("RegisterSource")
MCEpochs == Payloads("CoordinatorEpoch")
MCObservations == Payloads("Observation")
MCDecisions == Payloads("Decision")
MCOutcomes == Payloads("Outcome")

\* The second process lingers when it only reports evidence.
MCScenarios ==
  { [ script |-> [c \in Client |-> CASE c = worker -> r[1]
                                     [] c = other -> r[2]
                                     [] c = operator -> << Good("Shutdown", Nil) >>],
      lingering |-> IF r[2][1].type = "Decision" THEN {other} ELSE {} ] : r \in MCRequests }
================================================================================
