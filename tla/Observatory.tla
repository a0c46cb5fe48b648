------------------------------ MODULE Observatory ------------------------------
(***************************************************************************)
(* The Observatory engine (src/observatory.cpp): the canonical log of      *)
(* placement observations, the decision records and their outcomes, the    *)
(* indices that make them unique, and the per-source authority (current    *)
(* generation and trusted worker boot) that decides what is admitted.      *)
(*                                                                         *)
(* Every write operation of the class takes the unique lock for its whole  *)
(* body, so each is one action; calls from any number of threads are the   *)
(* interleavings of these actions.                                         *)
(*                                                                         *)
(* Conventions.  Nil is the value 0 of an identifier or a boot.  A map     *)
(* entry that is absent reads as 0 or Nil, which is how the code treats it *)
(* (find() == end() yields generation 0, no boot, no index).  Positions    *)
(* in the logs are 1-based, so index 0 is "no entry".                      *)
(***************************************************************************)
EXTENDS Integers, Sequences, FiniteSets

CONSTANTS
  Nil,              \* the zero identifier
  Source,           \* valid source ids
  ObservationId,    \* valid observation ids
  DecisionId,       \* valid decision ids
  AttemptId,        \* valid placement attempt ids
  CandidateId,      \* valid candidate ids
  Boot,             \* nonzero worker boots
  ReliabilityClass, \* values of the source-health enumeration
  Unknown,          \* ReliabilityClass::Unknown
  Configs,          \* the configurations an Observatory may be built with
  Descriptors,      \* the arguments callers pass to register_source ...
  Observations,     \* ... to ingest ...
  Decisions,        \* ... to ingest_decision ...
  Outcomes,         \* ... to ingest_outcome ...
  Epochs,           \* ... and to set_coordinator_epoch
  MaxRejected       \* bound: rejections counted in one behaviour

SourceId == Source \cup {Nil}

\* What the value checks of a record find: the loop over the fields of an
\* observation, or finite_cost and impossible_memory over a decision.
ValueClass == {"finite", "non-finite", "impossible memory"}

ObservatoryConfig ==
  [ enforce_stale_source_generation : BOOLEAN,
    enforce_stale_worker_boot : BOOLEAN,
    enforce_stale_coordinator_epoch : BOOLEAN ]

SourceDescriptor == [ source_id : SourceId, generation : Nat ]

PlacementObservation ==
  [ observation_id : ObservationId \cup {Nil},
    source_id : SourceId,
    source_generation : Nat,
    observation_generation : Nat,
    worker_boot : Boot \cup {Nil},
    coordinator_epoch : Nat,
    fields : ValueClass,
    lifecycle : {"Collected", "Normalized", "Correlated"} ]

CandidateSet ==
  [ candidates : SUBSET CandidateId, complete : BOOLEAN, reconstructed : BOOLEAN ]

PlacementDecision ==
  [ decision_id : DecisionId \cup {Nil},
    attempt_id : AttemptId \cup {Nil},
    placement_generation : Nat,
    selected_candidate : CandidateId \cup {Nil},
    candidate_set : CandidateSet,
    values : ValueClass,
    coordinator_epoch : Nat ]

PlacementOutcome ==
  [ decision_id : DecisionId \cup {Nil},
    attempt_id : AttemptId \cup {Nil},
    disposition : {"Unknown", "Succeeded", "Failed"} ]

ASSUME NilAssumption ==
  /\ Nil \notin Source \cup ObservationId \cup DecisionId \cup AttemptId
  /\ Nil \notin CandidateId \cup Boot
  /\ Nil \notin Nat
  /\ Nil \notin PlacementDecision \cup PlacementOutcome

ASSUME InputAssumption ==
  /\ Configs \subseteq ObservatoryConfig
  /\ Descriptors \subseteq SourceDescriptor
  /\ Observations \subseteq PlacementObservation
  /\ Decisions \subseteq PlacementDecision
  /\ Outcomes \subseteq PlacementOutcome
  /\ Epochs \subseteq Nat
  /\ Unknown \in ReliabilityClass

ASSUME BoundAssumption == MaxRejected \in Nat

VARIABLES
  cfg,              \* ObservatoryConfig, fixed by the constructor
  obs,              \* canonical log: admitted observations in order
  obs_by_id,        \* position in obs of each observation id
  dec,              \* admitted decisions in order
  dec_by_id,        \* position in dec of each decision id
  idx_dec_attempt,  \* position in dec of the decision of each attempt
  outcomes,         \* outcome of each decision, Nil when there is none
  sources,          \* generation of the last descriptor registered, or Nil
  src_gen,          \* current generation of each source
  src_boot,         \* trusted worker boot of each source, Nil when none
  src_health,       \* reported reliability of each source
  coordinator,      \* coordinator epoch, 0 when none was set
  rejected,         \* number of rejected calls
  superseded,       \* number of generations superseded by an observation
  events            \* number of admitted records

authority == <<src_gen, src_boot>>
obsLog == <<obs, obs_by_id>>
decLog == <<dec, dec_by_id, idx_dec_attempt>>
registry == <<sources, src_health>>
vars == <<cfg, obs, obs_by_id, dec, dec_by_id, idx_dec_attempt, outcomes,
          sources, src_gen, src_boot, src_health, coordinator,
          rejected, superseded, events>>

Init ==
  /\ cfg \in Configs
  /\ obs = <<>>
  /\ obs_by_id = [i \in ObservationId |-> 0]
  /\ dec = <<>>
  /\ dec_by_id = [i \in DecisionId |-> 0]
  /\ idx_dec_attempt = [a \in AttemptId |-> 0]
  /\ outcomes = [i \in DecisionId |-> Nil]
  /\ sources = [s \in SourceId |-> Nil]
  /\ src_gen = [s \in SourceId |-> 0]
  /\ src_boot = [s \in SourceId |-> Nil]
  /\ src_health = [s \in SourceId |-> Unknown]
  /\ coordinator = 0
  /\ rejected = 0
  /\ superseded = 0
  /\ events = 0

\* The keys an index has an entry for (count(k) > 0).
Keys(index) == { k \in DOMAIN index : index[k] # 0 }

(***************************************************************************)
(* Source management.                                                      *)
(***************************************************************************)

\* Mutant: any registration takes over, also one of an older generation.
RaisesGenerationAny(d) == d.generation # src_gen[d.source_id]

\* A descriptor takes the source over only with a higher generation.
RaisesGeneration(d) == d.generation > src_gen[d.source_id]

\* The descriptor itself is kept whatever its generation.
register_source(d) ==
  /\ IF RaisesGeneration(d)
       THEN /\ src_gen' = [src_gen EXCEPT ![d.source_id] = d.generation]
            /\ src_boot' = [src_boot EXCEPT ![d.source_id] = Nil]
       ELSE UNCHANGED authority
  /\ sources' = [sources EXCEPT ![d.source_id] = d.generation]
  /\ UNCHANGED <<cfg, obsLog, decLog, outcomes, src_health, coordinator,
                 rejected, superseded, events>>

update_source_health(s, rc) ==
  /\ src_health' = [src_health EXCEPT ![s] = rc]
  /\ UNCHANGED <<cfg, obsLog, decLog, outcomes, sources, authority,
                 coordinator, rejected, superseded, events>>

set_coordinator_epoch(e) ==
  /\ coordinator' = e
  /\ UNCHANGED <<cfg, obsLog, decLog, outcomes, registry, authority,
                 rejected, superseded, events>>

(***************************************************************************)
(* ingest: the checks, in the order of the code.                           *)
(***************************************************************************)

reject ==
  /\ rejected < MaxRejected
  /\ rejected' = rejected + 1

\* Mutant: the comparison is off by one.
StaleEpochOffByOne(e) ==
  /\ cfg.enforce_stale_coordinator_epoch
  /\ coordinator # 0
  /\ e # 0
  /\ e + 1 < coordinator

StaleEpoch(e) ==
  /\ cfg.enforce_stale_coordinator_epoch
  /\ coordinator # 0
  /\ e # 0
  /\ e < coordinator

\* Mutant: the source id is not checked.
MalformedObservationNoSource(o) ==
  \/ o.observation_id = Nil
  \/ o.source_generation = 0
  \/ o.observation_generation = 0

MalformedObservation(o) ==
  \/ o.observation_id = Nil
  \/ o.source_id = Nil
  \/ o.source_generation = 0
  \/ o.observation_generation = 0

\* Mutant: an observation id may be admitted again.
DuplicateObservationNever(o) == FALSE

DuplicateObservation(o) == o.observation_id \in Keys(obs_by_id)

\* Mutant: the comparison is off by one.
StaleGenerationOffByOne(o) ==
  /\ cfg.enforce_stale_source_generation
  /\ o.source_generation + 1 < src_gen[o.source_id]

StaleGeneration(o) ==
  /\ cfg.enforce_stale_source_generation
  /\ o.source_generation < src_gen[o.source_id]

have_boot(s) == src_boot[s] # Nil

\* Mutant: an observation without a boot passes the boot check.
StaleBootUnlessZero(o) ==
  /\ cfg.enforce_stale_worker_boot
  /\ o.source_generation = src_gen[o.source_id]
  /\ have_boot(o.source_id)
  /\ o.worker_boot # Nil
  /\ o.worker_boot # src_boot[o.source_id]

StaleBoot(o) ==
  /\ cfg.enforce_stale_worker_boot
  /\ o.source_generation = src_gen[o.source_id]
  /\ have_boot(o.source_id)
  /\ o.worker_boot # src_boot[o.source_id]

\* The checks before the source authority is touched.
RefusedEarly(o) ==
  \/ MalformedObservation(o)
  \/ DuplicateObservation(o)
  \/ StaleGeneration(o)
  \/ StaleBoot(o)

\* The checks after it.
RefusedLate(o) == StaleEpoch(o.coordinator_epoch) \/ o.fields # "finite"

\* Mutant: a takeover keeps the boot of the superseded generation.
AdoptedBootKept(o) ==
  IF have_boot(o.source_id) THEN src_boot[o.source_id] ELSE o.worker_boot

\* The boot trusted once the authority has been updated for o: a takeover
\* brings its own boot, and a source without one adopts the first it sees.
AdoptedBoot(o) ==
  IF o.source_generation > src_gen[o.source_id] \/ ~have_boot(o.source_id)
    THEN o.worker_boot
    ELSE src_boot[o.source_id]

AdoptAuthority(o) ==
  LET s == o.source_id
      cur == src_gen[s]
  IN /\ src_boot' = [src_boot EXCEPT ![s] = AdoptedBoot(o)]
     /\ IF o.source_generation > cur
          THEN /\ src_gen' = [src_gen EXCEPT ![s] = o.source_generation]
               /\ superseded' = IF cur > 0 THEN superseded + 1 ELSE superseded
          ELSE UNCHANGED <<src_gen, superseded>>

\* An early refusal changes only the counter.
IngestRefusedEarly(o) ==
  /\ RefusedEarly(o)
  /\ reject
  /\ UNCHANGED <<cfg, obsLog, decLog, outcomes, registry, authority,
                 coordinator, superseded, events>>

\* A late refusal has already updated the authority of the source.
IngestRefusedLate(o) ==
  /\ ~RefusedEarly(o)
  /\ RefusedLate(o)
  /\ AdoptAuthority(o)
  /\ reject
  /\ UNCHANGED <<cfg, obsLog, decLog, outcomes, registry, coordinator, events>>

IngestAdmitted(o) ==
  /\ ~RefusedEarly(o)
  /\ ~RefusedLate(o)
  /\ AdoptAuthority(o)
  /\ obs' = Append(obs, [o EXCEPT !.lifecycle = "Correlated"])
  /\ obs_by_id' = [obs_by_id EXCEPT ![o.observation_id] = Len(obs) + 1]
  /\ events' = events + 1
  /\ UNCHANGED <<cfg, decLog, outcomes, registry, coordinator, rejected>>

ingest(o) == IngestRefusedEarly(o) \/ IngestRefusedLate(o) \/ IngestAdmitted(o)

(***************************************************************************)
(* ingest_decision.  Nothing is changed before the last check.             *)
(***************************************************************************)

\* Mutant: the attempt of another decision is not looked up.
DuplicateAttemptNever(d) == FALSE

\* The attempt is already that of another decision.
DuplicateAttempt(d) ==
  /\ d.attempt_id \in Keys(idx_dec_attempt)
  /\ dec[idx_dec_attempt[d.attempt_id]].decision_id # d.decision_id

\* A complete candidate set is empty, lacks the selected candidate, or is
\* also said to be reconstructed.
InconsistentCandidates(d) ==
  /\ d.candidate_set.complete
  /\ \/ d.selected_candidate \notin d.candidate_set.candidates
     \/ d.candidate_set.reconstructed

RefusedDecision(d) ==
  \/ d.decision_id = Nil
  \/ d.decision_id \in Keys(dec_by_id)
  \/ DuplicateAttempt(d)
  \/ d.placement_generation = 0
  \/ d.selected_candidate = Nil
  \/ InconsistentCandidates(d)
  \/ d.values # "finite"
  \/ StaleEpoch(d.coordinator_epoch)

\* index_dec: the attempt index follows the last decision of an attempt.
IndexAttempt(d, i) ==
  idx_dec_attempt' = IF d.attempt_id = Nil
                       THEN idx_dec_attempt
                       ELSE [idx_dec_attempt EXCEPT ![d.attempt_id] = i]

DecisionRefused(d) ==
  /\ RefusedDecision(d)
  /\ reject
  /\ UNCHANGED <<cfg, obsLog, decLog, outcomes, registry, authority,
                 coordinator, superseded, events>>

DecisionAdmitted(d) ==
  /\ ~RefusedDecision(d)
  /\ dec' = Append(dec, d)
  /\ dec_by_id' = [dec_by_id EXCEPT ![d.decision_id] = Len(dec) + 1]
  /\ IndexAttempt(d, Len(dec) + 1)
  /\ events' = events + 1
  /\ UNCHANGED <<cfg, obsLog, outcomes, registry, authority, coordinator,
                 rejected, superseded>>

ingest_decision(d) == DecisionRefused(d) \/ DecisionAdmitted(d)

(***************************************************************************)
(* ingest_outcome.                                                         *)
(***************************************************************************)

\* Mutant: a second outcome replaces the first.
DuplicateOutcomeNever(o) == FALSE

DuplicateOutcome(o) ==
  \E i \in DecisionId : i = o.decision_id /\ outcomes[i] # Nil

\* Mutant: the attempt of an outcome is not compared.
WrongAttemptNever(o, d) == FALSE

\* Both sides name an attempt and the two differ.
WrongAttempt(o, d) ==
  /\ o.attempt_id # Nil
  /\ d.attempt_id # Nil
  /\ o.attempt_id # d.attempt_id

RefusedOutcome(o) ==
  \/ o.decision_id \notin Keys(dec_by_id)
  \/ DuplicateOutcome(o)
  \/ \E i \in Keys(dec_by_id) :
        i = o.decision_id /\ WrongAttempt(o, dec[dec_by_id[i]])
  \/ o.disposition = "Unknown"

OutcomeRefused(o) ==
  /\ RefusedOutcome(o)
  /\ reject
  /\ UNCHANGED <<cfg, obsLog, decLog, outcomes, registry, authority,
                 coordinator, superseded, events>>

OutcomeAdmitted(o) ==
  /\ ~RefusedOutcome(o)
  /\ outcomes' = [outcomes EXCEPT ![o.decision_id] = o]
  /\ events' = events + 1
  /\ UNCHANGED <<cfg, obsLog, decLog, registry, authority, coordinator,
                 rejected, superseded>>

ingest_outcome(o) == OutcomeRefused(o) \/ OutcomeAdmitted(o)

Next ==
  \/ \E d \in Descriptors : register_source(d)
  \/ \E s \in SourceId, rc \in ReliabilityClass : update_source_health(s, rc)
  \/ \E e \in Epochs : set_coordinator_epoch(e)
  \/ \E o \in Observations : ingest(o)
  \/ \E d \in Decisions : ingest_decision(d)
  \/ \E o \in Outcomes : ingest_outcome(o)

Spec == Init /\ [][Next]_vars

(***************************************************************************)
(* Properties.                                                             *)
(***************************************************************************)

\* What the checks let into the observation log.
AdmittedObservation ==
  { o \in PlacementObservation :
      /\ o.observation_id # Nil
      /\ o.source_id # Nil
      /\ o.source_generation # 0
      /\ o.fields = "finite"
      /\ o.lifecycle = "Correlated" }

AdmittedDecision ==
  { d \in PlacementDecision :
      /\ d.decision_id # Nil
      /\ d.selected_candidate # Nil
      /\ d.candidate_set.complete =>
            d.selected_candidate \in d.candidate_set.candidates }

\* Every variable has its type; the logs hold well-formed records only.
TypeOK ==
  /\ cfg \in ObservatoryConfig
  /\ obs \in Seq(AdmittedObservation)
  /\ obs_by_id \in [ObservationId -> Nat]
  /\ dec \in Seq(AdmittedDecision)
  /\ dec_by_id \in [DecisionId -> Nat]
  /\ idx_dec_attempt \in [AttemptId -> Nat]
  /\ outcomes \in [DecisionId -> PlacementOutcome \cup {Nil}]
  /\ sources \in [SourceId -> Nat \cup {Nil}]
  /\ src_gen \in [SourceId -> Nat]
  /\ src_boot \in [SourceId -> Boot \cup {Nil}]
  /\ src_health \in [SourceId -> ReliabilityClass]
  /\ coordinator \in Nat
  /\ rejected \in Nat
  /\ superseded \in Nat
  /\ events \in Nat

\* The indices over the logs are exact: a key is indexed at i if and only if
\* the record at i has that key.  So no id and no attempt occurs twice in a
\* log, and a lookup never yields another record.
ObsIndexExact ==
  \A k \in ObservationId :
    /\ obs_by_id[k] <= Len(obs)
    /\ \A i \in 1..Len(obs) : obs_by_id[k] = i <=> obs[i].observation_id = k

DecIndexExact ==
  \A k \in DecisionId :
    /\ dec_by_id[k] <= Len(dec)
    /\ \A i \in 1..Len(dec) : dec_by_id[k] = i <=> dec[i].decision_id = k

AttemptIndexExact ==
  \A a \in AttemptId :
    /\ idx_dec_attempt[a] <= Len(dec)
    /\ \A i \in 1..Len(dec) : idx_dec_attempt[a] = i <=> dec[i].attempt_id = a

IndexesExact == ObsIndexExact /\ DecIndexExact /\ AttemptIndexExact

\* The canonical log never goes back in time for a source: with the stale
\* generation check on, the generations of a source never decrease along the
\* log, whatever is registered, refused or interleaved in between.
SourceOrder ==
  cfg.enforce_stale_source_generation =>
    \A i, j \in 1..Len(obs) :
      i < j /\ obs[i].source_id = obs[j].source_id =>
        obs[i].source_generation <= obs[j].source_generation

\* One worker boot per source generation: once an observation of a boot is in
\* the log, every later one of the same source and generation is of that
\* boot, so no second worker, and none that hides its boot, joins the
\* generation.
BootFence ==
  cfg.enforce_stale_source_generation /\ cfg.enforce_stale_worker_boot =>
    \A i, j \in 1..Len(obs) :
      /\ i < j
      /\ obs[i].source_id = obs[j].source_id
      /\ obs[i].source_generation = obs[j].source_generation
      /\ obs[i].worker_boot # Nil
      => obs[j].worker_boot = obs[i].worker_boot

\* The authority the engine enforces is never behind the evidence it holds:
\* no logged generation exceeds the current one, and with both checks on the
\* boot of logged evidence of the current generation is the trusted one.
AuthorityCoversLog ==
  \A i \in 1..Len(obs) :
    /\ obs[i].source_generation <= src_gen[obs[i].source_id]
    /\ \/ obs[i].source_generation < src_gen[obs[i].source_id]
       \/ obs[i].worker_boot = Nil
       \/ ~cfg.enforce_stale_source_generation
       \/ ~cfg.enforce_stale_worker_boot
       \/ obs[i].worker_boot = src_boot[obs[i].source_id]

\* A placement attempt belongs to at most one decision.
AttemptUnique ==
  \A i, j \in 1..Len(dec) :
    dec[i].attempt_id # Nil /\ dec[i].attempt_id = dec[j].attempt_id => i = j

\* An outcome is only ever held for a recorded decision, names that decision,
\* and does not contradict its attempt.
OutcomeLinked ==
  \A k \in DecisionId :
    outcomes[k] # Nil =>
      /\ dec_by_id[k] # 0
      /\ outcomes[k].decision_id = k
      /\ outcomes[k].disposition # "Unknown"
      /\ \/ outcomes[k].attempt_id = Nil
         \/ dec[dec_by_id[k]].attempt_id \in {Nil, outcomes[k].attempt_id}

\* The event counter equals the number of records held.
EventsCountEvidence ==
  events = Len(obs) + Len(dec)
           + Cardinality({ k \in DecisionId : outcomes[k] # Nil })

\* No step takes a source back to an older generation, and the trusted boot
\* of a source changes only together with its generation or from "none".
AuthorityStep ==
  \A s \in SourceId :
    /\ src_gen'[s] >= src_gen[s]
    /\ src_gen'[s] = src_gen[s] /\ src_boot[s] # Nil => src_boot'[s] = src_boot[s]

AuthorityMonotone == [][AuthorityStep]_vars

\* Recorded evidence is immutable: no step drops, reorders or rewrites an
\* observation or a decision, or replaces an outcome.
AppendOnlyStep ==
  /\ Len(obs') >= Len(obs) /\ \A i \in 1..Len(obs) : obs'[i] = obs[i]
  /\ Len(dec') >= Len(dec) /\ \A i \in 1..Len(dec) : dec'[i] = dec[i]
  /\ \A k \in DecisionId : outcomes[k] # Nil => outcomes'[k] = outcomes[k]

EvidenceAppendOnly == [][AppendOnlyStep]_vars

\* A record admitted by a step speaks for the authority in force when the
\* step ends: generation and boot are the source's current ones, and its
\* coordinator epoch, when it has one, is not behind the coordinator's.
AdmissionStep ==
  /\ cfg.enforce_stale_source_generation
  /\ cfg.enforce_stale_worker_boot
  /\ cfg.enforce_stale_coordinator_epoch
  /\ Len(obs') > Len(obs)
  => LET o == obs'[Len(obs')]
     IN /\ src_gen'[o.source_id] = o.source_generation
        /\ src_boot'[o.source_id] = o.worker_boot
        /\ o.coordinator_epoch = 0 \/ o.coordinator_epoch >= coordinator'

AdmittedIsCurrent == [][AdmissionStep]_vars

\* Documented: "stale evidence never mutates current state"
\* (docs/architecture.md, docs/sources.md).  A refused call leaves the
\* authority of every source as it was.
RefusalKeepsAuthority ==
  [][rejected' # rejected => UNCHANGED <<src_gen, src_boot>>]_vars
================================================================================
