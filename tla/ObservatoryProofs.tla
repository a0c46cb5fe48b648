--------------------------- MODULE ObservatoryProofs ---------------------------
(***************************************************************************)
(* Proofs about Observatory, for every set of identifiers, every set of    *)
(* arguments and every configuration that satisfies the assumptions of     *)
(* that module.  Type correctness comes first; the authority invariants    *)
(* and the index invariants are each inductive relative to it.             *)
(***************************************************************************)
EXTENDS Observatory, FiniteSetTheorems, TLAPS

(***************************************************************************)
(* Type correctness.                                                       *)
(***************************************************************************)

\* The initial state of the engine is well typed.
LEMMA InitTypeOK == Init => TypeOK
<1> SUFFICES ASSUME Init PROVE TypeOK
  OBVIOUS
<1>1. cfg \in ObservatoryConfig
  BY InputAssumption DEF Init
<1>2. obs \in Seq(AdmittedObservation) /\ dec \in Seq(AdmittedDecision)
  BY DEF Init
<1> QED
  BY <1>1, <1>2, InputAssumption DEF Init, TypeOK

\* Registering a source preserves the types.
LEMMA RegisterTypeOK ==
  ASSUME TypeOK, NEW d \in Descriptors, register_source(d)
  PROVE  TypeOK'
<1>1. d \in SourceDescriptor
  BY InputAssumption
<1>2. d.source_id \in SourceId /\ d.generation \in Nat
  BY <1>1 DEF SourceDescriptor
<1>3. src_gen' \in [SourceId -> Nat] /\ src_boot' \in [SourceId -> Boot \cup {Nil}]
  BY <1>2 DEF TypeOK, register_source, authority
<1>4. sources' \in [SourceId -> Nat \cup {Nil}]
  BY <1>2 DEF TypeOK, register_source
<1> QED
  BY <1>3, <1>4 DEF TypeOK, register_source, obsLog, decLog

\* Adopting the authority of an observation keeps generations and boots typed.
LEMMA AdoptTypeOK ==
  ASSUME TypeOK, NEW o \in PlacementObservation, AdoptAuthority(o)
  PROVE  /\ src_gen' \in [SourceId -> Nat]
         /\ src_boot' \in [SourceId -> Boot \cup {Nil}]
         /\ superseded' \in Nat
<1>1. o.source_id \in SourceId /\ o.source_generation \in Nat /\ o.worker_boot \in Boot \cup {Nil}
  BY DEF PlacementObservation
<1>2. AdoptedBoot(o) \in Boot \cup {Nil}
  BY <1>1 DEF TypeOK, AdoptedBoot
<1> QED
  BY <1>1, <1>2 DEF TypeOK, AdoptAuthority

\* What ingest appends is an admissible record.
LEMMA AppendedObservation ==
  ASSUME NEW o \in PlacementObservation, ~RefusedEarly(o), ~RefusedLate(o)
  PROVE  [o EXCEPT !.lifecycle = "Correlated"] \in AdmittedObservation
<1>1. o.observation_id # Nil /\ o.source_id # Nil /\ o.source_generation # 0 /\ o.fields = "finite"
  BY DEF RefusedEarly, RefusedLate, MalformedObservation
<1> QED
  BY <1>1 DEF AdmittedObservation, PlacementObservation

\* ingest preserves the types on each of its three ways out.
LEMMA IngestTypeOK ==
  ASSUME TypeOK, NEW o \in Observations, ingest(o)
  PROVE  TypeOK'
<1>1. o \in PlacementObservation
  BY InputAssumption
<1>2. CASE IngestRefusedEarly(o)
  BY <1>2 DEF TypeOK, IngestRefusedEarly, reject, obsLog, decLog, registry, authority
<1>3. CASE IngestRefusedLate(o)
  <2>1. /\ src_gen' \in [SourceId -> Nat]
        /\ src_boot' \in [SourceId -> Boot \cup {Nil}]
        /\ superseded' \in Nat
    BY <1>1, <1>3, AdoptTypeOK DEF IngestRefusedLate
  <2> QED
    BY <1>3, <2>1 DEF TypeOK, IngestRefusedLate, reject, obsLog, decLog, registry
<1>4. CASE IngestAdmitted(o)
  <2>1. /\ src_gen' \in [SourceId -> Nat]
        /\ src_boot' \in [SourceId -> Boot \cup {Nil}]
        /\ superseded' \in Nat
    BY <1>1, <1>4, AdoptTypeOK DEF IngestAdmitted
  <2>2. obs' \in Seq(AdmittedObservation)
    <3>1. [o EXCEPT !.lifecycle = "Correlated"] \in AdmittedObservation
      BY <1>1, <1>4, AppendedObservation DEF IngestAdmitted
    <3>2. obs \in Seq(AdmittedObservation)
      BY DEF TypeOK
    <3>3. obs' = Append(obs, [o EXCEPT !.lifecycle = "Correlated"])
      BY <1>4 DEF IngestAdmitted
    <3> HIDE DEF AdmittedObservation
    <3> QED
      BY <3>1, <3>2, <3>3
  <2>3. obs_by_id' \in [ObservationId -> Nat]
    <3>1. Len(obs) + 1 \in Nat
      BY DEF TypeOK
    <3> QED
      BY <1>4, <3>1 DEF TypeOK, IngestAdmitted
  <2>4. events' \in Nat
    BY <1>4 DEF TypeOK, IngestAdmitted
  <2> QED
    BY <1>4, <2>1, <2>2, <2>3, <2>4 DEF TypeOK, IngestAdmitted, decLog, registry
<1> QED
  BY <1>2, <1>3, <1>4 DEF ingest

\* ingest_decision preserves the types.
LEMMA DecisionTypeOK ==
  ASSUME TypeOK, NEW d \in Decisions, ingest_decision(d)
  PROVE  TypeOK'
<1>1. d \in PlacementDecision
  BY InputAssumption
<1>2. CASE DecisionRefused(d)
  BY <1>2 DEF TypeOK, DecisionRefused, reject, obsLog, decLog, registry, authority
<1>3. CASE DecisionAdmitted(d)
  <2>1. dec' \in Seq(AdmittedDecision)
    <3>1. d \in AdmittedDecision
      BY <1>1, <1>3 DEF DecisionAdmitted, RefusedDecision, InconsistentCandidates, AdmittedDecision
    <3>2. dec \in Seq(AdmittedDecision) /\ dec' = Append(dec, d)
      BY <1>3 DEF TypeOK, DecisionAdmitted
    <3> QED
      BY <3>1, <3>2
  <2>2. Len(dec) + 1 \in Nat
    BY DEF TypeOK
  <2>3. dec_by_id' \in [DecisionId -> Nat]
    BY <1>3, <2>2 DEF TypeOK, DecisionAdmitted
  <2>4. idx_dec_attempt' \in [AttemptId -> Nat]
    BY <1>3, <2>2 DEF TypeOK, DecisionAdmitted, IndexAttempt
  <2> QED
    BY <1>3, <2>1, <2>3, <2>4 DEF TypeOK, DecisionAdmitted, obsLog, registry, authority
<1> QED
  BY <1>2, <1>3 DEF ingest_decision

\* ingest_outcome preserves the types.
LEMMA OutcomeTypeOK ==
  ASSUME TypeOK, NEW o \in Outcomes, ingest_outcome(o)
  PROVE  TypeOK'
<1>1. o \in PlacementOutcome
  BY InputAssumption
<1>2. CASE OutcomeRefused(o)
  BY <1>2 DEF TypeOK, OutcomeRefused, reject, obsLog, decLog, registry, authority
<1>3. CASE OutcomeAdmitted(o)
  <2>1. outcomes' \in [DecisionId -> PlacementOutcome \cup {Nil}]
    <3>1. outcomes \in [DecisionId -> PlacementOutcome \cup {Nil}]
      BY DEF TypeOK
    <3>2. outcomes' = [outcomes EXCEPT ![o.decision_id] = o]
      BY <1>3 DEF OutcomeAdmitted
    <3> QED
      BY <1>1, <3>1, <3>2
  <2> QED
    BY <1>3, <2>1 DEF TypeOK, OutcomeAdmitted, obsLog, decLog, registry, authority
<1> QED
  BY <1>2, <1>3 DEF ingest_outcome

\* Every step of the engine preserves the types.
LEMMA NextTypeOK == TypeOK /\ [Next]_vars => TypeOK'
<1> SUFFICES ASSUME TypeOK, [Next]_vars PROVE TypeOK'
  OBVIOUS
<1>1. ASSUME NEW d \in Descriptors, register_source(d) PROVE TypeOK'
  BY <1>1, RegisterTypeOK
<1>2. ASSUME NEW s \in SourceId, NEW rc \in ReliabilityClass, update_source_health(s, rc)
      PROVE TypeOK'
  BY <1>2 DEF TypeOK, update_source_health, obsLog, decLog, authority
<1>3. ASSUME NEW e \in Epochs, set_coordinator_epoch(e) PROVE TypeOK'
  BY <1>3, InputAssumption DEF TypeOK, set_coordinator_epoch, obsLog, decLog, registry, authority
<1>4. ASSUME NEW o \in Observations, ingest(o) PROVE TypeOK'
  BY <1>4, IngestTypeOK
<1>5. ASSUME NEW d \in Decisions, ingest_decision(d) PROVE TypeOK'
  BY <1>5, DecisionTypeOK
<1>6. ASSUME NEW o \in Outcomes, ingest_outcome(o) PROVE TypeOK'
  BY <1>6, OutcomeTypeOK
<1>7. CASE UNCHANGED vars
  BY <1>7 DEF TypeOK, vars
<1> QED
  BY <1>1, <1>2, <1>3, <1>4, <1>5, <1>6, <1>7 DEF Next

\* Every reachable state of the engine is well typed, and its logs hold
\* well-formed records only, whatever callers pass in.
THEOREM TypeCorrect == Spec => []TypeOK
<1> QED
  BY InitTypeOK, NextTypeOK, PTL DEF Spec

(***************************************************************************)
(* What a step may change.                                                 *)
(***************************************************************************)

\* The configuration is fixed, and the observation log grows only by an
\* admitted observation.
LEMMA ObsChange ==
  ASSUME [Next]_vars
  PROVE  /\ cfg' = cfg
         /\ \/ obs' = obs /\ obs_by_id' = obs_by_id
            \/ \E o \in Observations : IngestAdmitted(o)
<1> USE DEF obsLog, decLog, registry, authority
<1>1. ASSUME NEW d \in Descriptors, register_source(d)
      PROVE cfg' = cfg /\ obs' = obs /\ obs_by_id' = obs_by_id
  BY <1>1 DEF register_source
<1>2. ASSUME NEW s \in SourceId, NEW rc \in ReliabilityClass, update_source_health(s, rc)
      PROVE cfg' = cfg /\ obs' = obs /\ obs_by_id' = obs_by_id
  BY <1>2 DEF update_source_health
<1>3. ASSUME NEW e \in Epochs, set_coordinator_epoch(e)
      PROVE cfg' = cfg /\ obs' = obs /\ obs_by_id' = obs_by_id
  BY <1>3 DEF set_coordinator_epoch
<1>4. ASSUME NEW o \in Observations, ingest(o)
      PROVE cfg' = cfg /\ (\/ obs' = obs /\ obs_by_id' = obs_by_id
                          \/ IngestAdmitted(o))
  BY <1>4 DEF ingest, IngestRefusedEarly, IngestRefusedLate, IngestAdmitted
<1>5. ASSUME NEW d \in Decisions, ingest_decision(d)
      PROVE cfg' = cfg /\ obs' = obs /\ obs_by_id' = obs_by_id
  BY <1>5 DEF ingest_decision, DecisionRefused, DecisionAdmitted
<1>6. ASSUME NEW o \in Outcomes, ingest_outcome(o)
      PROVE cfg' = cfg /\ obs' = obs /\ obs_by_id' = obs_by_id
  BY <1>6 DEF ingest_outcome, OutcomeRefused, OutcomeAdmitted
<1>7. CASE UNCHANGED vars
  BY <1>7 DEF vars
<1> QED
  BY <1>1, <1>2, <1>3, <1>4, <1>5, <1>6, <1>7 DEF Next

\* The authority of a source is changed only by register_source and by the
\* observations that pass the authority checks of ingest.
LEMMA AuthorityChange ==
  ASSUME [Next]_vars
  PROVE  \/ UNCHANGED authority
         \/ \E d \in Descriptors : register_source(d)
         \/ \E o \in Observations : ~RefusedEarly(o) /\ AdoptAuthority(o)
<1> USE DEF authority
<1>1. ASSUME NEW s \in SourceId, NEW rc \in ReliabilityClass, update_source_health(s, rc)
      PROVE UNCHANGED authority
  BY <1>1 DEF update_source_health
<1>2. ASSUME NEW e \in Epochs, set_coordinator_epoch(e)
      PROVE UNCHANGED authority
  BY <1>2 DEF set_coordinator_epoch
<1>3. ASSUME NEW o \in Observations, ingest(o)
      PROVE UNCHANGED authority \/ (~RefusedEarly(o) /\ AdoptAuthority(o))
  BY <1>3 DEF ingest, IngestRefusedEarly, IngestRefusedLate, IngestAdmitted
<1>4. ASSUME NEW d \in Decisions, ingest_decision(d)
      PROVE UNCHANGED authority
  BY <1>4 DEF ingest_decision, DecisionRefused, DecisionAdmitted
<1>5. ASSUME NEW o \in Outcomes, ingest_outcome(o)
      PROVE UNCHANGED authority
  BY <1>5 DEF ingest_outcome, OutcomeRefused, OutcomeAdmitted
<1>6. CASE UNCHANGED vars
  BY <1>6 DEF vars
<1> QED
  BY <1>1, <1>2, <1>3, <1>4, <1>5, <1>6 DEF Next

(***************************************************************************)
(* Source authority.                                                       *)
(***************************************************************************)

\* Registration moves the authority forward only.
LEMMA RegisterAuthority ==
  ASSUME TypeOK, NEW d \in Descriptors, register_source(d)
  PROVE  AuthorityStep
<1>1. d.source_id \in SourceId /\ d.generation \in Nat
  BY InputAssumption DEF SourceDescriptor
<1>2. src_gen \in [SourceId -> Nat] /\ src_boot \in [SourceId -> Boot \cup {Nil}]
  BY DEF TypeOK
<1>3. CASE RaisesGeneration(d)
  BY <1>1, <1>2, <1>3 DEF register_source, RaisesGeneration, AuthorityStep
<1>4. CASE ~RaisesGeneration(d)
  BY <1>2, <1>4 DEF register_source, AuthorityStep, authority
<1> QED
  BY <1>3, <1>4

\* So does the adoption of an observation's generation and boot.
LEMMA AdoptAuthorityStep ==
  ASSUME TypeOK, NEW o \in Observations, AdoptAuthority(o)
  PROVE  AuthorityStep
<1>1. o.source_id \in SourceId /\ o.source_generation \in Nat
  BY InputAssumption DEF PlacementObservation
<1>2. src_gen \in [SourceId -> Nat] /\ src_boot \in [SourceId -> Boot \cup {Nil}]
  BY DEF TypeOK
<1>3. CASE o.source_generation > src_gen[o.source_id]
  BY <1>1, <1>2, <1>3 DEF AdoptAuthority, AuthorityStep
<1>4. CASE ~(o.source_generation > src_gen[o.source_id])
  BY <1>1, <1>2, <1>4 DEF AdoptAuthority, AdoptedBoot, have_boot, AuthorityStep
<1> QED
  BY <1>3, <1>4

\* Every step moves the authority of every source forward only.
LEMMA NextAuthorityStep == TypeOK /\ [Next]_vars => AuthorityStep
<1> SUFFICES ASSUME TypeOK, [Next]_vars PROVE AuthorityStep
  OBVIOUS
<1>1. CASE UNCHANGED authority
  BY <1>1 DEF TypeOK, AuthorityStep, authority
<1> QED
  BY <1>1, AuthorityChange, RegisterAuthority, AdoptAuthorityStep

\* Generations are monotonic and a trusted boot is stable within its
\* generation, in every behaviour (docs/sources.md, "SourceGenerations are
\* monotonic").
THEOREM AuthorityIsMonotone == Spec => AuthorityMonotone
<1> QED
  BY TypeCorrect, NextAuthorityStep, PTL DEF Spec, AuthorityMonotone

\* An admitted observation, seen from the state before the step: with the
\* checks on it is at least of the current generation, and of the trusted
\* boot when there is one for that generation.
LEMMA AdmittedPasses ==
  ASSUME TypeOK, NEW o \in Observations, ~RefusedEarly(o)
  PROVE  /\ o.source_id \in SourceId
         /\ o.source_generation \in Nat
         /\ o.worker_boot \in Boot \cup {Nil}
         /\ cfg.enforce_stale_source_generation =>
              o.source_generation >= src_gen[o.source_id]
         /\ cfg.enforce_stale_worker_boot
              /\ o.source_generation = src_gen[o.source_id]
              /\ src_boot[o.source_id] # Nil
              => o.worker_boot = src_boot[o.source_id]
<1>1. o \in PlacementObservation
  BY InputAssumption
<1>2. src_gen[o.source_id] \in Nat
  BY <1>1 DEF TypeOK, PlacementObservation
<1> QED
  BY <1>1, <1>2 DEF PlacementObservation, RefusedEarly, StaleGeneration, StaleBoot, have_boot

\* The appended entry carries the identity and authority of the observation.
LEMMA AppendedEntry ==
  ASSUME TypeOK, NEW o \in Observations, IngestAdmitted(o)
  PROVE  /\ Len(obs') = Len(obs) + 1
         /\ \A i \in 1..Len(obs) : obs'[i] = obs[i]
         /\ obs'[Len(obs) + 1].observation_id = o.observation_id
         /\ obs'[Len(obs) + 1].source_id = o.source_id
         /\ obs'[Len(obs) + 1].source_generation = o.source_generation
         /\ obs'[Len(obs) + 1].worker_boot = o.worker_boot
         /\ obs'[Len(obs) + 1].coordinator_epoch = o.coordinator_epoch
<1> DEFINE e == [o EXCEPT !.lifecycle = "Correlated"]
<1>1. o \in PlacementObservation
  BY InputAssumption
<1>2. /\ e.observation_id = o.observation_id
      /\ e.source_id = o.source_id
      /\ e.source_generation = o.source_generation
      /\ e.worker_boot = o.worker_boot
      /\ e.coordinator_epoch = o.coordinator_epoch
  BY <1>1 DEF PlacementObservation
<1>3. obs' = Append(obs, e) /\ obs \in Seq(AdmittedObservation)
  BY DEF IngestAdmitted, TypeOK
<1> HIDE DEF e
<1>4. Len(obs') = Len(obs) + 1 /\ obs'[Len(obs) + 1] = e
  BY <1>3
<1>5. \A i \in 1..Len(obs) : obs'[i] = obs[i]
  BY <1>3
<1> QED
  BY <1>2, <1>4, <1>5

\* After the step the authority of its source is what the admitted
\* observation carries, provided it was at least of the current generation.
LEMMA AdoptedAuthority ==
  ASSUME TypeOK, NEW o \in Observations, ~RefusedEarly(o), AdoptAuthority(o)
  PROVE  /\ o.source_generation <= src_gen'[o.source_id]
         /\ cfg.enforce_stale_source_generation =>
              src_gen'[o.source_id] = o.source_generation
         /\ cfg.enforce_stale_source_generation /\ cfg.enforce_stale_worker_boot =>
              src_boot'[o.source_id] = o.worker_boot
<1> DEFINE s == o.source_id
<1>1. /\ s \in SourceId
      /\ o.source_generation \in Nat
      /\ cfg.enforce_stale_source_generation => o.source_generation >= src_gen[s]
      /\ cfg.enforce_stale_worker_boot /\ o.source_generation = src_gen[s]
           /\ src_boot[s] # Nil => o.worker_boot = src_boot[s]
  BY AdmittedPasses
<1>2. src_gen[s] \in Nat
  BY <1>1 DEF TypeOK
<1>3. src_boot'[s] = AdoptedBoot(o)
  BY <1>1 DEF AdoptAuthority, TypeOK
<1>4. CASE o.source_generation > src_gen[s]
  <2>1. src_gen'[s] = o.source_generation
    BY <1>1, <1>4 DEF AdoptAuthority, TypeOK
  <2>2. AdoptedBoot(o) = o.worker_boot
    BY <1>4 DEF AdoptedBoot
  <2> QED
    BY <1>1, <1>3, <2>1, <2>2
<1>5. CASE ~(o.source_generation > src_gen[s])
  <2>1. src_gen'[s] = src_gen[s]
    BY <1>1, <1>5 DEF AdoptAuthority
  <2>2. AdoptedBoot(o) = IF src_boot[s] = Nil THEN o.worker_boot ELSE src_boot[s]
    BY <1>5 DEF AdoptedBoot, have_boot
  <2> QED
    BY <1>1, <1>2, <1>3, <1>5, <2>1, <2>2
<1> QED
  BY <1>4, <1>5

\* The inductive invariant of source authority.  SourceOrder and BootFence
\* compare entries of the log with each other; what makes a new entry comply
\* is that the authority covers every entry before it.
AuthorityInv == AuthorityCoversLog /\ SourceOrder /\ BootFence

\* Entries already in the log stay covered: the authority moves forward, and
\* keeps the trusted boot while it stays.
LEMMA StillCovered ==
  ASSUME TypeOK, TypeOK', AuthorityCoversLog, AuthorityStep, cfg' = cfg,
         NEW i \in 1..Len(obs), obs'[i] = obs[i]
  PROVE  /\ obs'[i].source_generation <= src_gen'[obs'[i].source_id]
         /\ \/ obs'[i].source_generation < src_gen'[obs'[i].source_id]
            \/ obs'[i].worker_boot = Nil
            \/ ~cfg'.enforce_stale_source_generation
            \/ ~cfg'.enforce_stale_worker_boot
            \/ obs'[i].worker_boot = src_boot'[obs'[i].source_id]
<1> DEFINE g == obs[i].source_generation
           s == obs[i].source_id
           b == obs[i].worker_boot
<1>1. obs[i] \in AdmittedObservation
  BY DEF TypeOK
<1>2. g \in Nat /\ s \in SourceId
  BY <1>1 DEF AdmittedObservation, PlacementObservation
<1>3. src_gen[s] \in Nat /\ src_gen'[s] \in Nat
  BY <1>2 DEF TypeOK
<1>4. src_gen'[s] >= src_gen[s] /\ (src_gen'[s] = src_gen[s] /\ src_boot[s] # Nil
                                     => src_boot'[s] = src_boot[s])
  BY <1>2 DEF AuthorityStep
<1>5. /\ g <= src_gen[s]
      /\ \/ g < src_gen[s]
         \/ b = Nil
         \/ ~cfg.enforce_stale_source_generation
         \/ ~cfg.enforce_stale_worker_boot
         \/ b = src_boot[s]
  BY DEF AuthorityCoversLog
<1>6. src_gen'[s] = src_gen[s] \/ src_gen'[s] > g
  BY <1>2, <1>3, <1>4, <1>5
<1> QED
  BY <1>2, <1>3, <1>4, <1>5, <1>6

\* The authority invariant holds initially: the log is empty.
LEMMA InitAuthorityInv == Init => AuthorityInv
BY DEF Init, AuthorityInv, AuthorityCoversLog, SourceOrder, BootFence

\* Appending an admitted observation keeps the three conjuncts.
LEMMA AdmitAuthorityInv ==
  ASSUME TypeOK, TypeOK', AuthorityInv, AuthorityStep, cfg' = cfg,
         NEW o \in Observations, IngestAdmitted(o)
  PROVE  AuthorityInv'
<1> DEFINE n == Len(obs) + 1
           s == o.source_id
<1>1. /\ Len(obs') = n
      /\ \A i \in 1..Len(obs) : obs'[i] = obs[i]
      /\ obs'[n].source_id = s
      /\ obs'[n].source_generation = o.source_generation
      /\ obs'[n].worker_boot = o.worker_boot
  BY AppendedEntry
<1>2. ~RefusedEarly(o) /\ AdoptAuthority(o)
  BY DEF IngestAdmitted
<1>3. /\ s \in SourceId
      /\ o.source_generation \in Nat
      /\ cfg.enforce_stale_source_generation => o.source_generation >= src_gen[s]
      /\ cfg.enforce_stale_worker_boot /\ o.source_generation = src_gen[s]
           /\ src_boot[s] # Nil => o.worker_boot = src_boot[s]
  BY <1>2, AdmittedPasses
<1>4. Len(obs) \in Nat /\ src_gen[s] \in Nat
  BY <1>3 DEF TypeOK
<1>5. \A i \in 1..Len(obs) :
         /\ obs[i].source_generation \in Nat
         /\ obs[i].source_generation <= src_gen[obs[i].source_id]
         /\ \/ obs[i].source_generation < src_gen[obs[i].source_id]
            \/ obs[i].worker_boot = Nil
            \/ ~cfg.enforce_stale_source_generation
            \/ ~cfg.enforce_stale_worker_boot
            \/ obs[i].worker_boot = src_boot[obs[i].source_id]
  <2>1. \A i \in 1..Len(obs) : obs[i] \in AdmittedObservation
    BY DEF TypeOK
  <2>2. \A i \in 1..Len(obs) : obs[i].source_generation \in Nat
    BY <2>1 DEF AdmittedObservation, PlacementObservation
  <2> QED
    BY <2>2 DEF AuthorityInv, AuthorityCoversLog
<1>6. \A i \in 1..Len(obs') : i \in 1..Len(obs) \/ i = n
  BY <1>1, <1>4
<1>7. AuthorityCoversLog'
  <2> SUFFICES ASSUME NEW i \in 1..Len(obs')
               PROVE  /\ obs'[i].source_generation <= src_gen'[obs'[i].source_id]
                      /\ \/ obs'[i].source_generation < src_gen'[obs'[i].source_id]
                         \/ obs'[i].worker_boot = Nil
                         \/ ~cfg'.enforce_stale_source_generation
                         \/ ~cfg'.enforce_stale_worker_boot
                         \/ obs'[i].worker_boot = src_boot'[obs'[i].source_id]
    BY DEF AuthorityCoversLog
  <2>1. CASE i \in 1..Len(obs)
    BY <1>1, <2>1, StillCovered DEF AuthorityInv
  <2>2. CASE i = n
    BY <1>1, <1>2, <2>2, AdoptedAuthority
  <2> QED
    BY <1>6, <2>1, <2>2
<1>8. SourceOrder'
  <2> SUFFICES ASSUME cfg.enforce_stale_source_generation,
                      NEW i \in 1..Len(obs'), NEW j \in 1..Len(obs'), i < j,
                      obs'[i].source_id = obs'[j].source_id
               PROVE  obs'[i].source_generation <= obs'[j].source_generation
    BY DEF SourceOrder
  <2>1. i \in 1..Len(obs)
    BY <1>1, <1>4, <1>6
  <2>2. CASE j \in 1..Len(obs)
    BY <1>1, <2>1, <2>2 DEF AuthorityInv, SourceOrder
  <2>3. CASE j = n
    BY <1>1, <1>3, <1>4, <1>5, <2>1, <2>3
  <2> QED
    BY <1>6, <2>2, <2>3
<1>9. BootFence'
  <2> SUFFICES ASSUME cfg.enforce_stale_source_generation, cfg.enforce_stale_worker_boot,
                      NEW i \in 1..Len(obs'), NEW j \in 1..Len(obs'), i < j,
                      obs'[i].source_id = obs'[j].source_id,
                      obs'[i].source_generation = obs'[j].source_generation,
                      obs'[i].worker_boot # Nil
               PROVE  obs'[j].worker_boot = obs'[i].worker_boot
    BY DEF BootFence
  <2>1. i \in 1..Len(obs)
    BY <1>1, <1>4, <1>6
  <2>2. CASE j \in 1..Len(obs)
    BY <1>1, <2>1, <2>2 DEF AuthorityInv, BootFence
  <2>3. CASE j = n
    <3>1. obs[i].source_generation = src_gen[s] /\ obs[i].source_id = s
      BY <1>1, <1>3, <1>4, <1>5, <2>1, <2>3
    <3>2. obs[i].worker_boot = src_boot[s] /\ src_boot[s] # Nil
      BY <1>1, <1>4, <1>5, <2>1, <3>1
    <3> QED
      BY <1>1, <1>3, <2>1, <2>3, <3>1, <3>2
  <2> QED
    BY <1>6, <2>2, <2>3
<1> QED
  BY <1>7, <1>8, <1>9 DEF AuthorityInv

\* Every step keeps the authority invariant.
LEMMA NextAuthorityInv == TypeOK /\ TypeOK' /\ AuthorityInv /\ [Next]_vars => AuthorityInv'
<1> SUFFICES ASSUME TypeOK, TypeOK', AuthorityInv, [Next]_vars PROVE AuthorityInv'
  OBVIOUS
<1>1. AuthorityStep
  BY NextAuthorityStep
<1>2. cfg' = cfg
  BY ObsChange
<1>3. CASE obs' = obs
  <2>1. AuthorityCoversLog'
    BY <1>1, <1>2, <1>3, StillCovered DEF AuthorityInv, AuthorityCoversLog
  <2>2. SourceOrder' /\ BootFence'
    BY <1>2, <1>3 DEF AuthorityInv, SourceOrder, BootFence
  <2> QED
    BY <2>1, <2>2 DEF AuthorityInv
<1>4. CASE \E o \in Observations : IngestAdmitted(o)
  BY <1>1, <1>2, <1>4, AdmitAuthorityInv
<1> QED
  BY <1>3, <1>4, ObsChange

\* The authority invariant holds in every reachable state.
LEMMA AuthorityInvariant == Spec => []AuthorityInv
<1> QED
  BY TypeCorrect, InitAuthorityInv, NextAuthorityInv, PTL DEF Spec

\* The enforced authority is never behind the evidence.
THEOREM AuthorityCovers == Spec => []AuthorityCoversLog
<1>1. AuthorityInv => AuthorityCoversLog
  BY DEF AuthorityInv
<1> QED
  BY <1>1, AuthorityInvariant, PTL

\* Per source, generations never decrease along the canonical log.
THEOREM SourcesInOrder == Spec => []SourceOrder
<1>1. AuthorityInv => SourceOrder
  BY DEF AuthorityInv
<1> QED
  BY <1>1, AuthorityInvariant, PTL

\* One worker boot per source generation.
THEOREM BootsFenced == Spec => []BootFence
<1>1. AuthorityInv => BootFence
  BY DEF AuthorityInv
<1> QED
  BY <1>1, AuthorityInvariant, PTL

\* A step that admits an observation leaves the authority of its source equal
\* to what the observation carries.
LEMMA NextAdmissionStep == TypeOK /\ [Next]_vars => AdmissionStep
<1> SUFFICES ASSUME TypeOK, [Next]_vars,
                    cfg.enforce_stale_source_generation,
                    cfg.enforce_stale_worker_boot,
                    cfg.enforce_stale_coordinator_epoch,
                    Len(obs') > Len(obs)
             PROVE  LET e == obs'[Len(obs')]
                    IN /\ src_gen'[e.source_id] = e.source_generation
                       /\ src_boot'[e.source_id] = e.worker_boot
                       /\ e.coordinator_epoch = 0 \/ e.coordinator_epoch >= coordinator'
  BY DEF AdmissionStep
<1>1. obs' # obs
  BY DEF TypeOK
<1>2. PICK o \in Observations : IngestAdmitted(o)
  BY <1>1, ObsChange
<1>3. /\ Len(obs') = Len(obs) + 1
      /\ obs'[Len(obs) + 1].source_id = o.source_id
      /\ obs'[Len(obs) + 1].source_generation = o.source_generation
      /\ obs'[Len(obs) + 1].worker_boot = o.worker_boot
      /\ obs'[Len(obs) + 1].coordinator_epoch = o.coordinator_epoch
  BY <1>2, AppendedEntry
<1>4. src_gen'[o.source_id] = o.source_generation /\ src_boot'[o.source_id] = o.worker_boot
  BY <1>2, AdoptedAuthority DEF IngestAdmitted
<1>5. o.coordinator_epoch = 0 \/ o.coordinator_epoch >= coordinator'
  <2>1. o.coordinator_epoch \in Nat /\ coordinator \in Nat
    BY InputAssumption DEF TypeOK, PlacementObservation
  <2>2. ~StaleEpoch(o.coordinator_epoch) /\ coordinator' = coordinator
    BY <1>2 DEF IngestAdmitted, RefusedLate
  <2> QED
    BY <2>1, <2>2 DEF StaleEpoch
<1> QED
  BY <1>3, <1>4, <1>5

\* Evidence is admitted only from the holder of the current authority.
THEOREM AdmissionsAreCurrent == Spec => AdmittedIsCurrent
<1> QED
  BY TypeCorrect, NextAdmissionStep, PTL DEF Spec, AdmittedIsCurrent

(***************************************************************************)
(* Indices, attempts and outcomes.                                         *)
(***************************************************************************)

\* Decisions and outcomes change only by an admitted decision or outcome.
LEMMA DecChange ==
  ASSUME [Next]_vars
  PROVE  \/ UNCHANGED <<dec, dec_by_id, idx_dec_attempt, outcomes>>
         \/ \E d \in Decisions : DecisionAdmitted(d)
         \/ \E o \in Outcomes : OutcomeAdmitted(o)
<1> USE DEF decLog
<1> DEFINE Same == UNCHANGED <<dec, dec_by_id, idx_dec_attempt, outcomes>>
<1>1. ASSUME NEW d \in Descriptors, register_source(d) PROVE Same
  BY <1>1 DEF register_source
<1>2. ASSUME NEW s \in SourceId, NEW rc \in ReliabilityClass, update_source_health(s, rc)
      PROVE Same
  BY <1>2 DEF update_source_health
<1>3. ASSUME NEW e \in Epochs, set_coordinator_epoch(e) PROVE Same
  BY <1>3 DEF set_coordinator_epoch
<1>4. ASSUME NEW o \in Observations, ingest(o) PROVE Same
  BY <1>4 DEF ingest, IngestRefusedEarly, IngestRefusedLate, IngestAdmitted
<1>5. ASSUME NEW d \in Decisions, ingest_decision(d) PROVE Same \/ DecisionAdmitted(d)
  BY <1>5 DEF ingest_decision, DecisionRefused
<1>6. ASSUME NEW o \in Outcomes, ingest_outcome(o) PROVE Same \/ OutcomeAdmitted(o)
  BY <1>6 DEF ingest_outcome, OutcomeRefused
<1>7. CASE UNCHANGED vars
  BY <1>7 DEF vars
<1> QED
  BY <1>1, <1>2, <1>3, <1>4, <1>5, <1>6, <1>7 DEF Next

\* A key not yet in the index is the key of no record in the log, and stays
\* the only one once a record with it is appended.
LEMMA ObsIndexStep ==
  ASSUME TypeOK, ObsIndexExact, NEW o \in Observations, IngestAdmitted(o)
  PROVE  ObsIndexExact'
<1> DEFINE n == Len(obs) + 1
<1>1. /\ Len(obs') = n
      /\ \A i \in 1..Len(obs) : obs'[i] = obs[i]
      /\ obs'[n].observation_id = o.observation_id
  BY AppendedEntry
<1>2. o \in PlacementObservation /\ o.observation_id # Nil
  BY InputAssumption DEF IngestAdmitted, RefusedEarly, MalformedObservation
<1>3. o.observation_id \in ObservationId
  BY <1>2 DEF PlacementObservation
<1>4. obs_by_id[o.observation_id] = 0
  BY <1>3 DEF IngestAdmitted, RefusedEarly, DuplicateObservation, Keys, TypeOK
<1>5. Len(obs) \in Nat /\ obs_by_id \in [ObservationId -> Nat]
  BY DEF TypeOK
<1>6. obs_by_id' = [obs_by_id EXCEPT ![o.observation_id] = n]
  BY DEF IngestAdmitted
<1> SUFFICES ASSUME NEW k \in ObservationId
             PROVE  /\ obs_by_id'[k] <= Len(obs')
                    /\ \A i \in 1..Len(obs') : obs_by_id'[k] = i <=> obs'[i].observation_id = k
  BY DEF ObsIndexExact
<1>7. /\ obs_by_id[k] <= Len(obs)
      /\ \A i \in 1..Len(obs) : obs_by_id[k] = i <=> obs[i].observation_id = k
  BY DEF ObsIndexExact
<1>8. CASE k = o.observation_id
  BY <1>1, <1>3, <1>4, <1>5, <1>6, <1>7, <1>8
<1>9. CASE k # o.observation_id
  BY <1>1, <1>3, <1>5, <1>6, <1>7, <1>9
<1> QED
  BY <1>8, <1>9

\* What the checks of ingest_decision guarantee about an admitted decision.
LEMMA AdmittedDecisionPasses ==
  ASSUME TypeOK, NEW d \in Decisions, DecisionAdmitted(d)
  PROVE  /\ d.decision_id \in DecisionId
         /\ d.attempt_id \in AttemptId \cup {Nil}
         /\ dec_by_id[d.decision_id] = 0
         /\ ~DuplicateAttempt(d)
         /\ dec' = Append(dec, d)
         /\ dec \in Seq(AdmittedDecision)
<1>1. d \in PlacementDecision
  BY InputAssumption
<1>2. d.decision_id \in DecisionId
  BY <1>1 DEF DecisionAdmitted, RefusedDecision, PlacementDecision
<1> QED
  BY <1>1, <1>2 DEF DecisionAdmitted, RefusedDecision, PlacementDecision, Keys, TypeOK

\* Appending an admitted decision keeps the decision index exact.
LEMMA DecIndexStep ==
  ASSUME TypeOK, DecIndexExact, NEW d \in Decisions, DecisionAdmitted(d)
  PROVE  DecIndexExact'
<1> DEFINE n == Len(dec) + 1
<1>1. /\ d.decision_id \in DecisionId
      /\ dec_by_id[d.decision_id] = 0
      /\ dec' = Append(dec, d)
      /\ dec \in Seq(AdmittedDecision)
  BY AdmittedDecisionPasses
<1>2. Len(dec') = n /\ dec'[n] = d /\ \A i \in 1..Len(dec) : dec'[i] = dec[i]
  BY <1>1
<1>3. Len(dec) \in Nat /\ dec_by_id \in [DecisionId -> Nat]
  BY DEF TypeOK
<1>4. dec_by_id' = [dec_by_id EXCEPT ![d.decision_id] = n]
  BY DEF DecisionAdmitted
<1> SUFFICES ASSUME NEW k \in DecisionId
             PROVE  /\ dec_by_id'[k] <= Len(dec')
                    /\ \A i \in 1..Len(dec') : dec_by_id'[k] = i <=> dec'[i].decision_id = k
  BY DEF DecIndexExact
<1>5. /\ dec_by_id[k] <= Len(dec)
      /\ \A i \in 1..Len(dec) : dec_by_id[k] = i <=> dec[i].decision_id = k
  BY DEF DecIndexExact
<1>6. dec'[n].decision_id = d.decision_id
  BY <1>2
<1>7. CASE k = d.decision_id
  BY <1>1, <1>2, <1>3, <1>4, <1>5, <1>6, <1>7
<1>8. CASE k # d.decision_id
  BY <1>1, <1>2, <1>3, <1>4, <1>5, <1>6, <1>8
<1> QED
  BY <1>7, <1>8

\* An admitted decision's attempt is new.  The engine refuses an attempt that
\* is indexed at a decision with another id; at a decision with the same id
\* it cannot be, since that id would have been refused first.
LEMMA AdmittedAttemptIsNew ==
  ASSUME TypeOK, DecIndexExact, AttemptIndexExact,
         NEW d \in Decisions, DecisionAdmitted(d), d.attempt_id # Nil
  PROVE  d.attempt_id \in AttemptId /\ idx_dec_attempt[d.attempt_id] = 0
<1> DEFINE a == d.attempt_id
           i == idx_dec_attempt[a]
<1>1. /\ d.decision_id \in DecisionId
      /\ a \in AttemptId
      /\ dec_by_id[d.decision_id] = 0
      /\ ~DuplicateAttempt(d)
  BY AdmittedDecisionPasses
<1>2. i \in Nat /\ i <= Len(dec) /\ Len(dec) \in Nat
  BY <1>1 DEF TypeOK, AttemptIndexExact
<1> SUFFICES ASSUME i # 0 PROVE FALSE
  BY <1>1
<1>3. i \in 1..Len(dec)
  BY <1>2
<1>4. a \in Keys(idx_dec_attempt)
  BY <1>1 DEF Keys, TypeOK
<1>5. dec[i].decision_id = d.decision_id
  BY <1>1, <1>4 DEF DuplicateAttempt
<1>6. dec_by_id[d.decision_id] = i
  BY <1>1, <1>3, <1>5 DEF DecIndexExact
<1> QED
  BY <1>1, <1>6

\* Appending an admitted decision keeps the attempt index exact.
LEMMA AttemptIndexStep ==
  ASSUME TypeOK, DecIndexExact, AttemptIndexExact, NEW d \in Decisions, DecisionAdmitted(d)
  PROVE  AttemptIndexExact'
<1> DEFINE n == Len(dec) + 1
<1>1. dec' = Append(dec, d) /\ dec \in Seq(AdmittedDecision)
  BY AdmittedDecisionPasses
<1>2. Len(dec') = n /\ dec'[n] = d /\ \A i \in 1..Len(dec) : dec'[i] = dec[i]
  BY <1>1
<1>3. Len(dec) \in Nat /\ idx_dec_attempt \in [AttemptId -> Nat]
  BY DEF TypeOK
<1>4. IndexAttempt(d, n)
  BY DEF DecisionAdmitted
<1> SUFFICES ASSUME NEW k \in AttemptId
             PROVE  /\ idx_dec_attempt'[k] <= Len(dec')
                    /\ \A i \in 1..Len(dec') :
                          idx_dec_attempt'[k] = i <=> dec'[i].attempt_id = k
  BY DEF AttemptIndexExact
<1>5. /\ idx_dec_attempt[k] <= Len(dec)
      /\ \A i \in 1..Len(dec) : idx_dec_attempt[k] = i <=> dec[i].attempt_id = k
  BY DEF AttemptIndexExact
<1>6. k # Nil /\ dec'[n].attempt_id = d.attempt_id
  BY <1>2, NilAssumption
<1>7. CASE k = d.attempt_id
  <2>1. idx_dec_attempt[k] = 0
    BY <1>6, <1>7, AdmittedAttemptIsNew
  <2>2. idx_dec_attempt'[k] = n
    BY <1>3, <1>4, <1>6, <1>7 DEF IndexAttempt
  <2> QED
    BY <1>2, <1>3, <1>5, <1>6, <1>7, <2>1, <2>2
<1>8. CASE k # d.attempt_id
  <2>1. idx_dec_attempt'[k] = idx_dec_attempt[k]
    BY <1>3, <1>4, <1>8 DEF IndexAttempt
  <2> QED
    BY <1>2, <1>3, <1>5, <1>6, <1>8, <2>1
<1> QED
  BY <1>7, <1>8

\* Every step keeps the three indices exact.
LEMMA NextIndexesExact == TypeOK /\ IndexesExact /\ [Next]_vars => IndexesExact'
<1> SUFFICES ASSUME TypeOK, IndexesExact, [Next]_vars PROVE IndexesExact'
  OBVIOUS
<1> USE DEF IndexesExact
<1>1. ObsIndexExact'
  <2>1. CASE obs' = obs /\ obs_by_id' = obs_by_id
    BY <2>1 DEF ObsIndexExact
  <2> QED
    BY <2>1, ObsChange, ObsIndexStep
<1>2. DecIndexExact' /\ AttemptIndexExact'
  <2>1. CASE UNCHANGED <<dec, dec_by_id, idx_dec_attempt, outcomes>>
    BY <2>1 DEF DecIndexExact, AttemptIndexExact
  <2>2. ASSUME NEW d \in Decisions, DecisionAdmitted(d)
        PROVE DecIndexExact' /\ AttemptIndexExact'
    BY <2>2, DecIndexStep, AttemptIndexStep
  <2>3. ASSUME NEW o \in Outcomes, OutcomeAdmitted(o)
        PROVE DecIndexExact' /\ AttemptIndexExact'
    BY <2>3 DEF OutcomeAdmitted, decLog, DecIndexExact, AttemptIndexExact
  <2> QED
    BY <2>1, <2>2, <2>3, DecChange
<1> QED
  BY <1>1, <1>2

\* Lookups by observation id, decision id and attempt are exact in every
\* reachable state.
THEOREM IndexesAreExact == Spec => []IndexesExact
<1>1. Init => IndexesExact
  BY DEF Init, IndexesExact, ObsIndexExact, DecIndexExact, AttemptIndexExact
<1> QED
  BY <1>1, TypeCorrect, NextIndexesExact, PTL DEF Spec

\* No placement attempt is recorded for two decisions.
THEOREM AttemptsUnique == Spec => []AttemptUnique
<1>1. TypeOK /\ IndexesExact => AttemptUnique
  <2> SUFFICES ASSUME TypeOK, IndexesExact,
                      NEW i \in 1..Len(dec), NEW j \in 1..Len(dec),
                      dec[i].attempt_id # Nil, dec[i].attempt_id = dec[j].attempt_id
               PROVE  i = j
    BY DEF AttemptUnique
  <2>1. dec[i] \in AdmittedDecision
    BY DEF TypeOK
  <2>2. dec[i].attempt_id \in AttemptId
    BY <2>1 DEF AdmittedDecision, PlacementDecision
  <2>3. idx_dec_attempt[dec[i].attempt_id] = i /\ idx_dec_attempt[dec[i].attempt_id] = j
    BY <2>2 DEF IndexesExact, AttemptIndexExact
  <2> QED
    BY <2>3
<1> QED
  BY <1>1, TypeCorrect, IndexesAreExact, PTL

\* Every step keeps outcomes linked to their decisions: a decision's record
\* and its index entry stay, and an outcome is admitted only against them.
LEMMA NextOutcomeLinked ==
  TypeOK /\ IndexesExact /\ OutcomeLinked /\ [Next]_vars => OutcomeLinked'
<1> SUFFICES ASSUME TypeOK, IndexesExact, OutcomeLinked, [Next]_vars PROVE OutcomeLinked'
  OBVIOUS
<1>1. CASE UNCHANGED <<dec, dec_by_id, idx_dec_attempt, outcomes>>
  BY <1>1 DEF OutcomeLinked
<1>2. ASSUME NEW d \in Decisions, DecisionAdmitted(d) PROVE OutcomeLinked'
  <2>1. /\ d.decision_id \in DecisionId
        /\ dec_by_id[d.decision_id] = 0
        /\ dec' = Append(dec, d)
        /\ dec \in Seq(AdmittedDecision)
    BY <1>2, AdmittedDecisionPasses
  <2>2. outcomes' = outcomes /\ dec_by_id' = [dec_by_id EXCEPT ![d.decision_id] = Len(dec) + 1]
    BY <1>2 DEF DecisionAdmitted
  <2> SUFFICES ASSUME NEW k \in DecisionId, outcomes[k] # Nil
               PROVE  /\ dec_by_id'[k] = dec_by_id[k]
                      /\ dec'[dec_by_id[k]] = dec[dec_by_id[k]]
    BY <2>2 DEF OutcomeLinked
  <2>3. dec_by_id[k] # 0
    BY DEF OutcomeLinked
  <2>4. dec_by_id[k] \in 1..Len(dec)
    BY <2>3 DEF TypeOK, IndexesExact, DecIndexExact
  <2> QED
    BY <2>1, <2>2, <2>3, <2>4 DEF TypeOK
<1>3. ASSUME NEW o \in Outcomes, OutcomeAdmitted(o) PROVE OutcomeLinked'
  <2>1. dec' = dec /\ dec_by_id' = dec_by_id /\ outcomes' = [outcomes EXCEPT ![o.decision_id] = o]
    BY <1>3 DEF OutcomeAdmitted, decLog
  <2>2. /\ o.decision_id \in DecisionId
        /\ dec_by_id[o.decision_id] # 0
        /\ o.disposition # "Unknown"
        /\ ~WrongAttempt(o, dec[dec_by_id[o.decision_id]])
    BY <1>3 DEF OutcomeAdmitted, RefusedOutcome, Keys, TypeOK
  <2> SUFFICES ASSUME NEW k \in DecisionId, outcomes'[k] # Nil
               PROVE  /\ dec_by_id[k] # 0
                      /\ outcomes'[k].decision_id = k
                      /\ outcomes'[k].disposition # "Unknown"
                      /\ \/ outcomes'[k].attempt_id = Nil
                         \/ dec[dec_by_id[k]].attempt_id \in {Nil, outcomes'[k].attempt_id}
    BY <2>1 DEF OutcomeLinked
  <2>3. CASE k = o.decision_id
    BY <2>1, <2>2, <2>3 DEF TypeOK, WrongAttempt
  <2>4. CASE k # o.decision_id
    BY <2>1, <2>2, <2>4 DEF TypeOK, OutcomeLinked
  <2> QED
    BY <2>3, <2>4
<1> QED
  BY <1>1, <1>2, <1>3, DecChange

\* Every outcome held belongs to a recorded decision and does not contradict
\* its attempt.
THEOREM OutcomesLinked == Spec => []OutcomeLinked
<1>1. Init => OutcomeLinked
  BY DEF Init, OutcomeLinked
<1> QED
  BY <1>1, TypeCorrect, IndexesAreExact, NextOutcomeLinked, PTL DEF Spec

\* Every step leaves the evidence recorded before it as it was.
LEMMA NextAppendOnly == TypeOK /\ [Next]_vars => AppendOnlyStep
<1> SUFFICES ASSUME TypeOK, [Next]_vars PROVE AppendOnlyStep
  OBVIOUS
<1>1. Len(obs') >= Len(obs) /\ \A i \in 1..Len(obs) : obs'[i] = obs[i]
  <2>0. Len(obs) \in Nat
    BY DEF TypeOK
  <2>1. CASE obs' = obs
    BY <2>0, <2>1
  <2>2. ASSUME NEW o \in Observations, IngestAdmitted(o)
        PROVE Len(obs') >= Len(obs) /\ \A i \in 1..Len(obs) : obs'[i] = obs[i]
    <3>1. Len(obs') = Len(obs) + 1 /\ \A i \in 1..Len(obs) : obs'[i] = obs[i]
      BY <2>2, AppendedEntry
    <3> QED
      BY <2>0, <3>1
  <2> QED
    BY <2>1, <2>2, ObsChange
<1>2. /\ Len(dec') >= Len(dec) /\ \A i \in 1..Len(dec) : dec'[i] = dec[i]
      /\ \A k \in DecisionId : outcomes[k] # Nil => outcomes'[k] = outcomes[k]
  <2>0. Len(dec) \in Nat
    BY DEF TypeOK
  <2>1. CASE UNCHANGED <<dec, dec_by_id, idx_dec_attempt, outcomes>>
    BY <2>0, <2>1
  <2>2. CASE \E d \in Decisions : DecisionAdmitted(d)
    <3>1. PICK d \in Decisions : DecisionAdmitted(d)
      BY <2>2
    <3>2. dec' = Append(dec, d) /\ dec \in Seq(AdmittedDecision) /\ outcomes' = outcomes
      BY <3>1, AdmittedDecisionPasses DEF DecisionAdmitted
    <3> QED
      BY <2>0, <3>2
  <2>3. CASE \E o \in Outcomes : OutcomeAdmitted(o)
    <3>1. PICK o \in Outcomes : OutcomeAdmitted(o)
      BY <2>3
    <3>2. dec' = dec /\ outcomes' = [outcomes EXCEPT ![o.decision_id] = o]
      BY <3>1 DEF OutcomeAdmitted, decLog
    <3>3. \A k \in DecisionId : k = o.decision_id => outcomes[k] = Nil
      BY <3>1 DEF OutcomeAdmitted, RefusedOutcome, DuplicateOutcome
    <3> QED
      BY <2>0, <3>2, <3>3 DEF TypeOK
  <2> QED
    BY <2>1, <2>2, <2>3, DecChange
<1> QED
  BY <1>1, <1>2 DEF AppendOnlyStep

\* The canonical log and the decision records are append-only and outcomes
\* are final, in every behaviour.
THEOREM EvidenceIsAppendOnly == Spec => EvidenceAppendOnly
<1> QED
  BY TypeCorrect, NextAppendOnly, PTL DEF Spec, EvidenceAppendOnly

(***************************************************************************)
(* The event counter.                                                      *)
(***************************************************************************)

\* The decisions that have an outcome.
Concluded == { k \in DecisionId : outcomes[k] # Nil }

\* EventsCountEvidence is inductive once the outcomes are known to be finitely
\* many, which Cardinality needs and nothing else says: DecisionId may be any
\* set.
CountInv ==
  /\ IsFiniteSet(Concluded)
  /\ events = Len(obs) + Len(dec) + Cardinality(Concluded)

\* A step counts an event, or leaves the logs and the outcomes alone.
LEMMA EventsChange ==
  ASSUME [Next]_vars
  PROVE  \/ UNCHANGED <<obs, dec, outcomes, events>>
         \/ \E o \in Observations : IngestAdmitted(o)
         \/ \E d \in Decisions : DecisionAdmitted(d)
         \/ \E o \in Outcomes : OutcomeAdmitted(o)
<1> USE DEF obsLog, decLog
<1> DEFINE Same == UNCHANGED <<obs, dec, outcomes, events>>
<1>1. ASSUME NEW d \in Descriptors, register_source(d) PROVE Same
  BY <1>1 DEF register_source
<1>2. ASSUME NEW s \in SourceId, NEW rc \in ReliabilityClass, update_source_health(s, rc)
      PROVE Same
  BY <1>2 DEF update_source_health
<1>3. ASSUME NEW e \in Epochs, set_coordinator_epoch(e) PROVE Same
  BY <1>3 DEF set_coordinator_epoch
<1>4. ASSUME NEW o \in Observations, IngestRefusedEarly(o) \/ IngestRefusedLate(o) PROVE Same
  BY <1>4 DEF IngestRefusedEarly, IngestRefusedLate
<1>5. ASSUME NEW d \in Decisions, DecisionRefused(d) PROVE Same
  BY <1>5 DEF DecisionRefused
<1>6. ASSUME NEW o \in Outcomes, OutcomeRefused(o) PROVE Same
  BY <1>6 DEF OutcomeRefused
<1>7. UNCHANGED vars => Same
  BY DEF vars
<1> QED
  BY <1>1, <1>2, <1>3, <1>4, <1>5, <1>6, <1>7
  DEF Next, ingest, ingest_decision, ingest_outcome

\* An admitted outcome is the first of its decision.
LEMMA AdmittedOutcomePasses ==
  ASSUME TypeOK, NEW o \in Outcomes, OutcomeAdmitted(o)
  PROVE  /\ o \in PlacementOutcome
         /\ o.decision_id \in DecisionId
         /\ dec_by_id[o.decision_id] # 0
         /\ outcomes[o.decision_id] = Nil
         /\ ~WrongAttempt(o, dec[dec_by_id[o.decision_id]])
         /\ o # Nil
<1>1. o \in PlacementOutcome /\ o # Nil
  BY InputAssumption, NilAssumption
<1>2. o.decision_id \in Keys(dec_by_id)
  BY DEF OutcomeAdmitted, RefusedOutcome
<1>3. o.decision_id \in DecisionId /\ dec_by_id[o.decision_id] # 0
  BY <1>2 DEF TypeOK, Keys
<1>4. outcomes[o.decision_id] = Nil
  BY <1>3 DEF OutcomeAdmitted, RefusedOutcome, DuplicateOutcome
<1>5. ~WrongAttempt(o, dec[dec_by_id[o.decision_id]])
  BY <1>2 DEF OutcomeAdmitted, RefusedOutcome
<1> QED
  BY <1>1, <1>3, <1>4, <1>5

\* Every admission counts one event, a refusal none.
LEMMA NextCountInv == TypeOK /\ CountInv /\ [Next]_vars => CountInv'
<1> SUFFICES ASSUME TypeOK, CountInv, [Next]_vars PROVE CountInv'
  OBVIOUS
<1> USE DEF CountInv
<1>0. /\ Len(obs) \in Nat /\ Len(dec) \in Nat
      /\ IsFiniteSet(Concluded)
      /\ Cardinality(Concluded) \in Nat
      /\ events = Len(obs) + Len(dec) + Cardinality(Concluded)
  BY FS_CardinalityType DEF TypeOK
<1>1. CASE UNCHANGED <<obs, dec, outcomes, events>>
  BY <1>1 DEF Concluded
<1>2. ASSUME NEW o \in Observations, IngestAdmitted(o) PROVE CountInv'
  <2>1. Len(obs') = Len(obs) + 1
    BY <1>2, AppendedEntry
  <2>2. dec' = dec /\ Concluded' = Concluded /\ events' = events + 1
    BY <1>2 DEF IngestAdmitted, decLog, Concluded
  <2> QED
    BY <1>0, <2>1, <2>2
<1>3. ASSUME NEW d \in Decisions, DecisionAdmitted(d) PROVE CountInv'
  <2>1. dec' = Append(dec, d) /\ dec \in Seq(AdmittedDecision)
    BY <1>3, AdmittedDecisionPasses
  <2>2. Len(dec') = Len(dec) + 1
    BY <2>1
  <2>3. obs' = obs /\ Concluded' = Concluded /\ events' = events + 1
    BY <1>3 DEF DecisionAdmitted, obsLog, Concluded
  <2> QED
    BY <1>0, <2>2, <2>3
<1>4. ASSUME NEW o \in Outcomes, OutcomeAdmitted(o) PROVE CountInv'
  <2>1. o # Nil /\ o.decision_id \in DecisionId /\ outcomes[o.decision_id] = Nil
    BY <1>4, AdmittedOutcomePasses
  <2>2. Concluded' = Concluded \cup {o.decision_id}
    BY <1>4, <2>1 DEF OutcomeAdmitted, TypeOK, Concluded
  <2>3. o.decision_id \notin Concluded
    BY <2>1 DEF Concluded
  <2>4. IsFiniteSet(Concluded') /\ Cardinality(Concluded') = Cardinality(Concluded) + 1
    BY <1>0, <2>2, <2>3, FS_AddElement
  <2>5. obs' = obs /\ dec' = dec /\ events' = events + 1
    BY <1>4 DEF OutcomeAdmitted, obsLog, decLog
  <2> QED
    BY <1>0, <2>4, <2>5
<1> QED
  BY <1>1, <1>2, <1>3, <1>4, EventsChange

\* stats().events is exactly the number of records held, in every behaviour.
THEOREM EventsAreCounted == Spec => []EventsCountEvidence
<1>1. Init => CountInv
  <2> SUFFICES ASSUME Init PROVE CountInv
    OBVIOUS
  <2>1. Concluded = {}
    BY DEF Init, Concluded
  <2>2. IsFiniteSet(Concluded) /\ Cardinality(Concluded) = 0
    BY <2>1, FS_EmptySet
  <2>3. events = 0 /\ Len(obs) = 0 /\ Len(dec) = 0
    BY DEF Init
  <2> QED
    BY <2>2, <2>3 DEF CountInv
<1>2. CountInv => EventsCountEvidence
  BY DEF CountInv, EventsCountEvidence, Concluded
<1> QED
  BY <1>1, <1>2, TypeCorrect, NextCountInv, PTL DEF Spec
================================================================================
