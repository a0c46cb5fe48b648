----------------------------- MODULE LedgerProofs ------------------------------
(***************************************************************************)
(* The engine implements the evidence ledger, for every set of             *)
(* identifiers and arguments, when it is built with the generation and the *)
(* boot check on (the default configuration).                              *)
(*                                                                         *)
(* Each operation of the engine is shown to be one step of the ledger or   *)
(* none.  What an operation may rely on is the engine's own invariant: the *)
(* indices are exact, so the lookups the checks make stand for the whole   *)
(* log, which is what the ledger quantifies over.                          *)
(***************************************************************************)
EXTENDS ObservatoryLedger, ObservatoryProofs

\* The checks the ledger's tokens depend on.
Enforced == cfg.enforce_stale_source_generation /\ cfg.enforce_stale_worker_boot

\* The parts of the refinement mapping that are not variables.
Token == [s \in SourceId |-> [generation |-> src_gen[s], boot |-> src_boot[s]]]
DecisionMap == [k \in DecisionId |-> DecisionOf(k)]

\* The engine starts as an empty ledger.
LEMMA LedgerInit == Init => Ledger!Init
<1> SUFFICES ASSUME Init PROVE Ledger!Init
  OBVIOUS
<1>1. [s \in SourceId |-> [generation |-> src_gen[s], boot |-> src_boot[s]]]
        = [s \in SourceId |-> [generation |-> 0, boot |-> Nil]]
  BY DEF Init
<1>2. [k \in DecisionId |-> DecisionOf(k)] = [k \in DecisionId |-> Nil]
  BY DEF Init, DecisionOf
<1> QED
  BY <1>1, <1>2 DEF Init, Ledger!Init

\* Writing one source's authority writes its token, and no other.
LEMMA TokenUpdate ==
  ASSUME TypeOK, NEW s \in SourceId, NEW g, NEW b,
         src_gen' = [src_gen EXCEPT ![s] = g], src_boot' = [src_boot EXCEPT ![s] = b]
  PROVE  Token' = [Token EXCEPT ![s] = [generation |-> g, boot |-> b]]
BY DEF TypeOK, Token

\* A registration is a fence with a new generation and no boot, or nothing.
LEMMA RegisterFences ==
  ASSUME TypeOK, NEW d \in Descriptors, register_source(d)
  PROVE  \/ \E s \in SourceId, t \in [generation : Generations, boot : Boot \cup {Nil}] :
              Ledger!Fence(s, t)
         \/ UNCHANGED Ledger!ledger
<1>1. d.source_id \in SourceId /\ d.generation \in Nat /\ d.generation \in Generations
  BY InputAssumption DEF SourceDescriptor, Generations
<1>2. UNCHANGED <<obs, DecisionMap, outcomes>>
  BY DEF register_source, obsLog, decLog, DecisionMap, DecisionOf
<1>3. CASE RaisesGeneration(d)
  <2> DEFINE t == [generation |-> d.generation, boot |-> Nil]
  <2>1. Token' = [Token EXCEPT ![d.source_id] = t]
    <3>1. PICK k, g : k = d.source_id /\ g = d.generation
      OBVIOUS
    <3>2. src_gen' = [src_gen EXCEPT ![k] = g] /\ src_boot' = [src_boot EXCEPT ![k] = Nil]
      BY <1>3, <3>1 DEF register_source
    <3>3. Token' = [Token EXCEPT ![k] = [generation |-> g, boot |-> Nil]]
      BY <1>1, <3>1, <3>2, TokenUpdate
    <3> QED
      BY <3>1, <3>3
  <2>2. t.generation > Token[d.source_id].generation
    BY <1>1, <1>3 DEF RaisesGeneration, Token
  <2>3. Ledger!Fence(d.source_id, t)
    BY <1>2, <2>1, <2>2 DEF Ledger!Fence, Ledger!Supersedes, Token, DecisionMap
  <2>4. t \in [generation : Generations, boot : Boot \cup {Nil}]
    BY <1>1
  <2> QED
    BY <1>1, <2>3, <2>4
<1>4. CASE ~RaisesGeneration(d)
  <2>1. Token' = Token
    BY <1>4 DEF register_source, authority, Token
  <2> QED
    BY <1>2, <2>1 DEF Ledger!ledger, Token, DecisionMap
<1> QED
  BY <1>3, <1>4

\* The token an observation carries.
Carried(o) == [generation |-> o.source_generation, boot |-> o.worker_boot]

\* Past the early checks, an observation's token supersedes that of its
\* source, and the authority it adopts is exactly that token.
LEMMA AdoptionIsFencing ==
  ASSUME TypeOK, Enforced, NEW o \in Observations, ~RefusedEarly(o), AdoptAuthority(o)
  PROVE  /\ o.source_id \in SourceId
         /\ Ledger!Supersedes(Carried(o), Token[o.source_id])
         /\ Token' = [Token EXCEPT ![o.source_id] = Carried(o)]
<1> DEFINE s == o.source_id
<1>1. /\ s \in SourceId
      /\ o.source_generation \in Nat
      /\ o.source_generation >= src_gen[s]
      /\ o.source_generation = src_gen[s] /\ src_boot[s] # Nil => o.worker_boot = src_boot[s]
  BY AdmittedPasses DEF Enforced
<1>2. src_gen \in [SourceId -> Nat] /\ src_boot \in [SourceId -> Boot \cup {Nil}]
  BY DEF TypeOK
<1>3. Ledger!Supersedes(Carried(o), Token[s])
  BY <1>1, <1>2 DEF Ledger!Supersedes, Token, Carried
<1>4. src_gen' = [src_gen EXCEPT ![s] = o.source_generation]
  <2>1. CASE o.source_generation > src_gen[s]
    BY <2>1 DEF AdoptAuthority
  <2>2. CASE o.source_generation = src_gen[s]
    BY <1>1, <1>2, <2>2 DEF AdoptAuthority
  <2> QED
    BY <1>1, <1>2, <2>1, <2>2
<1>5. AdoptedBoot(o) = o.worker_boot
  BY <1>1, <1>2 DEF AdoptedBoot, have_boot
<1>6. src_boot' = [src_boot EXCEPT ![s] = o.worker_boot]
  BY <1>5 DEF AdoptAuthority
<1>7. Token' = [Token EXCEPT ![s] = Carried(o)]
  BY <1>1, <1>4, <1>6, TokenUpdate DEF Carried
<1> QED
  BY <1>1, <1>3, <1>7

\* A late refusal enters nothing, but it fences: the ledger sees the token
\* move although the call was refused.
LEMMA LateRefusalFences ==
  ASSUME TypeOK, Enforced, NEW o \in Observations, IngestRefusedLate(o)
  PROVE  \E s \in SourceId, t \in [generation : Generations, boot : Boot \cup {Nil}] :
           Ledger!Fence(s, t)
<1>1. ~RefusedEarly(o) /\ AdoptAuthority(o)
  BY DEF IngestRefusedLate
<1>2. /\ o.source_id \in SourceId
      /\ Ledger!Supersedes(Carried(o), Token[o.source_id])
      /\ Token' = [Token EXCEPT ![o.source_id] = Carried(o)]
  BY <1>1, AdoptionIsFencing
<1>3. UNCHANGED <<obs, DecisionMap, outcomes>>
  BY DEF IngestRefusedLate, obsLog, decLog, DecisionMap, DecisionOf
<1>4. Ledger!Fence(o.source_id, Carried(o))
  BY <1>2, <1>3 DEF Ledger!Fence, Token, DecisionMap
<1>5. Carried(o) \in [generation : Generations, boot : Boot \cup {Nil}]
  BY InputAssumption DEF Carried, Generations, PlacementObservation
<1> QED
  BY <1>2, <1>4, <1>5

\* An admitted observation is a new entry under the token its source has once
\* it is entered.
LEMMA AdmissionEnters ==
  ASSUME TypeOK, ObsIndexExact, Enforced, NEW o \in Observations, IngestAdmitted(o)
  PROVE  \E e \in {[x EXCEPT !.lifecycle = "Correlated"] : x \in Observations} :
           Ledger!Enter(e)
<1> DEFINE e == [o EXCEPT !.lifecycle = "Correlated"]
<1>1. ~RefusedEarly(o) /\ AdoptAuthority(o) /\ obs' = Append(obs, e)
  BY DEF IngestAdmitted
<1>2. /\ o.source_id \in SourceId
      /\ Ledger!Supersedes(Carried(o), Token[o.source_id])
      /\ Token' = [Token EXCEPT ![o.source_id] = Carried(o)]
  BY <1>1, AdoptionIsFencing
<1>3. /\ e.observation_id = o.observation_id
      /\ e.source_id = o.source_id
      /\ e.source_generation = o.source_generation
      /\ e.worker_boot = o.worker_boot
  BY InputAssumption DEF PlacementObservation
<1>4. \A i \in 1..Len(obs) : obs[i].observation_id # e.observation_id
  <2>1. o.observation_id \in ObservationId /\ obs_by_id[o.observation_id] = 0
    BY <1>1, InputAssumption
    DEF RefusedEarly, MalformedObservation, DuplicateObservation, Keys, PlacementObservation, TypeOK
  <2> QED
    BY <1>3, <2>1 DEF ObsIndexExact
<1>5. UNCHANGED <<DecisionMap, outcomes>>
  BY DEF IngestAdmitted, decLog, DecisionMap, DecisionOf
<1> HIDE DEF e
<1>6. Carried(o) = [generation |-> e.source_generation, boot |-> e.worker_boot]
  BY <1>3 DEF Carried
<1>7. Ledger!Enter(e)
  BY <1>1, <1>2, <1>3, <1>4, <1>5, <1>6 DEF Ledger!Enter, Token, DecisionMap
<1> QED
  BY <1>7 DEF e

\* An admitted decision takes its key, which is free, for an attempt no other
\* decision has.
LEMMA AdmissionDecides ==
  ASSUME TypeOK, DecIndexExact, AttemptIndexExact, NEW d \in Decisions, DecisionAdmitted(d)
  PROVE  \E k \in DecisionId : Ledger!Decide(k, d)
<1> DEFINE k == d.decision_id
           n == Len(dec) + 1
<1>1. /\ k \in DecisionId
      /\ dec_by_id[k] = 0
      /\ dec' = Append(dec, d)
      /\ dec \in Seq(AdmittedDecision)
  BY AdmittedDecisionPasses
<1>2. /\ dec'[n] = d /\ \A i \in 1..Len(dec) : dec'[i] = dec[i]
      /\ Len(dec) \in Nat /\ n # 0
  BY <1>1
<1>3. dec_by_id \in [DecisionId -> Nat] /\ \A j \in DecisionId : dec_by_id[j] <= Len(dec)
  BY DEF TypeOK, DecIndexExact
<1>4. dec_by_id' = [dec_by_id EXCEPT ![k] = n]
  BY DEF DecisionAdmitted
<1>5. DecisionMap' = [DecisionMap EXCEPT ![k] = d]
  <2>1. ASSUME NEW j \in DecisionId PROVE DecisionOf(j)' = IF j = k THEN d ELSE DecisionOf(j)
    <3>1. CASE j = k
      BY <1>2, <1>3, <1>4, <3>1 DEF DecisionOf
    <3>2. CASE j # k /\ dec_by_id[j] = 0
      BY <1>3, <1>4, <3>2 DEF DecisionOf
    <3>3. CASE j # k /\ dec_by_id[j] # 0
      BY <1>2, <1>3, <1>4, <3>3 DEF DecisionOf
    <3> QED
      BY <3>1, <3>2, <3>3
  <2> HIDE DEF k
  <2> QED
    BY <1>1, <2>1 DEF DecisionMap
<1>6. DecisionMap[k] = Nil
  BY <1>1 DEF DecisionMap, DecisionOf
<1>7. ASSUME NEW j \in DecisionId, DecisionMap[j] # Nil, d.attempt_id # Nil
      PROVE DecisionMap[j].attempt_id # d.attempt_id
  <2>1. d.attempt_id \in AttemptId /\ idx_dec_attempt[d.attempt_id] = 0
    BY <1>7, AdmittedAttemptIsNew
  <2>2. dec_by_id[j] # 0 /\ DecisionMap[j] = dec[dec_by_id[j]]
    BY <1>7 DEF DecisionMap, DecisionOf
  <2>3. dec_by_id[j] \in 1..Len(dec)
    BY <1>2, <1>3, <2>2
  <2> QED
    BY <2>1, <2>2, <2>3 DEF AttemptIndexExact
<1>8. UNCHANGED <<Token, obs, outcomes>>
  BY DEF DecisionAdmitted, authority, obsLog, Token
<1>9. Ledger!Decide(k, d)
  BY <1>5, <1>6, <1>7, <1>8 DEF Ledger!Decide, Token, DecisionMap
<1> QED
  BY <1>1, <1>9

\* An admitted outcome concludes its decision, which was taken and is open.
LEMMA AdmissionConcludes ==
  ASSUME TypeOK, DecIndexExact, NEW o \in Outcomes, OutcomeAdmitted(o)
  PROVE  \E k \in DecisionId : Ledger!Conclude(k, o)
<1> DEFINE k == o.decision_id
<1>1. /\ k \in DecisionId
      /\ dec_by_id[k] # 0
      /\ outcomes[k] = Nil
      /\ ~WrongAttempt(o, dec[dec_by_id[k]])
  BY AdmittedOutcomePasses
<1>2. DecisionMap[k] = dec[dec_by_id[k]]
  BY <1>1 DEF DecisionMap, DecisionOf
<1>3. dec_by_id[k] \in 1..Len(dec)
  BY <1>1 DEF TypeOK, DecIndexExact
<1>4. dec[dec_by_id[k]] \in PlacementDecision
  BY <1>3 DEF TypeOK, AdmittedDecision
<1>5. DecisionMap[k] # Nil
  BY <1>2, <1>4, NilAssumption
<1>6. o.attempt_id = Nil \/ DecisionMap[k].attempt_id \in {Nil, o.attempt_id}
  BY <1>1, <1>2 DEF WrongAttempt
<1>7. UNCHANGED <<Token, obs, DecisionMap>>
  BY DEF OutcomeAdmitted, authority, obsLog, decLog, Token, DecisionMap, DecisionOf
<1>8. outcomes' = [outcomes EXCEPT ![k] = o]
  BY DEF OutcomeAdmitted
<1>9. Ledger!Conclude(k, o)
  BY <1>1, <1>5, <1>6, <1>7, <1>8 DEF Ledger!Conclude, Token, DecisionMap
<1> QED
  BY <1>1, <1>9

\* Every step of the engine is one step of the ledger, or invisible in it.
LEMMA StepSimulates ==
  TypeOK /\ IndexesExact /\ Enforced /\ [Next]_vars => [Ledger!Next]_(Ledger!ledger)
<1> SUFFICES ASSUME TypeOK, IndexesExact, Enforced, [Next]_vars
             PROVE  Ledger!Next \/ UNCHANGED Ledger!ledger
  OBVIOUS
<1> USE DEF IndexesExact
<1> DEFINE Same == UNCHANGED <<Token, obs, DecisionMap, outcomes>>
<1>0. Same => UNCHANGED Ledger!ledger
  BY DEF Ledger!ledger, Token, DecisionMap
<1>1. ASSUME NEW d \in Descriptors, register_source(d)
      PROVE Ledger!Next \/ UNCHANGED Ledger!ledger
  BY <1>1, RegisterFences DEF Ledger!Next
<1>2. ASSUME NEW s \in SourceId, NEW rc \in ReliabilityClass, update_source_health(s, rc)
      PROVE Same
  BY <1>2 DEF update_source_health, obsLog, decLog, authority, Token, DecisionMap, DecisionOf
<1>3. ASSUME NEW e \in Epochs, set_coordinator_epoch(e) PROVE Same
  BY <1>3 DEF set_coordinator_epoch, obsLog, decLog, authority, Token, DecisionMap, DecisionOf
<1>4. ASSUME NEW o \in Observations, IngestRefusedEarly(o) PROVE Same
  BY <1>4 DEF IngestRefusedEarly, obsLog, decLog, authority, Token, DecisionMap, DecisionOf
<1>5. ASSUME NEW o \in Observations, IngestRefusedLate(o) PROVE Ledger!Next
  BY <1>5, LateRefusalFences DEF Ledger!Next
<1>6. ASSUME NEW o \in Observations, IngestAdmitted(o) PROVE Ledger!Next
  BY <1>6, AdmissionEnters DEF Ledger!Next
<1>7. ASSUME NEW d \in Decisions, DecisionRefused(d) PROVE Same
  BY <1>7 DEF DecisionRefused, obsLog, decLog, authority, Token, DecisionMap, DecisionOf
<1>8. ASSUME NEW d \in Decisions, DecisionAdmitted(d) PROVE Ledger!Next
  BY <1>8, AdmissionDecides DEF Ledger!Next
<1>9. ASSUME NEW o \in Outcomes, OutcomeRefused(o) PROVE Same
  BY <1>9 DEF OutcomeRefused, obsLog, decLog, authority, Token, DecisionMap, DecisionOf
<1>10. ASSUME NEW o \in Outcomes, OutcomeAdmitted(o) PROVE Ledger!Next
  BY <1>10, AdmissionConcludes DEF Ledger!Next
<1>11. UNCHANGED vars => Same
  BY DEF vars, Token, DecisionMap, DecisionOf
<1> HIDE DEF Same
<1> QED
  BY <1>0, <1>1, <1>2, <1>3, <1>4, <1>5, <1>6, <1>7, <1>8, <1>9, <1>10, <1>11
  DEF Next, ingest, ingest_decision, ingest_outcome

\* Every behaviour of an engine that is built with the generation and the boot
\* check on is a behaviour of the evidence ledger.
THEOREM EngineImplementsLedger == Spec /\ Enforced => ImplementsLedger
<1>1. Enforced /\ [Next]_vars => Enforced'
  BY ObsChange DEF Enforced
<1> QED
  BY <1>1, LedgerInit, StepSimulates, TypeCorrect, IndexesAreExact, PTL
  DEF Spec, ImplementsLedger, Ledger!Spec
================================================================================
