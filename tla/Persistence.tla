------------------------------ MODULE Persistence ------------------------------
(***************************************************************************)
(* An Observatory with its trace on disk: persist and recover of           *)
(* src/observatory.cpp, over process crashes and restarts.                 *)
(*                                                                         *)
(* persist copies the state under the shared lock and then, without the    *)
(* lock, writes path.tmp, removes path and renames path.tmp to path; other *)
(* threads keep calling the engine meanwhile, and the process may stop     *)
(* between any two of these steps or in the middle of the write.  recover  *)
(* holds the unique lock while it applies the records of the trace one by  *)
(* one to a fresh engine, so each turn of its loop is one step and no      *)
(* other operation comes in between.                                       *)
(*                                                                         *)
(* A file is the sequence of its records.  A record that does not decode   *)
(* (torn by an incomplete write: the length, the checksum or the fields do *)
(* not match) is the record Torn; what follows it is never read.           *)
(***************************************************************************)
EXTENDS Observatory

CONSTANTS
  Absent,      \* the file does not exist
  MaxPersists  \* bound: calls of persist in one behaviour

ASSUME PersistsAssumption == MaxPersists \in Nat

\* Identifiers are 64-bit integers: there are finitely many.
ASSUME IdsAssumption == IsFiniteSet(Source) /\ IsFiniteSet(DecisionId)

Torn == [kind |-> "Torn"]

IsTorn(r) == r.kind = "Torn"

\* What a record may say; only what the checks admitted is ever written.
Record ==
  [kind : {"Epoch"}, epoch : Nat]
  \cup [kind : {"SourceDescriptor"}, source_descriptor : SourceDescriptor]
  \cup [kind : {"Observation"}, observation : AdmittedObservation]
  \cup [kind : {"Decision"}, decision : AdmittedDecision]
  \cup [kind : {"Outcome"}, outcome : PlacementOutcome]
  \cup {Torn}

ASSUME AbsentAssumption == Absent \notin Seq(Record)

VARIABLES
  phase,       \* "down", "recovering" (inside recover) or "up"
  off,         \* records of the trace that recover has consumed
  persist_pc,  \* "idle", or the last completed step of the running persist
  image,       \* the bytes the running persist has encoded
  trace,       \* the file at path
  tmp,         \* the file at path.tmp
  persists,    \* calls of persist so far
  short_write, \* history: a write has failed part-way, unnoticed by persist
  saved_gen,   \* history: src_gen when the running persist copied the state
  durable_gen  \* history: saved_gen of the last complete persist, Absent if
               \* there is none or the process did not find a trace of it

files == <<trace, tmp>>
history == <<persists, short_write, durable_gen>>
pvars == <<vars, phase, off, persist_pc, image, trace, tmp, persists,
           short_write, saved_gen, durable_gen>>

(***************************************************************************)
(* persist.                                                                *)
(***************************************************************************)

EpochRecord == [kind |-> "Epoch", epoch |-> coordinator]

DescriptorRecord(s) ==
  [kind |-> "SourceDescriptor",
   source_descriptor |-> [source_id |-> s, generation |-> sources[s]]]

ObservationRecords ==
  [i \in 1..Len(obs) |-> [kind |-> "Observation", observation |-> obs[i]]]

DecisionRecords ==
  [i \in 1..Len(dec) |-> [kind |-> "Decision", decision |-> dec[i]]]

OutcomeRecord(k) == [kind |-> "Outcome", outcome |-> outcomes[k]]

\* The orders in which an unordered_map with these keys may be traversed.
Traversals(keys) ==
  { p \in [1..Cardinality(keys) -> keys] :
      \A i, j \in DOMAIN p : p[i] = p[j] => i = j }

\* Mutant: outcomes are written before the decisions they belong to.
EncodeOutcomesFirst(ss, ks) ==
  <<EpochRecord>>
  \o [i \in DOMAIN ss |-> DescriptorRecord(ss[i])]
  \o ObservationRecords
  \o [i \in DOMAIN ks |-> OutcomeRecord(ks[i])]
  \o DecisionRecords

\* The records in the order persist appends them.
Encode(ss, ks) ==
  <<EpochRecord>>
  \o [i \in DOMAIN ss |-> DescriptorRecord(ss[i])]
  \o ObservationRecords
  \o DecisionRecords
  \o [i \in DOMAIN ks |-> OutcomeRecord(ks[i])]

\* The copy under the shared lock, and its encoding, which uses the copy only.
PersistCopy ==
  /\ phase = "up" /\ persist_pc = "idle"
  /\ persists < MaxPersists
  /\ \E ss \in Traversals({ s \in SourceId : sources[s] # Nil }),
        ks \in Traversals({ k \in DecisionId : outcomes[k] # Nil }) :
       image' = Encode(ss, ks)
  /\ persist_pc' = "copied"
  /\ persists' = persists + 1
  /\ saved_gen' = src_gen
  /\ UNCHANGED <<vars, phase, off, files, short_write, durable_gen>>

\* What an incomplete write of the image leaves in a file.
TornPrefixes == { SubSeq(image, 1, n) \o <<Torn>> : n \in 0..(Len(image) - 1) }

\* write_file(tmp): ofstream does not report a failed write unless asked.
PersistWrite ==
  /\ persist_pc = "copied"
  /\ \/ tmp' = image /\ UNCHANGED short_write
     \/ tmp' \in TornPrefixes /\ short_write' = TRUE
  /\ persist_pc' = "written"
  /\ UNCHANGED <<vars, phase, off, trace, image, persists, saved_gen, durable_gen>>

\* Mutant: the old trace may already be removed while the new is written.
PersistRemoveEarly ==
  /\ persist_pc \in {"copied", "written"}
  /\ trace' = Absent
  /\ persist_pc' = IF persist_pc = "written" THEN "removed" ELSE persist_pc
  /\ UNCHANGED <<vars, phase, off, tmp, image, saved_gen, history>>

\* std::remove(path)
PersistRemove ==
  /\ persist_pc = "written"
  /\ trace' = Absent
  /\ persist_pc' = "removed"
  /\ UNCHANGED <<vars, phase, off, tmp, image, saved_gen, history>>

\* std::rename(tmp, path), and the return of persist.
PersistRename ==
  /\ persist_pc = "removed"
  /\ trace' = tmp
  /\ tmp' = Absent
  /\ persist_pc' = "idle"
  /\ image' = <<>>
  /\ durable_gen' = saved_gen
  /\ UNCHANGED <<vars, phase, off, persists, short_write, saved_gen>>

(***************************************************************************)
(* Crash and restart.                                                      *)
(***************************************************************************)

\* A fresh engine with the same configuration.
FreshEngine ==
  /\ cfg' = cfg
  /\ obs' = <<>> /\ obs_by_id' = [i \in ObservationId |-> 0]
  /\ dec' = <<>> /\ dec_by_id' = [i \in DecisionId |-> 0]
  /\ idx_dec_attempt' = [a \in AttemptId |-> 0]
  /\ outcomes' = [i \in DecisionId |-> Nil]
  /\ sources' = [s \in SourceId |-> Nil]
  /\ src_gen' = [s \in SourceId |-> 0]
  /\ src_boot' = [s \in SourceId |-> Nil]
  /\ src_health' = [s \in SourceId |-> Unknown]
  /\ coordinator' = 0
  /\ rejected' = 0 /\ superseded' = 0 /\ events' = 0

\* The process stops: memory is lost, and a write in progress is cut short.
Crash ==
  /\ phase # "down"
  /\ phase' = "down"
  /\ FreshEngine
  /\ \/ UNCHANGED tmp
     \/ persist_pc = "copied" /\ tmp' \in TornPrefixes \cup {image}
  /\ off' = 0 /\ persist_pc' = "idle" /\ image' = <<>>
  /\ saved_gen' = [s \in SourceId |-> 0]
  /\ UNCHANGED <<trace, history>>

Intact(file) == file # Absent /\ \A i \in 1..Len(file) : ~IsTorn(file[i])

\* A new process builds an engine and calls recover.
Restart ==
  /\ phase = "down"
  /\ phase' = "recovering"
  /\ durable_gen' = IF Intact(trace) THEN durable_gen ELSE Absent
  /\ UNCHANGED <<vars, off, persist_pc, image, saved_gen, files, persists, short_write>>

(***************************************************************************)
(* recover.                                                                *)
(***************************************************************************)

\* read_file of a missing file yields no bytes.
Bytes == IF trace = Absent THEN <<>> ELSE trace

More == off < Len(Bytes) /\ ~IsTorn(Bytes[off + 1])

RecoverEpoch(r) ==
  /\ r.kind = "Epoch"
  /\ coordinator' = r.epoch
  /\ UNCHANGED <<obsLog, decLog, outcomes, sources, authority>>

\* The generation is raised; the trusted boot is not touched.
RecoverDescriptor(r) ==
  /\ r.kind = "SourceDescriptor"
  /\ LET d == r.source_descriptor
     IN /\ sources' = [sources EXCEPT ![d.source_id] = d.generation]
        /\ src_gen' = IF d.generation > src_gen[d.source_id]
                        THEN [src_gen EXCEPT ![d.source_id] = d.generation]
                        ELSE src_gen
  /\ UNCHANGED <<obsLog, decLog, outcomes, src_boot, coordinator>>

\* Mutant: a recovered observation does not raise its source's generation.
RecoveredGenerationKept(o) == src_gen' = src_gen /\ src_boot' = src_boot

\* Mutant: generation and boot are swapped.
RecoveredGenerationSwapped(o) ==
  IF o.source_generation > src_gen[o.source_id]
    THEN /\ src_gen' = [src_gen EXCEPT ![o.source_id] = o.worker_boot]
         /\ src_boot' = [src_boot EXCEPT ![o.source_id] = o.source_generation]
    ELSE src_gen' = src_gen /\ src_boot' = src_boot

\* Generation and boot are adopted from an observation of a higher
\* generation than any seen before it in the trace.
RecoveredGeneration(o) ==
  IF o.source_generation > src_gen[o.source_id]
    THEN /\ src_gen' = [src_gen EXCEPT ![o.source_id] = o.source_generation]
         /\ src_boot' = [src_boot EXCEPT ![o.source_id] = o.worker_boot]
    ELSE src_gen' = src_gen /\ src_boot' = src_boot

RecoverObservation(r) ==
  /\ r.kind = "Observation"
  /\ LET o == r.observation
     IN IF o.observation_id \in Keys(obs_by_id)
          THEN UNCHANGED <<obsLog, authority>>
          ELSE /\ obs' = Append(obs, o)
               /\ obs_by_id' = [obs_by_id EXCEPT ![o.observation_id] = Len(obs) + 1]
               /\ RecoveredGeneration(o)
  /\ UNCHANGED <<decLog, outcomes, sources, coordinator>>

\* Mutant: the attempt index is not rebuilt.
RecoveredAttemptSkipped(d, i) == idx_dec_attempt' = idx_dec_attempt

RecoveredAttempt(d, i) == IndexAttempt(d, i)

RecoverDecision(r) ==
  /\ r.kind = "Decision"
  /\ LET d == r.decision
     IN IF d.decision_id \in Keys(dec_by_id)
          THEN UNCHANGED decLog
          ELSE /\ dec' = Append(dec, d)
               /\ dec_by_id' = [dec_by_id EXCEPT ![d.decision_id] = Len(dec) + 1]
               /\ RecoveredAttempt(d, Len(dec) + 1)
  /\ UNCHANGED <<obsLog, outcomes, sources, authority, coordinator>>

RecoverOutcome(r) ==
  /\ r.kind = "Outcome"
  /\ LET o == r.outcome
     IN IF o.decision_id \notin Keys(dec_by_id) \/ outcomes[o.decision_id] # Nil
          THEN UNCHANGED outcomes
          ELSE outcomes' = [outcomes EXCEPT ![o.decision_id] = o]
  /\ UNCHANGED <<obsLog, decLog, sources, authority, coordinator>>

\* One turn of the loop.
RecoverRecord ==
  /\ phase = "recovering" /\ More
  /\ LET r == Bytes[off + 1]
     IN \/ RecoverEpoch(r)
        \/ RecoverDescriptor(r)
        \/ RecoverObservation(r)
        \/ RecoverDecision(r)
        \/ RecoverOutcome(r)
  /\ off' = off + 1
  /\ UNCHANGED <<cfg, src_health, rejected, superseded, events,
                 phase, persist_pc, image, saved_gen, files, history>>

\* The end of the file or a record that does not decode ends the loop.
RecoverDone ==
  /\ phase = "recovering" /\ ~More
  /\ phase' = "up"
  /\ off' = 0
  /\ UNCHANGED <<vars, persist_pc, image, saved_gen, files, history>>

\* Any engine operation, while the process runs and recover is not inside.
Operation ==
  /\ phase = "up"
  /\ Next
  /\ UNCHANGED <<phase, off, persist_pc, image, saved_gen, files, history>>

PInit ==
  /\ Init
  /\ phase = "down" /\ off = 0
  /\ persist_pc = "idle" /\ image = <<>> /\ persists = 0
  /\ short_write = FALSE
  /\ trace = Absent /\ tmp = Absent
  /\ saved_gen = [s \in SourceId |-> 0]
  /\ durable_gen = Absent

PNext ==
  \/ Operation
  \/ PersistCopy \/ PersistWrite \/ PersistRemove \/ PersistRename
  \/ Crash \/ Restart
  \/ RecoverRecord \/ RecoverDone

PSpec == PInit /\ [][PNext]_pvars

(***************************************************************************)
(* Properties.                                                             *)
(***************************************************************************)

\* The types of the persistence state.
PTypeOK ==
  /\ TypeOK
  /\ phase \in {"down", "recovering", "up"}
  /\ off \in 0..Len(Bytes)
  /\ persist_pc \in {"idle", "copied", "written", "removed"}
  /\ persist_pc # "idle" => phase = "up"
  /\ image \in Seq(Record)
  /\ trace \in Seq(Record) \cup {Absent}
  /\ tmp \in Seq(Record) \cup {Absent}
  /\ short_write \in BOOLEAN
  /\ saved_gen \in [SourceId -> Nat]

\* Where the records of a kind are among the first n of a file.
Positions(file, n, kind) == { i \in 1..n : file[i].kind = kind }

\* log is the records of a kind among the first n of a file, in their order.
Lists(log, file, n, kind) ==
  /\ Len(log) = Cardinality(Positions(file, n, kind))
  /\ \A i \in Positions(file, n, kind) :
       log[Cardinality(Positions(file, i, kind))] = file[i]

\* At every turn of recover's loop the engine holds exactly the records of
\* the trace read so far: nothing is lost, doubled, reordered or invented.
\* In particular no outcome is dropped for want of its decision.
RecoveryExact ==
  phase = "recovering" =>
    /\ off > 0 => coordinator = Bytes[1].epoch
    /\ Lists(ObservationRecords, Bytes, off, "Observation")
    /\ Lists(DecisionRecords, Bytes, off, "Decision")
    /\ { OutcomeRecord(k) : k \in { k \in DecisionId : outcomes[k] # Nil } }
       = { Bytes[i] : i \in Positions(Bytes, off, "Outcome") }

\* Over crashes and restarts the current generation of a source is never
\* below that of evidence in its log, so a restarted collector still refuses
\* evidence older than what it holds.
GenerationCoversLog ==
  \A i \in 1..Len(obs) :
    obs[i].source_generation <= src_gen[obs[i].source_id]

\* A process that has completed a persist, or has found a complete trace,
\* never destroys the last copy, whenever it stops: a complete trace is in
\* path or in path.tmp at every moment, if no write fails part-way.  (A
\* process that finds path gone, because the one before it stopped between
\* remove and rename, starts empty and writes over the copy in path.tmp.)
TraceSomewhere ==
  durable_gen # Absent /\ ~short_write => Intact(trace) \/ Intact(tmp)

\* Documented: persist is "Atomic replacement: write temp then rename"
\* (observatory.cpp) and the trace is "replaced transactionally"
\* (docs/persistence.md).  After a crash the path names a complete trace,
\* the old or the new one.
AtomicReplacement ==
  durable_gen # Absent /\ ~short_write /\ phase = "down" => Intact(trace)

\* Documented: recovery "preserves source generations" (docs/recovery.md).
\* A process that has recovered an intact trace starts from generations no
\* older than the ones in force when that trace was persisted.
GenerationsPreserved ==
  [][ phase = "recovering" /\ phase' = "up" /\ Intact(trace) /\ durable_gen # Absent
      => \A s \in SourceId : src_gen[s] >= durable_gen[s] ]_pvars
================================================================================
