--------------------------- MODULE PersistenceProofs ---------------------------
(***************************************************************************)
(* Proofs about Persistence, for any number of records, of calls of        *)
(* persist, of crashes and of restarts.                                    *)
(*                                                                         *)
(* The engine's invariants have to survive a crash, and they do so only by *)
(* way of the file: the invariant below says what every file persist may   *)
(* leave behind satisfies (FileOK), and that inside recover the engine     *)
(* holds nothing that is not in the part of the file it has read (Link).   *)
(***************************************************************************)
EXTENDS Persistence, ObservatoryProofs, SequenceTheorems

(***************************************************************************)
(* The inductive invariant.                                                *)
(***************************************************************************)

\* An outcome belongs to a decision and does not contradict its attempt.
Concludes(o, d) ==
  /\ d.decision_id = o.decision_id
  /\ o.attempt_id = Nil \/ d.attempt_id \in {Nil, o.attempt_id}

\* The epoch is the first record and the only one of its kind.
EpochFirst(f) ==
  \A i \in 1..Len(f) :
    /\ f[i].kind = "Epoch" => i = 1
    /\ i = 1 => f[i].kind \in {"Epoch", "Torn"}

\* No record is doubled, and no attempt belongs to two decisions.
NoneTwice(f) ==
  \A i, j \in 1..Len(f) : i < j /\ f[i].kind = f[j].kind =>
    /\ f[i].kind = "Observation" =>
         f[i].observation.observation_id # f[j].observation.observation_id
    /\ f[i].kind = "Decision" =>
         /\ f[i].decision.decision_id # f[j].decision.decision_id
         /\ \/ f[i].decision.attempt_id = Nil
            \/ f[i].decision.attempt_id # f[j].decision.attempt_id
    /\ f[i].kind = "Outcome" =>
         f[i].outcome.decision_id # f[j].outcome.decision_id

\* An outcome comes after its decision.
OutcomesFollow(f) ==
  \A j \in 1..Len(f) : f[j].kind = "Outcome" =>
    /\ f[j].outcome.disposition # "Unknown"
    /\ \E i \in 1..(j - 1) : f[i].kind = "Decision" /\ Concludes(f[j].outcome, f[i].decision)

\* With the stale generation check on, the generations of a source do not
\* decrease along the file.
InOrder(f) ==
  cfg.enforce_stale_source_generation =>
    \A i, j \in 1..Len(f) :
      /\ i < j
      /\ f[i].kind = "Observation" /\ f[j].kind = "Observation"
      /\ f[i].observation.source_id = f[j].observation.source_id
      => f[i].observation.source_generation <= f[j].observation.source_generation

\* What holds of every file persist leaves behind, complete or cut short.
FileOK(f) ==
  /\ f \in Seq(Record)
  /\ EpochFirst(f) /\ NoneTwice(f) /\ OutcomesFollow(f) /\ InOrder(f)

FilesOK ==
  /\ persist_pc # "idle" => FileOK(image) /\ Intact(image)
  /\ trace # Absent => FileOK(trace)
  /\ tmp # Absent => FileOK(tmp)

\* The invariants of the engine that hold over crashes.
EngineOK == IndexesExact /\ OutcomeLinked /\ SourceOrder /\ GenerationCoversLog

\* recover starts from the first record, and from an empty engine.
DownIsFresh ==
  /\ phase # "recovering" => off = 0
  /\ phase = "down" =>
       /\ obs = <<>> /\ dec = <<>>
       /\ \A k \in DecisionId : outcomes[k] = Nil

\* Inside recover the engine holds nothing but what the file says.
Link ==
  phase = "recovering" =>
    /\ \A i \in 1..Len(obs) :
         \E p \in 1..off : Bytes[p].kind = "Observation" /\ Bytes[p].observation = obs[i]
    /\ \A i \in 1..Len(dec) :
         \E p \in 1..off : Bytes[p].kind = "Decision" /\ Bytes[p].decision = dec[i]

PInv == PTypeOK /\ FilesOK /\ EngineOK /\ DownIsFresh /\ Link /\ RecoveryExact

\* While a process has a trace to lose, the old one is at path until the new
\* one is complete at path.tmp.
SafeCopy ==
  ~short_write =>
    /\ persist_pc \in {"written", "removed"} => Intact(tmp)
    /\ durable_gen # Absent /\ phase # "down" /\ persist_pc # "removed" => Intact(trace)
    /\ durable_gen # Absent => Intact(trace) \/ Intact(tmp)

(***************************************************************************)
(* Files.                                                                  *)
(***************************************************************************)

\* The kind of a record says what it carries.
LEMMA RecordFields ==
  ASSUME NEW r \in Record
  PROVE  /\ r.kind \in {"Epoch", "SourceDescriptor", "Observation", "Decision", "Outcome", "Torn"}
         /\ r.kind = "Epoch" => r.epoch \in Nat
         /\ r.kind = "SourceDescriptor" => r.source_descriptor \in SourceDescriptor
         /\ r.kind = "Observation" => r.observation \in AdmittedObservation
         /\ r.kind = "Decision" => r.decision \in AdmittedDecision
         /\ r.kind = "Outcome" => r.outcome \in PlacementOutcome
BY DEF Record, Torn

\* A record is its kind and what it carries.
LEMMA RecordShape ==
  ASSUME NEW r \in Record
  PROVE  /\ r.kind = "Observation" => r = [kind |-> "Observation", observation |-> r.observation]
         /\ r.kind = "Decision" => r = [kind |-> "Decision", decision |-> r.decision]
         /\ r.kind = "Outcome" => r = [kind |-> "Outcome", outcome |-> r.outcome]
BY DEF Record, Torn

\* A function on 1..n is a sequence of length n.
LEMMA FunctionIsSeq ==
  ASSUME NEW S, NEW n \in Nat, NEW f \in [1..n -> S]
  PROVE  f \in Seq(S) /\ Len(f) = n
OBVIOUS

\* Where the elements of two sequences are in their concatenation.
LEMMA Concatenation ==
  ASSUME NEW S, NEW u \in Seq(S), NEW v \in Seq(S)
  PROVE  /\ u \o v \in Seq(S)
         /\ Len(u \o v) = Len(u) + Len(v)
         /\ \A i \in 1..Len(u) : (u \o v)[i] = u[i]
         /\ \A i \in 1..Len(v) : (u \o v)[Len(u) + i] = v[i]
<1>1. Len(u) \in Nat /\ Len(v) \in Nat
  BY LenProperties
<1>2. /\ u \o v \in Seq(S)
      /\ Len(u \o v) = Len(u) + Len(v)
      /\ \A i \in 1..(Len(u) + Len(v)) :
           (u \o v)[i] = IF i <= Len(u) THEN u[i] ELSE v[i - Len(u)]
  BY ConcatProperties
<1> QED
  BY <1>1, <1>2

\* A write that is cut short leaves a file of the same kind: some records of
\* the image, and one that does not decode.
LEMMA TornPrefixOK ==
  ASSUME NEW f, FileOK(f), NEW n \in 0..(Len(f) - 1)
  PROVE  FileOK(SubSeq(f, 1, n) \o <<Torn>>)
<1> DEFINE g == SubSeq(f, 1, n) \o <<Torn>>
<1>1. f \in Seq(Record) /\ Len(f) \in Nat /\ n \in Nat /\ n < Len(f)
  BY LenProperties DEF FileOK
<1>2. Torn \in Record /\ Torn.kind = "Torn"
  BY DEF Record, Torn
<1>3. /\ SubSeq(f, 1, n) \in Seq(Record)
      /\ Len(SubSeq(f, 1, n)) = n
      /\ \A i \in 1..n : SubSeq(f, 1, n)[i] = f[i]
  <2>1. \A i \in 1..n : f[i] \in Record
    BY <1>1, ElementOfSeq
  <2> HIDE DEF Record
  <2> QED
    BY <1>1, <2>1, SubSeqProperties
<1>4. /\ <<Torn>> \in Seq(Record) /\ Len(<<Torn>>) = 1 /\ <<Torn>>[1] = Torn
  BY <1>2
<1>5. /\ g \in Seq(Record)
      /\ Len(g) = n + 1
      /\ \A i \in 1..n : g[i] = f[i]
      /\ g[n + 1] = Torn
  <2> HIDE DEF Record, Torn
  <2>1. PICK h : h = SubSeq(f, 1, n)
    OBVIOUS
  <2>2. PICK t : t = <<Torn>>
    OBVIOUS
  <2>3. h \in Seq(Record) /\ Len(h) = n /\ \A i \in 1..n : h[i] = f[i]
    BY <1>3, <2>1
  <2>4. t \in Seq(Record) /\ Len(t) = 1 /\ t[1] = Torn
    BY <1>4, <2>2
  <2>5. /\ h \o t \in Seq(Record)
        /\ Len(h \o t) = Len(h) + Len(t)
        /\ \A i \in 1..(Len(h) + Len(t)) : (h \o t)[i] = IF i <= Len(h) THEN h[i] ELSE t[i - Len(h)]
    BY <2>3, <2>4, ConcatProperties
  <2>6. g = h \o t
    BY <2>1, <2>2
  <2> HIDE DEF g
  <2>7. g \in Seq(Record) /\ Len(g) = n + 1
    BY <2>3, <2>4, <2>5, <2>6
  <2>8. \A i \in 1..n : g[i] = f[i]
    BY <1>1, <2>3, <2>4, <2>5, <2>6
  <2>9. g[n + 1] = Torn
    BY <1>1, <2>3, <2>4, <2>5, <2>6
  <2> QED
    BY <2>7, <2>8, <2>9
<1> HIDE DEF g
<1>6. \A i \in 1..Len(g) : g[i].kind = "Torn" \/ (i \in 1..n /\ g[i] = f[i] /\ i \in 1..Len(f))
  BY <1>1, <1>2, <1>5
<1>7. EpochFirst(g)
  BY <1>1, <1>5, <1>6 DEF FileOK, EpochFirst
<1>8. NoneTwice(g)
  BY <1>1, <1>5, <1>6 DEF FileOK, NoneTwice
<1>9. OutcomesFollow(g)
  <2> SUFFICES ASSUME NEW j \in 1..Len(g), g[j].kind = "Outcome"
               PROVE  /\ g[j].outcome.disposition # "Unknown"
                      /\ \E i \in 1..(j - 1) :
                           g[i].kind = "Decision" /\ Concludes(g[j].outcome, g[i].decision)
    BY DEF OutcomesFollow
  <2>1. j \in 1..n /\ g[j] = f[j] /\ j \in 1..Len(f)
    BY <1>6
  <2>2. f[j].outcome.disposition # "Unknown"
    BY <2>1 DEF FileOK, OutcomesFollow
  <2>3. PICK i \in 1..(j - 1) : f[i].kind = "Decision" /\ Concludes(f[j].outcome, f[i].decision)
    BY <2>1 DEF FileOK, OutcomesFollow
  <2>4. i \in 1..n
    BY <1>1, <2>1
  <2>5. g[i] = f[i]
    BY <1>5, <2>4
  <2> QED
    BY <2>1, <2>2, <2>3, <2>5
<1>10. InOrder(g)
  BY <1>1, <1>5, <1>6 DEF FileOK, InOrder
<1> QED
  BY <1>5, <1>7, <1>8, <1>9, <1>10 DEF FileOK, g

\* The record at each position of what persist writes, for m descriptors and n
\* outcomes: the epoch, the descriptors, the observations, the decisions, the
\* outcomes.
Layout(f, m, ss, n, ks) ==
  /\ f \in Seq(Record)
  /\ Len(f) = 1 + m + Len(obs) + Len(dec) + n
  /\ f[1] = EpochRecord
  /\ \A i \in 1..m : f[1 + i] = DescriptorRecord(ss[i])
  /\ \A i \in 1..Len(obs) :
       f[1 + m + i] = [kind |-> "Observation", observation |-> obs[i]]
  /\ \A i \in 1..Len(dec) :
       f[1 + m + Len(obs) + i] = [kind |-> "Decision", decision |-> dec[i]]
  /\ \A i \in 1..n : f[1 + m + Len(obs) + Len(dec) + i] = OutcomeRecord(ks[i])

\* Conversely, what the kind of a record says about its position.
KindSays(f, i, m, n, ks) ==
  LET b == 1 + m
      c == 1 + m + Len(obs)
      e == 1 + m + Len(obs) + Len(dec)
  IN /\ f[i].kind # "Torn"
     /\ f[i].kind = "Epoch" <=> i = 1
     /\ f[i].kind = "Observation" => i - b \in 1..Len(obs) /\ f[i].observation = obs[i - b]
     /\ f[i].kind = "Decision" => i - c \in 1..Len(dec) /\ f[i].decision = dec[i - c]
     /\ f[i].kind = "Outcome" => i - e \in 1..n /\ f[i].outcome = outcomes[ks[i - e]]

\* persist writes one section after the other.
LEMMA EncodeLayout ==
  ASSUME TypeOK, NEW m \in Nat, NEW n \in Nat,
         NEW ss \in [1..m -> {s \in SourceId : sources[s] # Nil}],
         NEW ks \in [1..n -> {k \in DecisionId : outcomes[k] # Nil}]
  PROVE  Layout(Encode(ss, ks), m, ss, n, ks)
<1>0. Len(obs) \in Nat /\ Len(dec) \in Nat
  BY DEF TypeOK
<1>1. PICK s1 \in Seq(Record) : s1 = <<EpochRecord>> /\ Len(s1) = 1 /\ s1[1] = EpochRecord
  <2>1. EpochRecord \in Record
    BY DEF TypeOK, EpochRecord, Record
  <2> HIDE DEF Record, EpochRecord
  <2>2. /\ <<EpochRecord>> \in Seq(Record)
        /\ Len(<<EpochRecord>>) = 1 /\ <<EpochRecord>>[1] = EpochRecord
    BY <2>1
  <2> QED
    BY <2>2
<1>2. PICK s2 \in Seq(Record) :
        /\ s2 = [i \in DOMAIN ss |-> DescriptorRecord(ss[i])]
        /\ Len(s2) = m /\ \A i \in 1..m : s2[i] = DescriptorRecord(ss[i])
  <2>1. ASSUME NEW i \in 1..m PROVE DescriptorRecord(ss[i]) \in Record
    <3>1. ss[i] \in SourceId /\ sources[ss[i]] \in Nat
      BY DEF TypeOK
    <3> QED
      BY <3>1 DEF DescriptorRecord, Record, SourceDescriptor
  <2> DEFINE t == [i \in DOMAIN ss |-> DescriptorRecord(ss[i])]
  <2>2. DOMAIN ss = 1..m
    OBVIOUS
  <2>3. t \in [1..m -> Record]
    BY <2>1, <2>2
  <2>4. t \in Seq(Record) /\ Len(t) = m
    BY <2>3, FunctionIsSeq
  <2> QED
    BY <2>2, <2>4
<1>3. PICK s3 \in Seq(Record) :
        /\ s3 = ObservationRecords /\ Len(s3) = Len(obs)
        /\ \A i \in 1..Len(obs) : s3[i] = [kind |-> "Observation", observation |-> obs[i]]
  <2>1. ASSUME NEW i \in 1..Len(obs)
        PROVE [kind |-> "Observation", observation |-> obs[i]] \in Record
    BY DEF TypeOK, Record
  <2>2. ObservationRecords \in [1..Len(obs) -> Record]
    BY <2>1 DEF ObservationRecords
  <2>3. ObservationRecords \in Seq(Record) /\ Len(ObservationRecords) = Len(obs)
    BY <1>0, <2>2, FunctionIsSeq
  <2>4. \A i \in 1..Len(obs) :
          ObservationRecords[i] = [kind |-> "Observation", observation |-> obs[i]]
    BY DEF ObservationRecords
  <2> QED
    BY <2>3, <2>4
<1>4. PICK s4 \in Seq(Record) :
        /\ s4 = DecisionRecords /\ Len(s4) = Len(dec)
        /\ \A i \in 1..Len(dec) : s4[i] = [kind |-> "Decision", decision |-> dec[i]]
  <2>1. ASSUME NEW i \in 1..Len(dec)
        PROVE [kind |-> "Decision", decision |-> dec[i]] \in Record
    BY DEF TypeOK, Record
  <2>2. DecisionRecords \in [1..Len(dec) -> Record]
    BY <2>1 DEF DecisionRecords
  <2>3. DecisionRecords \in Seq(Record) /\ Len(DecisionRecords) = Len(dec)
    BY <1>0, <2>2, FunctionIsSeq
  <2>4. \A i \in 1..Len(dec) : DecisionRecords[i] = [kind |-> "Decision", decision |-> dec[i]]
    BY DEF DecisionRecords
  <2> QED
    BY <2>3, <2>4
<1>5. PICK s5 \in Seq(Record) :
        /\ s5 = [i \in DOMAIN ks |-> OutcomeRecord(ks[i])]
        /\ Len(s5) = n /\ \A i \in 1..n : s5[i] = OutcomeRecord(ks[i])
  <2>1. ASSUME NEW i \in 1..n PROVE OutcomeRecord(ks[i]) \in Record
    <3>1. ks[i] \in DecisionId /\ outcomes[ks[i]] \in PlacementOutcome
      BY DEF TypeOK
    <3> QED
      BY <3>1 DEF OutcomeRecord, Record
  <2> DEFINE t == [i \in DOMAIN ks |-> OutcomeRecord(ks[i])]
  <2>2. DOMAIN ks = 1..n
    OBVIOUS
  <2>3. t \in [1..n -> Record]
    BY <2>1, <2>2
  <2>4. t \in Seq(Record) /\ Len(t) = n
    BY <2>3, FunctionIsSeq
  <2> QED
    BY <2>2, <2>4
<1>6. PICK f : f = s1 \o s2 \o s3 \o s4 \o s5
  OBVIOUS
<1>7. f = Encode(ss, ks)
  BY <1>1, <1>2, <1>3, <1>4, <1>5, <1>6 DEF Encode
<1>8. Len(s1) = 1 /\ Len(s2) = m /\ Len(s3) = Len(obs) /\ Len(s4) = Len(dec) /\ Len(s5) = n
  <2>1. Len(s1) = 1
    BY <1>1
  <2>2. Len(s2) = m
    BY <1>2
  <2>3. Len(s3) = Len(obs)
    BY <1>3
  <2>4. Len(s4) = Len(dec)
    BY <1>4
  <2>5. Len(s5) = n
    BY <1>5
  <2> QED
    BY <2>1, <2>2, <2>3, <2>4, <2>5
<1>9. PICK t2 : t2 = s1 \o s2
  OBVIOUS
<1>10. PICK t3 : t3 = t2 \o s3
  OBVIOUS
<1>11. PICK t4 : t4 = t3 \o s4
  OBVIOUS
<1>12. f = t4 \o s5
  BY <1>6, <1>9, <1>10, <1>11
<1>13. /\ t2 \in Seq(Record) /\ Len(t2) = Len(s1) + Len(s2)
       /\ \A i \in 1..Len(s1) : t2[i] = s1[i]
       /\ \A i \in 1..Len(s2) : t2[Len(s1) + i] = s2[i]
  BY <1>9, Concatenation
<1>14. /\ t3 \in Seq(Record) /\ Len(t3) = Len(t2) + Len(s3)
       /\ \A i \in 1..Len(t2) : t3[i] = t2[i]
       /\ \A i \in 1..Len(s3) : t3[Len(t2) + i] = s3[i]
  <2>1. t2 \in Seq(Record)
    BY <1>13
  <2> QED
    BY <1>10, <2>1, Concatenation
<1>15. /\ t4 \in Seq(Record) /\ Len(t4) = Len(t3) + Len(s4)
       /\ \A i \in 1..Len(t3) : t4[i] = t3[i]
       /\ \A i \in 1..Len(s4) : t4[Len(t3) + i] = s4[i]
  <2>1. t3 \in Seq(Record)
    BY <1>14
  <2> QED
    BY <1>11, <2>1, Concatenation
<1>16. /\ f \in Seq(Record) /\ Len(f) = Len(t4) + Len(s5)
       /\ \A i \in 1..Len(t4) : f[i] = t4[i]
       /\ \A i \in 1..Len(s5) : f[Len(t4) + i] = s5[i]
  <2>1. t4 \in Seq(Record)
    BY <1>15
  <2> QED
    BY <1>12, <2>1, Concatenation
<1>17. /\ Len(t2) = 1 + m
       /\ Len(t3) = 1 + m + Len(obs)
       /\ Len(t4) = 1 + m + Len(obs) + Len(dec)
       /\ Len(f) = 1 + m + Len(obs) + Len(dec) + n
  BY <1>8, <1>13, <1>14, <1>15, <1>16
<1>18. f[1] = EpochRecord
  <2>1. 1 \in 1..Len(t2) /\ 1 \in 1..Len(t3) /\ 1 \in 1..Len(t4)
    BY <1>0, <1>17
  <2>2. t2[1] = s1[1]
    BY <1>8, <1>13
  <2>3. f[1] = s1[1]
    BY <1>14, <1>15, <1>16, <2>1, <2>2
  <2> QED
    BY <1>1, <2>3
<1>19. ASSUME NEW i \in 1..m PROVE f[1 + i] = DescriptorRecord(ss[i])
  <2>1. 1 + i \in 1..Len(t2) /\ 1 + i \in 1..Len(t3) /\ 1 + i \in 1..Len(t4)
    BY <1>0, <1>17
  <2>2. t2[1 + i] = s2[i]
    BY <1>8, <1>13
  <2>3. f[1 + i] = s2[i]
    BY <1>14, <1>15, <1>16, <2>1, <2>2
  <2> QED
    BY <1>2, <2>3
<1>20. ASSUME NEW i \in 1..Len(obs)
       PROVE f[1 + m + i] = [kind |-> "Observation", observation |-> obs[i]]
  <2>1. 1 + m + i \in 1..Len(t3) /\ 1 + m + i \in 1..Len(t4)
    BY <1>0, <1>17
  <2>2. t3[1 + m + i] = s3[i]
    BY <1>8, <1>14, <1>17
  <2>3. f[1 + m + i] = s3[i]
    BY <1>15, <1>16, <2>1, <2>2
  <2> QED
    BY <1>3, <2>3
<1>21. ASSUME NEW i \in 1..Len(dec)
       PROVE f[1 + m + Len(obs) + i] = [kind |-> "Decision", decision |-> dec[i]]
  <2>1. 1 + m + Len(obs) + i \in 1..Len(t4)
    BY <1>0, <1>17
  <2>2. t4[1 + m + Len(obs) + i] = s4[i]
    BY <1>8, <1>15, <1>17
  <2>3. f[1 + m + Len(obs) + i] = s4[i]
    BY <1>16, <2>1, <2>2
  <2> QED
    BY <1>4, <2>3
<1>22. ASSUME NEW i \in 1..n PROVE f[1 + m + Len(obs) + Len(dec) + i] = OutcomeRecord(ks[i])
  <2>1. f[1 + m + Len(obs) + Len(dec) + i] = s5[i]
    BY <1>0, <1>8, <1>16, <1>17
  <2> QED
    BY <1>5, <2>1
<1>23. f \in Seq(Record)
  BY <1>16
<1> QED
  BY <1>7, <1>17, <1>18, <1>19, <1>20, <1>21, <1>22, <1>23 DEF Layout

\* A file laid out like that has records of a kind only in their section.
LEMMA LayoutKinds ==
  ASSUME TypeOK, NEW f, NEW m \in Nat, NEW ss, NEW n \in Nat, NEW ks,
         Layout(f, m, ss, n, ks), NEW i \in 1..Len(f)
  PROVE  KindSays(f, i, m, n, ks)
<1>0. Len(obs) \in Nat /\ Len(dec) \in Nat /\ i \in Int
  BY DEF TypeOK
<1> DEFINE b == 1 + m
           c == 1 + m + Len(obs)
           e == 1 + m + Len(obs) + Len(dec)
<1>1. /\ Len(f) = e + n
      /\ f[1] = EpochRecord
      /\ \A j \in 1..m : f[1 + j] = DescriptorRecord(ss[j])
      /\ \A j \in 1..Len(obs) : f[b + j] = [kind |-> "Observation", observation |-> obs[j]]
      /\ \A j \in 1..Len(dec) : f[c + j] = [kind |-> "Decision", decision |-> dec[j]]
      /\ \A j \in 1..n : f[e + j] = OutcomeRecord(ks[j])
  BY DEF Layout
<1>2. CASE i = 1
  <2>1. f[i].kind = "Epoch"
    BY <1>1, <1>2 DEF EpochRecord
  <2> QED
    BY <1>2, <2>1 DEF KindSays
<1>3. CASE i \in 2..b
  <2>1. i - 1 \in 1..m /\ i = 1 + (i - 1) /\ i # 1
    BY <1>0, <1>3
  <2>2. f[i] = DescriptorRecord(ss[i - 1])
    BY <1>1, <2>1
  <2>3. f[i].kind = "SourceDescriptor"
    BY <2>2 DEF DescriptorRecord
  <2> QED
    BY <2>1, <2>3 DEF KindSays
<1>4. CASE i \in (b + 1)..c
  <2>1. i - b \in 1..Len(obs) /\ i = b + (i - b) /\ i # 1
    BY <1>0, <1>4
  <2>2. f[i] = [kind |-> "Observation", observation |-> obs[i - b]]
    BY <1>1, <2>1
  <2>3. f[i].kind = "Observation" /\ f[i].observation = obs[i - b]
    BY <2>2
  <2> QED
    BY <2>1, <2>3 DEF KindSays
<1>5. CASE i \in (c + 1)..e
  <2>1. i - c \in 1..Len(dec) /\ i = c + (i - c) /\ i # 1
    BY <1>0, <1>5
  <2>2. f[i] = [kind |-> "Decision", decision |-> dec[i - c]]
    BY <1>1, <2>1
  <2>3. f[i].kind = "Decision" /\ f[i].decision = dec[i - c]
    BY <2>2
  <2> QED
    BY <2>1, <2>3 DEF KindSays
<1>6. CASE i \in (e + 1)..(e + n)
  <2>1. i - e \in 1..n /\ i = e + (i - e) /\ i # 1
    BY <1>0, <1>6
  <2>2. f[i] = OutcomeRecord(ks[i - e])
    BY <1>1, <2>1
  <2>3. f[i].kind = "Outcome" /\ f[i].outcome = outcomes[ks[i - e]]
    BY <2>2 DEF OutcomeRecord
  <2> QED
    BY <2>1, <2>3 DEF KindSays
<1>7. i = 1 \/ i \in 2..b \/ i \in (b + 1)..c \/ i \in (c + 1)..e \/ i \in (e + 1)..(e + n)
  BY <1>0, <1>1
<1> QED
  BY <1>2, <1>3, <1>4, <1>5, <1>6, <1>7

\* The ids of logged records are valid.
LEMMA LoggedObservation ==
  ASSUME TypeOK, NEW i \in 1..Len(obs)
  PROVE  /\ obs[i] \in AdmittedObservation
         /\ obs[i].observation_id \in ObservationId
         /\ obs[i].source_id \in SourceId
         /\ obs[i].source_generation \in Nat
<1>1. obs[i] \in AdmittedObservation
  BY DEF TypeOK
<1> QED
  BY <1>1 DEF AdmittedObservation, PlacementObservation

\* The same for decisions.
LEMMA LoggedDecision ==
  ASSUME TypeOK, NEW i \in 1..Len(dec)
  PROVE  /\ dec[i] \in AdmittedDecision
         /\ dec[i].decision_id \in DecisionId
         /\ dec[i].attempt_id \in AttemptId \cup {Nil}
<1>1. dec[i] \in AdmittedDecision
  BY DEF TypeOK
<1> QED
  BY <1>1 DEF AdmittedDecision, PlacementDecision

\* What persist writes is complete and well formed: it is a copy of an engine
\* whose invariants hold, one section after the other.
LEMMA EncodeOK ==
  ASSUME TypeOK, EngineOK,
         NEW ss \in Traversals({s \in SourceId : sources[s] # Nil}),
         NEW ks \in Traversals({k \in DecisionId : outcomes[k] # Nil})
  PROVE  FileOK(Encode(ss, ks)) /\ Intact(Encode(ss, ks))
<1> DEFINE m == Cardinality({s \in SourceId : sources[s] # Nil})
           n == Cardinality({k \in DecisionId : outcomes[k] # Nil})
           f == Encode(ss, ks)
           b == 1 + m
           c == 1 + m + Len(obs)
           e == 1 + m + Len(obs) + Len(dec)
<1>1. m \in Nat /\ n \in Nat
  <2>1. IsFiniteSet(SourceId)
    BY IdsAssumption, FS_AddElement DEF SourceId
  <2>2. IsFiniteSet({s \in SourceId : sources[s] # Nil})
    BY <2>1, FS_Subset
  <2>3. IsFiniteSet({k \in DecisionId : outcomes[k] # Nil})
    BY IdsAssumption, FS_Subset
  <2> QED
    BY <2>2, <2>3, FS_CardinalityType
<1>2. /\ ss \in [1..m -> {s \in SourceId : sources[s] # Nil}]
      /\ ks \in [1..n -> {k \in DecisionId : outcomes[k] # Nil}]
      /\ \A i, j \in 1..n : ks[i] = ks[j] => i = j
  BY DEF Traversals
<1> HIDE DEF m, n
<1>3. Layout(f, m, ss, n, ks)
  BY <1>1, <1>2, EncodeLayout
<1> HIDE DEF f
<1>4. /\ f \in Seq(Record)
      /\ \A i \in 1..Len(dec) : f[c + i] = [kind |-> "Decision", decision |-> dec[i]]
  BY <1>3 DEF Layout
<1>5. ASSUME NEW i \in 1..Len(f)
      PROVE  /\ f[i].kind # "Torn"
             /\ f[i].kind = "Epoch" <=> i = 1
             /\ f[i].kind = "Observation" => i - b \in 1..Len(obs) /\ f[i].observation = obs[i - b]
             /\ f[i].kind = "Decision" => i - c \in 1..Len(dec) /\ f[i].decision = dec[i - c]
             /\ f[i].kind = "Outcome" => i - e \in 1..n /\ f[i].outcome = outcomes[ks[i - e]]
  <2>1. KindSays(f, i, m, n, ks)
    BY <1>1, <1>3, LayoutKinds
  <2> QED
    BY <2>1 DEF KindSays
<1>6. Len(obs) \in Nat /\ Len(dec) \in Nat /\ Len(f) \in Nat
  BY <1>4 DEF TypeOK
<1> HIDE DEF b, c, e
<1>7. EpochFirst(f)
  BY <1>5 DEF EpochFirst
<1>8. b \in Nat /\ c \in Nat /\ e \in Nat /\ e = c + Len(dec)
  BY <1>1, <1>6 DEF b, c, e
<1>9. NoneTwice(f)
  <2> SUFFICES ASSUME NEW i \in 1..Len(f), NEW j \in 1..Len(f), i < j, f[i].kind = f[j].kind
               PROVE
                 /\ f[i].kind = "Observation" =>
                      f[i].observation.observation_id # f[j].observation.observation_id
                 /\ f[i].kind = "Decision" =>
                      /\ f[i].decision.decision_id # f[j].decision.decision_id
                      /\ \/ f[i].decision.attempt_id = Nil
                         \/ f[i].decision.attempt_id # f[j].decision.attempt_id
                 /\ f[i].kind = "Outcome" =>
                      f[i].outcome.decision_id # f[j].outcome.decision_id
    BY DEF NoneTwice
  <2>1. CASE f[i].kind = "Observation"
    <3>1. /\ i - b \in 1..Len(obs) /\ f[i].observation = obs[i - b]
          /\ j - b \in 1..Len(obs) /\ f[j].observation = obs[j - b]
      BY <1>5, <2>1
    <3>2. obs[i - b].observation_id \in ObservationId
      BY <3>1, LoggedObservation
    <3>3. i - b # j - b
      BY <1>6, <1>8
    <3>4. obs[i - b].observation_id # obs[j - b].observation_id
      BY <3>1, <3>2, <3>3 DEF EngineOK, IndexesExact, ObsIndexExact
    <3> QED
      BY <2>1, <3>1, <3>4
  <2>2. CASE f[i].kind = "Decision"
    <3>1. /\ i - c \in 1..Len(dec) /\ f[i].decision = dec[i - c]
          /\ j - c \in 1..Len(dec) /\ f[j].decision = dec[j - c]
      BY <1>5, <2>2
    <3>2. /\ dec[i - c].decision_id \in DecisionId
          /\ dec[i - c].attempt_id \in AttemptId \cup {Nil}
      BY <3>1, LoggedDecision
    <3>3. i - c # j - c
      BY <1>6, <1>8
    <3>4. dec[i - c].decision_id # dec[j - c].decision_id
      BY <3>1, <3>2, <3>3 DEF EngineOK, IndexesExact, DecIndexExact
    <3>5. dec[i - c].attempt_id = Nil \/ dec[i - c].attempt_id # dec[j - c].attempt_id
      BY <3>1, <3>2, <3>3 DEF EngineOK, IndexesExact, AttemptIndexExact
    <3> QED
      BY <2>2, <3>1, <3>4, <3>5
  <2>3. CASE f[i].kind = "Outcome"
    <3>1. /\ i - e \in 1..n /\ f[i].outcome = outcomes[ks[i - e]]
          /\ j - e \in 1..n /\ f[j].outcome = outcomes[ks[j - e]]
      BY <1>5, <2>3
    <3>2. /\ ks[i - e] \in DecisionId /\ outcomes[ks[i - e]] # Nil
          /\ ks[j - e] \in DecisionId /\ outcomes[ks[j - e]] # Nil
      BY <1>2, <3>1
    <3>3. i - e # j - e
      BY <1>6, <1>8
    <3>4. ks[i - e] # ks[j - e]
      BY <1>2, <3>1, <3>3
    <3> QED
      BY <2>3, <3>1, <3>2, <3>4 DEF EngineOK, OutcomeLinked
  <2> QED
    BY <2>1, <2>2, <2>3
<1>10. OutcomesFollow(f)
  <2> SUFFICES ASSUME NEW j \in 1..Len(f), f[j].kind = "Outcome"
               PROVE  /\ f[j].outcome.disposition # "Unknown"
                      /\ \E i \in 1..(j - 1) :
                           f[i].kind = "Decision" /\ Concludes(f[j].outcome, f[i].decision)
    BY DEF OutcomesFollow
  <2>1. j - e \in 1..n /\ f[j].outcome = outcomes[ks[j - e]]
    BY <1>5
  <2>2. PICK k \in DecisionId : k = ks[j - e] /\ outcomes[k] # Nil
    BY <1>2, <2>1
  <2>3. /\ dec_by_id[k] # 0
        /\ outcomes[k].decision_id = k
        /\ outcomes[k].disposition # "Unknown"
        /\ \/ outcomes[k].attempt_id = Nil
           \/ dec[dec_by_id[k]].attempt_id \in {Nil, outcomes[k].attempt_id}
    BY <2>2 DEF EngineOK, OutcomeLinked
  <2>4. dec_by_id[k] \in 1..Len(dec) /\ dec[dec_by_id[k]].decision_id = k
    BY <1>6, <2>3 DEF TypeOK, EngineOK, IndexesExact, DecIndexExact
  <2> DEFINE i == c + dec_by_id[k]
  <2>5. i \in 1..(j - 1)
    BY <1>8, <2>1, <2>4
  <2>6. f[i] = [kind |-> "Decision", decision |-> dec[dec_by_id[k]]]
    BY <1>4, <2>4
  <2>7. f[i].kind = "Decision" /\ f[i].decision = dec[dec_by_id[k]]
    BY <2>6
  <2>8. Concludes(f[j].outcome, f[i].decision)
    BY <2>1, <2>2, <2>3, <2>4, <2>7 DEF Concludes
  <2> QED
    BY <2>1, <2>2, <2>3, <2>5, <2>7, <2>8
<1>11. InOrder(f)
  <2> SUFFICES ASSUME cfg.enforce_stale_source_generation,
                      NEW i \in 1..Len(f), NEW j \in 1..Len(f), i < j,
                      f[i].kind = "Observation", f[j].kind = "Observation",
                      f[i].observation.source_id = f[j].observation.source_id
               PROVE  f[i].observation.source_generation <= f[j].observation.source_generation
    BY DEF InOrder
  <2>1. /\ i - b \in 1..Len(obs) /\ f[i].observation = obs[i - b]
        /\ j - b \in 1..Len(obs) /\ f[j].observation = obs[j - b]
    BY <1>5
  <2>2. i - b < j - b
    BY <1>6, <1>8
  <2> QED
    BY <2>1, <2>2 DEF EngineOK, SourceOrder
<1>12. Intact(f)
  <2>1. f # Absent
    BY <1>4, AbsentAssumption
  <2> QED
    BY <1>5, <2>1 DEF Intact, IsTorn
<1> QED
  BY <1>4, <1>7, <1>9, <1>10, <1>11, <1>12 DEF FileOK, f

(***************************************************************************)
(* The engine between two calls of persist.                                *)
(***************************************************************************)

\* Every step of the engine keeps what holds over crashes.  AuthorityInv of
\* ObservatoryProofs is not available here: recover does not restore the
\* trusted boots (see the recovered_boot run), so only generations count.
LEMMA NextEngineOK == TypeOK /\ EngineOK /\ [Next]_vars => EngineOK'
<1> SUFFICES ASSUME TypeOK, EngineOK, [Next]_vars PROVE EngineOK'
  OBVIOUS
<1> USE DEF EngineOK
<1>1. IndexesExact'
  BY NextIndexesExact
<1>2. OutcomeLinked'
  BY NextOutcomeLinked
<1>3. AuthorityStep
  BY NextAuthorityStep
<1>4. TypeOK'
  BY NextTypeOK
<1>5. cfg' = cfg
  BY ObsChange
<1>6. Len(obs) \in Nat
  BY DEF TypeOK
<1>7. ASSUME NEW i \in 1..Len(obs)
      PROVE  /\ obs[i].source_generation \in Nat
             /\ obs[i].source_generation <= src_gen[obs[i].source_id]
             /\ obs[i].source_generation <= src_gen'[obs[i].source_id]
  <2>1. obs[i].source_id \in SourceId /\ obs[i].source_generation \in Nat
    BY LoggedObservation
  <2>2. src_gen[obs[i].source_id] \in Nat /\ src_gen'[obs[i].source_id] \in Nat
    BY <1>4, <2>1 DEF TypeOK
  <2>3. src_gen'[obs[i].source_id] >= src_gen[obs[i].source_id]
    BY <1>3, <2>1 DEF AuthorityStep
  <2>4. obs[i].source_generation <= src_gen[obs[i].source_id]
    BY DEF GenerationCoversLog
  <2> QED
    BY <2>1, <2>2, <2>3, <2>4
<1>8. CASE obs' = obs
  <2>1. SourceOrder'
    BY <1>5, <1>8 DEF SourceOrder
  <2>2. GenerationCoversLog'
    BY <1>7, <1>8 DEF GenerationCoversLog
  <2> QED
    BY <1>1, <1>2, <2>1, <2>2
<1>9. ASSUME NEW o \in Observations, IngestAdmitted(o)
      PROVE  SourceOrder' /\ GenerationCoversLog'
  <2> DEFINE n == Len(obs) + 1
  <2>1. /\ Len(obs') = n
        /\ \A i \in 1..Len(obs) : obs'[i] = obs[i]
        /\ obs'[n].source_id = o.source_id
        /\ obs'[n].source_generation = o.source_generation
    BY <1>9, AppendedEntry
  <2>2. ~RefusedEarly(o) /\ AdoptAuthority(o)
    BY <1>9 DEF IngestAdmitted
  <2>3. /\ o.source_id \in SourceId /\ o.source_generation \in Nat
        /\ cfg.enforce_stale_source_generation => o.source_generation >= src_gen[o.source_id]
    BY <2>2, AdmittedPasses
  <2>4. o.source_generation <= src_gen'[o.source_id]
    BY <2>2, AdoptedAuthority
  <2>5. src_gen[o.source_id] \in Nat
    BY <2>3 DEF TypeOK
  <2>6. \A i \in 1..Len(obs') : i \in 1..Len(obs) \/ i = n
    BY <1>6, <2>1
  <2>7. GenerationCoversLog'
    BY <1>7, <2>1, <2>4, <2>6 DEF GenerationCoversLog
  <2>8. SourceOrder'
    <3> SUFFICES ASSUME cfg.enforce_stale_source_generation,
                        NEW i \in 1..Len(obs'), NEW j \in 1..Len(obs'), i < j,
                        obs'[i].source_id = obs'[j].source_id
                 PROVE  obs'[i].source_generation <= obs'[j].source_generation
      BY <1>5 DEF SourceOrder
    <3>1. i \in 1..Len(obs)
      BY <1>6, <2>1, <2>6
    <3>2. CASE j \in 1..Len(obs)
      BY <2>1, <3>1, <3>2 DEF SourceOrder
    <3>3. CASE j = n
      BY <1>7, <2>1, <2>3, <2>5, <3>1, <3>3
    <3> QED
      BY <2>6, <3>2, <3>3
  <2> QED
    BY <2>7, <2>8
<1> QED
  BY <1>1, <1>2, <1>8, <1>9, ObsChange

(***************************************************************************)
(* Positions in a file.                                                    *)
(***************************************************************************)

\* Reading one record more adds its position to those of its kind.
LEMMA PositionsStep ==
  ASSUME NEW f, NEW n \in Nat, NEW kind
  PROVE  /\ IsFiniteSet(Positions(f, n, kind))
         /\ Cardinality(Positions(f, n, kind)) \in Nat
         /\ f[n + 1].kind # kind => Positions(f, n + 1, kind) = Positions(f, n, kind)
         /\ f[n + 1].kind = kind =>
              /\ Positions(f, n + 1, kind) = Positions(f, n, kind) \cup {n + 1}
              /\ Cardinality(Positions(f, n + 1, kind))
                   = Cardinality(Positions(f, n, kind)) + 1
<1>1. IsFiniteSet(1..n)
  BY FS_Interval
<1>2. Positions(f, n, kind) \subseteq 1..n
  BY DEF Positions
<1>3. IsFiniteSet(Positions(f, n, kind))
  BY <1>1, <1>2, FS_Subset
<1>4. Cardinality(Positions(f, n, kind)) \in Nat
  BY <1>3, FS_CardinalityType
<1>5. 1..(n + 1) = (1..n) \cup {n + 1}
  OBVIOUS
<1>6. f[n + 1].kind # kind => Positions(f, n + 1, kind) = Positions(f, n, kind)
  BY <1>5 DEF Positions
<1>7. f[n + 1].kind = kind => Positions(f, n + 1, kind) = Positions(f, n, kind) \cup {n + 1}
  BY <1>5 DEF Positions
<1>8. n + 1 \notin Positions(f, n, kind)
  BY <1>2
<1>9. f[n + 1].kind = kind =>
        Cardinality(Positions(f, n + 1, kind)) = Cardinality(Positions(f, n, kind)) + 1
  BY <1>3, <1>7, <1>8, FS_AddElement
<1> QED
  BY <1>3, <1>4, <1>6, <1>7, <1>9

\* A record of another kind adds nothing.
LEMMA PositionsSame ==
  ASSUME NEW f, NEW n \in Nat, NEW kind, f[n + 1].kind # kind
  PROVE  Positions(f, n + 1, kind) = Positions(f, n, kind)
BY PositionsStep

\* One of the kind adds its own.
LEMMA PositionsMore ==
  ASSUME NEW f, NEW n \in Nat, NEW kind, f[n + 1].kind = kind
  PROVE  Positions(f, n + 1, kind) = Positions(f, n, kind) \cup {n + 1}
<1>1. 1..(n + 1) = (1..n) \cup {n + 1}
  OBVIOUS
<1> QED
  BY <1>1 DEF Positions

\* The rank of a record among those of its kind is a position of their list.
LEMMA RankInRange ==
  ASSUME NEW f, NEW n \in Nat, NEW kind, NEW i \in Positions(f, n, kind)
  PROVE  Cardinality(Positions(f, i, kind)) \in 1..Cardinality(Positions(f, n, kind))
<1>1. i \in 1..n /\ i \in Nat /\ i \in Positions(f, i, kind)
  BY DEF Positions
<1>2. Positions(f, i, kind) \subseteq Positions(f, n, kind)
  BY <1>1 DEF Positions
<1>3. IsFiniteSet(Positions(f, n, kind)) /\ Cardinality(Positions(f, n, kind)) \in Nat
  BY PositionsStep
<1>4. IsFiniteSet(Positions(f, i, kind)) /\ Cardinality(Positions(f, i, kind)) \in Nat
  BY <1>1, PositionsStep
<1>5. Cardinality(Positions(f, i, kind)) <= Cardinality(Positions(f, n, kind))
  BY <1>2, <1>3, FS_Subset
<1>6. Cardinality(Positions(f, i, kind)) # 0
  BY <1>1, <1>4, FS_EmptySet
<1> QED
  BY <1>3, <1>4, <1>5, <1>6

\* A record of another kind leaves a list as it is.
LEMMA ListsSame ==
  ASSUME NEW log, NEW f, NEW n \in Nat, NEW kind,
         Lists(log, f, n, kind), f[n + 1].kind # kind
  PROVE  Lists(log, f, n + 1, kind)
BY PositionsStep DEF Lists

\* A record of its kind is appended to it.
LEMMA ListsAppend ==
  ASSUME NEW log, NEW longer, NEW f, NEW n \in Nat, NEW kind,
         Lists(log, f, n, kind), f[n + 1].kind = kind,
         Len(longer) = Len(log) + 1,
         \A i \in 1..Len(log) : longer[i] = log[i],
         longer[Len(log) + 1] = f[n + 1]
  PROVE  Lists(longer, f, n + 1, kind)
<1>1. /\ Len(log) = Cardinality(Positions(f, n, kind))
      /\ \A i \in Positions(f, n, kind) : log[Cardinality(Positions(f, i, kind))] = f[i]
  BY DEF Lists
<1>2. \A i \in Positions(f, n + 1, kind) : i = n + 1 \/ i \in Positions(f, n, kind)
  BY DEF Positions
<1>3. Cardinality(Positions(f, n + 1, kind)) = Cardinality(Positions(f, n, kind)) + 1
  BY PositionsStep
<1>4. ASSUME NEW i \in Positions(f, n + 1, kind)
      PROVE longer[Cardinality(Positions(f, i, kind))] = f[i]
  <2>1. CASE i = n + 1
    BY <1>1, <1>3, <2>1
  <2>2. CASE i \in Positions(f, n, kind)
    <3>1. Cardinality(Positions(f, i, kind)) \in 1..Len(log)
      BY <1>1, <2>2, RankInRange
    <3> QED
      BY <1>1, <2>2, <3>1
  <2> QED
    BY <1>2, <2>1, <2>2
<1> QED
  BY <1>1, <1>3, <1>4 DEF Lists

(***************************************************************************)
(* recover, one record at a time.                                          *)
(***************************************************************************)

\* The records read so far are in the engine (RecoveryExact inside recover).
ReadSoFar(n) ==
  /\ Lists(ObservationRecords, Bytes, n, "Observation")
  /\ Lists(DecisionRecords, Bytes, n, "Decision")
  /\ { OutcomeRecord(k) : k \in { k \in DecisionId : outcomes[k] # Nil } }
     = { Bytes[i] : i \in Positions(Bytes, n, "Outcome") }

\* What a turn of the loop starts from.
LEMMA TurnFacts ==
  ASSUME PInv, RecoverRecord, NEW r, r = Bytes[off + 1]
  PROVE  /\ Bytes = trace /\ Bytes' = Bytes /\ trace # Absent /\ FileOK(Bytes)
         /\ off \in Nat /\ off + 1 \in 1..Len(Bytes) /\ off' = off + 1
         /\ r \in Record /\ r.kind # "Torn"
         /\ phase = "recovering" /\ phase' = "recovering" /\ cfg' = cfg
<1>1. phase = "recovering" /\ More /\ off' = off + 1 /\ UNCHANGED <<cfg, phase, trace>>
  BY DEF RecoverRecord, files
<1>2. off \in 0..Len(Bytes) /\ off < Len(Bytes) /\ r.kind # "Torn"
  BY <1>1 DEF PInv, PTypeOK, More, IsTorn
<1>3. trace # Absent
  BY <1>2 DEF Bytes
<1>4. Bytes = trace /\ Bytes' = Bytes
  BY <1>1, <1>3 DEF Bytes
<1>5. FileOK(Bytes)
  BY <1>3, <1>4 DEF PInv, FilesOK
<1>6. Bytes \in Seq(Record) /\ Len(Bytes) \in Nat
  BY <1>5 DEF FileOK
<1>7. off \in Nat /\ off + 1 \in 1..Len(Bytes)
  BY <1>2, <1>6
<1>8. r \in Record
  BY <1>6, <1>7, ElementOfSeq
<1> QED
  BY <1>1, <1>2, <1>3, <1>4, <1>5, <1>7, <1>8

\* RecoveryExact, for a state inside recover.
LEMMA ExactInside ==
  ASSUME phase = "recovering"
  PROVE  RecoveryExact <=> (off > 0 => coordinator = Bytes[1].epoch) /\ ReadSoFar(off)
BY DEF RecoveryExact, ReadSoFar

\* A record that is none of an observation, a decision and an outcome leaves
\* what has been read as it was.
LEMMA OtherRecord ==
  ASSUME PInv, RecoverRecord, NEW r, r = Bytes[off + 1],
         r.kind \notin {"Observation", "Decision", "Outcome"},
         UNCHANGED <<obs, dec, outcomes>>
  PROVE  ReadSoFar(off)' /\ Link'
<1>1. /\ Bytes' = Bytes /\ off \in Nat /\ off' = off + 1
      /\ phase = "recovering" /\ phase' = "recovering"
  BY TurnFacts
<1>2. ReadSoFar(off)
  BY <1>1, ExactInside DEF PInv
<1>3. ReadSoFar(off + 1)
  <2>1. Lists(ObservationRecords, Bytes, off + 1, "Observation")
    BY <1>1, <1>2, ListsSame DEF ReadSoFar
  <2>2. Lists(DecisionRecords, Bytes, off + 1, "Decision")
    BY <1>1, <1>2, ListsSame DEF ReadSoFar
  <2>3. Positions(Bytes, off + 1, "Outcome") = Positions(Bytes, off, "Outcome")
    BY <1>1, PositionsStep
  <2> QED
    BY <1>2, <2>1, <2>2, <2>3 DEF ReadSoFar
<1>4. ReadSoFar(off)'
  BY <1>1, <1>3 DEF ReadSoFar, ObservationRecords, DecisionRecords, OutcomeRecord
<1>5. Link'
  BY <1>1 DEF PInv, Link
<1> QED
  BY <1>4, <1>5

\* The epoch record is the first.
LEMMA EpochTurn ==
  ASSUME PInv, RecoverRecord, NEW r, r = Bytes[off + 1], RecoverEpoch(r)
  PROVE  TypeOK' /\ EngineOK' /\ Link' /\ RecoveryExact'
<1> USE DEF obsLog, decLog, authority
<1>1. /\ Bytes' = Bytes /\ FileOK(Bytes) /\ off + 1 \in 1..Len(Bytes) /\ off' = off + 1
      /\ off \in Nat /\ r \in Record /\ phase' = "recovering" /\ cfg' = cfg
  BY TurnFacts
<1>2. r.kind = "Epoch" /\ coordinator' = r.epoch
  BY DEF RecoverEpoch
<1>3. r.epoch \in Nat
  BY <1>1, <1>2, RecordFields
<1>4. UNCHANGED <<cfg, obs, obs_by_id, dec, dec_by_id, idx_dec_attempt, outcomes,
                  sources, src_gen, src_boot, src_health, rejected, superseded, events>>
  BY DEF RecoverEpoch, RecoverRecord
<1>5. TypeOK'
  BY <1>2, <1>3, <1>4 DEF PInv, PTypeOK, TypeOK
<1>6. EngineOK'
  BY <1>4 DEF PInv, EngineOK, IndexesExact, ObsIndexExact, DecIndexExact, AttemptIndexExact,
              OutcomeLinked, SourceOrder, GenerationCoversLog
<1>7. off + 1 = 1
  BY <1>1, <1>2 DEF FileOK, EpochFirst
<1>8. coordinator' = Bytes'[1].epoch
  BY <1>1, <1>2, <1>7
<1>9. ReadSoFar(off)' /\ Link'
  BY <1>2, <1>4, OtherRecord
<1>10. RecoveryExact'
  BY <1>1, <1>8, <1>9 DEF RecoveryExact, ReadSoFar
<1> QED
  BY <1>5, <1>6, <1>9, <1>10

\* Any other record comes after it.
LEMMA EpochStays ==
  ASSUME PInv, RecoverRecord, NEW r, r = Bytes[off + 1],
         r.kind # "Epoch", coordinator' = coordinator
  PROVE  coordinator' = Bytes'[1].epoch
<1>1. /\ Bytes' = Bytes /\ FileOK(Bytes) /\ off + 1 \in 1..Len(Bytes)
      /\ off \in Nat /\ r.kind # "Torn" /\ phase = "recovering"
  BY TurnFacts
<1>2. off + 1 # 1
  BY <1>1 DEF FileOK, EpochFirst
<1>3. off > 0
  BY <1>1, <1>2
<1> QED
  BY <1>1, <1>3, ExactInside DEF PInv

\* A source descriptor only raises the generation of its source.
LEMMA DescriptorTurn ==
  ASSUME PInv, RecoverRecord, NEW r, r = Bytes[off + 1], RecoverDescriptor(r)
  PROVE  TypeOK' /\ EngineOK' /\ Link' /\ RecoveryExact'
<1> USE DEF obsLog, decLog
<1>1. off' = off + 1 /\ off \in Nat /\ r \in Record /\ phase' = "recovering"
  BY TurnFacts
<1>2. r.kind = "SourceDescriptor"
  BY DEF RecoverDescriptor
<1>3. r.source_descriptor.source_id \in SourceId /\ r.source_descriptor.generation \in Nat
  BY <1>1, <1>2, RecordFields DEF SourceDescriptor
<1>4. UNCHANGED <<cfg, obs, obs_by_id, dec, dec_by_id, idx_dec_attempt, outcomes,
                  src_boot, src_health, coordinator, rejected, superseded, events>>
  BY DEF RecoverDescriptor, RecoverRecord
<1>5. TypeOK
  BY DEF PInv, PTypeOK
<1>6. sources' \in [SourceId -> Nat \cup {Nil}]
  BY <1>3, <1>5 DEF RecoverDescriptor, TypeOK
<1>7. src_gen' \in [SourceId -> Nat] /\ \A s \in SourceId : src_gen'[s] >= src_gen[s]
  BY <1>3, <1>5 DEF RecoverDescriptor, TypeOK
<1>8. TypeOK'
  BY <1>4, <1>5, <1>6, <1>7 DEF TypeOK
<1>9. GenerationCoversLog'
  <2> SUFFICES ASSUME NEW i \in 1..Len(obs)
               PROVE  obs[i].source_generation <= src_gen'[obs[i].source_id]
    BY <1>4 DEF GenerationCoversLog
  <2>1. obs[i].source_id \in SourceId /\ obs[i].source_generation \in Nat
    BY <1>5, LoggedObservation
  <2>2. obs[i].source_generation <= src_gen[obs[i].source_id]
    BY DEF PInv, EngineOK, GenerationCoversLog
  <2>3. src_gen'[obs[i].source_id] \in Nat /\ src_gen[obs[i].source_id] \in Nat
    BY <1>5, <1>7, <2>1 DEF TypeOK
  <2> QED
    BY <1>7, <2>1, <2>2, <2>3
<1>10. EngineOK'
  BY <1>4, <1>9 DEF PInv, EngineOK, IndexesExact, ObsIndexExact, DecIndexExact,
                    AttemptIndexExact, OutcomeLinked, SourceOrder
<1>11. ReadSoFar(off)' /\ Link'
  BY <1>2, <1>4, OtherRecord
<1>12. coordinator' = Bytes'[1].epoch
  BY <1>2, <1>4, EpochStays
<1>13. RecoveryExact'
  BY <1>11, <1>12 DEF RecoveryExact, ReadSoFar
<1> QED
  BY <1>8, <1>10, <1>11, <1>13

\* An observation of the trace is new to the engine: were its id indexed, the
\* record indexed would be an earlier one of the file.
LEMMA ObservationIsNew ==
  ASSUME PInv, RecoverRecord, NEW r, r = Bytes[off + 1], RecoverObservation(r)
  PROVE  /\ r.kind = "Observation"
         /\ r.observation \in AdmittedObservation
         /\ r.observation.observation_id \in ObservationId
         /\ r.observation.source_id \in SourceId
         /\ r.observation.source_generation \in Nat
         /\ r.observation.worker_boot \in Boot \cup {Nil}
         /\ obs_by_id[r.observation.observation_id] = 0
         /\ obs' = Append(obs, r.observation)
         /\ obs_by_id' = [obs_by_id EXCEPT ![r.observation.observation_id] = Len(obs) + 1]
         /\ RecoveredGeneration(r.observation)
<1> DEFINE id == r.observation.observation_id
<1>1. /\ FileOK(Bytes) /\ off + 1 \in 1..Len(Bytes) /\ off \in Nat /\ r \in Record
      /\ phase = "recovering"
  BY TurnFacts
<1>2. r.kind = "Observation"
  BY DEF RecoverObservation
<1>3. r.observation \in AdmittedObservation
  BY <1>1, <1>2, RecordFields
<1>4. /\ id \in ObservationId /\ r.observation.source_id \in SourceId
      /\ r.observation.source_generation \in Nat /\ r.observation.worker_boot \in Boot \cup {Nil}
  BY <1>3 DEF AdmittedObservation, PlacementObservation
<1>5. TypeOK /\ ObsIndexExact
  BY DEF PInv, PTypeOK, EngineOK, IndexesExact
<1>6. obs_by_id[id] = 0
  <2> SUFFICES ASSUME obs_by_id[id] # 0 PROVE FALSE
    OBVIOUS
  <2>1. obs_by_id[id] \in 1..Len(obs)
    BY <1>4, <1>5 DEF TypeOK, ObsIndexExact
  <2>2. obs[obs_by_id[id]].observation_id = id
    BY <1>4, <1>5, <2>1 DEF ObsIndexExact
  <2>3. PICK p \in 1..off :
          Bytes[p].kind = "Observation" /\ Bytes[p].observation = obs[obs_by_id[id]]
    BY <1>1, <2>1 DEF PInv, Link
  <2>4. p \in 1..Len(Bytes) /\ p < off + 1
    BY <1>1
  <2> QED
    BY <1>1, <1>2, <2>2, <2>3, <2>4 DEF FileOK, NoneTwice
<1>7. id \notin Keys(obs_by_id)
  BY <1>6 DEF Keys
<1>8. /\ obs' = Append(obs, r.observation)
      /\ obs_by_id' = [obs_by_id EXCEPT ![id] = Len(obs) + 1]
      /\ RecoveredGeneration(r.observation)
  BY <1>7 DEF RecoverObservation
<1> QED
  BY <1>2, <1>3, <1>4, <1>6, <1>8

\* The generation of a source is raised to that of the observation.
LEMMA RecoveredGenerationStep ==
  ASSUME TypeOK, NEW o, RecoveredGeneration(o),
         o.source_id \in SourceId, o.source_generation \in Nat, o.worker_boot \in Boot \cup {Nil}
  PROVE  /\ src_gen' \in [SourceId -> Nat] /\ src_boot' \in [SourceId -> Boot \cup {Nil}]
         /\ \A t \in SourceId : src_gen'[t] >= src_gen[t]
         /\ src_gen'[o.source_id] >= o.source_generation
<1>1. src_gen \in [SourceId -> Nat] /\ src_boot \in [SourceId -> Boot \cup {Nil}]
  BY DEF TypeOK
<1>2. CASE o.source_generation > src_gen[o.source_id]
  BY <1>1, <1>2 DEF RecoveredGeneration
<1>3. CASE ~(o.source_generation > src_gen[o.source_id])
  BY <1>1, <1>3 DEF RecoveredGeneration
<1> QED
  BY <1>2, <1>3

\* A turn that reads an observation.
LEMMA ObservationTurn ==
  ASSUME PInv, RecoverRecord, NEW r, r = Bytes[off + 1], RecoverObservation(r)
  PROVE  TypeOK' /\ EngineOK' /\ Link' /\ RecoveryExact'
<1> USE DEF obsLog, decLog
<1>1. PICK o : o = r.observation
  OBVIOUS
<1> DEFINE n == Len(obs) + 1
           id == o.observation_id
           s == o.source_id
           g == o.source_generation
<1>2. /\ r.kind = "Observation" /\ o \in AdmittedObservation
      /\ id \in ObservationId /\ s \in SourceId /\ g \in Nat /\ o.worker_boot \in Boot \cup {Nil}
      /\ obs_by_id[id] = 0
  BY <1>1, ObservationIsNew
<1>3. /\ obs' = Append(obs, o)
      /\ obs_by_id' = [obs_by_id EXCEPT ![id] = n]
      /\ RecoveredGeneration(o)
  BY <1>1, ObservationIsNew
<1>4. /\ Bytes' = Bytes /\ FileOK(Bytes) /\ off + 1 \in 1..Len(Bytes) /\ off' = off + 1
      /\ off \in Nat /\ phase = "recovering" /\ phase' = "recovering"
  BY TurnFacts
<1>5. UNCHANGED <<cfg, dec, dec_by_id, idx_dec_attempt, outcomes,
                  sources, src_health, coordinator, rejected, superseded, events>>
  BY DEF RecoverObservation, RecoverRecord
<1>6. TypeOK
  BY DEF PInv, PTypeOK
<1>7. obs \in Seq(AdmittedObservation) /\ Len(obs) \in Nat
  BY <1>6 DEF TypeOK
<1>8. obs' \in Seq(AdmittedObservation)
  <2> HIDE DEF AdmittedObservation
  <2> QED
    BY <1>2, <1>3, <1>7
<1>9. Len(obs') = n /\ obs'[n] = o /\ \A i \in 1..Len(obs) : obs'[i] = obs[i]
  BY <1>3, <1>7
<1>10. \A i \in 1..Len(obs') : i \in 1..Len(obs) \/ i = n
  BY <1>7, <1>9
<1>11. /\ src_gen' \in [SourceId -> Nat] /\ src_boot' \in [SourceId -> Boot \cup {Nil}]
       /\ \A t \in SourceId : src_gen'[t] >= src_gen[t]
       /\ src_gen'[s] >= g
  BY <1>2, <1>3, <1>6, RecoveredGenerationStep
<1>12. TypeOK'
  <2>1. n \in Nat /\ obs_by_id \in [ObservationId -> Nat]
    BY <1>6, <1>7 DEF TypeOK
  <2>2. obs_by_id' \in [ObservationId -> Nat]
    BY <1>3, <2>1
  <2> QED
    BY <1>5, <1>6, <1>8, <1>11, <2>2 DEF TypeOK
<1>13. ObsIndexExact'
  <2> SUFFICES ASSUME NEW k \in ObservationId
               PROVE  /\ obs_by_id'[k] <= Len(obs')
                      /\ \A i \in 1..Len(obs') : obs_by_id'[k] = i <=> obs'[i].observation_id = k
    BY DEF ObsIndexExact
  <2>1. /\ obs_by_id[k] <= Len(obs) /\ obs_by_id[k] \in Nat
        /\ \A i \in 1..Len(obs) : obs_by_id[k] = i <=> obs[i].observation_id = k
    BY <1>6 DEF PInv, EngineOK, IndexesExact, ObsIndexExact, TypeOK
  <2>2. obs_by_id'[k] = IF k = id THEN n ELSE obs_by_id[k]
    BY <1>3, <1>6 DEF TypeOK
  <2>3. CASE k = id
    BY <1>2, <1>7, <1>9, <1>10, <2>1, <2>2, <2>3
  <2>4. CASE k # id
    BY <1>7, <1>9, <1>10, <2>1, <2>2, <2>4
  <2> QED
    BY <2>3, <2>4
<1>14. ASSUME NEW i \in 1..Len(obs)
       PROVE  /\ obs[i].source_generation \in Nat /\ obs[i].source_id \in SourceId
              /\ obs[i].source_generation <= src_gen'[obs[i].source_id]
              /\ \E p \in 1..off :
                   Bytes[p].kind = "Observation" /\ Bytes[p].observation = obs[i]
  <2>1. obs[i].source_id \in SourceId /\ obs[i].source_generation \in Nat
    BY <1>6, LoggedObservation
  <2>2. obs[i].source_generation <= src_gen[obs[i].source_id]
    BY DEF PInv, EngineOK, GenerationCoversLog
  <2>3. src_gen[obs[i].source_id] \in Nat /\ src_gen'[obs[i].source_id] \in Nat
    BY <1>6, <1>11, <2>1 DEF TypeOK
  <2>4. obs[i].source_generation <= src_gen'[obs[i].source_id]
    BY <1>11, <2>1, <2>2, <2>3
  <2> QED
    BY <1>4, <2>1, <2>4 DEF PInv, Link
<1>15. GenerationCoversLog'
  BY <1>2, <1>9, <1>10, <1>11, <1>14 DEF GenerationCoversLog
<1>16. SourceOrder'
  <2> SUFFICES ASSUME cfg.enforce_stale_source_generation,
                      NEW i \in 1..Len(obs'), NEW j \in 1..Len(obs'), i < j,
                      obs'[i].source_id = obs'[j].source_id
               PROVE  obs'[i].source_generation <= obs'[j].source_generation
    BY <1>5 DEF SourceOrder
  <2>1. i \in 1..Len(obs) /\ obs'[i] = obs[i]
    BY <1>7, <1>9, <1>10
  <2>2. CASE j \in 1..Len(obs)
    <3>1. obs'[j] = obs[j]
      BY <1>9, <2>2
    <3> QED
      BY <2>1, <2>2, <3>1 DEF PInv, EngineOK, SourceOrder
  <2>3. CASE j = n
    <3>1. PICK p \in 1..off : Bytes[p].kind = "Observation" /\ Bytes[p].observation = obs[i]
      BY <1>14, <2>1
    <3>2. p \in 1..Len(Bytes) /\ p < off + 1
      BY <1>4
    <3>3. obs[i].source_id = s /\ obs'[j] = o
      BY <1>9, <2>1, <2>3
    <3>4. obs[i].source_generation <= g
      BY <1>1, <1>2, <1>4, <3>1, <3>2, <3>3 DEF FileOK, InOrder
    <3> QED
      BY <2>1, <3>3, <3>4
  <2> QED
    BY <1>10, <2>2, <2>3
<1>17. EngineOK'
  BY <1>5, <1>13, <1>15, <1>16
     DEF PInv, EngineOK, IndexesExact, DecIndexExact, AttemptIndexExact, OutcomeLinked
<1>18. Link'
  <2>1. ASSUME NEW i \in 1..Len(obs')
        PROVE  \E p \in 1..(off + 1) :
                 Bytes[p].kind = "Observation" /\ Bytes[p].observation = obs'[i]
    <3>1. CASE i \in 1..Len(obs)
      <4>1. PICK p \in 1..off : Bytes[p].kind = "Observation" /\ Bytes[p].observation = obs[i]
        BY <1>14, <3>1
      <4>2. p \in 1..(off + 1)
        BY <1>4
      <4> QED
        BY <1>9, <3>1, <4>1, <4>2
    <3>2. CASE i = n
      <4>1. off + 1 \in 1..(off + 1)
        BY <1>4
      <4> QED
        BY <1>1, <1>2, <1>9, <3>2, <4>1
    <3> QED
      BY <1>10, <3>1, <3>2
  <2>2. \A i \in 1..Len(dec) :
          \E p \in 1..(off + 1) : Bytes[p].kind = "Decision" /\ Bytes[p].decision = dec[i]
    BY <1>4 DEF PInv, Link
  <2> QED
    BY <1>4, <1>5, <2>1, <2>2 DEF Link
<1>19. ReadSoFar(off)
  BY <1>4, ExactInside DEF PInv
<1>20. Lists(ObservationRecords', Bytes, off + 1, "Observation")
  <2>1. PICK log : log = ObservationRecords
    OBVIOUS
  <2>2. PICK longer : longer = ObservationRecords'
    OBVIOUS
  <2>3. Len(log) = Len(obs) /\ \A i \in 1..Len(obs) : log[i] = [kind |-> "Observation", observation |-> obs[i]]
    BY <1>7, <2>1 DEF ObservationRecords
  <2>4. Len(longer) = n /\ \A i \in 1..n : longer[i] = [kind |-> "Observation", observation |-> obs'[i]]
    BY <1>7, <1>9, <2>2 DEF ObservationRecords
  <2>5. r = [kind |-> "Observation", observation |-> o]
    BY <1>1, <1>2, TurnFacts, RecordShape
  <2>6. longer[Len(log) + 1] = Bytes[off + 1]
    BY <1>7, <1>9, <2>3, <2>4, <2>5
  <2>7. \A i \in 1..Len(log) : longer[i] = log[i]
    BY <1>7, <1>9, <2>3, <2>4
  <2>8. Lists(log, Bytes, off, "Observation")
    BY <1>19, <2>1 DEF ReadSoFar
  <2>9. Len(longer) = Len(log) + 1
    BY <2>3, <2>4
  <2>10. Lists(longer, Bytes, off + 1, "Observation")
    BY <1>2, <1>4, <2>6, <2>7, <2>8, <2>9, ListsAppend
  <2> QED
    BY <2>2, <2>10
<1>21. Lists(DecisionRecords, Bytes, off + 1, "Decision")
  BY <1>2, <1>4, <1>19, ListsSame DEF ReadSoFar
<1>22. Positions(Bytes, off + 1, "Outcome") = Positions(Bytes, off, "Outcome")
  BY <1>2, <1>4, PositionsSame
<1>23. coordinator' = Bytes'[1].epoch
  BY <1>2, <1>5, EpochStays
<1>24. RecoveryExact'
  BY <1>4, <1>5, <1>19, <1>20, <1>21, <1>22, <1>23
     DEF RecoveryExact, ReadSoFar, DecisionRecords, OutcomeRecord
<1> QED
  BY <1>12, <1>17, <1>18, <1>24

\* So is a decision, and so is its attempt.
LEMMA DecisionIsNew ==
  ASSUME PInv, RecoverRecord, NEW r, r = Bytes[off + 1], RecoverDecision(r)
  PROVE  /\ r.kind = "Decision"
         /\ r.decision \in AdmittedDecision
         /\ r.decision.decision_id \in DecisionId
         /\ r.decision.attempt_id \in AttemptId \cup {Nil}
         /\ dec_by_id[r.decision.decision_id] = 0
         /\ r.decision.attempt_id # Nil => idx_dec_attempt[r.decision.attempt_id] = 0
         /\ dec' = Append(dec, r.decision)
         /\ dec_by_id' = [dec_by_id EXCEPT ![r.decision.decision_id] = Len(dec) + 1]
         /\ IndexAttempt(r.decision, Len(dec) + 1)
<1> DEFINE id == r.decision.decision_id
           a == r.decision.attempt_id
<1>1. /\ FileOK(Bytes) /\ off + 1 \in 1..Len(Bytes) /\ off \in Nat /\ r \in Record
      /\ phase = "recovering"
  BY TurnFacts
<1>2. r.kind = "Decision"
  BY DEF RecoverDecision
<1>3. r.decision \in AdmittedDecision
  BY <1>1, <1>2, RecordFields
<1>4. id \in DecisionId /\ a \in AttemptId \cup {Nil}
  BY <1>3 DEF AdmittedDecision, PlacementDecision
<1>5. TypeOK /\ DecIndexExact /\ AttemptIndexExact
  BY DEF PInv, PTypeOK, EngineOK, IndexesExact
<1>6. dec_by_id[id] = 0
  <2> SUFFICES ASSUME dec_by_id[id] # 0 PROVE FALSE
    OBVIOUS
  <2>1. dec_by_id[id] \in 1..Len(dec)
    BY <1>4, <1>5 DEF TypeOK, DecIndexExact
  <2>2. dec[dec_by_id[id]].decision_id = id
    BY <1>4, <1>5, <2>1 DEF DecIndexExact
  <2>3. PICK p \in 1..off : Bytes[p].kind = "Decision" /\ Bytes[p].decision = dec[dec_by_id[id]]
    BY <1>1, <2>1 DEF PInv, Link
  <2>4. p \in 1..Len(Bytes) /\ p < off + 1
    BY <1>1
  <2> QED
    BY <1>1, <1>2, <2>2, <2>3, <2>4 DEF FileOK, NoneTwice
<1>7. ASSUME a # Nil PROVE idx_dec_attempt[a] = 0
  <2> SUFFICES ASSUME idx_dec_attempt[a] # 0 PROVE FALSE
    OBVIOUS
  <2>1. a \in AttemptId
    BY <1>4, <1>7
  <2>2. idx_dec_attempt[a] \in 1..Len(dec)
    BY <1>5, <2>1 DEF TypeOK, AttemptIndexExact
  <2>3. dec[idx_dec_attempt[a]].attempt_id = a
    BY <1>5, <2>1, <2>2 DEF AttemptIndexExact
  <2>4. PICK p \in 1..off :
          Bytes[p].kind = "Decision" /\ Bytes[p].decision = dec[idx_dec_attempt[a]]
    BY <1>1, <2>2 DEF PInv, Link
  <2>5. p \in 1..Len(Bytes) /\ p < off + 1
    BY <1>1
  <2> QED
    BY <1>1, <1>2, <1>7, <2>3, <2>4, <2>5 DEF FileOK, NoneTwice
<1>8. id \notin Keys(dec_by_id)
  BY <1>6 DEF Keys
<1>9. /\ dec' = Append(dec, r.decision)
      /\ dec_by_id' = [dec_by_id EXCEPT ![id] = Len(dec) + 1]
      /\ IndexAttempt(r.decision, Len(dec) + 1)
  BY <1>8 DEF RecoverDecision, RecoveredAttempt
<1> QED
  BY <1>2, <1>3, <1>4, <1>6, <1>7, <1>9

\* A turn that reads a decision.
LEMMA DecisionTurn ==
  ASSUME PInv, RecoverRecord, NEW r, r = Bytes[off + 1], RecoverDecision(r)
  PROVE  TypeOK' /\ EngineOK' /\ Link' /\ RecoveryExact'
<1> USE DEF obsLog, authority
<1>1. PICK d : d = r.decision
  OBVIOUS
<1> DEFINE n == Len(dec) + 1
           id == d.decision_id
           a == d.attempt_id
<1>2. /\ r.kind = "Decision" /\ d \in AdmittedDecision
      /\ id \in DecisionId /\ a \in AttemptId \cup {Nil}
      /\ dec_by_id[id] = 0
      /\ a # Nil => idx_dec_attempt[a] = 0
  BY <1>1, DecisionIsNew
<1>3. /\ dec' = Append(dec, d)
      /\ dec_by_id' = [dec_by_id EXCEPT ![id] = n]
      /\ IndexAttempt(d, n)
  BY <1>1, DecisionIsNew
<1>4. /\ Bytes' = Bytes /\ FileOK(Bytes) /\ off + 1 \in 1..Len(Bytes) /\ off' = off + 1
      /\ off \in Nat /\ phase = "recovering" /\ phase' = "recovering"
  BY TurnFacts
<1>5. UNCHANGED <<cfg, obs, obs_by_id, outcomes, sources, src_gen, src_boot, src_health,
                  coordinator, rejected, superseded, events>>
  BY DEF RecoverDecision, RecoverRecord
<1>6. TypeOK
  BY DEF PInv, PTypeOK
<1>7. /\ dec \in Seq(AdmittedDecision) /\ Len(dec) \in Nat
      /\ dec_by_id \in [DecisionId -> Nat] /\ idx_dec_attempt \in [AttemptId -> Nat]
  BY <1>6 DEF TypeOK
<1>8. dec' \in Seq(AdmittedDecision)
  <2> HIDE DEF AdmittedDecision
  <2> QED
    BY <1>2, <1>3, <1>7
<1>9. Len(dec') = n /\ dec'[n] = d /\ \A i \in 1..Len(dec) : dec'[i] = dec[i]
  BY <1>3, <1>7
<1>10. \A i \in 1..Len(dec') : i \in 1..Len(dec) \/ i = n
  BY <1>7, <1>9
<1>11. dec_by_id' \in [DecisionId -> Nat]
       /\ \A k \in DecisionId : dec_by_id'[k] = IF k = id THEN n ELSE dec_by_id[k]
  <2>1. n \in Nat
    BY <1>7
  <2> QED
    BY <1>3, <1>7, <2>1
<1>12. idx_dec_attempt' \in [AttemptId -> Nat]
       /\ \A k \in AttemptId : idx_dec_attempt'[k] = IF k = a THEN n ELSE idx_dec_attempt[k]
  BY <1>2, <1>3, <1>7, NilAssumption DEF IndexAttempt
<1>13. TypeOK'
  BY <1>5, <1>6, <1>8, <1>11, <1>12 DEF TypeOK
<1>14. DecIndexExact'
  <2> SUFFICES ASSUME NEW k \in DecisionId
               PROVE  /\ dec_by_id'[k] <= Len(dec')
                      /\ \A i \in 1..Len(dec') : dec_by_id'[k] = i <=> dec'[i].decision_id = k
    BY DEF DecIndexExact
  <2>1. /\ dec_by_id[k] <= Len(dec) /\ dec_by_id[k] \in Nat
        /\ \A i \in 1..Len(dec) : dec_by_id[k] = i <=> dec[i].decision_id = k
    BY <1>7 DEF PInv, EngineOK, IndexesExact, DecIndexExact
  <2>2. CASE k = id
    BY <1>2, <1>7, <1>9, <1>10, <1>11, <2>1, <2>2
  <2>3. CASE k # id
    BY <1>7, <1>9, <1>10, <1>11, <2>1, <2>3
  <2> QED
    BY <2>2, <2>3
<1>15. AttemptIndexExact'
  <2> SUFFICES ASSUME NEW k \in AttemptId
               PROVE  /\ idx_dec_attempt'[k] <= Len(dec')
                      /\ \A i \in 1..Len(dec') :
                           idx_dec_attempt'[k] = i <=> dec'[i].attempt_id = k
    BY DEF AttemptIndexExact
  <2>1. /\ idx_dec_attempt[k] <= Len(dec) /\ idx_dec_attempt[k] \in Nat
        /\ \A i \in 1..Len(dec) : idx_dec_attempt[k] = i <=> dec[i].attempt_id = k
    BY <1>7 DEF PInv, EngineOK, IndexesExact, AttemptIndexExact
  <2>2. idx_dec_attempt'[k] = IF k = a THEN n ELSE idx_dec_attempt[k]
    BY <1>12
  <2>3. CASE k = a
    <3>1. idx_dec_attempt[k] = 0
      BY <1>2, <2>3, NilAssumption
    <3> QED
      BY <1>7, <1>9, <1>10, <2>1, <2>2, <2>3, <3>1
  <2>4. CASE k # a
    BY <1>7, <1>9, <1>10, <2>1, <2>2, <2>4
  <2> QED
    BY <2>3, <2>4
<1>16. OutcomeLinked'
  <2> SUFFICES ASSUME NEW k \in DecisionId, outcomes[k] # Nil
               PROVE  /\ dec_by_id'[k] = dec_by_id[k]
                      /\ dec'[dec_by_id[k]] = dec[dec_by_id[k]]
    BY <1>5 DEF PInv, EngineOK, OutcomeLinked
  <2>1. dec_by_id[k] # 0
    BY DEF PInv, EngineOK, OutcomeLinked
  <2>2. dec_by_id[k] \in 1..Len(dec)
    BY <1>7, <2>1 DEF PInv, EngineOK, IndexesExact, DecIndexExact
  <2> QED
    BY <1>2, <1>9, <1>11, <2>1, <2>2
<1>17. EngineOK'
  BY <1>5, <1>14, <1>15, <1>16
     DEF PInv, EngineOK, IndexesExact, ObsIndexExact, SourceOrder, GenerationCoversLog
<1>18. Link'
  <2>1. ASSUME NEW i \in 1..Len(dec')
        PROVE  \E p \in 1..(off + 1) : Bytes[p].kind = "Decision" /\ Bytes[p].decision = dec'[i]
    <3>1. CASE i \in 1..Len(dec)
      <4>1. PICK p \in 1..off : Bytes[p].kind = "Decision" /\ Bytes[p].decision = dec[i]
        BY <1>4, <3>1 DEF PInv, Link
      <4>2. p \in 1..(off + 1)
        BY <1>4
      <4> QED
        BY <1>9, <3>1, <4>1, <4>2
    <3>2. CASE i = n
      <4>1. off + 1 \in 1..(off + 1)
        BY <1>4
      <4> QED
        BY <1>1, <1>2, <1>9, <3>2, <4>1
    <3> QED
      BY <1>10, <3>1, <3>2
  <2>2. \A i \in 1..Len(obs) :
          \E p \in 1..(off + 1) : Bytes[p].kind = "Observation" /\ Bytes[p].observation = obs[i]
    BY <1>4 DEF PInv, Link
  <2> QED
    BY <1>4, <1>5, <2>1, <2>2 DEF Link
<1>19. ReadSoFar(off)
  BY <1>4, ExactInside DEF PInv
<1>20. Lists(DecisionRecords', Bytes, off + 1, "Decision")
  <2>1. PICK log : log = DecisionRecords
    OBVIOUS
  <2>2. PICK longer : longer = DecisionRecords'
    OBVIOUS
  <2>3. Len(log) = Len(dec) /\ \A i \in 1..Len(dec) : log[i] = [kind |-> "Decision", decision |-> dec[i]]
    BY <1>7, <2>1 DEF DecisionRecords
  <2>4. Len(longer) = n /\ \A i \in 1..n : longer[i] = [kind |-> "Decision", decision |-> dec'[i]]
    BY <1>7, <1>9, <2>2 DEF DecisionRecords
  <2>5. r = [kind |-> "Decision", decision |-> d]
    BY <1>1, <1>2, TurnFacts, RecordShape
  <2>6. longer[Len(log) + 1] = Bytes[off + 1]
    BY <1>7, <1>9, <2>3, <2>4, <2>5
  <2>7. \A i \in 1..Len(log) : longer[i] = log[i]
    BY <1>7, <1>9, <2>3, <2>4
  <2>8. Lists(log, Bytes, off, "Decision")
    BY <1>19, <2>1 DEF ReadSoFar
  <2>9. Len(longer) = Len(log) + 1
    BY <2>3, <2>4
  <2>10. Lists(longer, Bytes, off + 1, "Decision")
    BY <1>2, <1>4, <2>6, <2>7, <2>8, <2>9, ListsAppend
  <2> QED
    BY <2>2, <2>10
<1>21. Lists(ObservationRecords, Bytes, off + 1, "Observation")
  BY <1>2, <1>4, <1>19, ListsSame DEF ReadSoFar
<1>22. Positions(Bytes, off + 1, "Outcome") = Positions(Bytes, off, "Outcome")
  BY <1>2, <1>4, PositionsSame
<1>23. coordinator' = Bytes'[1].epoch
  BY <1>2, <1>5, EpochStays
<1>24. RecoveryExact'
  BY <1>4, <1>5, <1>19, <1>20, <1>21, <1>22, <1>23
     DEF RecoveryExact, ReadSoFar, ObservationRecords, OutcomeRecord
<1> QED
  BY <1>13, <1>17, <1>18, <1>24

\* An outcome is never dropped: its decision, earlier in the file, is in the
\* engine, and has no outcome yet.
LEMMA OutcomeIsKept ==
  ASSUME PInv, RecoverRecord, NEW r, r = Bytes[off + 1], RecoverOutcome(r)
  PROVE  /\ r.kind = "Outcome"
         /\ r.outcome \in PlacementOutcome
         /\ r.outcome.disposition # "Unknown"
         /\ r.outcome.decision_id \in DecisionId
         /\ dec_by_id[r.outcome.decision_id] # 0
         /\ Concludes(r.outcome, dec[dec_by_id[r.outcome.decision_id]])
         /\ outcomes[r.outcome.decision_id] = Nil
         /\ outcomes' = [outcomes EXCEPT ![r.outcome.decision_id] = r.outcome]
<1> DEFINE k == r.outcome.decision_id
<1>1. /\ FileOK(Bytes) /\ off + 1 \in 1..Len(Bytes) /\ off \in Nat /\ r \in Record
      /\ phase = "recovering"
  BY TurnFacts
<1>2. r.kind = "Outcome"
  BY DEF RecoverOutcome
<1>3. r.outcome \in PlacementOutcome
  BY <1>1, <1>2, RecordFields
<1>4. ReadSoFar(off)
  BY <1>1, ExactInside DEF PInv
<1>5. TypeOK /\ DecIndexExact /\ OutcomeLinked
  BY DEF PInv, PTypeOK, EngineOK, IndexesExact
<1>6. r.outcome.disposition # "Unknown"
  BY <1>1, <1>2 DEF FileOK, OutcomesFollow
<1>7. PICK i \in 1..((off + 1) - 1) :
        Bytes[i].kind = "Decision" /\ Concludes(r.outcome, Bytes[i].decision)
  BY <1>1, <1>2 DEF FileOK, OutcomesFollow
<1>8. i \in Positions(Bytes, off, "Decision")
  BY <1>1, <1>7 DEF Positions
<1>9. PICK c \in 1..Len(dec) : dec[c] = Bytes[i].decision
  <2>1. PICK c : c = Cardinality(Positions(Bytes, i, "Decision"))
    OBVIOUS
  <2>2. c \in 1..Cardinality(Positions(Bytes, off, "Decision"))
    BY <1>1, <1>8, <2>1, RankInRange
  <2>3. Len(DecisionRecords) = Cardinality(Positions(Bytes, off, "Decision"))
    BY <1>4 DEF ReadSoFar, Lists
  <2>4. DecisionRecords[c] = Bytes[i]
    BY <1>4, <1>8, <2>1 DEF ReadSoFar, Lists
  <2>5. Len(DecisionRecords) = Len(dec)
    BY <1>5 DEF TypeOK, DecisionRecords
  <2>6. c \in 1..Len(dec)
    BY <2>2, <2>3, <2>5
  <2>7. DecisionRecords[c] = [kind |-> "Decision", decision |-> dec[c]]
    BY <2>6 DEF DecisionRecords
  <2> QED
    BY <2>4, <2>6, <2>7
<1>10. dec[c].decision_id = k /\ k \in DecisionId
  BY <1>5, <1>7, <1>9, LoggedDecision DEF Concludes
<1>11. dec_by_id[k] = c
  BY <1>5, <1>9, <1>10 DEF DecIndexExact
<1>12. dec_by_id[k] # 0
  BY <1>9, <1>11
<1>13. outcomes[k] = Nil
  <2> SUFFICES ASSUME outcomes[k] # Nil PROVE FALSE
    OBVIOUS
  <2>1. outcomes[k].decision_id = k
    BY <1>5, <1>10 DEF OutcomeLinked
  <2>2. OutcomeRecord(k) \in { Bytes[j] : j \in Positions(Bytes, off, "Outcome") }
    BY <1>4, <1>10 DEF ReadSoFar
  <2>3. PICK j \in Positions(Bytes, off, "Outcome") : Bytes[j] = OutcomeRecord(k)
    BY <2>2
  <2>4. Bytes[j].outcome = outcomes[k]
    BY <2>3 DEF OutcomeRecord
  <2>5. Bytes[j].kind = "Outcome" /\ j \in 1..off
    BY DEF Positions
  <2>6. j \in 1..Len(Bytes) /\ j < off + 1
    BY <1>1, <2>5
  <2> QED
    BY <1>1, <1>2, <2>1, <2>4, <2>5, <2>6 DEF FileOK, NoneTwice
<1>14. k \in Keys(dec_by_id)
  BY <1>5, <1>10, <1>12 DEF Keys, TypeOK
<1>15. outcomes' = [outcomes EXCEPT ![k] = r.outcome]
  BY <1>13, <1>14 DEF RecoverOutcome
<1> QED
  BY <1>2, <1>3, <1>6, <1>7, <1>9, <1>10, <1>11, <1>12, <1>13, <1>15

\* A turn that reads an outcome.
LEMMA OutcomeTurn ==
  ASSUME PInv, RecoverRecord, NEW r, r = Bytes[off + 1], RecoverOutcome(r)
  PROVE  TypeOK' /\ EngineOK' /\ Link' /\ RecoveryExact'
<1> USE DEF obsLog, decLog, authority
<1>1. PICK o : o = r.outcome
  OBVIOUS
<1> DEFINE k == o.decision_id
<1>2. /\ r.kind = "Outcome" /\ o \in PlacementOutcome /\ o.disposition # "Unknown"
      /\ k \in DecisionId /\ dec_by_id[k] # 0 /\ Concludes(o, dec[dec_by_id[k]])
      /\ outcomes[k] = Nil
      /\ outcomes' = [outcomes EXCEPT ![k] = o]
  BY <1>1, OutcomeIsKept
<1>3. /\ Bytes' = Bytes /\ off + 1 \in 1..Len(Bytes) /\ off' = off + 1
      /\ off \in Nat /\ phase = "recovering" /\ phase' = "recovering" /\ r \in Record
  BY TurnFacts
<1>4. UNCHANGED <<cfg, obs, obs_by_id, dec, dec_by_id, idx_dec_attempt, sources, src_gen,
                  src_boot, src_health, coordinator, rejected, superseded, events>>
  BY DEF RecoverOutcome, RecoverRecord
<1>5. TypeOK
  BY DEF PInv, PTypeOK
<1>6. outcomes \in [DecisionId -> PlacementOutcome \cup {Nil}]
  BY <1>5 DEF TypeOK
<1>7. outcomes' \in [DecisionId -> PlacementOutcome \cup {Nil}]
      /\ \A j \in DecisionId : outcomes'[j] = IF j = k THEN o ELSE outcomes[j]
  BY <1>2, <1>6
<1>8. TypeOK'
  BY <1>4, <1>5, <1>7 DEF TypeOK
<1>9. OutcomeLinked'
  BY <1>2, <1>4, <1>7 DEF PInv, EngineOK, OutcomeLinked, Concludes
<1>10. EngineOK'
  BY <1>4, <1>9 DEF PInv, EngineOK, IndexesExact, ObsIndexExact, DecIndexExact,
                    AttemptIndexExact, SourceOrder, GenerationCoversLog
<1>11. Link'
  <2>1. \A i \in 1..Len(obs) :
          \E p \in 1..(off + 1) : Bytes[p].kind = "Observation" /\ Bytes[p].observation = obs[i]
    BY <1>3 DEF PInv, Link
  <2>2. \A i \in 1..Len(dec) :
          \E p \in 1..(off + 1) : Bytes[p].kind = "Decision" /\ Bytes[p].decision = dec[i]
    BY <1>3 DEF PInv, Link
  <2> QED
    BY <1>3, <1>4, <2>1, <2>2 DEF Link
<1>12. ReadSoFar(off)
  BY <1>3, ExactInside DEF PInv
<1>13. Lists(ObservationRecords, Bytes, off + 1, "Observation")
  BY <1>2, <1>3, <1>12, ListsSame DEF ReadSoFar
<1>14. Lists(DecisionRecords, Bytes, off + 1, "Decision")
  BY <1>2, <1>3, <1>12, ListsSame DEF ReadSoFar
<1>15. Positions(Bytes, off + 1, "Outcome") = Positions(Bytes, off, "Outcome") \cup {off + 1}
  BY <1>2, <1>3, PositionsMore
<1>16. r = [kind |-> "Outcome", outcome |-> o]
  BY <1>1, <1>2, <1>3, RecordShape
<1>17. o # Nil
  BY <1>2, NilAssumption
<1>18. { [kind |-> "Outcome", outcome |-> outcomes'[j]] : j \in { j \in DecisionId : outcomes'[j] # Nil } }
       = { Bytes[i] : i \in Positions(Bytes, off + 1, "Outcome") }
  <2>1. { [kind |-> "Outcome", outcome |-> outcomes[j]] : j \in { j \in DecisionId : outcomes[j] # Nil } }
        = { Bytes[i] : i \in Positions(Bytes, off, "Outcome") }
    BY <1>12 DEF ReadSoFar, OutcomeRecord
  <2>2. { [kind |-> "Outcome", outcome |-> outcomes'[j]] : j \in { j \in DecisionId : outcomes'[j] # Nil } }
        = { [kind |-> "Outcome", outcome |-> outcomes[j]] : j \in { j \in DecisionId : outcomes[j] # Nil } }
          \cup {r}
    BY <1>2, <1>7, <1>16, <1>17
  <2>3. { Bytes[i] : i \in Positions(Bytes, off + 1, "Outcome") }
        = { Bytes[i] : i \in Positions(Bytes, off, "Outcome") } \cup {r}
    BY <1>15
  <2> QED
    BY <2>1, <2>2, <2>3
<1>19. coordinator' = Bytes'[1].epoch
  BY <1>2, <1>4, EpochStays
<1>20. RecoveryExact'
  BY <1>3, <1>4, <1>13, <1>14, <1>18, <1>19
     DEF RecoveryExact, ObservationRecords, DecisionRecords, OutcomeRecord
<1> QED
  BY <1>8, <1>10, <1>11, <1>20

\* Every turn of the loop keeps the invariant of the engine and of recovery.
LEMMA RecoverTurn ==
  ASSUME PInv, RecoverRecord
  PROVE  TypeOK' /\ EngineOK' /\ Link' /\ RecoveryExact'
<1>1. PICK r : r = Bytes[off + 1]
  OBVIOUS
<1>2. \/ RecoverEpoch(r) \/ RecoverDescriptor(r) \/ RecoverObservation(r)
      \/ RecoverDecision(r) \/ RecoverOutcome(r)
  BY <1>1 DEF RecoverRecord
<1>3. CASE RecoverEpoch(r)
  BY <1>1, <1>3, EpochTurn
<1>4. CASE RecoverDescriptor(r)
  BY <1>1, <1>4, DescriptorTurn
<1>5. CASE RecoverObservation(r)
  BY <1>1, <1>5, ObservationTurn
<1>6. CASE RecoverDecision(r)
  BY <1>1, <1>6, DecisionTurn
<1>7. CASE RecoverOutcome(r)
  BY <1>1, <1>7, OutcomeTurn
<1> QED
  BY <1>2, <1>3, <1>4, <1>5, <1>6, <1>7

(***************************************************************************)
(* The invariant.                                                          *)
(***************************************************************************)

\* A file stays well formed wherever it is put, while the configuration stays
\* what it is.
LEMMA FileStays ==
  ASSUME cfg' = cfg, NEW f, FileOK(f)
  PROVE  /\ image' = f => FileOK(image)'
         /\ trace' = f => FileOK(trace)'
         /\ tmp' = f => FileOK(tmp)'
<1> USE DEF FileOK, EpochFirst, NoneTwice, OutcomesFollow, InOrder, Concludes
<1>1. image' = f => FileOK(image)'
  OBVIOUS
<1>2. trace' = f => FileOK(trace)'
  OBVIOUS
<1>3. tmp' = f => FileOK(tmp)'
  OBVIOUS
<1> HIDE DEF FileOK
<1> QED
  BY <1>1, <1>2, <1>3

\* The three files, one by one.
LEMMA FilesStep ==
  ASSUME cfg' = cfg,
         persist_pc' # "idle" => FileOK(image') /\ Intact(image'),
         trace' # Absent => FileOK(trace'),
         tmp' # Absent => FileOK(tmp')
  PROVE  FilesOK'
<1>1. PICK f, g, h : f = image' /\ g = trace' /\ h = tmp'
  OBVIOUS
<1>2. persist_pc' # "idle" => FileOK(image)'
  <2>1. FileOK(f) => FileOK(image)'
    BY <1>1, FileStays
  <2> QED
    BY <1>1, <2>1
<1>3. trace' # Absent => FileOK(trace)'
  <2>1. FileOK(g) => FileOK(trace)'
    BY <1>1, FileStays
  <2> QED
    BY <1>1, <2>1
<1>4. tmp' # Absent => FileOK(tmp)'
  <2>1. FileOK(h) => FileOK(tmp)'
    BY <1>1, FileStays
  <2> QED
    BY <1>1, <2>1
<1>5. persist_pc' # "idle" => Intact(image)'
  BY DEF Intact, IsTorn
<1> QED
  BY <1>2, <1>3, <1>4, <1>5 DEF FilesOK

\* An empty engine is in order.
LEMMA EmptyEngine ==
  ASSUME cfg \in ObservatoryConfig,
         obs = <<>>, obs_by_id = [i \in ObservationId |-> 0],
         dec = <<>>, dec_by_id = [i \in DecisionId |-> 0],
         idx_dec_attempt = [a \in AttemptId |-> 0],
         outcomes = [i \in DecisionId |-> Nil],
         sources = [s \in SourceId |-> Nil],
         src_gen = [s \in SourceId |-> 0], src_boot = [s \in SourceId |-> Nil],
         src_health = [s \in SourceId |-> Unknown],
         coordinator = 0, rejected = 0, superseded = 0, events = 0
  PROVE  TypeOK /\ EngineOK /\ \A k \in DecisionId : outcomes[k] = Nil
<1>1. obs \in Seq(AdmittedObservation) /\ dec \in Seq(AdmittedDecision)
  OBVIOUS
<1>2. TypeOK
  BY <1>1, InputAssumption DEF TypeOK
<1>3. EngineOK
  BY DEF EngineOK, IndexesExact, ObsIndexExact, DecIndexExact, AttemptIndexExact,
         OutcomeLinked, SourceOrder, GenerationCoversLog
<1> QED
  BY <1>2, <1>3

\* Before the first process starts there is neither state nor file.
LEMMA InitPInv == PInit => PInv
<1> SUFFICES ASSUME PInit PROVE PInv
  OBVIOUS
<1>1. cfg \in ObservatoryConfig
  BY InputAssumption DEF PInit, Init
<1>2. TypeOK /\ EngineOK /\ \A k \in DecisionId : outcomes[k] = Nil
  BY <1>1, EmptyEngine DEF PInit, Init
<1>3. FilesOK /\ Link /\ RecoveryExact
  BY DEF PInit, FilesOK, Link, RecoveryExact
<1>4. DownIsFresh
  BY <1>2 DEF PInit, Init, DownIsFresh
<1>5. Bytes = <<>> /\ image \in Seq(Record)
  BY DEF PInit, Bytes
<1>6. off \in 0..Len(Bytes)
  BY <1>5 DEF PInit
<1>7. saved_gen \in [SourceId -> Nat] /\ short_write \in BOOLEAN
  BY DEF PInit
<1>8. PTypeOK
  BY <1>2, <1>5, <1>6, <1>7 DEF PInit, PTypeOK
<1> QED
  BY <1>2, <1>3, <1>4, <1>8 DEF PInv

\* A step that leaves the engine alone.
LEMMA EngineStays ==
  ASSUME TypeOK, EngineOK, UNCHANGED vars
  PROVE  TypeOK' /\ EngineOK' /\ cfg' = cfg
<1> USE DEF vars
<1>1. TypeOK'
  BY DEF TypeOK
<1>2. EngineOK'
  BY DEF EngineOK, IndexesExact, ObsIndexExact, DecIndexExact, AttemptIndexExact,
         OutcomeLinked, SourceOrder, GenerationCoversLog
<1> QED
  BY <1>1, <1>2

\* While a process is up, only the engine, the files and the running persist
\* are constrained.
LEMMA UpIsEnough ==
  ASSUME TypeOK', EngineOK', FilesOK', phase' = "up", off' = 0,
         persist_pc' \in {"idle", "copied", "written", "removed"},
         image' \in Seq(Record), trace' \in Seq(Record) \cup {Absent},
         tmp' \in Seq(Record) \cup {Absent}, short_write' \in BOOLEAN,
         saved_gen' \in [SourceId -> Nat]
  PROVE  PInv'
<1>1. Bytes' \in Seq(Record)
  BY DEF Bytes
<1>2. Len(Bytes') \in Nat
  BY <1>1
<1>3. off' \in 0..Len(Bytes')
  BY <1>2
<1>4. PTypeOK'
  BY <1>3 DEF PTypeOK
<1>5. DownIsFresh' /\ Link' /\ RecoveryExact'
  BY DEF DownIsFresh, Link, RecoveryExact
<1> QED
  BY <1>4, <1>5 DEF PInv

\* An engine operation.
LEMMA OperationPInv == ASSUME PInv, Operation PROVE PInv'
<1> USE DEF PInv, PTypeOK
<1>1. TypeOK' /\ EngineOK'
  BY NextTypeOK, NextEngineOK DEF Operation
<1>2. cfg' = cfg
  BY ObsChange DEF Operation
<1>3. FilesOK'
  BY <1>2, FilesStep DEF Operation, files, FilesOK
<1>4. phase' = "up" /\ off' = 0
  BY DEF Operation, DownIsFresh
<1>5. UNCHANGED <<persist_pc, image, trace, tmp, short_write, saved_gen>>
  BY DEF Operation, files, history
<1> QED
  BY <1>1, <1>3, <1>4, <1>5, UpIsEnough

\* The copy: what it encodes is well formed because the engine is.
LEMMA CopyPInv == ASSUME PInv, PersistCopy PROVE PInv'
<1> USE DEF PInv, PTypeOK
<1>1. TypeOK' /\ EngineOK' /\ cfg' = cfg
  BY EngineStays DEF PersistCopy
<1>2. PICK ss \in Traversals({ s \in SourceId : sources[s] # Nil }),
           ks \in Traversals({ k \in DecisionId : outcomes[k] # Nil }) :
        image' = Encode(ss, ks)
  BY DEF PersistCopy
<1>3. PICK f : f = Encode(ss, ks)
  OBVIOUS
<1>4. FileOK(f) /\ Intact(f)
  BY <1>3, EncodeOK
<1>5. image' = f /\ f \in Seq(Record)
  BY <1>2, <1>3, <1>4 DEF FileOK
<1>6. UNCHANGED <<trace, tmp, short_write>> /\ phase' = "up" /\ off' = 0
      /\ persist_pc' = "copied" /\ saved_gen' = src_gen
  BY DEF PersistCopy, files, DownIsFresh
<1>7. FilesOK'
  BY <1>1, <1>4, <1>5, <1>6, FilesStep DEF FilesOK
<1>8. saved_gen' \in [SourceId -> Nat]
  BY <1>6 DEF TypeOK
<1> QED
  BY <1>1, <1>5, <1>6, <1>7, <1>8, UpIsEnough

\* What a write of the image leaves behind, complete or not, is well formed.
LEMMA WrittenOK ==
  ASSUME FileOK(image), NEW f \in TornPrefixes \cup {image}
  PROVE  FileOK(f)
<1>1. CASE f = image
  BY <1>1
<1>2. CASE f \in TornPrefixes
  <2>1. PICK n \in 0..(Len(image) - 1) : f = SubSeq(image, 1, n) \o <<Torn>>
    BY <1>2 DEF TornPrefixes
  <2>2. PICK g : g = image
    OBVIOUS
  <2>3. FileOK(SubSeq(g, 1, n) \o <<Torn>>)
    BY <2>2, TornPrefixOK
  <2> QED
    BY <2>1, <2>2, <2>3
<1> QED
  BY <1>1, <1>2

\* The write of path.tmp.
LEMMA WritePInv == ASSUME PInv, PersistWrite PROVE PInv'
<1> USE DEF PInv, PTypeOK
<1>1. TypeOK' /\ EngineOK' /\ cfg' = cfg
  BY EngineStays DEF PersistWrite
<1>2. FileOK(image) /\ Intact(image) /\ phase = "up"
  BY DEF PersistWrite, FilesOK
<1>3. PICK f : f = tmp'
  OBVIOUS
<1>4. f \in TornPrefixes \cup {image}
  BY <1>3 DEF PersistWrite
<1>5. FileOK(f)
  BY <1>2, <1>4, WrittenOK
<1>6. tmp' \in Seq(Record)
  BY <1>3, <1>5 DEF FileOK
<1>7. UNCHANGED <<trace, image, saved_gen>> /\ phase' = "up" /\ off' = 0
      /\ persist_pc' = "written" /\ short_write' \in BOOLEAN
  BY <1>2 DEF PersistWrite, DownIsFresh
<1>8. FilesOK'
  BY <1>1, <1>2, <1>3, <1>5, <1>7, FilesStep DEF FilesOK
<1> QED
  BY <1>1, <1>6, <1>7, <1>8, UpIsEnough

\* The removal of path.
LEMMA RemovePInv == ASSUME PInv, PersistRemove PROVE PInv'
<1> USE DEF PInv, PTypeOK
<1>1. TypeOK' /\ EngineOK' /\ cfg' = cfg
  BY EngineStays DEF PersistRemove
<1>2. phase' = "up" /\ off' = 0 /\ persist_pc' = "removed" /\ trace' = Absent
  BY DEF PersistRemove, DownIsFresh
<1>3. UNCHANGED <<image, tmp, short_write, saved_gen>>
  BY DEF PersistRemove, history
<1>4. FileOK(image) /\ Intact(image)
  BY DEF PersistRemove, FilesOK
<1>5. FilesOK'
  BY <1>1, <1>2, <1>3, <1>4, FilesStep DEF FilesOK
<1> QED
  BY <1>1, <1>2, <1>3, <1>5, UpIsEnough

\* The renaming of path.tmp.
LEMMA RenamePInv == ASSUME PInv, PersistRename PROVE PInv'
<1> USE DEF PInv, PTypeOK
<1>1. TypeOK' /\ EngineOK' /\ cfg' = cfg
  BY EngineStays DEF PersistRename
<1>2. phase' = "up" /\ off' = 0 /\ persist_pc' = "idle" /\ trace' = tmp /\ tmp' = Absent
  BY DEF PersistRename, DownIsFresh
<1>3. UNCHANGED <<short_write, saved_gen>> /\ image' \in Seq(Record)
  BY DEF PersistRename
<1>4. FilesOK'
  BY <1>1, <1>2, FilesStep DEF FilesOK
<1> QED
  BY <1>1, <1>2, <1>3, <1>4, UpIsEnough

\* A crash leaves the files, and in path.tmp perhaps part of the image.
LEMMA CrashPInv == ASSUME PInv, Crash PROVE PInv'
<1> USE DEF PInv, PTypeOK
<1>1. cfg' = cfg /\ cfg' \in ObservatoryConfig
  BY DEF Crash, FreshEngine, TypeOK
<1>2. TypeOK' /\ EngineOK' /\ obs' = <<>> /\ dec' = <<>> /\ \A k \in DecisionId : outcomes'[k] = Nil
  <2>1. obs' \in Seq(AdmittedObservation) /\ dec' \in Seq(AdmittedDecision)
    BY DEF Crash, FreshEngine
  <2>2. TypeOK'
    BY <1>1, <2>1, InputAssumption DEF Crash, FreshEngine, TypeOK
  <2>3. EngineOK'
    BY DEF Crash, FreshEngine, EngineOK, IndexesExact, ObsIndexExact, DecIndexExact,
           AttemptIndexExact, OutcomeLinked, SourceOrder, GenerationCoversLog
  <2> QED
    BY <2>2, <2>3 DEF Crash, FreshEngine
<1>3. phase' = "down" /\ off' = 0 /\ persist_pc' = "idle" /\ trace' = trace
  BY DEF Crash
<1>4. image' \in Seq(Record) /\ saved_gen' \in [SourceId -> Nat] /\ short_write' = short_write
  BY DEF Crash, history
<1>5. tmp' # Absent => FileOK(tmp')
  <2>1. CASE tmp' = tmp
    BY <2>1 DEF FilesOK
  <2>2. CASE persist_pc = "copied" /\ tmp' \in TornPrefixes \cup {image}
    <3>1. PICK f : f = tmp'
      OBVIOUS
    <3>2. FileOK(image) /\ f \in TornPrefixes \cup {image}
      BY <2>2, <3>1 DEF FilesOK
    <3>3. FileOK(f)
      BY <3>2, WrittenOK
    <3> QED
      BY <3>1, <3>3
  <2> QED
    BY <2>1, <2>2 DEF Crash
<1>6. FilesOK'
  BY <1>1, <1>3, <1>5, FilesStep DEF FilesOK
<1>7. tmp' \in Seq(Record) \cup {Absent}
  BY <1>5 DEF FileOK
<1>8. Bytes' \in Seq(Record)
  BY <1>3 DEF Bytes
<1>9. off' \in 0..Len(Bytes')
  <2>1. Len(Bytes') \in Nat
    BY <1>8
  <2> QED
    BY <1>3, <2>1
<1>10. PTypeOK'
  BY <1>2, <1>3, <1>4, <1>7, <1>9
<1>11. DownIsFresh' /\ Link' /\ RecoveryExact'
  BY <1>2, <1>3 DEF DownIsFresh, Link, RecoveryExact
<1> QED
  BY <1>2, <1>6, <1>10, <1>11

\* recover starts with nothing read and nothing held.
LEMMA RestartPInv == ASSUME PInv, Restart PROVE PInv'
<1> USE DEF PInv, PTypeOK
<1>1. TypeOK' /\ EngineOK' /\ cfg' = cfg
  BY EngineStays DEF Restart
<1>2. /\ phase' = "recovering"
      /\ UNCHANGED <<obs, dec, outcomes, off, persist_pc, image, saved_gen, trace, tmp, short_write>>
  BY DEF Restart, vars, files
<1>3. off = 0 /\ obs = <<>> /\ dec = <<>> /\ \A k \in DecisionId : outcomes[k] = Nil
  BY DEF Restart, DownIsFresh
<1>4. FilesOK'
  BY <1>1, <1>2, FilesStep DEF FilesOK
<1>5. Bytes' = Bytes
  BY <1>2 DEF Bytes
<1>6. PTypeOK'
  BY <1>1, <1>2, <1>5 DEF Restart
<1>7. DownIsFresh' /\ Link'
  BY <1>2, <1>3 DEF DownIsFresh, Link
<1>8. ASSUME NEW kind PROVE Positions(Bytes, 0, kind) = {} /\ Cardinality(Positions(Bytes, 0, kind)) = 0
  <2>1. Positions(Bytes, 0, kind) = {}
    BY DEF Positions
  <2> QED
    BY <2>1, FS_EmptySet
<1>9. Len(ObservationRecords) = 0 /\ Len(DecisionRecords) = 0
  BY <1>3 DEF ObservationRecords, DecisionRecords
<1>10. ReadSoFar(0)
  <2>1. Lists(ObservationRecords, Bytes, 0, "Observation")
    BY <1>8, <1>9 DEF Lists
  <2>2. Lists(DecisionRecords, Bytes, 0, "Decision")
    BY <1>8, <1>9 DEF Lists
  <2>3. Positions(Bytes, 0, "Outcome") = {}
    BY <1>8
  <2> QED
    BY <1>3, <2>1, <2>2, <2>3 DEF ReadSoFar
<1>11. ObservationRecords' = ObservationRecords /\ DecisionRecords' = DecisionRecords
  BY <1>2 DEF ObservationRecords, DecisionRecords
<1>12. RecoveryExact'
  <2>1. off' = 0 /\ ~(off' > 0)
    BY <1>2, <1>3
  <2>2. Lists(ObservationRecords, Bytes, off, "Observation")'
    BY <1>5, <1>10, <1>11, <2>1 DEF ReadSoFar
  <2>3. Lists(DecisionRecords, Bytes, off, "Decision")'
    BY <1>5, <1>10, <1>11, <2>1 DEF ReadSoFar
  <2>4. ({ OutcomeRecord(k) : k \in { k \in DecisionId : outcomes[k] # Nil } }
         = { Bytes[i] : i \in Positions(Bytes, off, "Outcome") })'
    BY <1>2, <1>5, <1>10, <2>1 DEF ReadSoFar, OutcomeRecord
  <2> QED
    BY <2>1, <2>2, <2>3, <2>4 DEF RecoveryExact
<1> QED
  BY <1>1, <1>4, <1>6, <1>7, <1>12

\* A turn of recover's loop.
LEMMA RecoverPInv == ASSUME PInv, RecoverRecord PROVE PInv'
<1> USE DEF PInv, PTypeOK
<1>1. TypeOK' /\ EngineOK' /\ Link' /\ RecoveryExact'
  BY RecoverTurn
<1>2. PICK r : r = Bytes[off + 1]
  OBVIOUS
<1>3. /\ Bytes' = Bytes /\ off \in Nat /\ off + 1 \in 1..Len(Bytes) /\ off' = off + 1
      /\ phase' = "recovering" /\ cfg' = cfg
  BY <1>2, TurnFacts
<1>4. UNCHANGED <<persist_pc, image, saved_gen, trace, tmp, short_write>>
  BY DEF RecoverRecord, files, history
<1>5. FilesOK'
  BY <1>3, <1>4, FilesStep DEF FilesOK
<1>6. off' \in 0..Len(Bytes')
  BY <1>3
<1>7. persist_pc = "idle"
  BY DEF RecoverRecord
<1>8. PTypeOK'
  BY <1>1, <1>3, <1>4, <1>6, <1>7
<1>9. DownIsFresh'
  BY <1>3 DEF DownIsFresh
<1> QED
  BY <1>1, <1>5, <1>8, <1>9

\* The end of recover.
LEMMA DonePInv == ASSUME PInv, RecoverDone PROVE PInv'
<1> USE DEF PInv, PTypeOK
<1>1. TypeOK' /\ EngineOK' /\ cfg' = cfg
  BY EngineStays DEF RecoverDone
<1>2. phase' = "up" /\ off' = 0
  BY DEF RecoverDone
<1>3. UNCHANGED <<persist_pc, image, saved_gen, trace, tmp, short_write>>
  BY DEF RecoverDone, files, history
<1>4. FilesOK'
  BY <1>1, <1>3, FilesStep DEF FilesOK
<1> QED
  BY <1>1, <1>2, <1>3, <1>4, UpIsEnough

\* A step that changes nothing.
LEMMA StutterPInv == ASSUME PInv, UNCHANGED pvars PROVE PInv'
<1> USE DEF PInv, PTypeOK
<1>1. TypeOK' /\ EngineOK' /\ cfg' = cfg
  BY EngineStays DEF pvars
<1>2. /\ UNCHANGED <<obs, dec, outcomes, coordinator>>
      /\ UNCHANGED <<phase, off, persist_pc, image, trace, tmp, short_write, saved_gen>>
  BY DEF pvars, vars
<1>3. FilesOK'
  BY <1>1, <1>2, FilesStep DEF FilesOK
<1>4. Bytes' = Bytes
  BY <1>2 DEF Bytes
<1>5. PTypeOK'
  BY <1>1, <1>2, <1>4
<1>6. DownIsFresh' /\ Link'
  BY <1>2, <1>4 DEF DownIsFresh, Link
<1>7. RecoveryExact'
  BY <1>2, <1>4 DEF RecoveryExact, ObservationRecords, DecisionRecords, OutcomeRecord
<1> QED
  BY <1>1, <1>3, <1>5, <1>6, <1>7

\* The invariant holds in every reachable state.
LEMMA PInvariant == PSpec => []PInv
<1>1. PInv /\ [PNext]_pvars => PInv'
  <2> SUFFICES ASSUME PInv, [PNext]_pvars PROVE PInv'
    OBVIOUS
  <2> QED
    BY OperationPInv, CopyPInv, WritePInv, RemovePInv, RenamePInv, CrashPInv, RestartPInv,
       RecoverPInv, DonePInv, StutterPInv DEF PNext
<1> QED
  BY <1>1, InitPInv, PTL DEF PSpec

(***************************************************************************)
(* What the invariant says.                                                *)
(***************************************************************************)

\* The state of the engine, of a running persist and of the files stays well
\* typed over crashes and restarts; a file only ever holds records that the
\* checks admitted, and perhaps one that does not decode.
THEOREM PersistenceTypeCorrect == PSpec => []PTypeOK
<1>1. PInv => PTypeOK
  BY DEF PInv
<1> QED
  BY <1>1, PInvariant, PTL

\* recover restores exactly what the trace says, for any trace persist may
\* leave behind: no record is lost, doubled, reordered or invented, and no
\* outcome is dropped for want of its decision.
THEOREM RecoveryIsExact == PSpec => []RecoveryExact
<1>1. PInv => RecoveryExact
  BY DEF PInv
<1> QED
  BY <1>1, PInvariant, PTL

\* The indices are exact over crashes and restarts, inside recover too.
THEOREM IndexesSurvive == PSpec => []IndexesExact
<1>1. PInv => IndexesExact
  BY DEF PInv, EngineOK
<1> QED
  BY <1>1, PInvariant, PTL

\* So are the links of outcomes to their decisions.
THEOREM LinksSurvive == PSpec => []OutcomeLinked
<1>1. PInv => OutcomeLinked
  BY DEF PInv, EngineOK
<1> QED
  BY <1>1, PInvariant, PTL

\* Per source, generations never decrease along the log, also where part of
\* it was recovered and part of it was admitted since.
THEOREM OrderSurvives == PSpec => []SourceOrder
<1>1. PInv => SourceOrder
  BY DEF PInv, EngineOK
<1> QED
  BY <1>1, PInvariant, PTL

\* A restarted process never accepts as current a generation older than the
\* evidence it holds.
THEOREM GenerationsCover == PSpec => []GenerationCoversLog
<1>1. PInv => GenerationCoversLog
  BY DEF PInv, EngineOK
<1> QED
  BY <1>1, PInvariant, PTL

\* persist never destroys the last complete trace: TraceSomewhere alone is not
\* inductive, it needs the step of persist at which each copy is the last.
THEOREM TraceIsSomewhere == PSpec => []TraceSomewhere
<1>1. PInit => SafeCopy
  BY DEF PInit, SafeCopy
<1>2. PInv /\ SafeCopy /\ [PNext]_pvars => SafeCopy'
  <2> SUFFICES ASSUME PInv, SafeCopy, [PNext]_pvars PROVE SafeCopy'
    OBVIOUS
  <2> USE DEF files, history
  <2>1. /\ phase \in {"down", "recovering", "up"}
        /\ persist_pc # "idle" => phase = "up"
        /\ persist_pc # "idle" => Intact(image)
    BY DEF PInv, PTypeOK, FilesOK
  <2>2. UNCHANGED trace => (Intact(trace)' <=> Intact(trace))
    BY DEF Intact, IsTorn
  <2>3. UNCHANGED tmp => (Intact(tmp)' <=> Intact(tmp))
    BY DEF Intact, IsTorn
  <2>4. ASSUME UNCHANGED <<phase, persist_pc, trace, tmp, short_write, durable_gen>>
        PROVE  SafeCopy'
    BY <2>2, <2>3, <2>4 DEF SafeCopy
  <2>5. CASE Operation
    BY <2>4, <2>5 DEF Operation
  <2>6. CASE PersistCopy
    BY <2>2, <2>3, <2>6 DEF PersistCopy, SafeCopy
  <2>7. CASE PersistWrite
    <3>1. UNCHANGED <<trace, phase, durable_gen>> /\ persist_pc = "copied" /\ persist_pc' = "written"
      BY <2>7 DEF PersistWrite
    <3>2. ~short_write' => ~short_write /\ tmp' = image
      BY <2>7 DEF PersistWrite
    <3>3. ~short_write' => Intact(tmp)'
      BY <2>1, <3>1, <3>2 DEF Intact, IsTorn
    <3> QED
      BY <2>2, <3>1, <3>2, <3>3 DEF SafeCopy
  <2>8. CASE PersistRemove
    BY <2>3, <2>8 DEF PersistRemove, SafeCopy
  <2>9. CASE PersistRename
    <3>1. trace' = tmp /\ persist_pc = "removed" /\ persist_pc' = "idle" /\ short_write' = short_write
      BY <2>9 DEF PersistRename
    <3>2. Intact(tmp) => Intact(trace)'
      BY <3>1 DEF Intact, IsTorn
    <3> QED
      BY <3>1, <3>2 DEF SafeCopy
  <2>10. CASE Crash
    <3>1. UNCHANGED <<trace, short_write, durable_gen>> /\ phase # "down" /\ phase' = "down"
          /\ persist_pc' = "idle"
      BY <2>10 DEF Crash
    <3>2. tmp' = tmp \/ persist_pc = "copied"
      BY <2>10 DEF Crash
    <3> QED
      BY <2>2, <2>3, <3>1, <3>2 DEF SafeCopy
  <2>11. CASE Restart
    <3>1. UNCHANGED <<trace, tmp, short_write, persist_pc>> /\ phase = "down"
          /\ durable_gen' = IF Intact(trace) THEN durable_gen ELSE Absent
      BY <2>11 DEF Restart
    <3>2. persist_pc = "idle"
      BY <2>1, <3>1
    <3> QED
      BY <2>2, <2>3, <3>1, <3>2 DEF SafeCopy
  <2>12. CASE RecoverRecord
    BY <2>4, <2>12 DEF RecoverRecord
  <2>13. CASE RecoverDone
    <3>1. UNCHANGED <<trace, tmp, short_write, persist_pc, durable_gen>> /\ phase = "recovering"
      BY <2>13 DEF RecoverDone
    <3> QED
      BY <2>2, <2>3, <3>1 DEF SafeCopy
  <2>14. CASE UNCHANGED pvars
    BY <2>4, <2>14 DEF pvars
  <2> QED
    BY <2>5, <2>6, <2>7, <2>8, <2>9, <2>10, <2>11, <2>12, <2>13, <2>14 DEF PNext
<1>3. SafeCopy => TraceSomewhere
  BY DEF SafeCopy, TraceSomewhere
<1> QED
  BY <1>1, <1>2, <1>3, PInvariant, PTL DEF PSpec
================================================================================
