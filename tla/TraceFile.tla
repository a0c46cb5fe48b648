------------------------------- MODULE TraceFile -------------------------------
(***************************************************************************)
(* A trace file as Observatory::persist writes it, a record at a time in   *)
(* the envelope of encode_record, and as Observatory::recover reads it     *)
(* back with decode_record: whole, without its end, or with a token        *)
(* changed.                                                                *)
(*                                                                         *)
(* Bytes are tokens, as in Codec, and a body is any sequence of them: how  *)
(* a body is written and read is the subject of Codec.  The second try of  *)
(* recover, around the reader of a body, catches nothing in a body that    *)
(* was written.  Lengths count tokens.                                     *)
(***************************************************************************)
EXTENDS Layouts

CONSTANTS
  Bodies,        \* the bodies records may have
  Garbage,       \* what a changed token may hold
  kMaxBody,      \* the longest body that decode_record takes
  MaxRecords     \* bound on the records after the epoch

VARIABLES
  file,          \* the tokens of the trace file
  wrote,         \* history: the records that were written, in order
  ends,          \* history: where each record ended when it was written
  damage,        \* history: the first damaged token, or 0
  phase,         \* of the file: "write", "read", then "loaded" or "stopped"
  off,           \* how far recover has read
  loaded         \* what recover has read

tvars == <<file, wrote, ends, damage, phase, off, loaded>>

Token(w, n) == [width |-> w, n |-> n, covers |-> <<>>]
BodyToken == [width : Primitive, n : Nat, covers : {<<>>}]

ASSUME TraceAssumption ==
  /\ \A b \in Bodies : b \in Seq(BodyToken)
  /\ Garbage \subseteq Nat
  /\ kMaxBody \in Nat
  /\ MaxRecords \in Nat

\* SHA-256: two digests agree when they are of the same tokens.
Sha256(tokens) == [width |-> "sha256", n |-> 0, covers |-> tokens]

kRecordMagic == 1347240530   \* "PMBR"
kRecordVersion == 1
HeaderLen == 4

Header(kind, len) ==
  << Token("w4", kRecordMagic), Token("w4", kRecordVersion), Token("w1", kind), Token("w8", len) >>

encode_record(kind, body) ==
  LET prefix == Header(kind, Len(body)) \o body
  IN Append(prefix, Sha256(prefix))

\* What decode_record checks of the record behind the first at tokens.
\* Mutant: the checksum is not compared.
decode_record_unchecked(at) ==
  /\ at + HeaderLen <= Len(file)
  /\ file[at + 1].n = kRecordMagic
  /\ file[at + 2].n = kRecordVersion
  /\ file[at + 3].n \in 1..8
  /\ file[at + 4].n <= kMaxBody
  /\ at + HeaderLen + file[at + 4].n + 1 <= Len(file)

\* Mutant: a body of exactly the longest length is refused.
decode_record_short(at) ==
  /\ at + HeaderLen <= Len(file)
  /\ file[at + 1].n = kRecordMagic
  /\ file[at + 2].n = kRecordVersion
  /\ file[at + 3].n \in 1..8
  /\ file[at + 4].n < kMaxBody
  /\ at + HeaderLen + file[at + 4].n + 1 <= Len(file)
  /\ file[at + HeaderLen + file[at + 4].n + 1] =
       Sha256(SubSeq(file, at + 1, at + HeaderLen + file[at + 4].n))

\* recover, which asks how much was consumed, treats every error alike.
decode_record(at) ==
  /\ at + HeaderLen <= Len(file)
  /\ file[at + 1].n = kRecordMagic
  /\ file[at + 2].n = kRecordVersion
  /\ file[at + 3].n \in 1..8
  /\ file[at + 4].n <= kMaxBody
  /\ at + HeaderLen + file[at + 4].n + 1 <= Len(file)
  /\ file[at + HeaderLen + file[at + 4].n + 1] =
       Sha256(SubSeq(file, at + 1, at + HeaderLen + file[at + 4].n))

\* The order in which persist goes through the engine's state.
Order == [Epoch |-> 1, SourceDescriptor |-> 2, PlacementObservation |-> 3,
          PlacementDecision |-> 4, PlacementOutcome |-> 5]

EpochBody == << Token("w8", 0) >>

TInit ==
  /\ file = encode_record(RecordKind.Epoch, EpochBody)
  /\ wrote = << [struct |-> "Epoch", body |-> EpochBody] >>
  /\ ends = << Len(file) >>
  /\ damage = 0
  /\ phase = "write"
  /\ off = 0
  /\ loaded = <<>>

\* append, in persist
WriteRecord(s, body) ==
  /\ phase = "write"
  /\ Len(wrote) <= MaxRecords
  /\ s # "Epoch" /\ Order[s] >= Order[wrote[Len(wrote)].struct]
  /\ file' = file \o encode_record(RecordKind[s], body)
  /\ wrote' = Append(wrote, [struct |-> s, body |-> body])
  /\ ends' = Append(ends, Len(file'))
  /\ UNCHANGED <<damage, phase, off, loaded>>

\* The file is read, whole ...
Intact ==
  /\ phase = "write"
  /\ phase' = "read"
  /\ UNCHANGED <<file, wrote, ends, damage, off, loaded>>

\* ... or without its end ...
Cut(k) ==
  /\ phase = "write"
  /\ file' = SubSeq(file, 1, k - 1)
  /\ damage' = k
  /\ phase' = "read"
  /\ UNCHANGED <<wrote, ends, off, loaded>>

\* ... or with a token changed.
Alter(k, n) ==
  /\ phase = "write"
  /\ n # file[k].n
  /\ file' = [file EXCEPT ![k] = [width |-> file[k].width, n |-> n, covers |-> file[k].covers]]
  /\ damage' = k
  /\ phase' = "read"
  /\ UNCHANGED <<wrote, ends, off, loaded>>

\* One turn of the loop of recover: the record is read by its kind, ...
LoadRecord ==
  /\ phase = "read" /\ off < Len(file)
  /\ decode_record(off)
  /\ LET end == off + HeaderLen + file[off + 4].n
     IN /\ loaded' = Append(loaded, [kind |-> file[off + 3].n,
                                     body |-> SubSeq(file, off + HeaderLen + 1, end)])
        /\ off' = end + 1
  /\ UNCHANGED <<file, wrote, ends, damage, phase>>

\* ... and a refused record ends it.
StopLoading ==
  /\ phase = "read" /\ off < Len(file)
  /\ ~decode_record(off)
  /\ phase' = "stopped"
  /\ UNCHANGED <<file, wrote, ends, damage, off, loaded>>

\* while (off < bytes.size())
Finish ==
  /\ phase = "read" /\ off >= Len(file)
  /\ phase' = "loaded"
  /\ UNCHANGED <<file, wrote, ends, damage, off, loaded>>

TNext ==
  \/ \E s \in DOMAIN RecordKind, body \in Bodies : WriteRecord(s, body)
  \/ Intact
  \/ \E k \in 1..Len(file) : Cut(k)
  \/ \E k \in 1..Len(file), n \in Garbage : Alter(k, n)
  \/ LoadRecord \/ StopLoading \/ Finish

TSpec == TInit /\ [][TNext]_tvars

(***************************************************************************)
(* Properties.                                                             *)
(***************************************************************************)

\* What recover has loaded is what persist wrote, record for record from the
\* first: no damage makes it take a record that was not written, or one out
\* of its place.
LoadedWasWritten ==
  /\ Len(loaded) <= Len(wrote)
  /\ \A i \in 1..Len(loaded) :
       loaded[i] = [kind |-> RecordKind[wrote[i].struct], body |-> wrote[i].body]

\* A record before the damage, of a length that decode_record takes; persist
\* writes longer ones too.
Sound(i) ==
  /\ damage = 0 \/ ends[i] < damage
  /\ Len(wrote[i].body) <= kMaxBody

\* Recovery ends exactly at the first record that is not sound: it loses none
\* before it.  It stops short, rather than reach the end of the file, unless
\* the file was cut between two records.
DamageStops ==
  LET next == Len(loaded) + 1
      start == IF loaded = <<>> THEN 0 ELSE ends[Len(loaded)]
  IN phase \in {"loaded", "stopped"} =>
       /\ \A i \in 1..Len(loaded) : Sound(i)
       /\ next <= Len(wrote) => ~Sound(next)
       /\ phase = "loaded" <=> (next > Len(wrote) \/ (damage = start + 1 /\ Len(file) = start))
================================================================================
