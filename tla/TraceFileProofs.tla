---------------------------- MODULE TraceFileProofs ----------------------------
(***************************************************************************)
(* What recover takes from a trace file that persist wrote and that may    *)
(* since have been cut or changed in one place: for any number of records, *)
(* with any bodies, and any longest body that decode_record takes.         *)
(***************************************************************************)
EXTENDS TraceFile, SequenceTheorems, TLAPS

(***************************************************************************)
(* The tokens of one record.                                               *)
(***************************************************************************)

FileToken == [width : Primitive \cup {"sha256"}, n : Nat, covers : Seq(BodyToken)]

Prefix(kind, body) == Header(kind, Len(body)) \o body

\* A sequence with one more element.
LEMMA Appended ==
  ASSUME NEW S, NEW s \in Seq(S), NEW x \in S
  PROVE  /\ Append(s, x) \in Seq(S) /\ Len(s) \in Nat /\ Len(Append(s, x)) = Len(s) + 1
         /\ Append(s, x)[Len(s) + 1] = x
         /\ \A i \in 1..Len(s) : Append(s, x)[i] = s[i]
         /\ \A i \in 1..Len(Append(s, x)) : i \in 1..Len(s) \/ i = Len(s) + 1
OBVIOUS

\* A sequence behind another.
LEMMA Concatenated ==
  ASSUME NEW S, NEW s \in Seq(S), NEW t \in Seq(S)
  PROVE  /\ s \o t \in Seq(S) /\ Len(s) \in Nat /\ Len(t) \in Nat
         /\ Len(s \o t) = Len(s) + Len(t)
         /\ \A i \in 1..Len(s) : (s \o t)[i] = s[i]
         /\ \A i \in 1..Len(t) : (s \o t)[Len(s) + i] = t[i]
OBVIOUS

\* A position behind another, counted from there.
LEMMA Counted ==
  ASSUME NEW a \in Nat, NEW k \in Nat, NEW x \in (a + 1)..(a + k)
  PROVE  x - a \in 1..k /\ a + (x - a) = x
OBVIOUS

\* A position behind a range and not right behind it.
LEMMA FurtherBehind ==
  ASSUME NEW a \in Nat, NEW k \in Nat, NEW x \in Nat,
         a < x, x \notin (a + 1)..(a + k), a + k + 1 # x
  PROVE  a + k + 1 < x
OBVIOUS

\* The end of a record, counted from its start.
LEMMA Grouped ==
  ASSUME NEW a \in Nat, NEW m \in Nat
  PROVE  a + 4 + m + 1 = a + (4 + m + 1)
OBVIOUS

\* Numbers that are as far before the same one.
LEMMA SameStart ==
  ASSUME NEW a \in Nat, NEW b \in Nat, NEW l \in Nat, a + (4 + l) + 1 = b + 4 + l + 1
  PROVE  a = b
OBVIOUS

\* The elements between two places of a sequence.
LEMMA Between ==
  ASSUME NEW S, NEW s \in Seq(S), NEW m \in Nat, NEW k \in Nat, m + k <= Len(s)
  PROVE  /\ SubSeq(s, m + 1, m + k) \in Seq(S) /\ Len(SubSeq(s, m + 1, m + k)) = k
         /\ \A i \in 1..k : SubSeq(s, m + 1, m + k)[i] = s[m + i]
<1>1. /\ Len(s) \in Nat /\ m + 1 \in Int /\ m + k \in Int
      /\ \A i \in (m + 1)..(m + k) : s[i] \in S
  OBVIOUS
<1>2. /\ SubSeq(s, m + 1, m + k) \in Seq(S)
      /\ Len(SubSeq(s, m + 1, m + k)) = IF m + 1 <= m + k THEN m + k - (m + 1) + 1 ELSE 0
      /\ \A i \in 1..(m + k - (m + 1) + 1) :
           SubSeq(s, m + 1, m + k)[i] = s[m + 1 + i - 1]
  BY <1>1, SubSeqProperties
<1>3. m + k - (m + 1) + 1 = k /\ \A i \in 1..k : m + 1 + i - 1 = m + i
  OBVIOUS
<1>4. Len(SubSeq(s, m + 1, m + k)) = k
  BY <1>2, <1>3
<1> QED BY <1>2, <1>3, <1>4

\* Tokens of a body and digests are tokens of a file.
LEMMA TokenTypes ==
  /\ \A w \in Primitive, n \in Nat : Token(w, n) \in BodyToken /\ Token(w, n).n = n
  /\ BodyToken \subseteq FileToken
  /\ \A t \in BodyToken : t.width # "sha256"
  /\ \A p \in Seq(BodyToken) :
       Sha256(p) \in FileToken /\ Sha256(p).width = "sha256" /\ Sha256(p).n = 0
<1>1. <<>> \in Seq(BodyToken)
  OBVIOUS
<1> QED BY <1>1 DEF Token, BodyToken, FileToken, Sha256, Primitive

\* The header, the body and then the checksum of both.
LEMMA PrefixShape ==
  ASSUME NEW kind \in Nat, NEW b \in Seq(BodyToken)
  PROVE  /\ Prefix(kind, b) \in Seq(BodyToken)
         /\ Len(Prefix(kind, b)) = HeaderLen + Len(b)
         /\ Prefix(kind, b)[1].n = kRecordMagic /\ Prefix(kind, b)[2].n = kRecordVersion
         /\ Prefix(kind, b)[3].n = kind /\ Prefix(kind, b)[4].n = Len(b)
         /\ \A i \in 1..Len(b) : Prefix(kind, b)[HeaderLen + i] = b[i]
<1> DEFINE h == Header(kind, Len(b))
           p == Prefix(kind, b)
<1>1. /\ Token("w4", kRecordMagic) \in BodyToken /\ Token("w4", kRecordMagic).n = kRecordMagic
      /\ Token("w4", kRecordVersion) \in BodyToken /\ Token("w4", kRecordVersion).n = kRecordVersion
      /\ Token("w1", kind) \in BodyToken /\ Token("w1", kind).n = kind
      /\ Token("w8", Len(b)) \in BodyToken /\ Token("w8", Len(b)).n = Len(b)
  BY TokenTypes DEF Primitive, kRecordMagic, kRecordVersion
<1>2. /\ h \in Seq(BodyToken) /\ Len(h) = 4
      /\ h[1].n = kRecordMagic /\ h[2].n = kRecordVersion /\ h[3].n = kind /\ h[4].n = Len(b)
  BY <1>1 DEF Header
<1>3. p = h \o b
  BY DEF Prefix
<1> HIDE DEF h, p
<1>4. /\ p \in Seq(BodyToken) /\ Len(p) = 4 + Len(b) /\ \A i \in 1..4 : p[i] = h[i]
      /\ \A i \in 1..Len(b) : p[4 + i] = b[i]
  <2>1. h \in Seq(BodyToken)
    BY <1>2
  <2>2. /\ h \o b \in Seq(BodyToken) /\ Len(h \o b) = Len(h) + Len(b)
        /\ \A i \in 1..Len(h) : (h \o b)[i] = h[i]
        /\ \A i \in 1..Len(b) : (h \o b)[Len(h) + i] = b[i]
    BY <2>1, Concatenated
  <2> QED BY <1>2, <1>3, <2>2
<1>5. p[1] = h[1] /\ p[2] = h[2] /\ p[3] = h[3] /\ p[4] = h[4]
  BY <1>4
<1>6. /\ p \in Seq(BodyToken) /\ Len(p) = HeaderLen + Len(b)
      /\ p[1].n = kRecordMagic /\ p[2].n = kRecordVersion /\ p[3].n = kind /\ p[4].n = Len(b)
      /\ \A i \in 1..Len(b) : p[HeaderLen + i] = b[i]
  BY <1>2, <1>4, <1>5 DEF HeaderLen
<1> QED BY <1>6 DEF p

\* encode_record: the prefix, and the digest of it.
LEMMA RecordShape ==
  ASSUME NEW kind \in Nat, NEW b \in Seq(BodyToken)
  PROVE  /\ encode_record(kind, b) \in Seq(FileToken)
         /\ Len(encode_record(kind, b)) = HeaderLen + Len(b) + 1
         /\ \A i \in 1..(HeaderLen + Len(b)) :
              /\ encode_record(kind, b)[i] = Prefix(kind, b)[i]
              /\ encode_record(kind, b)[i].width # "sha256"
         /\ encode_record(kind, b)[HeaderLen + Len(b) + 1] = Sha256(Prefix(kind, b))
<1> DEFINE p == Prefix(kind, b)
           r == encode_record(kind, b)
<1>1. Len(b) \in Nat /\ p \in Seq(BodyToken) /\ Len(p) = HeaderLen + Len(b)
  <2>1. Len(b) \in Nat
    OBVIOUS
  <2> QED BY <2>1, PrefixShape, Zenon
<1>2. r = Append(p, Sha256(p))
  BY DEF encode_record, Prefix
<1> HIDE DEF p, r
<1>3. Sha256(p) \in FileToken /\ \A i \in 1..Len(p) : p[i] \in BodyToken
  BY <1>1, TokenTypes
<1>4. p \in Seq(FileToken)
  BY <1>1, <1>3, TokenTypes
<1>5. /\ r \in Seq(FileToken) /\ Len(r) = Len(p) + 1 /\ r[Len(p) + 1] = Sha256(p)
      /\ \A i \in 1..Len(p) : r[i] = p[i]
  BY <1>2, <1>3, <1>4, Appended
<1>6. /\ r \in Seq(FileToken) /\ Len(r) = HeaderLen + Len(b) + 1
      /\ \A i \in 1..(HeaderLen + Len(b)) : r[i] = p[i] /\ r[i].width # "sha256"
      /\ r[HeaderLen + Len(b) + 1] = Sha256(p)
  BY <1>1, <1>3, <1>5, TokenTypes
<1> QED BY <1>6 DEF p, r

(***************************************************************************)
(* The inductive invariant.                                                *)
(***************************************************************************)

RecordType == [struct : DOMAIN RecordKind, body : Seq(BodyToken)]

TypeOK ==
  /\ file \in Seq(FileToken)
  /\ wrote \in Seq(RecordType)
  /\ ends \in Seq(Nat)
  /\ damage \in Nat
  /\ phase \in {"write", "read", "loaded", "stopped"}
  /\ off \in Nat
  /\ loaded \in Seq([kind : Nat, body : Seq(BodyToken)])

\* Where a record starts, and its tokens as persist wrote them.
Start(i) == IF i = 1 THEN 0 ELSE ends[i - 1]
Written(i) == encode_record(RecordKind[wrote[i].struct], wrote[i].body)
Total == ends[Len(ends)]

\* The records lie one behind the other, and there is nothing else.
Laid ==
  /\ Len(ends) = Len(wrote) /\ Len(wrote) >= 1
  /\ \A i \in 1..Len(wrote) : ends[i] = Start(i) + HeaderLen + Len(wrote[i].body) + 1
  /\ \A i, j \in 1..Len(wrote) : i < j => ends[i] <= Start(j)
  /\ \A k \in 1..Total : \E i \in 1..Len(wrote) : Start(i) < k /\ k <= ends[i]

\* The file holds them, but for the damage.
Stands(i, j) ==
  IF Start(i) + j = damage
    THEN /\ file[Start(i) + j].width = Written(i)[j].width
         /\ file[Start(i) + j].n # Written(i)[j].n
    ELSE file[Start(i) + j] = Written(i)[j]
Contents ==
  \A i \in 1..Len(wrote) : \A j \in 1..(HeaderLen + Len(wrote[i].body) + 1) :
    Start(i) + j <= Len(file) => Stands(i, j)

Damaged ==
  /\ phase = "write" => damage = 0 /\ loaded = <<>>
  /\ damage = 0 => Len(file) = Total
  /\ damage # 0 => damage \in 1..Total /\ (Len(file) = damage - 1 \/ Len(file) = Total)

\* Recovery is behind the last record it has loaded.
Reached ==
  /\ Len(loaded) <= Len(wrote)
  /\ off = Start(Len(loaded) + 1)
  /\ \A i \in 1..Len(loaded) :
       /\ loaded[i] = [kind |-> RecordKind[wrote[i].struct], body |-> wrote[i].body]
       /\ Sound(i)

IInv == TypeOK /\ Laid /\ Contents /\ Damaged /\ Reached /\ DamageStops

\* A step that touches neither the file nor what is known of it.
LEMMA FileKept ==
  ASSUME UNCHANGED <<file, wrote, ends, damage>>, Laid, Contents
  PROVE  Laid' /\ Contents'
<1>1. Total' = Total /\ \A i : Start(i)' = Start(i)
  BY DEF Total, Start
<1>2. \A i : Written(i)' = Written(i)
  BY DEF Written
<1>3. \A i, j : Stands(i, j)' <=> Stands(i, j)
  BY <1>1, <1>2 DEF Stands
<1>4. Laid'
  BY <1>1 DEF Laid
<1>5. Contents'
  BY <1>1, <1>3 DEF Contents
<1> QED BY <1>4, <1>5

\* The kinds of the records that persist writes are ones that decode_record takes.
LEMMA KindType ==
  \A s \in DOMAIN RecordKind : RecordKind[s] \in Nat /\ RecordKind[s] \in 1..8
BY DEF RecordKind

\* What was written has a kind and a body.
LEMMA WrittenTypes ==
  ASSUME TypeOK, NEW i \in 1..Len(wrote)
  PROVE  /\ RecordKind[wrote[i].struct] \in Nat /\ RecordKind[wrote[i].struct] \in 1..8
         /\ wrote[i].body \in Seq(BodyToken) /\ Len(wrote[i].body) \in Nat
<1>1. wrote[i] \in RecordType
  BY DEF TypeOK
<1>2. wrote[i].struct \in DOMAIN RecordKind /\ wrote[i].body \in Seq(BodyToken)
  BY <1>1 DEF RecordType
<1>3. Len(wrote[i].body) \in Nat
  BY <1>2
<1> QED BY <1>2, <1>3, KindType

\* Where the records are, as numbers.
LEMMA Positions ==
  ASSUME TypeOK, Laid
  PROVE  /\ Len(wrote) \in Nat \ {0} /\ Len(ends) = Len(wrote) /\ Total \in Nat
         /\ \A i \in 1..Len(wrote) :
              /\ ends[i] \in Nat /\ Start(i) \in Nat /\ Len(wrote[i].body) \in Nat
              /\ ends[i] = Start(i) + HeaderLen + Len(wrote[i].body) + 1
              /\ Start(i) < ends[i] /\ ends[i] <= Total
         /\ Start(Len(wrote) + 1) = Total
<1>1. Len(wrote) \in Nat \ {0} /\ Len(ends) = Len(wrote)
  BY DEF TypeOK, Laid
<1>2. \A i \in 1..Len(wrote) : ends[i] \in Nat
  BY <1>1 DEF TypeOK
<1>3. \A i \in 1..Len(wrote) : Start(i) \in Nat
  BY <1>1, <1>2 DEF Start
<1>4. \A i \in 1..Len(wrote) : Len(wrote[i].body) \in Nat
  BY WrittenTypes
<1>5. \A i \in 1..Len(wrote) :
        /\ ends[i] = Start(i) + HeaderLen + Len(wrote[i].body) + 1 /\ Start(i) < ends[i]
  BY <1>2, <1>3, <1>4 DEF Laid, HeaderLen
<1>6. Len(wrote) \in 1..Len(wrote) /\ Total = ends[Len(wrote)]
  BY <1>1 DEF Total
<1>7. ASSUME NEW i \in 1..Len(wrote) PROVE ends[i] <= Total
  <2>1. CASE i = Len(wrote)
    BY <1>2, <1>6, <2>1
  <2>2. CASE i < Len(wrote)
    <3>1. ends[i] <= Start(Len(wrote))
      BY <1>1, <1>6, <2>2 DEF Laid
    <3> QED BY <1>2, <1>3, <1>5, <1>6, <3>1
  <2> QED BY <1>1, <2>1, <2>2
<1>8. Start(Len(wrote) + 1) = Total
  BY <1>1, <1>6 DEF Start
<1> QED BY <1>1, <1>2, <1>3, <1>4, <1>5, <1>6, <1>7, <1>8

\* The damage is behind what has been loaded.
LEMMA Behind ==
  ASSUME TypeOK, Laid, Damaged, Reached
  PROVE  damage = 0 \/ off < damage
<1>1. Len(loaded) \in Nat /\ damage \in Nat
  BY DEF TypeOK
<1>2. CASE Len(loaded) = 0
  BY <1>1, <1>2 DEF Reached, Start
<1>3. CASE Len(loaded) # 0
  <2>1. Len(loaded) \in 1..Len(loaded) /\ off = ends[Len(loaded)]
    BY <1>1, <1>3 DEF Reached, Start
  <2> QED BY <2>1 DEF Reached, Sound
<1> QED BY <1>2, <1>3

\* While there is more of the file, there is a record that it is of.
LEMMA MoreToRead ==
  ASSUME TypeOK, Laid, Damaged, Reached, off < Len(file)
  PROVE  /\ Len(loaded) + 1 \in 1..Len(wrote) /\ Len(file) \in Nat /\ Len(file) <= Total
         /\ off = Start(Len(loaded) + 1)
<1>1. /\ Len(loaded) \in Nat /\ Len(file) \in Nat /\ off \in Nat
      /\ off = Start(Len(loaded) + 1) /\ Len(loaded) <= Len(wrote)
  BY DEF TypeOK, Reached
<1>2. Len(wrote) \in Nat /\ Total \in Nat /\ Start(Len(wrote) + 1) = Total
  BY Positions
<1>3. Len(file) <= Total
  BY <1>1, <1>2 DEF Damaged
<1>4. Len(loaded) # Len(wrote)
  BY <1>1, <1>2, <1>3
<1> QED BY <1>1, <1>2, <1>3, <1>4

\* The file of a new trace is its epoch record.
LEMMA InitInv == TInit => IInv
<1> SUFFICES ASSUME TInit PROVE IInv
  OBVIOUS
<1> DEFINE r == encode_record(RecordKind.Epoch, EpochBody)
<1>1. RecordKind.Epoch \in Nat /\ "Epoch" \in DOMAIN RecordKind
  BY DEF RecordKind
<1>2. EpochBody \in Seq(BodyToken) /\ Len(EpochBody) = 1
  <2>1. Token("w8", 0) \in BodyToken
    BY TokenTypes DEF Primitive
  <2> QED BY <2>1 DEF EpochBody
<1>3. r \in Seq(FileToken) /\ Len(r) = HeaderLen + Len(EpochBody) + 1
  BY <1>1, <1>2, RecordShape
<1>4. Len(r) = 6
  BY <1>2, <1>3 DEF HeaderLen
<1> HIDE DEF r
<1>5. /\ file = r /\ wrote = << [struct |-> "Epoch", body |-> EpochBody] >> /\ ends = << 6 >>
      /\ damage = 0 /\ phase = "write" /\ off = 0 /\ loaded = <<>>
  BY <1>4 DEF TInit, r
<1>6. [struct |-> "Epoch", body |-> EpochBody] \in RecordType
  BY <1>1, <1>2 DEF RecordType
<1>7. TypeOK
  BY <1>3, <1>5, <1>6 DEF TypeOK
<1>8. /\ Len(wrote) = 1 /\ wrote[1].struct = "Epoch" /\ wrote[1].body = EpochBody
      /\ Len(ends) = 1 /\ ends[1] = 6 /\ Start(1) = 0 /\ Total = 6 /\ Len(loaded) = 0
  BY <1>5 DEF Start, Total
<1>9. \A i \in 1..Len(wrote) : i = 1
  BY <1>8
<1>10. Laid
  <2>1. \A i \in 1..Len(wrote) : ends[i] = Start(i) + HeaderLen + Len(wrote[i].body) + 1
    <3>1. ends[1] = Start(1) + HeaderLen + Len(wrote[1].body) + 1
      <4>1. Len(wrote[1].body) = 1 /\ ends[1] = 6 /\ Start(1) = 0
        BY <1>2, <1>8
      <4> QED BY <4>1 DEF HeaderLen
    <3> QED BY <1>9, <3>1
  <2>2. \A i, j \in 1..Len(wrote) : ~(i < j)
    BY <1>9
  <2>3. \A k \in 1..Total : \E i \in 1..Len(wrote) : Start(i) < k /\ k <= ends[i]
    BY <1>8
  <2> QED BY <1>8, <2>1, <2>2, <2>3 DEF Laid
<1>11. Written(1) = r
  BY <1>8 DEF Written, r
<1>12. Contents
  <2>1. \A j \in 1..(HeaderLen + Len(EpochBody) + 1) : Stands(1, j)
    BY <1>2, <1>5, <1>8, <1>11 DEF Stands, HeaderLen
  <2> QED BY <1>8, <1>9, <2>1 DEF Contents
<1>13. Damaged /\ Reached /\ DamageStops
  BY <1>4, <1>5, <1>8 DEF Damaged, Reached, DamageStops, Start
<1> QED BY <1>7, <1>10, <1>12, <1>13 DEF IInv

\* A record behind the last one leaves the others where they are.
LEMMA WriteInv ==
  ASSUME IInv, NEW s \in DOMAIN RecordKind, NEW b \in Bodies, WriteRecord(s, b)
  PROVE  IInv'
<1> DEFINE x == [struct |-> s, body |-> b]
           r == encode_record(RecordKind[s], b)
<1>0. PICK n : n = Len(wrote)
  OBVIOUS
<1>1. TypeOK /\ Laid /\ Contents /\ Damaged /\ Reached
  BY DEF IInv
<1>2. /\ phase = "write" /\ file' = file \o r /\ wrote' = Append(wrote, x)
      /\ ends' = Append(ends, Len(file')) /\ UNCHANGED <<damage, phase, off, loaded>>
  BY DEF WriteRecord
<1>3. b \in Seq(BodyToken) /\ RecordKind[s] \in Nat
  BY TraceAssumption, KindType
<1>4. r \in Seq(FileToken) /\ Len(r) = HeaderLen + Len(b) + 1
  BY <1>3, RecordShape
<1>5. Len(b) \in Nat /\ HeaderLen \in Nat
  BY <1>3 DEF HeaderLen
<1>6. x \in RecordType /\ x.struct = s /\ x.body = b
  BY <1>3 DEF RecordType
<1>7. /\ damage = 0 /\ loaded = <<>> /\ Len(loaded) = 0 /\ Len(file) = Total /\ off = 0
      /\ file \in Seq(FileToken) /\ wrote \in Seq(RecordType) /\ ends \in Seq(Nat)
  BY <1>1, <1>2 DEF Damaged, Reached, TypeOK, Start
<1>8. /\ n \in Nat \ {0} /\ Len(ends) = n /\ Total \in Nat /\ Total = ends[n]
      /\ \A i \in 1..n : /\ ends[i] \in Nat /\ Start(i) \in Nat /\ Len(wrote[i].body) \in Nat
                         /\ ends[i] = Start(i) + HeaderLen + Len(wrote[i].body) + 1
                         /\ Start(i) < ends[i] /\ ends[i] <= Total
  BY <1>0, <1>1, Positions DEF Total
<1> HIDE DEF x, r
<1>9. /\ file' \in Seq(FileToken) /\ Len(file') = Total + Len(r)
      /\ \A k \in 1..Total : file'[k] = file[k]
      /\ \A k \in 1..Len(r) : file'[Total + k] = r[k]
  <2>1. /\ file \o r \in Seq(FileToken) /\ Len(file \o r) = Len(file) + Len(r)
        /\ \A k \in 1..Len(file) : (file \o r)[k] = file[k]
        /\ \A k \in 1..Len(r) : (file \o r)[Len(file) + k] = r[k]
    <3>1. r \in Seq(FileToken) /\ file \in Seq(FileToken)
      BY <1>4, <1>7
    <3> QED BY <3>1, Concatenated
  <2> QED BY <1>2, <1>7, <2>1
<1>10. /\ wrote' \in Seq(RecordType) /\ Len(wrote') = n + 1 /\ wrote'[n + 1] = x
       /\ \A i \in 1..n : wrote'[i] = wrote[i]
       /\ \A i \in 1..Len(wrote') : i \in 1..n \/ i = n + 1
  BY <1>0, <1>2, <1>6, <1>7, Appended
<1>11. Len(file') \in Nat /\ Len(file') = Total + HeaderLen + Len(b) + 1
  BY <1>4, <1>5, <1>8, <1>9
<1>12. /\ ends' \in Seq(Nat) /\ Len(ends') = n + 1 /\ ends'[n + 1] = Len(file')
       /\ \A i \in 1..n : ends'[i] = ends[i]
  BY <1>2, <1>7, <1>8, <1>11, Appended
<1>13. TypeOK'
  BY <1>1, <1>2, <1>9, <1>10, <1>12 DEF TypeOK
<1>14. /\ \A i \in 1..n : Start(i)' = Start(i)
       /\ Start(n + 1)' = Total /\ Total' = Len(file')
  BY <1>8, <1>12 DEF Start, Total
<1>15. ASSUME NEW i \in 1..n PROVE Written(i)' = Written(i)
  BY <1>10 DEF Written
<1>16. Written(n + 1)' = r
  BY <1>6, <1>10 DEF Written, r
<1>17. Laid'
  <2>1. \A i \in 1..Len(wrote') : ends'[i] = Start(i)' + HeaderLen + Len(wrote'[i].body) + 1
    <3>1. ends'[n + 1] = Start(n + 1)' + HeaderLen + Len(wrote'[n + 1].body) + 1
      BY <1>6, <1>10, <1>11, <1>12, <1>14
    <3>2. ASSUME NEW i \in 1..n
          PROVE  ends'[i] = Start(i)' + HeaderLen + Len(wrote'[i].body) + 1
      BY <1>8, <1>10, <1>12, <1>14
    <3> QED BY <1>10, <3>1, <3>2
  <2>2. \A i, j \in 1..Len(wrote') : i < j => ends'[i] <= Start(j)'
    <3>1. \A i, j \in 1..n : i < j => ends'[i] <= Start(j)'
      BY <1>0, <1>1, <1>12, <1>14 DEF Laid
    <3>2. \A i \in 1..n : ends'[i] <= Start(n + 1)'
      BY <1>8, <1>12, <1>14
    <3>3. ASSUME NEW i \in 1..Len(wrote'), NEW j \in 1..Len(wrote'), i < j
          PROVE  ends'[i] <= Start(j)'
      <4>1. i \in 1..n /\ (j \in 1..n \/ j = n + 1)
        BY <1>8, <1>10, <3>3
      <4> QED BY <3>1, <3>2, <3>3, <4>1
    <3> QED BY <3>3
  <2>3. \A k \in 1..Total' : \E i \in 1..Len(wrote') : Start(i)' < k /\ k <= ends'[i]
    <3>1. ASSUME NEW k \in 1..Total PROVE \E i \in 1..Len(wrote') : Start(i)' < k /\ k <= ends'[i]
      <4>1. PICK i \in 1..n : Start(i) < k /\ k <= ends[i]
        BY <1>0, <1>1 DEF Laid
      <4>2. i \in 1..Len(wrote')
        BY <1>8, <1>10
      <4> QED BY <1>12, <1>14, <4>1, <4>2
    <3>2. ASSUME NEW k \in (Total + 1)..Len(file')
          PROVE  \E i \in 1..Len(wrote') : Start(i)' < k /\ k <= ends'[i]
      <4>1. n + 1 \in 1..Len(wrote')
        BY <1>8, <1>10
      <4>2. Start(n + 1)' < k /\ k <= ends'[n + 1]
        BY <1>8, <1>12, <1>14
      <4> QED BY <4>1, <4>2
    <3> QED BY <1>8, <1>11, <1>14, <3>1, <3>2
  <2>4. Len(ends') = Len(wrote') /\ Len(wrote') >= 1
    BY <1>8, <1>10, <1>12
  <2> QED BY <2>1, <2>2, <2>3, <2>4 DEF Laid
<1>18. Contents'
  <2>1. ASSUME NEW i \in 1..n, NEW j \in 1..(HeaderLen + Len(wrote[i].body) + 1)
        PROVE  Stands(i, j)'
    <3>1. Start(i) + j \in 1..Total /\ Start(i) + j # 0
      <4>1. /\ ends[i] \in Nat /\ Start(i) \in Nat /\ Len(wrote[i].body) \in Nat
            /\ ends[i] = Start(i) + HeaderLen + Len(wrote[i].body) + 1 /\ ends[i] <= Total
            /\ Total \in Nat /\ HeaderLen \in Nat
        BY <1>5, <1>8
      <4>2. j \in Nat /\ j >= 1 /\ j <= HeaderLen + Len(wrote[i].body) + 1
        BY <4>1
      <4>3. PICK a \in Nat, l \in Nat : a = Start(i) /\ l = HeaderLen + Len(wrote[i].body) + 1
        BY <4>1
      <4>4. a + l = ends[i] /\ j <= l
        BY <4>1, <4>2, <4>3
      <4>5. a + j <= a + l /\ a + j >= 1 /\ a + j \in Nat
        BY <4>2, <4>3, <4>4
      <4>6. a + l <= Total /\ Total \in Nat
        BY <4>1, <4>4
      <4>7. a + j \in 1..Total /\ a + j # 0
        BY <4>3, <4>5, <4>6
      <4> QED BY <4>3, <4>7
    <3>2. file[Start(i) + j] = Written(i)[j]
      <4>1. Start(i) + j <= Len(file) /\ Start(i) + j # damage
        BY <1>7, <3>1
      <4>2. Stands(i, j)
        BY <1>0, <1>1, <4>1 DEF Contents
      <4> QED BY <4>1, <4>2 DEF Stands
    <3>3. file'[Start(i)' + j] = Written(i)'[j]
      BY <1>9, <1>14, <1>15, <3>1, <3>2
    <3> QED BY <1>2, <1>7, <1>14, <3>1, <3>3 DEF Stands
  <2>2. ASSUME NEW j \in 1..(HeaderLen + Len(b) + 1)
        PROVE  Stands(n + 1, j)'
    <3>1. file'[Start(n + 1)' + j] = Written(n + 1)'[j]
      BY <1>4, <1>9, <1>14, <1>16
    <3>2. Start(n + 1)' + j # 0
      BY <1>5, <1>8, <1>14
    <3> QED BY <1>2, <1>7, <3>1, <3>2 DEF Stands
  <2> QED BY <1>6, <1>10, <2>1, <2>2 DEF Contents
<1>19. Damaged' /\ Reached' /\ DamageStops'
  <2>1. Start(1)' = 0
    BY DEF Start
  <2> QED BY <1>2, <1>7, <1>8, <1>10, <1>14, <2>1 DEF Damaged, Reached, DamageStops
<1> QED BY <1>13, <1>17, <1>18, <1>19 DEF IInv

\* An intact file.
LEMMA IntactInv ==
  ASSUME IInv, Intact
  PROVE  IInv'
<1>1. TypeOK /\ Laid /\ Contents /\ Damaged /\ Reached
  BY DEF IInv
<1>2. phase' = "read" /\ UNCHANGED <<file, wrote, ends, damage, off, loaded>>
  BY DEF Intact
<1>3. TypeOK' /\ Laid' /\ Damaged' /\ DamageStops'
  BY <1>1, <1>2 DEF TypeOK, Laid, Damaged, DamageStops, Start, Total
<1>4. Contents' /\ Reached'
  BY <1>1, <1>2 DEF Contents, Stands, Written, Reached, Sound, Start
<1> QED BY <1>3, <1>4 DEF IInv

\* Damage to the file leaves the tokens before it, or but for it, as they were.
LEMMA CutInv ==
  ASSUME IInv, NEW k \in 1..Len(file), Cut(k)
  PROVE  IInv'
<1>1. TypeOK /\ Laid /\ Contents /\ Damaged /\ Reached
  BY DEF IInv
<1>2. /\ phase = "write" /\ phase' = "read" /\ file' = SubSeq(file, 1, k - 1) /\ damage' = k
      /\ UNCHANGED <<wrote, ends, off, loaded>>
  BY DEF Cut
<1>3. /\ damage = 0 /\ loaded = <<>> /\ Len(loaded) = 0 /\ Len(file) = Total /\ Len(file) \in Nat
      /\ file \in Seq(FileToken) /\ k - 1 \in Nat /\ 0 + (k - 1) <= Len(file)
  BY <1>1, <1>2 DEF TypeOK, Damaged
<1>4. /\ file' \in Seq(FileToken) /\ Len(file') = k - 1
      /\ \A i \in 1..(k - 1) : file'[i] = file[i]
  <2>1. /\ SubSeq(file, 0 + 1, 0 + (k - 1)) \in Seq(FileToken)
        /\ Len(SubSeq(file, 0 + 1, 0 + (k - 1))) = k - 1
        /\ \A i \in 1..(k - 1) : SubSeq(file, 0 + 1, 0 + (k - 1))[i] = file[0 + i]
    BY <1>3, Between
  <2>2. 0 + 1 = 1 /\ 0 + (k - 1) = k - 1 /\ \A i \in 1..(k - 1) : 0 + i = i
    OBVIOUS
  <2> QED BY <1>2, <2>1, <2>2
<1>5. TypeOK'
  BY <1>1, <1>2, <1>4 DEF TypeOK
<1>6. Laid' /\ Total' = Total
  BY <1>1, <1>2 DEF Laid, Start, Total
<1>7. Contents'
  <2>1. ASSUME NEW i \in 1..Len(wrote), NEW j \in 1..(HeaderLen + Len(wrote[i].body) + 1),
               Start(i) + j <= k - 1
        PROVE  Stands(i, j)'
    <3>1. /\ Start(i) \in Nat /\ Len(wrote[i].body) \in Nat /\ HeaderLen \in Nat
      BY <1>1, Positions DEF HeaderLen
    <3>2. Start(i) + j \in 1..(k - 1) /\ Start(i) + j <= Len(file) /\ Start(i) + j # 0
          /\ Start(i) + j # k
      BY <1>3, <2>1, <3>1
    <3>3. file[Start(i) + j] = Written(i)[j]
      BY <1>1, <1>3, <3>2 DEF Contents, Stands
    <3>4. file'[Start(i) + j] = Written(i)[j]
      BY <1>4, <3>2, <3>3
    <3> QED BY <1>2, <3>2, <3>4 DEF Stands, Start, Written
  <2>2. \A i \in 1..Len(wrote) : Start(i)' = Start(i)
    BY <1>2 DEF Start
  <2> QED BY <1>2, <1>4, <2>1, <2>2 DEF Contents
<1>8. Damaged' /\ Reached' /\ DamageStops'
  <2>1. Start(1) = 0 /\ Start(1)' = 0 /\ Len(loaded') = 0
    BY <1>2, <1>3 DEF Start
  <2> QED BY <1>1, <1>2, <1>3, <1>4, <1>6, <2>1 DEF Damaged, Reached, DamageStops
<1> QED BY <1>5, <1>6, <1>7, <1>8 DEF IInv

\* A changed token: it is the one place where the file is not as it was written.
LEMMA AlterInv ==
  ASSUME IInv, NEW k \in 1..Len(file), NEW n \in Garbage, Alter(k, n)
  PROVE  IInv'
<1> DEFINE t == [width |-> file[k].width, n |-> n, covers |-> file[k].covers]
<1>1. TypeOK /\ Laid /\ Contents /\ Damaged /\ Reached
  BY DEF IInv
<1>2. /\ phase = "write" /\ phase' = "read" /\ n # file[k].n /\ damage' = k
      /\ file' = [file EXCEPT ![k] = t] /\ UNCHANGED <<wrote, ends, off, loaded>>
  BY DEF Alter
<1>3. /\ damage = 0 /\ loaded = <<>> /\ Len(loaded) = 0 /\ Len(file) = Total /\ Len(file) \in Nat
      /\ file \in Seq(FileToken) /\ file[k] \in FileToken
  BY <1>1, <1>2 DEF TypeOK, Damaged
<1>4. t \in FileToken /\ t.width = file[k].width /\ t.n = n
  BY <1>3, TraceAssumption DEF FileToken
<1>5. t.n # file[k].n
  BY <1>2, <1>4
<1> HIDE DEF t
<1>6. /\ file' \in Seq(FileToken) /\ Len(file') = Len(file) /\ file'[k] = t
      /\ \A i \in 1..Len(file) : i # k => file'[i] = file[i]
  BY <1>2, <1>3, <1>4
<1>7. TypeOK'
  BY <1>1, <1>2, <1>3, <1>6 DEF TypeOK
<1>8. Laid' /\ Total' = Total
  BY <1>1, <1>2 DEF Laid, Start, Total
<1>9. Contents'
  <2>1. ASSUME NEW i \in 1..Len(wrote), NEW j \in 1..(HeaderLen + Len(wrote[i].body) + 1),
               Start(i) + j <= Len(file)
        PROVE  Stands(i, j)'
    <3>1. /\ Start(i) \in Nat /\ Len(wrote[i].body) \in Nat /\ HeaderLen \in Nat
      BY <1>1, Positions DEF HeaderLen
    <3>2. Start(i) + j \in 1..Len(file) /\ Start(i) + j # 0
      BY <1>3, <2>1, <3>1
    <3>3. file[Start(i) + j] = Written(i)[j]
      BY <1>1, <1>3, <3>2 DEF Contents, Stands
    <3>4. IF Start(i) + j = k
            THEN /\ file'[Start(i) + j].width = Written(i)[j].width
                 /\ file'[Start(i) + j].n # Written(i)[j].n
            ELSE file'[Start(i) + j] = Written(i)[j]
      BY <1>4, <1>5, <1>6, <3>2, <3>3
    <3> QED BY <1>2, <3>4 DEF Stands, Start, Written
  <2>2. \A i \in 1..Len(wrote) : Start(i)' = Start(i)
    BY <1>2 DEF Start
  <2> QED BY <1>2, <1>6, <2>1, <2>2 DEF Contents
<1>10. Damaged' /\ Reached' /\ DamageStops'
  <2>1. Start(1) = 0 /\ Start(1)' = 0 /\ Len(loaded') = 0
    BY <1>2, <1>3 DEF Start
  <2> QED BY <1>1, <1>2, <1>3, <1>6, <1>8, <2>1 DEF Damaged, Reached, DamageStops
<1> QED BY <1>7, <1>8, <1>9, <1>10 DEF IInv

\* The tokens of a record that the damage does not touch.
LEMMA Untouched ==
  ASSUME TypeOK, Laid, Contents, NEW i \in 1..Len(wrote), ends[i] <= Len(file),
         damage \notin (Start(i) + 1)..ends[i]
  PROVE  LET p == Prefix(RecordKind[wrote[i].struct], wrote[i].body)
         IN /\ \A j \in 1..(HeaderLen + Len(wrote[i].body)) : file[Start(i) + j] = p[j]
            /\ file[ends[i]] = Sha256(p)
<1> DEFINE kind == RecordKind[wrote[i].struct]
           b == wrote[i].body
           l == HeaderLen + Len(b)
           p == Prefix(kind, b)
<1>1. kind \in Nat /\ b \in Seq(BodyToken) /\ Len(b) \in Nat /\ HeaderLen \in Nat
  BY WrittenTypes DEF HeaderLen
<1>2. Start(i) \in Nat /\ ends[i] \in Nat /\ ends[i] = Start(i) + l + 1 /\ damage \in Nat
  <2>1. /\ Start(i) \in Nat /\ ends[i] \in Nat /\ damage \in Nat
        /\ ends[i] = Start(i) + HeaderLen + Len(b) + 1
    BY Positions DEF TypeOK
  <2> QED BY <1>1, <2>1
<1>3. Len(file) \in Nat /\ l \in Nat
  BY <1>1 DEF TypeOK
<1>4. Written(i) = encode_record(kind, b)
  BY DEF Written
<1>5. /\ \A j \in 1..l : Written(i)[j] = p[j]
      /\ Written(i)[l + 1] = Sha256(p)
  <2> HIDE DEF kind, b
  <2>1. /\ \A j \in 1..(HeaderLen + Len(b)) : encode_record(kind, b)[j] = Prefix(kind, b)[j]
        /\ encode_record(kind, b)[HeaderLen + Len(b) + 1] = Sha256(Prefix(kind, b))
    BY <1>1, RecordShape
  <2> QED BY <1>4, <2>1
<1>6. \A j \in 1..(l + 1) : Stands(i, j) \/ ~(Start(i) + j <= Len(file))
  BY DEF Contents
<1> HIDE DEF kind, b, l, p
<1>7. ASSUME NEW j \in 1..(l + 1) PROVE file[Start(i) + j] = Written(i)[j]
  <2>1. Start(i) + j <= Len(file) /\ Start(i) + j \in (Start(i) + 1)..ends[i]
    BY <1>2, <1>3
  <2>2. Stands(i, j)
    BY <1>6, <2>1
  <2> QED BY <2>1, <2>2 DEF Stands
<1>8. \A j \in 1..l : j \in 1..(l + 1)
  BY <1>3
<1>9. \A j \in 1..l : file[Start(i) + j] = p[j]
  BY <1>5, <1>7, <1>8
<1>10. l + 1 \in 1..(l + 1) /\ ends[i] = Start(i) + (l + 1)
  BY <1>2, <1>3
<1>11. file[ends[i]] = Sha256(p)
  BY <1>5, <1>7, <1>10
<1> QED BY <1>9, <1>11 DEF p, l, kind, b

\* A record that is sound is taken.
LEMMA SoundTaken ==
  ASSUME TypeOK, Laid, Contents, Damaged, Reached, NEW i \in 1..Len(wrote),
         off = Start(i), Sound(i)
  PROVE  decode_record(off)
<1> DEFINE kind == RecordKind[wrote[i].struct]
           b == wrote[i].body
           p == Prefix(kind, b)
<1>1. kind \in Nat /\ kind \in 1..8 /\ b \in Seq(BodyToken) /\ Len(b) \in Nat
  BY WrittenTypes
<1>2. /\ off \in Nat /\ ends[i] \in Nat /\ ends[i] = off + 4 + Len(b) + 1 /\ ends[i] <= Total
      /\ Total \in Nat /\ damage \in Nat /\ Len(file) \in Nat /\ file \in Seq(FileToken)
  BY Positions DEF TypeOK, HeaderLen
<1>3. damage = 0 \/ ends[i] < damage
  BY DEF Sound
<1>4. ends[i] <= Len(file)
  BY <1>2, <1>3 DEF Damaged
<1>5. /\ \A j \in 1..(4 + Len(b)) : file[off + j] = p[j]
      /\ file[ends[i]] = Sha256(p)
  <2>1. damage \notin (Start(i) + 1)..ends[i]
    BY <1>2, <1>3
  <2>2. /\ \A j \in 1..(HeaderLen + Len(wrote[i].body)) :
             file[Start(i) + j] = Prefix(RecordKind[wrote[i].struct], wrote[i].body)[j]
        /\ file[ends[i]] = Sha256(Prefix(RecordKind[wrote[i].struct], wrote[i].body))
    BY <1>4, <2>1, Untouched
  <2> QED BY <2>2 DEF HeaderLen
<1>6. /\ p \in Seq(BodyToken) /\ Len(p) = 4 + Len(b)
      /\ p[1].n = kRecordMagic /\ p[2].n = kRecordVersion /\ p[3].n = kind /\ p[4].n = Len(b)
  <2>1. kind \in Nat /\ b \in Seq(BodyToken)
    BY <1>1
  <2> HIDE DEF kind, b
  <2>2. Len(p) = HeaderLen + Len(b)
    BY <2>1, PrefixShape
  <2>3. /\ p \in Seq(BodyToken) /\ p[1].n = kRecordMagic /\ p[2].n = kRecordVersion
        /\ p[3].n = kind /\ p[4].n = Len(b)
    BY <2>1, PrefixShape
  <2> QED BY <2>2, <2>3 DEF HeaderLen
<1>7. Len(b) <= kMaxBody
  BY DEF Sound
<1> HIDE DEF kind, b, p
<1>8. /\ file[off + 1] = p[1] /\ file[off + 2] = p[2] /\ file[off + 3] = p[3]
      /\ file[off + 4] = p[4]
  BY <1>1, <1>5
<1>9. /\ file[off + 1].n = kRecordMagic /\ file[off + 2].n = kRecordVersion
      /\ file[off + 3].n \in 1..8 /\ file[off + 4].n = Len(b)
  BY <1>1, <1>6, <1>8
<1>10. /\ off + 4 <= Len(file) /\ off + 4 + Len(b) + 1 <= Len(file)
       /\ file[off + 4 + Len(b) + 1] = Sha256(p)
  BY <1>1, <1>2, <1>4, <1>5
<1>11. SubSeq(file, off + 1, off + 4 + Len(b)) = p
  <2>0. PICK k \in Nat : k = 4 + Len(b)
    BY <1>1
  <2> DEFINE q == SubSeq(file, off + 1, off + k)
  <2>1. off + k = off + 4 + Len(b) /\ off + k <= Len(file)
    <3>1. /\ off \in Nat /\ Len(b) \in Nat /\ Len(file) \in Nat
          /\ off + 4 + Len(b) + 1 <= Len(file)
      BY <1>1, <1>2, <1>10
    <3> QED BY <2>0, <3>1
  <2>2. q \in Seq(FileToken) /\ Len(q) = k /\ \A j \in 1..k : q[j] = file[off + j]
    <3>1. file \in Seq(FileToken) /\ off \in Nat
      BY <1>2
    <3>2. off + k <= Len(file)
      BY <2>1
    <3> QED BY <3>1, <3>2, Between, SMTT(30)
  <2> HIDE DEF q
  <2>3. q = p
    <3>1. Len(p) = k /\ \A j \in 1..k : q[j] = p[j]
      BY <1>5, <1>6, <2>0, <2>2
    <3>2. p \in Seq(FileToken)
      BY <1>6, TokenTypes
    <3> QED BY <2>2, <3>1, <3>2, SeqEqual
  <2> QED BY <2>1, <2>3 DEF q
<1> QED BY <1>7, <1>9, <1>10, <1>11 DEF decode_record, HeaderLen

\* Two records that start at the same place are the same.
LEMMA StartsDiffer ==
  ASSUME TypeOK, Laid, NEW i \in 1..Len(wrote), NEW j \in 1..Len(wrote), Start(i) = Start(j)
  PROVE  i = j
<1>1. /\ Start(i) \in Nat /\ Start(j) \in Nat /\ Start(i) < ends[i] /\ Start(j) < ends[j]
      /\ ends[i] \in Nat /\ ends[j] \in Nat
  BY Positions
<1>2. ~(i < j)
  BY <1>1 DEF Laid
<1>3. ~(j < i)
  BY <1>1 DEF Laid
<1> QED BY <1>2, <1>3

\* A checksum that is found right is that of a whole record: the last token of
\* a record, not the damaged one, and it covers the tokens of that record.
LEMMA ChecksumPlace ==
  ASSUME TypeOK, Laid, Contents, NEW e \in 1..Len(file), Len(file) <= Total,
         NEW S, file[e] = Sha256(S)
  PROVE  \E j \in 1..Len(wrote) :
           /\ e = ends[j] /\ e # damage
           /\ S = Prefix(RecordKind[wrote[j].struct], wrote[j].body)
<1>1. Total \in Nat /\ Len(file) \in Nat
  BY Positions DEF TypeOK
<1>2. e \in 1..Total
  BY <1>1
<1>3. PICK j \in 1..Len(wrote) : Start(j) < e /\ e <= ends[j]
  BY <1>2 DEF Laid
<1> DEFINE kind == RecordKind[wrote[j].struct]
           b == wrote[j].body
           p == Prefix(kind, b)
<1>4. kind \in Nat /\ b \in Seq(BodyToken) /\ Len(b) \in Nat
  BY WrittenTypes
<1>5. Start(j) \in Nat /\ ends[j] \in Nat /\ ends[j] = Start(j) + 4 + Len(b) + 1
  BY Positions DEF HeaderLen
<1>6. PICK q \in 1..(4 + Len(b) + 1) : e = Start(j) + q
  <2>1. PICK a \in Nat, l \in Nat : a = Start(j) /\ l = 4 + Len(b) + 1
    BY <1>4, <1>5
  <2>2. ends[j] = a + l /\ a < e /\ e <= ends[j]
    <3>1. PICK m \in Nat : m = Len(b)
      BY <1>4
    <3>2. l = 4 + m + 1 /\ ends[j] = a + 4 + m + 1
      BY <1>5, <2>1, <3>1
    <3>3. a + 4 + m + 1 = a + (4 + m + 1)
      BY <2>1, <3>1, Grouped
    <3>4. ends[j] = a + l
      BY <3>2, <3>3, Zenon
    <3> QED BY <1>3, <2>1, <3>4
  <2>3. e \in (a + 1)..(a + l)
    BY <2>1, <2>2
  <2>4. e - a \in 1..l /\ a + (e - a) = e
    BY <2>1, <2>3, Counted
  <2> QED BY <2>1, <2>4
<1>7. Stands(j, q)
  BY <1>6 DEF Contents, HeaderLen
<1> HIDE DEF kind, b, p
<1>8. /\ \A k \in 1..(4 + Len(b)) : encode_record(kind, b)[k].width # "sha256"
      /\ encode_record(kind, b)[4 + Len(b) + 1] = Sha256(p)
  <2>1. /\ \A k \in 1..(HeaderLen + Len(b)) : encode_record(kind, b)[k].width # "sha256"
        /\ encode_record(kind, b)[HeaderLen + Len(b) + 1] = Sha256(Prefix(kind, b))
    BY <1>4, RecordShape
  <2> QED BY <2>1 DEF HeaderLen, p
<1>9. Written(j) = encode_record(kind, b)
  BY DEF Written, kind, b
<1>10. file[e].width = "sha256" /\ file[e].n = 0 /\ file[e].covers = S
  BY DEF Sha256
<1>11. Written(j)[q].width = "sha256"
  BY <1>6, <1>7, <1>10 DEF Stands
<1>12. q = 4 + Len(b) + 1
  <2>1. q \notin 1..(4 + Len(b))
    BY <1>8, <1>9, <1>11
  <2> QED BY <1>4, <2>1
<1>13. e = ends[j]
  BY <1>4, <1>5, <1>6, <1>12
<1>14. Written(j)[q] = Sha256(p)
  BY <1>8, <1>9, <1>12
<1>15. Sha256(p).n = 0 /\ Sha256(p).covers = p
  BY DEF Sha256
<1>16. e # damage /\ file[e] = Sha256(p)
  BY <1>6, <1>7, <1>10, <1>14, <1>15 DEF Stands
<1>17. S = p
  BY <1>10, <1>15, <1>16
<1> QED BY <1>13, <1>16, <1>17 DEF p, kind, b

\* A record that is taken is sound, and is taken as it was written.
LEMMA TakenSound ==
  ASSUME TypeOK, Laid, Contents, Damaged, Reached, NEW i \in 1..Len(wrote),
         off = Start(i), Len(file) <= Total, decode_record(off)
  PROVE  /\ Sound(i)
         /\ file[off + 3].n = RecordKind[wrote[i].struct]
         /\ off + HeaderLen + file[off + 4].n + 1 = ends[i]
         /\ SubSeq(file, off + HeaderLen + 1, off + HeaderLen + file[off + 4].n) = wrote[i].body
<1>1. /\ off \in Nat /\ Len(file) \in Nat /\ file \in Seq(FileToken) /\ off + 4 <= Len(file)
      /\ off + 4 \in 1..Len(file)
  <2>1. off \in Nat /\ file \in Seq(FileToken)
    BY DEF TypeOK
  <2>2. off + 4 <= Len(file)
    BY DEF decode_record, HeaderLen
  <2>3. Len(file) \in Nat
    BY <2>1
  <2> QED BY <2>1, <2>2, <2>3
<1>2. file[off + 4].n \in Nat
  <2>1. file[off + 4] \in FileToken
    BY <1>1
  <2> QED BY <2>1 DEF FileToken
<1>3. PICK n \in Nat : n = file[off + 4].n
  BY <1>2
<1>4. /\ n <= kMaxBody /\ off + 4 + n + 1 <= Len(file)
      /\ file[off + 4 + n + 1] = Sha256(SubSeq(file, off + 1, off + 4 + n))
  BY <1>3 DEF decode_record, HeaderLen
<1>5. PICK k \in Nat : k = 4 + n
  OBVIOUS
<1>6. off + 4 + n + 1 = off + k + 1 /\ off + 4 + n = off + k /\ off + k + 1 \in 1..Len(file)
      /\ off + k <= Len(file)
  BY <1>1, <1>4, <1>5
<1> DEFINE s == SubSeq(file, off + 1, off + k)
<1>7. s \in Seq(FileToken) /\ Len(s) = k /\ \A j \in 1..k : s[j] = file[off + j]
  <2>1. off \in Nat /\ file \in Seq(FileToken)
    BY <1>1
  <2>2. off + k <= Len(file)
    BY <1>6
  <2> QED BY <2>1, <2>2, Between, SMTT(30)
<1>8. file[off + k + 1] = Sha256(s)
  BY <1>4, <1>6
<1> HIDE DEF s
<1>9. PICK j \in 1..Len(wrote) :
        /\ off + k + 1 = ends[j] /\ off + k + 1 # damage
        /\ s = Prefix(RecordKind[wrote[j].struct], wrote[j].body)
  BY <1>6, <1>8, ChecksumPlace
<1> DEFINE kind == RecordKind[wrote[j].struct]
           b == wrote[j].body
<1>10. kind \in Nat /\ b \in Seq(BodyToken) /\ Len(b) \in Nat
  BY WrittenTypes
<1>11. /\ Len(s) = 4 + Len(b) /\ s[3].n = kind
       /\ \A q \in 1..Len(b) : s[4 + q] = b[q]
  <2> HIDE DEF kind, b
  <2>1. /\ Len(Prefix(kind, b)) = HeaderLen + Len(b) /\ Prefix(kind, b)[3].n = kind
        /\ \A q \in 1..Len(b) : Prefix(kind, b)[HeaderLen + q] = b[q]
    BY <1>10, PrefixShape
  <2>2. s = Prefix(kind, b)
    BY <1>9 DEF kind, b
  <2> QED BY <2>1, <2>2 DEF HeaderLen
<1>12. Start(j) \in Nat /\ ends[j] = Start(j) + 4 + Len(b) + 1
  BY Positions DEF HeaderLen
<1>13. n = Len(b) /\ Start(j) = off
  <2>1. k = 4 + Len(b) /\ off + k + 1 = Start(j) + 4 + Len(b) + 1
    BY <1>7, <1>9, <1>11, <1>12
  <2>2. off \in Nat /\ Start(j) \in Nat /\ Len(b) \in Nat
    BY <1>1, <1>10, <1>12
  <2> HIDE DEF b
  <2>3. n = Len(b)
    BY <1>5, <2>1, <2>2
  <2>4. Start(j) = off
    <3>1. PICK a \in Nat, l \in Nat : a = Start(j) /\ l = Len(b)
      BY <2>2
    <3>2. off \in Nat /\ off + (4 + l) + 1 = a + 4 + l + 1
      BY <2>1, <2>2, <3>1
    <3>3. off = a
      BY <3>2, SameStart
    <3> QED BY <3>1, <3>3
  <2> QED BY <2>3, <2>4
<1>14. j = i
  BY <1>13, StartsDiffer
<1>15. \A q \in 1..k : off + q # damage
  <2> SUFFICES ASSUME NEW q \in 1..k, off + q = damage PROVE FALSE
    OBVIOUS
  <2>1. /\ \A x \in 1..(HeaderLen + Len(b)) : encode_record(kind, b)[x] = Prefix(kind, b)[x]
    BY <1>10, RecordShape
  <2>2. q \in 1..(HeaderLen + Len(b))
    BY <1>5, <1>13 DEF HeaderLen
  <2>3. Written(j)[q] = s[q]
    BY <1>9, <2>1, <2>2 DEF Written
  <2>4. file[off + q] = s[q]
    BY <1>7
  <2>5. off + q <= Len(file) /\ q \in 1..(HeaderLen + Len(b) + 1)
    <3>1. off \in Nat /\ Len(file) \in Nat /\ Len(b) \in Nat /\ off + k <= Len(file)
      BY <1>1, <1>6, <1>10
    <3> QED BY <2>2, <3>1 DEF HeaderLen
  <2>6. Stands(j, q)
    BY <1>13, <2>5 DEF Contents
  <2> QED BY <1>13, <2>3, <2>4, <2>6 DEF Stands
<1>16. damage = 0 \/ ends[j] < damage
  <2>1. damage \in Nat /\ (damage = 0 \/ off < damage)
    BY Behind DEF TypeOK
  <2>2. damage \notin (off + 1)..(off + k)
    <3> SUFFICES ASSUME damage \in (off + 1)..(off + k) PROVE FALSE
      OBVIOUS
    <3>1. off \in Nat
      BY <1>1
    <3>2. PICK q \in 1..k : off + q = damage
      BY <3>1, Counted
    <3> QED BY <1>15, <3>2
  <2>3. CASE off < damage
    <3>1. off \in Nat /\ off + k + 1 # damage
      BY <1>1, <1>9
    <3>2. off + k + 1 < damage
      BY <2>1, <2>2, <2>3, <3>1, FurtherBehind
    <3> QED BY <1>9, <3>2
  <2> QED BY <2>1, <2>3
<1>17. Sound(i)
  BY <1>4, <1>13, <1>14, <1>16 DEF Sound
<1>18. file[off + 3].n = kind
  <2>1. 3 \in 1..k
    BY <1>5
  <2> QED BY <1>7, <1>11, <2>1
<1>19. SubSeq(file, off + 4 + 1, off + 4 + n) = b
  <2>1. PICK m \in Nat : m = off + 4
    BY <1>1
  <2>2. m + n <= Len(file)
    BY <1>1, <1>4, <2>1
  <2> DEFINE t == SubSeq(file, m + 1, m + n)
  <2>3. t \in Seq(FileToken) /\ Len(t) = n /\ \A q \in 1..n : t[q] = file[m + q]
    BY <1>1, <2>2, Between
  <2> HIDE DEF t
  <2>4. ASSUME NEW q \in 1..n PROVE t[q] = b[q]
    <3>1. 4 + q \in 1..k /\ m + q = off + (4 + q)
      BY <1>1, <1>5, <2>1
    <3> QED BY <1>7, <1>11, <1>13, <2>3, <3>1
  <2>5. b \in Seq(FileToken)
    BY <1>10, TokenTypes
  <2>6. t = b
    BY <1>13, <2>3, <2>4, <2>5, SeqEqual
  <2> QED BY <2>1, <2>6 DEF t
<1> QED BY <1>3, <1>6, <1>9, <1>14, <1>17, <1>18, <1>19 DEF HeaderLen

\* A record that decode_record takes is the next one that was written.
LEMMA LoadInv ==
  ASSUME IInv, LoadRecord
  PROVE  IInv'
<1>1. TypeOK /\ Laid /\ Contents /\ Damaged /\ Reached
  BY DEF IInv
<1>2. /\ phase = "read" /\ off < Len(file) /\ decode_record(off)
      /\ UNCHANGED <<file, wrote, ends, damage, phase>>
  BY DEF LoadRecord
<1>3. PICK i : i = Len(loaded) + 1
  OBVIOUS
<1>4. i \in 1..Len(wrote) /\ off = Start(i) /\ Len(file) <= Total
  BY <1>1, <1>2, <1>3, MoreToRead
<1>5. /\ Sound(i) /\ file[off + 3].n = RecordKind[wrote[i].struct]
      /\ off + HeaderLen + file[off + 4].n + 1 = ends[i]
      /\ SubSeq(file, off + HeaderLen + 1, off + HeaderLen + file[off + 4].n) = wrote[i].body
  BY <1>1, <1>2, <1>4, TakenSound
<1> DEFINE x == [kind |-> RecordKind[wrote[i].struct], body |-> wrote[i].body]
<1>6. loaded' = Append(loaded, x) /\ off' = ends[i]
  BY <1>5 DEF LoadRecord
<1>7. x \in [kind : Nat, body : Seq(BodyToken)]
  BY <1>1, <1>4, WrittenTypes
<1> HIDE DEF x
<1>8. loaded \in Seq([kind : Nat, body : Seq(BodyToken)]) /\ Len(loaded) \in Nat
  BY <1>1 DEF TypeOK
<1>9. /\ loaded' \in Seq([kind : Nat, body : Seq(BodyToken)]) /\ Len(loaded') = Len(loaded) + 1
      /\ loaded'[Len(loaded) + 1] = x /\ \A k \in 1..Len(loaded) : loaded'[k] = loaded[k]
      /\ \A k \in 1..Len(loaded') : k \in 1..Len(loaded) \/ k = Len(loaded) + 1
  BY <1>6, <1>7, <1>8, Appended
<1>10. ends[i] \in Nat
  BY <1>1, <1>4, Positions
<1>11. TypeOK'
  BY <1>1, <1>2, <1>6, <1>9, <1>10 DEF TypeOK
<1>12. Laid' /\ Contents' /\ Damaged'
  <2>1. Laid' /\ Contents'
    BY <1>1, <1>2, FileKept
  <2>2. Damaged'
    BY <1>1, <1>2 DEF Damaged, Total
  <2> QED BY <2>1, <2>2
<1>13. Reached'
  <2>1. Len(loaded') = i
    BY <1>3, <1>9
  <2>2. i \in Nat /\ i + 1 # 1 /\ i + 1 - 1 = i
    BY <1>3, <1>8
  <2>3. off' = Start(i + 1)'
    <3>1. Start(i + 1)' = ends'[i]
      BY <2>2 DEF Start
    <3> QED BY <1>2, <1>6, <3>1
  <2>4. \A k \in 1..Len(loaded') :
          /\ loaded'[k] = [kind |-> RecordKind[wrote[k].struct], body |-> wrote[k].body]
          /\ Sound(k)
    BY <1>1, <1>3, <1>5, <1>9 DEF Reached, x
  <2>5. \A k \in 1..Len(loaded') : Sound(k)'
    BY <1>2, <2>4 DEF Sound
  <2>6. Len(loaded') <= Len(wrote')
    BY <1>2, <1>4, <2>1
  <2> QED BY <1>2, <2>1, <2>3, <2>4, <2>5, <2>6 DEF Reached
<1>14. DamageStops'
  BY <1>2 DEF DamageStops
<1> QED BY <1>11, <1>12, <1>13, <1>14 DEF IInv

\* Where recovery has ended, as DamageStops says it.
LEMMA BehindLoaded ==
  ASSUME TypeOK, Reached
  PROVE  off = IF loaded = <<>> THEN 0 ELSE ends[Len(loaded)]
<1>1. Len(loaded) \in Nat /\ (loaded = <<>> <=> Len(loaded) = 0)
  BY DEF TypeOK
<1>2. CASE Len(loaded) = 0
  BY <1>1, <1>2 DEF Reached, Start
<1>3. CASE Len(loaded) # 0
  <2>1. Len(loaded) + 1 # 1 /\ Len(loaded) + 1 - 1 = Len(loaded)
    BY <1>1, <1>3
  <2> QED BY <1>1, <1>3, <2>1 DEF Reached, Start
<1> QED BY <1>2, <1>3

\* recover stops where the next record is not sound.
LEMMA StopInv ==
  ASSUME IInv, StopLoading
  PROVE  IInv'
<1>1. TypeOK /\ Laid /\ Contents /\ Damaged /\ Reached
  BY DEF IInv
<1>2. /\ phase = "read" /\ phase' = "stopped" /\ off < Len(file) /\ ~decode_record(off)
      /\ UNCHANGED <<file, wrote, ends, damage, off, loaded>>
  BY DEF StopLoading
<1>3. PICK i : i = Len(loaded) + 1
  OBVIOUS
<1>4. i \in 1..Len(wrote) /\ off = Start(i)
  BY <1>1, <1>2, <1>3, MoreToRead
<1>5. ~Sound(i)
  BY <1>1, <1>2, <1>4, SoundTaken
<1>6. TypeOK' /\ Laid' /\ Contents' /\ Damaged'
  <2>1. TypeOK' /\ Damaged'
    BY <1>1, <1>2 DEF TypeOK, Damaged, Total
  <2>2. Laid' /\ Contents'
    BY <1>1, <1>2, FileKept
  <2> QED BY <2>1, <2>2
<1>7. Reached'
  BY <1>1, <1>2 DEF Reached, Sound, Start
<1>8. DamageStops'
  <2>1. \A k \in 1..Len(loaded) : Sound(k)
    BY <1>1 DEF Reached
  <2>2. off = IF loaded = <<>> THEN 0 ELSE ends[Len(loaded)]
    BY <1>1, BehindLoaded
  <2>3. Len(wrote) \in Nat /\ off \in Nat /\ Len(file) \in Nat
    BY <1>1 DEF TypeOK
  <2>4. Len(file) # off /\ ~(i > Len(wrote))
    BY <1>2, <1>4, <2>3
  <2>5. Sound(i)' = Sound(i) /\ \A k \in 1..Len(loaded) : Sound(k)'
    BY <1>2, <2>1 DEF Sound
  <2> QED BY <1>2, <1>3, <1>5, <2>2, <2>4, <2>5 DEF DamageStops
<1> QED BY <1>6, <1>7, <1>8 DEF IInv

\* recover reaches the end of the file behind the last record, or where it was cut.
LEMMA FinishInv ==
  ASSUME IInv, Finish
  PROVE  IInv'
<1>1. TypeOK /\ Laid /\ Contents /\ Damaged /\ Reached
  BY DEF IInv
<1>2. /\ phase = "read" /\ phase' = "loaded" /\ off >= Len(file)
      /\ UNCHANGED <<file, wrote, ends, damage, off, loaded>>
  BY DEF Finish
<1>3. PICK i : i = Len(loaded) + 1
  OBVIOUS
<1>4. /\ Len(wrote) \in Nat /\ off \in Nat /\ Len(file) \in Nat /\ damage \in Nat
      /\ i \in Nat \ {0} /\ off = Start(i)
  BY <1>1, <1>3 DEF TypeOK, Reached
<1>5. ASSUME i <= Len(wrote) PROVE damage = off + 1 /\ Len(file) = off /\ ~Sound(i)
  <2>1. /\ ends[i] \in Nat /\ Start(i) < ends[i] /\ ends[i] <= Total /\ Total \in Nat
    BY <1>1, <1>4, <1>5, Positions
  <2>2. Len(file) # Total
    BY <1>2, <1>4, <2>1
  <2>3. damage # 0 /\ Len(file) = damage - 1
    BY <1>1, <2>2 DEF Damaged
  <2>4. off < damage
    BY <1>1, <2>3, Behind
  <2>5. damage = off + 1 /\ Len(file) = off
    BY <1>2, <1>4, <2>3, <2>4
  <2>6. ~(ends[i] < damage)
    BY <1>4, <2>1, <2>5
  <2> QED BY <2>3, <2>5, <2>6 DEF Sound
<1>6. TypeOK' /\ Laid' /\ Contents' /\ Damaged'
  <2>1. TypeOK' /\ Damaged'
    BY <1>1, <1>2 DEF TypeOK, Damaged, Total
  <2>2. Laid' /\ Contents'
    BY <1>1, <1>2, FileKept
  <2> QED BY <2>1, <2>2
<1>7. Reached'
  BY <1>1, <1>2 DEF Reached, Sound, Start
<1>8. DamageStops'
  <2>1. off = IF loaded = <<>> THEN 0 ELSE ends[Len(loaded)]
    BY <1>1, BehindLoaded
  <2>2. Sound(i)' = Sound(i) /\ \A k \in 1..Len(loaded) : Sound(k)'
    BY <1>1, <1>2 DEF Reached, Sound
  <2>3. i > Len(wrote) <=> ~(i <= Len(wrote))
    BY <1>4
  <2> QED BY <1>2, <1>3, <1>5, <2>1, <2>2, <2>3 DEF DamageStops
<1> QED BY <1>6, <1>7, <1>8 DEF IInv

\* Every step of persist, of what happens to the file and of recover keeps the
\* invariant.
LEMMA NextInv ==
  ASSUME IInv, [TNext]_tvars
  PROVE  IInv'
<1>1. CASE \E s \in DOMAIN RecordKind, b \in Bodies : WriteRecord(s, b)
  BY <1>1, WriteInv
<1>2. CASE Intact
  BY <1>2, IntactInv
<1>3. CASE \E k \in 1..Len(file) : Cut(k)
  BY <1>3, CutInv
<1>4. CASE \E k \in 1..Len(file), n \in Garbage : Alter(k, n)
  BY <1>4, AlterInv
<1>5. CASE LoadRecord
  BY <1>5, LoadInv
<1>6. CASE StopLoading
  BY <1>6, StopInv
<1>7. CASE Finish
  BY <1>7, FinishInv
<1>8. CASE UNCHANGED tvars
  <2>1. TypeOK /\ Laid /\ Contents /\ Damaged /\ Reached /\ DamageStops
    BY DEF IInv
  <2>2. TypeOK' /\ Damaged'
    BY <1>8, <2>1 DEF tvars, TypeOK, Damaged, Total
  <2>3. Laid' /\ Contents'
    <3>1. UNCHANGED <<file, wrote, ends, damage>>
      BY <1>8 DEF tvars
    <3> QED BY <2>1, <3>1, FileKept
  <2>4. Reached' /\ DamageStops'
    BY <1>8, <2>1 DEF tvars, Reached, Sound, Start, DamageStops
  <2> QED BY <2>2, <2>3, <2>4 DEF IInv
<1> QED BY <1>1, <1>2, <1>3, <1>4, <1>5, <1>6, <1>7, <1>8 DEF TNext

\* The inductive invariant holds.
THEOREM SpecInv == TSpec => []IInv
<1>1. IInv /\ [TNext]_tvars => IInv'
  BY NextInv
<1> QED BY InitInv, <1>1, PTL DEF TSpec

(***************************************************************************)
(* The theorems.                                                           *)
(***************************************************************************)

\* Whatever records persist wrote, and wherever the file was cut or changed,
\* recover loads them from the first on as they were written, and nothing else.
THEOREM OnlyWrittenLoaded == TSpec => []LoadedWasWritten
<1>1. IInv => LoadedWasWritten
  BY DEF IInv, Reached, LoadedWasWritten
<1> QED BY <1>1, SpecInv, PTL

\* Recovery ends at the first record that is damaged or longer than
\* decode_record takes, and it reports the end of the file there only when the
\* file was cut between two records.
THEOREM RecoveryStopsAtDamage == TSpec => []DamageStops
<1>1. IInv => DamageStops
  BY DEF IInv
<1> QED BY <1>1, SpecInv, PTL
================================================================================
