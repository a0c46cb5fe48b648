--------------------------------- MODULE Codec ---------------------------------
(***************************************************************************)
(* The binary form of one record (src/serialize.cpp): a BinWriter writes   *)
(* it, and a BinReader reads what it is given of it, whole from a trace or *)
(* perhaps incomplete from the payload of a client's message.              *)
(*                                                                         *)
(* Bytes are abstracted to tokens, one for each integer, string, count or  *)
(* flag: a cut inside a token is seen by need() exactly as a cut before    *)
(* it.  A member is known by its place, the names that lead to it and the  *)
(* element of each vector on the way; the value that is written is chosen  *)
(* as the writer comes to it.  The functions of the code call each other;  *)
(* here the calls that are still to be made are kept, those of one struct  *)
(* in a frame, the innermost first, and each step makes one.  A string has *)
(* at most max_string_ bytes, the cap of a whole body too.                 *)
(***************************************************************************)
EXTENDS Layouts

CONSTANTS
  Shapes,        \* what a value may contain: see ShapeType
  CutShapes      \* the shapes of the bodies that may arrive incomplete

VARIABLES
  struct,        \* what the record is of
  shape,         \* what its value may contain
  todo,          \* the frames of calls still to be made
  body,          \* the tokens, of the writer and then of the reader
  value,         \* history: what the writer wrote, each with its call
  unwritten,     \* history: the members set in the value that no call writes
  pos,           \* BinReader::pos_: the next token
  got,           \* what the reader has read, each with its call
  stage          \* "write", "read", then "done" or "thrown"

vars == <<struct, shape, todo, body, value, unwritten, pos, got, stage>>

\* How many elements a vector may have, whether an option may be set, the kinds
\* of typed values, what integers and strings may be, and whether a member that
\* the binary form leaves out may be set.
ShapeType ==
  [counts : SUBSET Nat, options : SUBSET {0, 1}, kinds : SUBSET (0..5),
   scalars : SUBSET Nat, uncertain : SUBSET BOOLEAN]

ASSUME ShapesAssumption == Shapes \subseteq ShapeType /\ CutShapes \subseteq Shapes

Width(as) ==
  CASE as \in Primitive -> as
    [] as = "vec" -> "w4"
    [] OTHER -> "w1"

\* The calls of a layout, made for the struct at a place.
Calls(layout, name, index) ==
  [i \in 1..Len(layout) |->
     [name |-> name \o layout[i].name, index |-> index,
      as |-> layout[i].as, of |-> layout[i].of]]

\* An element that is no struct is written by a single call.
Single(s) == << [name |-> <<>>, as |-> s, of |-> ""] >>

\* How many frames the token of a call opens: elements, or one content.
Elements(c, n) ==
  CASE c.as = "vec" -> n
    [] c.as \in {"opt", "Value"} -> IF n = 0 THEN 0 ELSE 1
    [] OTHER -> 0

WriteElement(c, n) ==
  IF c.as = "Value" THEN write_value(n)
  ELSE IF c.of \in Primitive THEN Single(c.of) ELSE WriteLayout[c.of]
ReadElement(c, n) ==
  IF c.as = "Value" THEN read_value(n)
  ELSE IF c.of \in Primitive THEN Single(c.of) ELSE ReadLayout[c.of]

WriteFrames(c, n) ==
  [i \in 1..Elements(c, n) |-> Calls(WriteElement(c, n), c.name, Append(c.index, i))]
ReadFrames(c, n) ==
  [i \in 1..Elements(c, n) |-> Calls(ReadElement(c, n), c.name, Append(c.index, i))]

\* The call that is made next, and the frames without it.
Call(frames) == Head(Head(frames))
Rest(frames) ==
  IF Len(Head(frames)) = 1 THEN Tail(frames) ELSE <<Tail(Head(frames))>> \o Tail(frames)

\* The places that no call writes, of a struct and of those a call opens.
Unwritten(s) ==
  IF s \in Structs
    THEN Members[s] \ {WriteLayout[s][i].name : i \in 1..Len(WriteLayout[s])}
    ELSE {}
LeftOut(c, n) ==
  {[name |-> c.name \o m, index |-> Append(c.index, i)] :
     m \in Unwritten(c.of), i \in 1..Elements(c, n)}

Init ==
  /\ struct \in DOMAIN RecordKind
  /\ shape \in Shapes
  /\ todo = << Calls(WriteLayout[struct], <<>>, <<>>) >>
  /\ \E set \in [Unwritten(struct) -> shape.uncertain] :
       unwritten = {[name |-> m, index |-> <<>>] : m \in {u \in Unwritten(struct) : set[u]}}
  /\ body = <<>> /\ value = <<>> /\ got = <<>>
  /\ pos = 1
  /\ stage = "write"

\* One call of the writer, which writes n.
Write(n) ==
  /\ body' = Append(body, [width |-> Width(Call(todo).as), n |-> n])
  /\ value' = Append(value, [call |-> Call(todo), n |-> n])
  /\ todo' = WriteFrames(Call(todo), n) \o Rest(todo)
  /\ \E set \in [LeftOut(Call(todo), n) -> shape.uncertain] :
       unwritten' = unwritten \cup {u \in LeftOut(Call(todo), n) : set[u]}
  /\ UNCHANGED <<struct, shape, pos, got, stage>>

Writing(as) == stage = "write" /\ todo # <<>> /\ Call(todo).as \in as

WriteScalar == Writing(Primitive) /\ \E n \in shape.scalars : Write(n)
WriteValue == Writing({"Value"}) /\ \E k \in shape.kinds : Write(k)
WriteVec == Writing({"vec"}) /\ \E n \in shape.counts : Write(n)
WriteOpt == Writing({"opt"}) /\ \E b \in shape.options : Write(b)

\* A reader is given the first k tokens.
Open(k) ==
  /\ stage = "write" /\ todo = <<>>
  /\ k < Len(body) => shape \in CutShapes
  /\ body' = SubSeq(body, 1, k)
  /\ todo' = << Calls(ReadLayout[struct], <<>>, <<>>) >>
  /\ stage' = "read"
  /\ UNCHANGED <<struct, shape, value, unwritten, pos, got>>

\* need(), and the kind of a Value.
Readable ==
  /\ pos <= Len(body)
  /\ body[pos].width = Width(Call(todo).as)
  /\ Call(todo).as = "Value" => body[pos].n \in 0..5

\* One call of the reader.
Read(as) ==
  /\ stage = "read" /\ todo # <<>> /\ Call(todo).as \in as
  /\ Readable
  /\ got' = Append(got, [call |-> Call(todo), n |-> body[pos].n])
  /\ todo' = ReadFrames(Call(todo), body[pos].n) \o Rest(todo)
  /\ pos' = pos + 1
  /\ UNCHANGED <<struct, shape, body, value, unwritten, stage>>

ReadScalar == Read(Primitive)
ReadValue == Read({"Value"})
ReadVec == Read({"vec"})
ReadOpt == Read({"opt"})

\* SerializationError
Throw ==
  /\ stage = "read" /\ todo # <<>> /\ ~Readable
  /\ stage' = "thrown"
  /\ UNCHANGED <<struct, shape, todo, body, value, unwritten, pos, got>>

Return ==
  /\ stage = "read" /\ todo = <<>>
  /\ stage' = "done"
  /\ UNCHANGED <<struct, shape, todo, body, value, unwritten, pos, got>>

Next ==
  \/ WriteScalar \/ WriteValue \/ WriteVec \/ WriteOpt
  \/ \E k \in 0..Len(body) : Open(k)
  \/ ReadScalar \/ ReadValue \/ ReadVec \/ ReadOpt
  \/ Throw \/ Return

Spec == Init /\ [][Next]_vars

(***************************************************************************)
(* Properties.                                                             *)
(***************************************************************************)

\* What a reader has read is what the writer wrote, from the same call: every
\* member gets its own value back.  A reader returns only after the last token
\* of the writer, and throws only on a body that is incomplete.
RoundTrip ==
  /\ Len(got) <= Len(value) /\ \A p \in 1..Len(got) : got[p] = value[p]
  /\ stage = "done" => Len(got) = Len(value) /\ Len(body) = Len(value)
  /\ stage = "thrown" => Len(body) < Len(value)

\* The clock uncertainty of a claim and of a source's last sighting.
Uncertainties == {"uncertainty_ns", "last_seen.uncertainty_ns"}
LastOf(name) == name[Len(name)]

\* The members of what a call writes each element of.
MembersOf(s) ==
  IF s \in Structs THEN {m \in Members[s] : LastOf(m) \notin Uncertainties} ELSE {<<>>}
Has(leaves, name, index) ==
  \E p \in 1..Len(leaves) : leaves[p].call.name = name /\ leaves[p].call.index = index

\* A record that is read has every member of its struct, every element that a
\* count announced and every member of each, but for the uncertainties.
EveryMember ==
  stage = "done" =>
    /\ \A m \in MembersOf(struct) : Has(got, m, <<>>)
    /\ \A p \in 1..Len(got) : LET c == got[p].call IN
         c.as \in {"vec", "opt"} =>
           \A i \in 1..Elements(c, got[p].n), m \in MembersOf(c.of) :
             Has(got, c.name \o m, Append(c.index, i))

\* to_json lists the members that are not omitted, at their default when
\* nothing has set them.
Shown(name) == LastOf(name) \notin JsonOmits
to_json(leaves, others) ==
  [ members |-> {leaves[p] : p \in {q \in 1..Len(leaves) : Shown(leaves[q].call.name)}},
    others |-> {u \in others : Shown(u.name)} ]

\* The canonical digest of a record is the same before it is written and after
\* it is read, exactly when no claim in it carries an uncertainty.
DigestStable ==
  stage = "done" =>
    ((to_json(value, unwritten) = to_json(got, {}))
       <=> \A u \in unwritten : LastOf(u.name) # "uncertainty_ns")
================================================================================
