--------------------------------- MODULE MCTrace -------------------------------
(***************************************************************************)
(* Small instances of Codec, what is inside a record, and of TraceFile,    *)
(* what is around it.  The two have no state in common; a behaviour is one *)
(* of Codec's, or one of TraceFile's while the other has not begun.        *)
(***************************************************************************)
EXTENDS Codec, TraceFile

Shape(n, o, k, u) ==
  [counts |-> {n}, options |-> {o}, kinds |-> {k}, scalars |-> {7}, uncertain |-> {u}]

\* Options and values that differ within a record.
Mixed == [counts |-> {1}, options |-> {0, 1}, kinds |-> {0, 5}, scalars |-> {7},
          uncertain |-> {FALSE}]

\* Empty and absent parts, one and two elements, every kind of value.
MCShapes ==
  { Shape(0, 0, 0, FALSE), Shape(1, 1, 0, FALSE), Shape(1, 0, 1, TRUE),
    Shape(2, 1, 2, FALSE), Shape(1, 1, 3, TRUE), Shape(2, 0, 4, TRUE),
    Shape(1, 1, 5, FALSE), Mixed }

MCCutShapes == { Shape(0, 0, 0, FALSE), Shape(1, 1, 5, FALSE) }

\* Bodies up to one token longer than decode_record takes.  A body may look
\* like a header, and a changed length may reach the checksum of the record
\* behind.
MCBodies ==
  { <<>>, << Token("w4", kRecordMagic), Token("w4", 1) >> }
  \cup {[i \in 1..n |-> Token("w8", i)] : n \in {kMaxBody, kMaxBody + 1}}

MCGarbage == 0..(kMaxBody + 2) \cup {kRecordMagic}

\* Codec has written nothing, of the struct that stands for any.
CodecWaits == value = <<>> /\ struct = "Epoch" /\ shape = Shape(0, 0, 0, FALSE)

TraceInit == Init /\ TInit

TraceNext ==
  \/ Next /\ TInit /\ UNCHANGED tvars
  \/ TNext /\ CodecWaits /\ UNCHANGED vars

TraceSpec == TraceInit /\ [][TraceNext]_<<vars, tvars>>
================================================================================
