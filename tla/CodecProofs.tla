------------------------------ MODULE CodecProofs ------------------------------
(***************************************************************************)
(* What a reader gets back of what a writer wrote, for every record of     *)
(* every struct that persist writes: any number of elements in any vector, *)
(* any option set or not, any kind of value anywhere.                      *)
(***************************************************************************)
EXTENDS Codec, SequenceTheorems, TLAPS

(***************************************************************************)
(* The layouts: that they are sequences of calls the model knows, and that *)
(* they have the members of their structs.                                 *)
(***************************************************************************)

\* The names of members.
Label ==
  {"architecture", "attempt_id", "benefit", "candidate_id", "candidate_set",
   "candidates", "capabilities", "capacity", "classification", "cls",
   "collection_error", "complete", "confidence", "content", "coordinator_epoch",
   "cost", "cost_components", "costs", "decision_id", "denominator", "depth",
   "derivation", "detail", "determinism", "device_id", "disposition", "duration_ns",
   "endpoint", "epoch", "error", "expected_wait_ns", "field", "fields", "free_bytes",
   "generation", "hard_constraints", "head_wait_ns", "health", "kind", "label",
   "last_seen.mono", "last_seen.uncertainty_ns", "last_seen.wall", "lifecycle",
   "locality", "memory", "memory_used_bytes", "method", "missing_fields", "name",
   "namespace_id", "node_id", "normalized_field", "numerator",
   "observation_generation", "observation_id", "oldest_age_ns", "outcome",
   "placement_generation", "policy_generation", "policy_weight",
   "predicted_duration_ns", "present", "pressure", "pressure_ratio", "provenance",
   "queue", "queue_name", "raw_field", "reconstructed", "rejected_candidates",
   "rejection_reason", "rejection_reason_text", "rejection_reasons", "reliability",
   "request_id", "requirement_text", "revision", "score_components",
   "selected_candidate", "selected_reason", "soft_preferences", "source_chain",
   "source_generation", "source_id", "source_type", "start_delay_ns", "state",
   "state_key", "synthetic", "tenant_id", "text", "tie_break", "tie_break_reason",
   "timestamp.mono", "timestamp.uncertainty_ns", "timestamp.wall", "total_bytes",
   "total_cost", "type", "uncertainty_ns", "used_bytes", "value", "worker_boot",
   "workload_id"}

\* What a vector or an option may have elements of, and the calls of a layout.
Kinds == Primitive \cup Structs
Entry ==
  {e \in [name : Seq(Label), as : Primitive \cup {"Value", "vec", "opt"},
          of : {""} \cup Kinds] :
     e.as \in {"vec", "opt"} => e.of \in Kinds}

\* A layout with calls for the members in M.
Fits(a, M) ==
  /\ a \in Seq(Entry) /\ a # <<>>
  /\ \A m \in M : \E i \in 1..Len(a) : a[i].name = m

\* A sequence of one element.
LEMMA OneTuple ==
  ASSUME NEW S, NEW x \in S
  PROVE  <<x>> \in Seq(S) /\ Len(<<x>>) = 1 /\ <<x>>[1] = x
OBVIOUS

\* A layout with calls for some members has calls for fewer of them.
LEMMA FitsFewer ==
  ASSUME NEW a, NEW M, NEW N, Fits(a, M), N \subseteq M
  PROVE  Fits(a, N)
BY DEF Fits

\* Two layouts, one after the other.
LEMMA FitsConcat ==
  ASSUME NEW a, NEW b, NEW M, NEW N, Fits(a, M), Fits(b, N)
  PROVE  Fits(a \o b, M \cup N)
<1>1. a \in Seq(Entry) /\ b \in Seq(Entry) /\ Len(a) \in Nat \ {0} /\ Len(b) \in Nat
  BY DEF Fits
<1>2. /\ a \o b \in Seq(Entry) /\ Len(a \o b) = Len(a) + Len(b)
      /\ \A i \in 1..(Len(a) + Len(b)) : (a \o b)[i] = IF i <= Len(a) THEN a[i] ELSE b[i - Len(a)]
  BY <1>1
<1>3. a \o b # <<>>
  BY <1>1, <1>2
<1>4. ASSUME NEW m \in M PROVE \E i \in 1..Len(a \o b) : (a \o b)[i].name = m
  <2>1. PICK i \in 1..Len(a) : a[i].name = m
    BY DEF Fits
  <2>2. i \in 1..Len(a \o b) /\ (a \o b)[i] = a[i]
    BY <1>1, <1>2
  <2> QED BY <2>1, <2>2
<1>5. ASSUME NEW m \in N PROVE \E i \in 1..Len(a \o b) : (a \o b)[i].name = m
  <2>1. PICK i \in 1..Len(b) : b[i].name = m
    BY DEF Fits
  <2>2. Len(a) + i \in 1..Len(a \o b) /\ (a \o b)[Len(a) + i] = b[i]
    BY <1>1, <1>2
  <2> QED BY <2>1, <2>2
<1> QED BY <1>2, <1>3, <1>4, <1>5 DEF Fits

\* Calls of the same kind for several members.
LEMMA FitsEach ==
  ASSUME NEW c \in Primitive, NEW names \in Seq(Label), names # <<>>
  PROVE  Fits(Each(c, names), Named({names[i] : i \in 1..Len(names)}))
<1> DEFINE e == Each(c, names)
<1>1. Len(names) \in Nat \ {0} /\ \A i \in 1..Len(names) : names[i] \in Label
  OBVIOUS
<1>2. \A i \in 1..Len(names) : [name |-> <<names[i]>>, as |-> c, of |-> ""] \in Entry
  BY <1>1, OneTuple DEF Entry, Primitive
<1>3. e \in [1..Len(names) -> Entry]
  BY <1>2 DEF Each
<1>4. e \in Seq(Entry) /\ Len(e) = Len(names)
  BY <1>1, <1>3
<1>5. e # <<>>
  BY <1>1, <1>4
<1>6. \A i \in 1..Len(names) : e[i].name = <<names[i]>>
  BY DEF Each
<1> QED BY <1>4, <1>5, <1>6 DEF Fits, Named

\* Calls of one kind for one member.
LEMMA Fits1 ==
  ASSUME NEW x1 \in Label
  PROVE  LET names == <<x1>>
             members == Named({x1})
         IN /\ Fits(U8(names), members) /\ Fits(U32(names), members)
            /\ Fits(U64(names), members) /\ Fits(Str(names), members)
<1> DEFINE names == <<x1>>
<1>1. names \in Seq(Label) /\ Len(names) = 1 /\ names # <<>>
  OBVIOUS
<1>2. {names[i] : i \in 1..Len(names)} = {x1}
  BY <1>1
<1>3. \A c \in Primitive : Fits(Each(c, names), Named({names[i] : i \in 1..Len(names)}))
  BY <1>1, FitsEach
<1> HIDE DEF names
<1>4. /\ Fits(U8(names), Named({x1}))
      /\ Fits(U32(names), Named({x1}))
      /\ Fits(U64(names), Named({x1}))
      /\ Fits(Str(names), Named({x1}))
  BY <1>2, <1>3 DEF U8, U32, U64, Str, Primitive
<1> QED BY <1>4 DEF names

\* Calls of one kind for two members.
LEMMA Fits2 ==
  ASSUME NEW x1 \in Label, NEW x2 \in Label
  PROVE  LET names == <<x1, x2>>
             members == Named({x1, x2})
         IN /\ Fits(U8(names), members) /\ Fits(U32(names), members)
            /\ Fits(U64(names), members) /\ Fits(Str(names), members)
<1> DEFINE names == <<x1, x2>>
<1>1. names \in Seq(Label) /\ Len(names) = 2 /\ names # <<>>
  OBVIOUS
<1>2. {names[i] : i \in 1..Len(names)} = {x1, x2}
  BY <1>1
<1>3. \A c \in Primitive : Fits(Each(c, names), Named({names[i] : i \in 1..Len(names)}))
  BY <1>1, FitsEach
<1> HIDE DEF names
<1>4. /\ Fits(U8(names), Named({x1, x2}))
      /\ Fits(U32(names), Named({x1, x2}))
      /\ Fits(U64(names), Named({x1, x2}))
      /\ Fits(Str(names), Named({x1, x2}))
  BY <1>2, <1>3 DEF U8, U32, U64, Str, Primitive
<1> QED BY <1>4 DEF names

\* Calls of one kind for three members.
LEMMA Fits3 ==
  ASSUME NEW x1 \in Label, NEW x2 \in Label, NEW x3 \in Label
  PROVE  LET names == <<x1, x2, x3>>
             members == Named({x1, x2, x3})
         IN /\ Fits(U8(names), members) /\ Fits(U32(names), members)
            /\ Fits(U64(names), members) /\ Fits(Str(names), members)
<1> DEFINE names == <<x1, x2, x3>>
<1>1. names \in Seq(Label) /\ Len(names) = 3 /\ names # <<>>
  OBVIOUS
<1>2. {names[i] : i \in 1..Len(names)} = {x1, x2, x3}
  BY <1>1
<1>3. \A c \in Primitive : Fits(Each(c, names), Named({names[i] : i \in 1..Len(names)}))
  BY <1>1, FitsEach
<1> HIDE DEF names
<1>4. /\ Fits(U8(names), Named({x1, x2, x3}))
      /\ Fits(U32(names), Named({x1, x2, x3}))
      /\ Fits(U64(names), Named({x1, x2, x3}))
      /\ Fits(Str(names), Named({x1, x2, x3}))
  BY <1>2, <1>3 DEF U8, U32, U64, Str, Primitive
<1> QED BY <1>4 DEF names

\* Calls of one kind for four members.
LEMMA Fits4 ==
  ASSUME NEW x1 \in Label, NEW x2 \in Label, NEW x3 \in Label, NEW x4 \in Label
  PROVE  LET names == <<x1, x2, x3, x4>>
             members == Named({x1, x2, x3, x4})
         IN /\ Fits(U8(names), members) /\ Fits(U32(names), members)
            /\ Fits(U64(names), members) /\ Fits(Str(names), members)
<1> DEFINE names == <<x1, x2, x3, x4>>
<1>1. names \in Seq(Label) /\ Len(names) = 4 /\ names # <<>>
  OBVIOUS
<1>2. {names[i] : i \in 1..Len(names)} = {x1, x2, x3, x4}
  BY <1>1
<1>3. \A c \in Primitive : Fits(Each(c, names), Named({names[i] : i \in 1..Len(names)}))
  BY <1>1, FitsEach
<1> HIDE DEF names
<1>4. /\ Fits(U8(names), Named({x1, x2, x3, x4}))
      /\ Fits(U32(names), Named({x1, x2, x3, x4}))
      /\ Fits(U64(names), Named({x1, x2, x3, x4}))
      /\ Fits(Str(names), Named({x1, x2, x3, x4}))
  BY <1>2, <1>3 DEF U8, U32, U64, Str, Primitive
<1> QED BY <1>4 DEF names

\* Calls of one kind for five members.
LEMMA Fits5 ==
  ASSUME NEW x1 \in Label, NEW x2 \in Label, NEW x3 \in Label, NEW x4 \in Label,
         NEW x5 \in Label
  PROVE  LET names == <<x1, x2, x3, x4, x5>>
             members == Named({x1, x2, x3, x4, x5})
         IN /\ Fits(U8(names), members) /\ Fits(U32(names), members)
            /\ Fits(U64(names), members) /\ Fits(Str(names), members)
<1> DEFINE names == <<x1, x2, x3, x4, x5>>
<1>1. names \in Seq(Label) /\ Len(names) = 5 /\ names # <<>>
  OBVIOUS
<1>2. {names[i] : i \in 1..Len(names)} = {x1, x2, x3, x4, x5}
  BY <1>1
<1>3. \A c \in Primitive : Fits(Each(c, names), Named({names[i] : i \in 1..Len(names)}))
  BY <1>1, FitsEach
<1> HIDE DEF names
<1>4. /\ Fits(U8(names), Named({x1, x2, x3, x4, x5}))
      /\ Fits(U32(names), Named({x1, x2, x3, x4, x5}))
      /\ Fits(U64(names), Named({x1, x2, x3, x4, x5}))
      /\ Fits(Str(names), Named({x1, x2, x3, x4, x5}))
  BY <1>2, <1>3 DEF U8, U32, U64, Str, Primitive
<1> QED BY <1>4 DEF names

\* Calls of one kind for twelve members.
LEMMA Fits12 ==
  ASSUME NEW x1 \in Label, NEW x2 \in Label, NEW x3 \in Label, NEW x4 \in Label,
         NEW x5 \in Label, NEW x6 \in Label, NEW x7 \in Label, NEW x8 \in Label,
         NEW x9 \in Label, NEW x10 \in Label, NEW x11 \in Label, NEW x12 \in Label
  PROVE  LET names == <<x1, x2, x3, x4, x5, x6, x7, x8, x9, x10, x11, x12>>
             members == Named({x1, x2, x3, x4, x5, x6, x7, x8, x9, x10, x11, x12})
         IN /\ Fits(U8(names), members) /\ Fits(U32(names), members)
            /\ Fits(U64(names), members) /\ Fits(Str(names), members)
<1> DEFINE names == <<x1, x2, x3, x4, x5, x6, x7, x8, x9, x10, x11, x12>>
<1>1. names \in Seq(Label) /\ Len(names) = 12 /\ names # <<>>
  OBVIOUS
<1>2. {names[i] : i \in 1..Len(names)} = {x1, x2, x3, x4, x5, x6, x7, x8, x9, x10, x11, x12}
  BY <1>1
<1>3. \A c \in Primitive : Fits(Each(c, names), Named({names[i] : i \in 1..Len(names)}))
  BY <1>1, FitsEach
<1> HIDE DEF names
<1>4. /\ Fits(U8(names), Named({x1, x2, x3, x4, x5, x6, x7, x8, x9, x10, x11, x12}))
      /\ Fits(U32(names), Named({x1, x2, x3, x4, x5, x6, x7, x8, x9, x10, x11, x12}))
      /\ Fits(U64(names), Named({x1, x2, x3, x4, x5, x6, x7, x8, x9, x10, x11, x12}))
      /\ Fits(Str(names), Named({x1, x2, x3, x4, x5, x6, x7, x8, x9, x10, x11, x12}))
  BY <1>2, <1>3 DEF U8, U32, U64, Str, Primitive
<1> QED BY <1>4 DEF names

\* Calls of one kind for fourteen members.
LEMMA Fits14 ==
  ASSUME NEW x1 \in Label, NEW x2 \in Label, NEW x3 \in Label, NEW x4 \in Label,
         NEW x5 \in Label, NEW x6 \in Label, NEW x7 \in Label, NEW x8 \in Label,
         NEW x9 \in Label, NEW x10 \in Label, NEW x11 \in Label, NEW x12 \in Label,
         NEW x13 \in Label, NEW x14 \in Label
  PROVE  LET names == <<x1, x2, x3, x4, x5, x6, x7, x8, x9, x10, x11, x12, x13, x14>>
             members == Named({x1, x2, x3, x4, x5, x6, x7, x8, x9, x10, x11, x12, x13, x14})
         IN /\ Fits(U8(names), members) /\ Fits(U32(names), members)
            /\ Fits(U64(names), members) /\ Fits(Str(names), members)
<1> DEFINE names == <<x1, x2, x3, x4, x5, x6, x7, x8, x9, x10, x11, x12, x13, x14>>
<1>1. names \in Seq(Label) /\ Len(names) = 14 /\ names # <<>>
  OBVIOUS
<1>2. {names[i] : i \in 1..Len(names)} = {x1, x2, x3, x4, x5, x6, x7, x8, x9, x10, x11,
                                          x12, x13, x14}
  BY <1>1
<1>3. \A c \in Primitive : Fits(Each(c, names), Named({names[i] : i \in 1..Len(names)}))
  BY <1>1, FitsEach
<1> HIDE DEF names
<1>4. /\ Fits(U8(names), Named({x1, x2, x3, x4, x5, x6, x7, x8, x9, x10, x11, x12, x13, x14}))
      /\ Fits(U32(names), Named({x1, x2, x3, x4, x5, x6, x7, x8, x9, x10, x11, x12, x13,
                                 x14}))
      /\ Fits(U64(names), Named({x1, x2, x3, x4, x5, x6, x7, x8, x9, x10, x11, x12, x13,
                                 x14}))
      /\ Fits(Str(names), Named({x1, x2, x3, x4, x5, x6, x7, x8, x9, x10, x11, x12, x13,
                                 x14}))
  BY <1>2, <1>3 DEF U8, U32, U64, Str, Primitive
<1> QED BY <1>4 DEF names

\* A call that opens a vector, an option or a typed value.
LEMMA FitsOne ==
  ASSUME NEW n \in Label, NEW s \in Kinds
  PROVE  /\ Fits(Vec(n, s), Named({n}))
         /\ Fits(Opt(n, s), Named({n}))
         /\ Fits(Val(n), Named({n}))
<1>1. ASSUME NEW e \in Entry, e.name = <<n>> PROVE Fits(<<e>>, Named({n}))
  BY <1>1, OneTuple DEF Fits, Named
<1>2. /\ [name |-> <<n>>, as |-> "vec", of |-> s] \in Entry
      /\ [name |-> <<n>>, as |-> "opt", of |-> s] \in Entry
      /\ [name |-> <<n>>, as |-> "Value", of |-> ""] \in Entry
  BY OneTuple DEF Entry
<1> QED BY <1>1, <1>2 DEF Vec, Opt, Val

\* The calls of a member that is a struct.
LEMMA FitsIn ==
  ASSUME NEW n \in Label, NEW a, NEW M, Fits(a, M)
  PROVE  Fits(In(n, a), Inside(n, M))
<1> DEFINE e == In(n, a)
<1>1. Len(a) \in Nat \ {0} /\ \A i \in 1..Len(a) : a[i] \in Entry
  BY DEF Fits
<1>2. ASSUME NEW i \in 1..Len(a)
      PROVE  [name |-> <<n>> \o a[i].name, as |-> a[i].as, of |-> a[i].of] \in Entry
  <2>1. <<n>> \in Seq(Label) /\ a[i].name \in Seq(Label)
    BY <1>1, OneTuple DEF Entry
  <2>2. <<n>> \o a[i].name \in Seq(Label)
    BY <2>1
  <2> QED BY <1>1, <2>2 DEF Entry
<1>3. e \in [1..Len(a) -> Entry]
  BY <1>2 DEF In
<1>4. e \in Seq(Entry) /\ Len(e) = Len(a)
  BY <1>1, <1>3
<1>5. e # <<>>
  BY <1>1, <1>4
<1>6. \A i \in 1..Len(a) : e[i].name = <<n>> \o a[i].name
  BY DEF In
<1>7. ASSUME NEW m \in Inside(n, M) PROVE \E i \in 1..Len(e) : e[i].name = m
  <2>1. PICK k \in M : m = <<n>> \o k
    BY DEF Inside
  <2>2. PICK i \in 1..Len(a) : a[i].name = k
    BY DEF Fits
  <2> QED BY <2>1, <2>2, <1>4, <1>6
<1> QED BY <1>4, <1>5, <1>7 DEF Fits

\* The members of a struct but for the uncertainties.
Kept(M) == {m \in M : LastOf(m) \notin Uncertainties}
Place == Seq(Label) \ {<<>>}

\* The members that are kept of some, given by their names.
LEMMA KeptNamed ==
  ASSUME NEW S
  PROVE  Kept(Named(S)) = Named(S \ Uncertainties)
<1>1. \A x : LastOf(<<x>>) = x
  BY DEF LastOf
<1> QED BY <1>1 DEF Kept, Named

\* A name is a place.
LEMMA NamedPlaces ==
  ASSUME NEW S \in SUBSET Label
  PROVE  Named(S) \subseteq Place
<1>1. \A x \in Label : <<x>> \in Seq(Label) /\ <<x>> # <<>>
  BY OneTuple
<1> QED BY <1>1 DEF Named, Place

\* The last name of a place within another place.
LEMMA LastOfConcat ==
  ASSUME NEW S, NEW a \in Seq(S), NEW m \in Seq(S), m # <<>>
  PROVE  a \o m \in Seq(S) /\ a \o m # <<>> /\ LastOf(a \o m) = LastOf(m)
<1>1. Len(a) \in Nat /\ Len(m) \in Nat \ {0}
  OBVIOUS
<1>2. /\ a \o m \in Seq(S) /\ Len(a \o m) = Len(a) + Len(m)
      /\ \A i \in 1..(Len(a) + Len(m)) : (a \o m)[i] = IF i <= Len(a) THEN a[i] ELSE m[i - Len(a)]
  BY <1>1
<1>3. Len(a) + Len(m) \in 1..(Len(a) + Len(m)) /\ ~(Len(a) + Len(m) <= Len(a))
  BY <1>1
<1>4. (a \o m)[Len(a) + Len(m)] = m[Len(a) + Len(m) - Len(a)] /\ Len(a) + Len(m) - Len(a) = Len(m)
  BY <1>1, <1>2, <1>3
<1>5. a \o m # <<>>
  BY <1>1, <1>2
<1> QED BY <1>2, <1>4, <1>5 DEF LastOf

\* A place within a member is a place, and kept when it is kept in the member.
LEMMA InsidePlaces ==
  ASSUME NEW n \in Label, NEW M \in SUBSET Place
  PROVE  Inside(n, M) \subseteq Place /\ Kept(Inside(n, M)) = Inside(n, Kept(M))
<1>1. <<n>> \in Seq(Label)
  BY OneTuple
<1>2. \A m \in M : <<n>> \o m \in Place /\ LastOf(<<n>> \o m) = LastOf(m)
  BY <1>1, LastOfConcat DEF Place
<1> QED BY <1>2 DEF Inside, Kept

(***************************************************************************)
(* Each write_ function: one step for each group of its calls, and what    *)
(* they add up to against the members of its struct.                       *)
(***************************************************************************)

\* write_provenance has a call for every member but the uncertainties.
LEMMA Layout_provenance ==
  /\ Fits(write_provenance, Kept(ClaimMembers.Provenance))
  /\ ClaimMembers.Provenance \subseteq Place
<1> DEFINE own == {"source_id", "source_generation", "source_type", "method",
                    "reliability", "classification", "uncertainty_ns", "worker_boot",
                    "coordinator_epoch", "collection_error", "normalized_field",
                    "raw_field", "timestamp.wall", "timestamp.mono",
                    "timestamp.uncertainty_ns"}
<1>0. /\ own \subseteq Label /\ "source_id" \in Label /\ "source_generation" \in Label
      /\ "source_type" \in Label /\ "method" \in Label /\ "reliability" \in Label
      /\ "classification" \in Label /\ "timestamp.wall" \in Label
      /\ "timestamp.mono" \in Label /\ "timestamp.uncertainty_ns" \in Label
      /\ "worker_boot" \in Label /\ "coordinator_epoch" \in Label
      /\ "collection_error" \in Label /\ "normalized_field" \in Label
      /\ "raw_field" \in Label
  BY DEF Label
<1>1. Fits(U64(<<"source_id", "source_generation">>),
          Named({"source_id", "source_generation"}))
  BY <1>0, Fits2
<1>2. Fits(U8(<<"source_type", "method", "reliability", "classification">>),
          Named({"source_type", "method", "reliability", "classification"}))
  BY <1>0, Fits4
<1>3. Fits(U64(<<"timestamp.wall", "timestamp.mono", "timestamp.uncertainty_ns",
                 "worker_boot",
                 "coordinator_epoch">>),
          Named({"timestamp.wall", "timestamp.mono", "timestamp.uncertainty_ns",
                 "worker_boot",
                  "coordinator_epoch"}))
  BY <1>0, Fits5
<1>4. Fits(Str(<<"collection_error", "normalized_field", "raw_field">>),
          Named({"collection_error", "normalized_field", "raw_field"}))
  BY <1>0, Fits3
<1> DEFINE M == Named({"source_id", "source_generation"})
              \cup Named({"source_type", "method", "reliability", "classification"})
              \cup Named({"timestamp.wall", "timestamp.mono", "timestamp.uncertainty_ns",
                          "worker_boot", "coordinator_epoch"})
              \cup Named({"collection_error", "normalized_field", "raw_field"})
<1>5. Fits(write_provenance, M)
  BY <1>1, <1>2, <1>3, <1>4, FitsConcat DEF write_provenance
<1>6. ClaimMembers.Provenance = Named(own)
  BY DEF ClaimMembers
<1>7. Named(own \ Uncertainties) \subseteq M
  BY DEF Named, Uncertainties
<1> HIDE DEF own
<1>8. ClaimMembers.Provenance \subseteq Place
  BY <1>0, <1>6, NamedPlaces
<1>9. Kept(ClaimMembers.Provenance) \subseteq M
  BY <1>6, <1>7, KeptNamed
<1> HIDE DEF M
<1> QED BY <1>5, <1>8, <1>9, FitsFewer

\* write_confidence has a call for every member but the uncertainties.
LEMMA Layout_confidence ==
  /\ Fits(write_confidence, Kept(ClaimMembers.Confidence))
  /\ ClaimMembers.Confidence \subseteq Place
<1> DEFINE own == {"cls", "numerator", "denominator", "derivation"}
<1>0. /\ own \subseteq Label /\ "cls" \in Label /\ "numerator" \in Label
      /\ "denominator" \in Label /\ "derivation" \in Label
  BY DEF Label
<1>1. Fits(U8(<<"cls">>), Named({"cls"}))
  BY <1>0, Fits1
<1>2. Fits(U64(<<"numerator", "denominator">>), Named({"numerator", "denominator"}))
  BY <1>0, Fits2
<1>3. Fits(Str(<<"derivation">>), Named({"derivation"}))
  BY <1>0, Fits1
<1> DEFINE M == Named({"cls"}) \cup Named({"numerator",
                       "denominator"}) \cup Named({"derivation"})
<1>4. Fits(write_confidence, M)
  BY <1>1, <1>2, <1>3, FitsConcat DEF write_confidence
<1>5. ClaimMembers.Confidence = Named(own)
  BY DEF ClaimMembers
<1>6. Named(own \ Uncertainties) \subseteq M
  BY DEF Named, Uncertainties
<1> HIDE DEF own
<1>7. ClaimMembers.Confidence \subseteq Place
  BY <1>0, <1>5, NamedPlaces
<1>8. Kept(ClaimMembers.Confidence) \subseteq M
  BY <1>5, <1>6, KeptNamed
<1> HIDE DEF M
<1> QED BY <1>4, <1>7, <1>8, FitsFewer

\* write_measurement has a call for every member but the uncertainties.
LEMMA Layout_measurement ==
  /\ Fits(write_measurement, Kept(ReportMembers.Measurement))
  /\ ReportMembers.Measurement \subseteq Place
<1> DEFINE own == {"normalized_field", "raw_field", "value", "classification"}
<1>0. /\ own \subseteq Label /\ "normalized_field" \in Label /\ "raw_field" \in Label
      /\ "value" \in Label /\ "classification" \in Label /\ "provenance" \in Label
  BY DEF Label
<1>1. Fits(Str(<<"normalized_field", "raw_field">>),
          Named({"normalized_field", "raw_field"}))
  BY <1>0, Fits2
<1>2. Fits(Val("value"), Named({"value"}))
  BY <1>0, FitsOne DEF Kinds, Primitive, Structs
<1>3. Fits(U8(<<"classification">>), Named({"classification"}))
  BY <1>0, Fits1
<1>4. Fits(In("provenance", write_provenance),
          Inside("provenance", Kept(ClaimMembers.Provenance)))
  BY <1>0, FitsIn, Layout_provenance
<1> DEFINE M == Named({"normalized_field", "raw_field"}) \cup Named({"value"})
              \cup Named({"classification"})
              \cup Inside("provenance", Kept(ClaimMembers.Provenance))
<1>5. Fits(write_measurement, M)
  BY <1>1, <1>2, <1>3, <1>4, FitsConcat DEF write_measurement
<1>6. ReportMembers.Measurement = Named(own)
         \cup Inside("provenance", ClaimMembers.Provenance)
  BY DEF ReportMembers, Claim
<1>7. Named(own \ Uncertainties) \subseteq M
  BY DEF Named, Uncertainties
<1> HIDE DEF own
<1>8. /\ Inside("provenance", ClaimMembers.Provenance) \subseteq Place
      /\ Kept(Inside("provenance", ClaimMembers.Provenance)) =
           Inside("provenance", Kept(ClaimMembers.Provenance))
  BY <1>0, InsidePlaces, Layout_provenance
<1>9. ReportMembers.Measurement \subseteq Place
  BY <1>0, <1>6, NamedPlaces, <1>8
<1>10. Kept(ReportMembers.Measurement) \subseteq Kept(Named(own))
         \cup Kept(Inside("provenance", ClaimMembers.Provenance))
  BY <1>6 DEF Kept
<1>11. Kept(ReportMembers.Measurement) \subseteq M
  BY <1>7, <1>10, KeptNamed, <1>8
<1> HIDE DEF M
<1> QED BY <1>5, <1>9, <1>11, FitsFewer

\* write_source_descriptor has a call for every member but the uncertainties.
LEMMA Layout_source_descriptor ==
  /\ Fits(write_source_descriptor, Kept(ReportMembers.SourceDescriptor))
  /\ ReportMembers.SourceDescriptor \subseteq Place
<1> DEFINE own == {"source_id", "generation", "type", "name", "reliability", "endpoint",
                    "synthetic", "last_seen.wall", "last_seen.mono",
                    "last_seen.uncertainty_ns"}
<1>0. /\ own \subseteq Label /\ "source_id" \in Label /\ "generation" \in Label
      /\ "type" \in Label /\ "name" \in Label /\ "reliability" \in Label
      /\ "endpoint" \in Label /\ "last_seen.wall" \in Label
      /\ "last_seen.mono" \in Label /\ "synthetic" \in Label
  BY DEF Label
<1>1. Fits(U64(<<"source_id", "generation">>), Named({"source_id", "generation"}))
  BY <1>0, Fits2
<1>2. Fits(U8(<<"type">>), Named({"type"}))
  BY <1>0, Fits1
<1>3. Fits(Str(<<"name">>), Named({"name"}))
  BY <1>0, Fits1
<1>4. Fits(U8(<<"reliability">>), Named({"reliability"}))
  BY <1>0, Fits1
<1>5. Fits(Str(<<"endpoint">>), Named({"endpoint"}))
  BY <1>0, Fits1
<1>6. Fits(U64(<<"last_seen.wall", "last_seen.mono">>),
          Named({"last_seen.wall", "last_seen.mono"}))
  BY <1>0, Fits2
<1>7. Fits(U8(<<"synthetic">>), Named({"synthetic"}))
  BY <1>0, Fits1
<1> DEFINE M == Named({"source_id", "generation"}) \cup Named({"type"}) \cup Named({"name"})
              \cup Named({"reliability"}) \cup Named({"endpoint"})
              \cup Named({"last_seen.wall", "last_seen.mono"}) \cup Named({"synthetic"})
<1>8. Fits(write_source_descriptor, M)
  BY <1>1, <1>2, <1>3, <1>4, <1>5, <1>6, <1>7, FitsConcat DEF write_source_descriptor
<1>9. ReportMembers.SourceDescriptor = Named(own)
  BY DEF ReportMembers
<1>10. Named(own \ Uncertainties) \subseteq M
  BY DEF Named, Uncertainties
<1> HIDE DEF own
<1>11. ReportMembers.SourceDescriptor \subseteq Place
  BY <1>0, <1>9, NamedPlaces
<1>12. Kept(ReportMembers.SourceDescriptor) \subseteq M
  BY <1>9, <1>10, KeptNamed
<1> HIDE DEF M
<1> QED BY <1>8, <1>11, <1>12, FitsFewer

\* write_queue_descriptor has a call for every member but the uncertainties.
LEMMA Layout_queue_descriptor ==
  /\ Fits(write_queue_descriptor, Kept(DescriptorMembers.QueueDescriptor))
  /\ DescriptorMembers.QueueDescriptor \subseteq Place
<1> DEFINE own == {"queue_name", "state", "depth", "oldest_age_ns", "head_wait_ns",
                    "expected_wait_ns", "capacity"}
<1>0. /\ own \subseteq Label /\ "queue_name" \in Label /\ "state" \in Label
      /\ "depth" \in Label /\ "oldest_age_ns" \in Label /\ "head_wait_ns" \in Label
      /\ "expected_wait_ns" \in Label /\ "capacity" \in Label
  BY DEF Label
<1>1. Fits(Str(<<"queue_name">>), Named({"queue_name"}))
  BY <1>0, Fits1
<1>2. Fits(U8(<<"state">>), Named({"state"}))
  BY <1>0, Fits1
<1>3. Fits(U32(<<"depth">>), Named({"depth"}))
  BY <1>0, Fits1
<1>4. Fits(U64(<<"oldest_age_ns", "head_wait_ns", "expected_wait_ns">>),
          Named({"oldest_age_ns", "head_wait_ns", "expected_wait_ns"}))
  BY <1>0, Fits3
<1>5. Fits(U32(<<"capacity">>), Named({"capacity"}))
  BY <1>0, Fits1
<1> DEFINE M == Named({"queue_name"}) \cup Named({"state"}) \cup Named({"depth"})
              \cup Named({"oldest_age_ns", "head_wait_ns", "expected_wait_ns"})
              \cup Named({"capacity"})
<1>6. Fits(write_queue_descriptor, M)
  BY <1>1, <1>2, <1>3, <1>4, <1>5, FitsConcat DEF write_queue_descriptor
<1>7. DescriptorMembers.QueueDescriptor = Named(own)
  BY DEF DescriptorMembers
<1>8. Named(own \ Uncertainties) \subseteq M
  BY DEF Named, Uncertainties
<1> HIDE DEF own
<1>9. DescriptorMembers.QueueDescriptor \subseteq Place
  BY <1>0, <1>7, NamedPlaces
<1>10. Kept(DescriptorMembers.QueueDescriptor) \subseteq M
  BY <1>7, <1>8, KeptNamed
<1> HIDE DEF M
<1> QED BY <1>6, <1>9, <1>10, FitsFewer

\* write_memory_descriptor has a call for every member but the uncertainties.
LEMMA Layout_memory_descriptor ==
  /\ Fits(write_memory_descriptor, Kept(DescriptorMembers.MemoryDescriptor))
  /\ DescriptorMembers.MemoryDescriptor \subseteq Place
<1> DEFINE own == {"total_bytes", "free_bytes", "used_bytes", "pressure",
                    "pressure_ratio"}
<1>0. /\ own \subseteq Label /\ "total_bytes" \in Label /\ "free_bytes" \in Label
      /\ "used_bytes" \in Label /\ "pressure" \in Label /\ "pressure_ratio" \in Label
  BY DEF Label
<1>1. Fits(U64(<<"total_bytes", "free_bytes", "used_bytes">>),
          Named({"total_bytes", "free_bytes", "used_bytes"}))
  BY <1>0, Fits3
<1>2. Fits(U8(<<"pressure">>), Named({"pressure"}))
  BY <1>0, Fits1
<1>3. Fits(U64(<<"pressure_ratio">>), Named({"pressure_ratio"}))
  BY <1>0, Fits1
<1> DEFINE M == Named({"total_bytes", "free_bytes", "used_bytes"}) \cup Named({"pressure"})
              \cup Named({"pressure_ratio"})
<1>4. Fits(write_memory_descriptor, M)
  BY <1>1, <1>2, <1>3, FitsConcat DEF write_memory_descriptor
<1>5. DescriptorMembers.MemoryDescriptor = Named(own)
  BY DEF DescriptorMembers
<1>6. Named(own \ Uncertainties) \subseteq M
  BY DEF Named, Uncertainties
<1> HIDE DEF own
<1>7. DescriptorMembers.MemoryDescriptor \subseteq Place
  BY <1>0, <1>5, NamedPlaces
<1>8. Kept(DescriptorMembers.MemoryDescriptor) \subseteq M
  BY <1>5, <1>6, KeptNamed
<1> HIDE DEF M
<1> QED BY <1>4, <1>7, <1>8, FitsFewer

\* write_locality_descriptor has a call for every member but the uncertainties.
LEMMA Layout_locality_descriptor ==
  /\ Fits(write_locality_descriptor, Kept(DescriptorMembers.LocalityDescriptor))
  /\ DescriptorMembers.LocalityDescriptor \subseteq Place
<1> DEFINE own == {"type", "state_key", "device_id", "node_id", "present", "benefit"}
<1>0. /\ own \subseteq Label /\ "type" \in Label /\ "state_key" \in Label
      /\ "device_id" \in Label /\ "node_id" \in Label /\ "present" \in Label
      /\ "benefit" \in Label
  BY DEF Label
<1>1. Fits(U8(<<"type">>), Named({"type"}))
  BY <1>0, Fits1
<1>2. Fits(Str(<<"state_key">>), Named({"state_key"}))
  BY <1>0, Fits1
<1>3. Fits(U64(<<"device_id", "node_id">>), Named({"device_id", "node_id"}))
  BY <1>0, Fits2
<1>4. Fits(U8(<<"present">>), Named({"present"}))
  BY <1>0, Fits1
<1>5. Fits(U64(<<"benefit">>), Named({"benefit"}))
  BY <1>0, Fits1
<1> DEFINE M == Named({"type"}) \cup Named({"state_key"}) \cup Named({"device_id", "node_id"})
              \cup Named({"present"}) \cup Named({"benefit"})
<1>6. Fits(write_locality_descriptor, M)
  BY <1>1, <1>2, <1>3, <1>4, <1>5, FitsConcat DEF write_locality_descriptor
<1>7. DescriptorMembers.LocalityDescriptor = Named(own)
  BY DEF DescriptorMembers
<1>8. Named(own \ Uncertainties) \subseteq M
  BY DEF Named, Uncertainties
<1> HIDE DEF own
<1>9. DescriptorMembers.LocalityDescriptor \subseteq Place
  BY <1>0, <1>7, NamedPlaces
<1>10. Kept(DescriptorMembers.LocalityDescriptor) \subseteq M
  BY <1>7, <1>8, KeptNamed
<1> HIDE DEF M
<1> QED BY <1>6, <1>9, <1>10, FitsFewer

\* write_constraint has a call for every member but the uncertainties.
LEMMA Layout_constraint ==
  /\ Fits(write_constraint, Kept(EvidenceMembers.PlacementConstraint))
  /\ EvidenceMembers.PlacementConstraint \subseteq Place
<1> DEFINE own == {"cls", "kind", "field", "value", "requirement_text",
                    "classification"}
<1>0. /\ own \subseteq Label /\ "cls" \in Label /\ "kind" \in Label
      /\ "field" \in Label /\ "value" \in Label /\ "requirement_text" \in Label
      /\ "classification" \in Label /\ "provenance" \in Label
  BY DEF Label
<1>1. Fits(U8(<<"cls", "kind">>), Named({"cls", "kind"}))
  BY <1>0, Fits2
<1>2. Fits(Str(<<"field">>), Named({"field"}))
  BY <1>0, Fits1
<1>3. Fits(Val("value"), Named({"value"}))
  BY <1>0, FitsOne DEF Kinds, Primitive, Structs
<1>4. Fits(Str(<<"requirement_text">>), Named({"requirement_text"}))
  BY <1>0, Fits1
<1>5. Fits(U8(<<"classification">>), Named({"classification"}))
  BY <1>0, Fits1
<1>6. Fits(In("provenance", write_provenance),
          Inside("provenance", Kept(ClaimMembers.Provenance)))
  BY <1>0, FitsIn, Layout_provenance
<1> DEFINE M == Named({"cls", "kind"}) \cup Named({"field"}) \cup Named({"value"})
              \cup Named({"requirement_text"}) \cup Named({"classification"})
              \cup Inside("provenance", Kept(ClaimMembers.Provenance))
<1>7. Fits(write_constraint, M)
  BY <1>1, <1>2, <1>3, <1>4, <1>5, <1>6, FitsConcat DEF write_constraint
<1>8. EvidenceMembers.PlacementConstraint = Named(own)
         \cup Inside("provenance", ClaimMembers.Provenance)
  BY DEF EvidenceMembers, Claim
<1>9. Named(own \ Uncertainties) \subseteq M
  BY DEF Named, Uncertainties
<1> HIDE DEF own
<1>10. /\ Inside("provenance", ClaimMembers.Provenance) \subseteq Place
      /\ Kept(Inside("provenance", ClaimMembers.Provenance)) =
           Inside("provenance", Kept(ClaimMembers.Provenance))
  BY <1>0, InsidePlaces, Layout_provenance
<1>11. EvidenceMembers.PlacementConstraint \subseteq Place
  BY <1>0, <1>8, NamedPlaces, <1>10
<1>12. Kept(EvidenceMembers.PlacementConstraint) \subseteq Kept(Named(own))
         \cup Kept(Inside("provenance", ClaimMembers.Provenance))
  BY <1>8 DEF Kept
<1>13. Kept(EvidenceMembers.PlacementConstraint) \subseteq M
  BY <1>9, <1>12, KeptNamed, <1>10
<1> HIDE DEF M
<1> QED BY <1>7, <1>11, <1>13, FitsFewer

\* write_cost_component has a call for every member but the uncertainties.
LEMMA Layout_cost_component ==
  /\ Fits(write_cost_component, Kept(EvidenceMembers.PlacementCostComponent))
  /\ EvidenceMembers.PlacementCostComponent \subseteq Place
<1> DEFINE own == {"kind", "label", "cost", "policy_weight", "classification", "detail"}
<1>0. /\ own \subseteq Label /\ "kind" \in Label /\ "label" \in Label
      /\ "cost" \in Label /\ "policy_weight" \in Label /\ "classification" \in Label
      /\ "provenance" \in Label /\ "detail" \in Label
  BY DEF Label
<1>1. Fits(U8(<<"kind">>), Named({"kind"}))
  BY <1>0, Fits1
<1>2. Fits(Str(<<"label">>), Named({"label"}))
  BY <1>0, Fits1
<1>3. Fits(U64(<<"cost", "policy_weight">>), Named({"cost", "policy_weight"}))
  BY <1>0, Fits2
<1>4. Fits(U8(<<"classification">>), Named({"classification"}))
  BY <1>0, Fits1
<1>5. Fits(In("provenance", write_provenance),
          Inside("provenance", Kept(ClaimMembers.Provenance)))
  BY <1>0, FitsIn, Layout_provenance
<1>6. Fits(Str(<<"detail">>), Named({"detail"}))
  BY <1>0, Fits1
<1> DEFINE M == Named({"kind"}) \cup Named({"label"}) \cup Named({"cost", "policy_weight"})
              \cup Named({"classification"})
              \cup Inside("provenance", Kept(ClaimMembers.Provenance))
              \cup Named({"detail"})
<1>7. Fits(write_cost_component, M)
  BY <1>1, <1>2, <1>3, <1>4, <1>5, <1>6, FitsConcat DEF write_cost_component
<1>8. EvidenceMembers.PlacementCostComponent = Named(own)
         \cup Inside("provenance", ClaimMembers.Provenance)
  BY DEF EvidenceMembers, Claim
<1>9. Named(own \ Uncertainties) \subseteq M
  BY DEF Named, Uncertainties
<1> HIDE DEF own
<1>10. /\ Inside("provenance", ClaimMembers.Provenance) \subseteq Place
      /\ Kept(Inside("provenance", ClaimMembers.Provenance)) =
           Inside("provenance", Kept(ClaimMembers.Provenance))
  BY <1>0, InsidePlaces, Layout_provenance
<1>11. EvidenceMembers.PlacementCostComponent \subseteq Place
  BY <1>0, <1>8, NamedPlaces, <1>10
<1>12. Kept(EvidenceMembers.PlacementCostComponent) \subseteq Kept(Named(own))
         \cup Kept(Inside("provenance", ClaimMembers.Provenance))
  BY <1>8 DEF Kept
<1>13. Kept(EvidenceMembers.PlacementCostComponent) \subseteq M
  BY <1>9, <1>12, KeptNamed, <1>10
<1> HIDE DEF M
<1> QED BY <1>7, <1>11, <1>13, FitsFewer

\* write_score_component has a call for every member but the uncertainties.
LEMMA Layout_score_component ==
  /\ Fits(write_score_component, Kept(EvidenceMembers.PlacementScoreComponent))
  /\ EvidenceMembers.PlacementScoreComponent \subseteq Place
<1> DEFINE own == {"kind", "label", "value", "classification"}
<1>0. /\ own \subseteq Label /\ "kind" \in Label /\ "label" \in Label
      /\ "value" \in Label /\ "classification" \in Label /\ "provenance" \in Label
  BY DEF Label
<1>1. Fits(U8(<<"kind">>), Named({"kind"}))
  BY <1>0, Fits1
<1>2. Fits(Str(<<"label">>), Named({"label"}))
  BY <1>0, Fits1
<1>3. Fits(U64(<<"value">>), Named({"value"}))
  BY <1>0, Fits1
<1>4. Fits(U8(<<"classification">>), Named({"classification"}))
  BY <1>0, Fits1
<1>5. Fits(In("provenance", write_provenance),
          Inside("provenance", Kept(ClaimMembers.Provenance)))
  BY <1>0, FitsIn, Layout_provenance
<1> DEFINE M == Named({"kind"}) \cup Named({"label"}) \cup Named({"value"})
              \cup Named({"classification"})
              \cup Inside("provenance", Kept(ClaimMembers.Provenance))
<1>6. Fits(write_score_component, M)
  BY <1>1, <1>2, <1>3, <1>4, <1>5, FitsConcat DEF write_score_component
<1>7. EvidenceMembers.PlacementScoreComponent = Named(own)
         \cup Inside("provenance", ClaimMembers.Provenance)
  BY DEF EvidenceMembers, Claim
<1>8. Named(own \ Uncertainties) \subseteq M
  BY DEF Named, Uncertainties
<1> HIDE DEF own
<1>9. /\ Inside("provenance", ClaimMembers.Provenance) \subseteq Place
      /\ Kept(Inside("provenance", ClaimMembers.Provenance)) =
           Inside("provenance", Kept(ClaimMembers.Provenance))
  BY <1>0, InsidePlaces, Layout_provenance
<1>10. EvidenceMembers.PlacementScoreComponent \subseteq Place
  BY <1>0, <1>7, NamedPlaces, <1>9
<1>11. Kept(EvidenceMembers.PlacementScoreComponent) \subseteq Kept(Named(own))
         \cup Kept(Inside("provenance", ClaimMembers.Provenance))
  BY <1>7 DEF Kept
<1>12. Kept(EvidenceMembers.PlacementScoreComponent) \subseteq M
  BY <1>8, <1>11, KeptNamed, <1>9
<1> HIDE DEF M
<1> QED BY <1>6, <1>10, <1>12, FitsFewer

\* write_candidate has a call for every member but the uncertainties.
LEMMA Layout_candidate ==
  /\ Fits(write_candidate, Kept(EvidenceMembers.PlacementCandidate))
  /\ EvidenceMembers.PlacementCandidate \subseteq Place
<1> DEFINE own == {"candidate_id", "node_id", "device_id", "generation", "architecture",
                    "capabilities", "health", "locality", "costs", "total_cost",
                    "rejection_reason_text", "rejection_reason"}
<1>0. /\ own \subseteq Label /\ "candidate_id" \in Label /\ "node_id" \in Label
      /\ "device_id" \in Label /\ "generation" \in Label /\ "architecture" \in Label
      /\ "capabilities" \in Label /\ "health" \in Label /\ "memory" \in Label
      /\ "queue" \in Label /\ "locality" \in Label /\ "costs" \in Label
      /\ "total_cost" \in Label /\ "rejection_reason_text" \in Label
      /\ "rejection_reason" \in Label
  BY DEF Label
<1>1. Fits(U64(<<"candidate_id", "node_id", "device_id", "generation">>),
          Named({"candidate_id", "node_id", "device_id", "generation"}))
  BY <1>0, Fits4
<1>2. Fits(Str(<<"architecture">>), Named({"architecture"}))
  BY <1>0, Fits1
<1>3. Fits(Vec("capabilities", "str"), Named({"capabilities"}))
  BY <1>0, FitsOne DEF Kinds, Primitive, Structs
<1>4. Fits(U8(<<"health">>), Named({"health"}))
  BY <1>0, Fits1
<1>5. Fits(In("memory", write_memory_descriptor),
          Inside("memory", Kept(DescriptorMembers.MemoryDescriptor)))
  BY <1>0, FitsIn, Layout_memory_descriptor
<1>6. Fits(In("queue", write_queue_descriptor),
          Inside("queue", Kept(DescriptorMembers.QueueDescriptor)))
  BY <1>0, FitsIn, Layout_queue_descriptor
<1>7. Fits(Vec("locality", "LocalityDescriptor"), Named({"locality"}))
  BY <1>0, FitsOne DEF Kinds, Primitive, Structs
<1>8. Fits(Vec("costs", "PlacementCostComponent"), Named({"costs"}))
  BY <1>0, FitsOne DEF Kinds, Primitive, Structs
<1>9. Fits(U64(<<"total_cost">>), Named({"total_cost"}))
  BY <1>0, Fits1
<1>10. Fits(Opt("rejection_reason_text", "str"), Named({"rejection_reason_text"}))
  BY <1>0, FitsOne DEF Kinds, Primitive, Structs
<1>11. Fits(Opt("rejection_reason", "w1"), Named({"rejection_reason"}))
  BY <1>0, FitsOne DEF Kinds, Primitive, Structs
<1> DEFINE front == U64(<<"candidate_id", "node_id", "device_id", "generation">>)
                 \o Str(<<"architecture">>) \o Vec("capabilities", "str")
                 \o U8(<<"health">>) \o In("memory", write_memory_descriptor)
                 \o In("queue", write_queue_descriptor)
           within == Named({"candidate_id", "node_id", "device_id", "generation"})
                 \cup Named({"architecture"}) \cup Named({"capabilities"})
                 \cup Named({"health"})
                 \cup Inside("memory", Kept(DescriptorMembers.MemoryDescriptor))
                 \cup Inside("queue", Kept(DescriptorMembers.QueueDescriptor))
<1>12. Fits(front, within)
  BY <1>1, <1>2, <1>3, <1>4, <1>5, <1>6, FitsConcat
<1> HIDE DEF front, within
<1> DEFINE M == within \cup Named({"locality"}) \cup Named({"costs"}) \cup Named({"total_cost"})
             \cup Named({"rejection_reason_text"}) \cup Named({"rejection_reason"})
<1>13. Fits(front \o Vec("locality", "LocalityDescriptor")
            \o Vec("costs", "PlacementCostComponent") \o U64(<<"total_cost">>)
            \o Opt("rejection_reason_text", "str") \o Opt("rejection_reason", "w1"), M)
  BY <1>12, <1>7, <1>8, <1>9, <1>10, <1>11, FitsConcat
<1>14. Fits(write_candidate, M)
  BY <1>13 DEF front, write_candidate
<1>15. EvidenceMembers.PlacementCandidate = Named(own)
         \cup Inside("memory", DescriptorMembers.MemoryDescriptor)
         \cup Inside("queue", DescriptorMembers.QueueDescriptor)
  BY DEF EvidenceMembers
<1>16. Named(own \ Uncertainties) \subseteq M
  BY DEF within, Named, Uncertainties
<1> HIDE DEF own
<1>17. /\ Inside("memory", DescriptorMembers.MemoryDescriptor) \subseteq Place
      /\ Kept(Inside("memory", DescriptorMembers.MemoryDescriptor)) =
           Inside("memory", Kept(DescriptorMembers.MemoryDescriptor))
  BY <1>0, InsidePlaces, Layout_memory_descriptor
<1>18. /\ Inside("queue", DescriptorMembers.QueueDescriptor) \subseteq Place
      /\ Kept(Inside("queue", DescriptorMembers.QueueDescriptor)) =
           Inside("queue", Kept(DescriptorMembers.QueueDescriptor))
  BY <1>0, InsidePlaces, Layout_queue_descriptor
<1>19. EvidenceMembers.PlacementCandidate \subseteq Place
  BY <1>0, <1>15, NamedPlaces, <1>17, <1>18
<1>20. Kept(EvidenceMembers.PlacementCandidate) \subseteq Kept(Named(own))
         \cup Kept(Inside("memory", DescriptorMembers.MemoryDescriptor))
         \cup Kept(Inside("queue", DescriptorMembers.QueueDescriptor))
  BY <1>15 DEF Kept
<1>21. Kept(EvidenceMembers.PlacementCandidate) \subseteq M
  BY <1>16, <1>20, KeptNamed, <1>17, <1>18 DEF within
<1> HIDE DEF M
<1> QED BY <1>14, <1>19, <1>21, FitsFewer

\* write_candidate_set has a call for every member but the uncertainties.
LEMMA Layout_candidate_set ==
  /\ Fits(write_candidate_set, Kept(EvidenceMembers.CandidateSet))
  /\ EvidenceMembers.CandidateSet \subseteq Place
<1> DEFINE own == {"candidates", "complete", "reconstructed", "classification",
                    "source_chain", "missing_fields"}
<1>0. /\ own \subseteq Label /\ "candidates" \in Label /\ "complete" \in Label
      /\ "reconstructed" \in Label /\ "classification" \in Label
      /\ "source_chain" \in Label /\ "missing_fields" \in Label
  BY DEF Label
<1>1. Fits(Vec("candidates", "PlacementCandidate"), Named({"candidates"}))
  BY <1>0, FitsOne DEF Kinds, Primitive, Structs
<1>2. Fits(U8(<<"complete", "reconstructed", "classification">>),
          Named({"complete", "reconstructed", "classification"}))
  BY <1>0, Fits3
<1>3. Fits(Vec("source_chain", "Provenance"), Named({"source_chain"}))
  BY <1>0, FitsOne DEF Kinds, Primitive, Structs
<1>4. Fits(Vec("missing_fields", "str"), Named({"missing_fields"}))
  BY <1>0, FitsOne DEF Kinds, Primitive, Structs
<1> DEFINE M == Named({"candidates"}) \cup Named({"complete", "reconstructed",
                       "classification"})
              \cup Named({"source_chain"}) \cup Named({"missing_fields"})
<1>5. Fits(write_candidate_set, M)
  BY <1>1, <1>2, <1>3, <1>4, FitsConcat DEF write_candidate_set
<1>6. EvidenceMembers.CandidateSet = Named(own)
  BY DEF EvidenceMembers
<1>7. Named(own \ Uncertainties) \subseteq M
  BY DEF Named, Uncertainties
<1> HIDE DEF own
<1>8. EvidenceMembers.CandidateSet \subseteq Place
  BY <1>0, <1>6, NamedPlaces
<1>9. Kept(EvidenceMembers.CandidateSet) \subseteq M
  BY <1>6, <1>7, KeptNamed
<1> HIDE DEF M
<1> QED BY <1>5, <1>8, <1>9, FitsFewer

\* write_outcome has a call for every member but the uncertainties.
LEMMA Layout_outcome ==
  /\ Fits(write_outcome, Kept(EvidenceMembers.PlacementOutcome))
  /\ EvidenceMembers.PlacementOutcome \subseteq Place
<1> DEFINE own == {"decision_id", "attempt_id", "disposition", "start_delay_ns",
                    "duration_ns", "predicted_duration_ns", "memory_used_bytes",
                    "error", "classification"}
<1>0. /\ own \subseteq Label /\ "decision_id" \in Label /\ "attempt_id" \in Label
      /\ "disposition" \in Label /\ "start_delay_ns" \in Label
      /\ "duration_ns" \in Label /\ "predicted_duration_ns" \in Label
      /\ "memory_used_bytes" \in Label /\ "error" \in Label
      /\ "classification" \in Label /\ "provenance" \in Label
  BY DEF Label
<1>1. Fits(U64(<<"decision_id", "attempt_id">>), Named({"decision_id", "attempt_id"}))
  BY <1>0, Fits2
<1>2. Fits(U8(<<"disposition">>), Named({"disposition"}))
  BY <1>0, Fits1
<1>3. Fits(U64(<<"start_delay_ns", "duration_ns", "predicted_duration_ns",
                 "memory_used_bytes">>),
          Named({"start_delay_ns", "duration_ns", "predicted_duration_ns",
                 "memory_used_bytes"}))
  BY <1>0, Fits4
<1>4. Fits(Str(<<"error">>), Named({"error"}))
  BY <1>0, Fits1
<1>5. Fits(U8(<<"classification">>), Named({"classification"}))
  BY <1>0, Fits1
<1>6. Fits(In("provenance", write_provenance),
          Inside("provenance", Kept(ClaimMembers.Provenance)))
  BY <1>0, FitsIn, Layout_provenance
<1> DEFINE M == Named({"decision_id", "attempt_id"}) \cup Named({"disposition"})
              \cup Named({"start_delay_ns", "duration_ns", "predicted_duration_ns",
                          "memory_used_bytes"})
              \cup Named({"error"}) \cup Named({"classification"})
              \cup Inside("provenance", Kept(ClaimMembers.Provenance))
<1>7. Fits(write_outcome, M)
  BY <1>1, <1>2, <1>3, <1>4, <1>5, <1>6, FitsConcat DEF write_outcome
<1>8. EvidenceMembers.PlacementOutcome = Named(own)
         \cup Inside("provenance", ClaimMembers.Provenance)
  BY DEF EvidenceMembers, Claim
<1>9. Named(own \ Uncertainties) \subseteq M
  BY DEF Named, Uncertainties
<1> HIDE DEF own
<1>10. /\ Inside("provenance", ClaimMembers.Provenance) \subseteq Place
      /\ Kept(Inside("provenance", ClaimMembers.Provenance)) =
           Inside("provenance", Kept(ClaimMembers.Provenance))
  BY <1>0, InsidePlaces, Layout_provenance
<1>11. EvidenceMembers.PlacementOutcome \subseteq Place
  BY <1>0, <1>8, NamedPlaces, <1>10
<1>12. Kept(EvidenceMembers.PlacementOutcome) \subseteq Kept(Named(own))
         \cup Kept(Inside("provenance", ClaimMembers.Provenance))
  BY <1>8 DEF Kept
<1>13. Kept(EvidenceMembers.PlacementOutcome) \subseteq M
  BY <1>9, <1>12, KeptNamed, <1>10
<1> HIDE DEF M
<1> QED BY <1>7, <1>11, <1>13, FitsFewer

\* write_observation has a call for every member but the uncertainties.
LEMMA Layout_observation ==
  /\ Fits(write_observation, Kept(RecordMembers.PlacementObservation))
  /\ RecordMembers.PlacementObservation \subseteq Place
<1> DEFINE own == {"observation_id", "observation_generation", "revision", "source_id",
                    "source_generation", "source_type", "worker_boot",
                    "coordinator_epoch", "workload_id", "request_id", "tenant_id",
                    "namespace_id", "node_id", "device_id", "decision_id", "attempt_id",
                    "epoch", "lifecycle", "fields", "reliability", "synthetic",
                    "timestamp.wall", "timestamp.mono", "timestamp.uncertainty_ns"}
<1>0. /\ own \subseteq Label /\ "observation_id" \in Label
      /\ "observation_generation" \in Label /\ "revision" \in Label
      /\ "source_id" \in Label /\ "source_generation" \in Label
      /\ "source_type" \in Label /\ "timestamp.wall" \in Label
      /\ "timestamp.mono" \in Label /\ "timestamp.uncertainty_ns" \in Label
      /\ "worker_boot" \in Label /\ "coordinator_epoch" \in Label
      /\ "workload_id" \in Label /\ "request_id" \in Label /\ "tenant_id" \in Label
      /\ "namespace_id" \in Label /\ "node_id" \in Label /\ "device_id" \in Label
      /\ "decision_id" \in Label /\ "attempt_id" \in Label /\ "epoch" \in Label
      /\ "lifecycle" \in Label /\ "fields" \in Label /\ "reliability" \in Label
      /\ "synthetic" \in Label
  BY DEF Label
<1>1. Fits(U64(<<"observation_id", "observation_generation", "revision", "source_id",
                 "source_generation">>),
          Named({"observation_id", "observation_generation", "revision", "source_id",
                  "source_generation"}))
  BY <1>0, Fits5
<1>2. Fits(U8(<<"source_type">>), Named({"source_type"}))
  BY <1>0, Fits1
<1>3. Fits(U64(<<"timestamp.wall", "timestamp.mono", "timestamp.uncertainty_ns",
                 "worker_boot",
                 "coordinator_epoch", "workload_id", "request_id", "tenant_id",
                 "namespace_id", "node_id", "device_id", "decision_id", "attempt_id",
                 "epoch">>),
          Named({"timestamp.wall", "timestamp.mono", "timestamp.uncertainty_ns",
                 "worker_boot",
                  "coordinator_epoch", "workload_id", "request_id", "tenant_id",
                  "namespace_id", "node_id", "device_id", "decision_id", "attempt_id",
                  "epoch"}))
  BY <1>0, Fits14
<1>4. Fits(U8(<<"lifecycle">>), Named({"lifecycle"}))
  BY <1>0, Fits1
<1>5. Fits(Vec("fields", "Measurement"), Named({"fields"}))
  BY <1>0, FitsOne DEF Kinds, Primitive, Structs
<1>6. Fits(U8(<<"reliability", "synthetic">>), Named({"reliability", "synthetic"}))
  BY <1>0, Fits2
<1> DEFINE M == Named({"observation_id", "observation_generation", "revision", "source_id",
                       "source_generation"})
              \cup Named({"source_type"})
              \cup Named({"timestamp.wall", "timestamp.mono", "timestamp.uncertainty_ns",
                          "worker_boot", "coordinator_epoch", "workload_id", "request_id",
                          "tenant_id", "namespace_id", "node_id", "device_id",
                          "decision_id", "attempt_id", "epoch"})
              \cup Named({"lifecycle"}) \cup Named({"fields"})
              \cup Named({"reliability", "synthetic"})
<1>7. Fits(write_observation, M)
  BY <1>1, <1>2, <1>3, <1>4, <1>5, <1>6, FitsConcat DEF write_observation
<1>8. RecordMembers.PlacementObservation = Named(own)
  BY DEF RecordMembers
<1>9. Named(own \ Uncertainties) \subseteq M
  BY DEF Named, Uncertainties
<1> HIDE DEF own
<1>10. RecordMembers.PlacementObservation \subseteq Place
  BY <1>0, <1>8, NamedPlaces
<1>11. Kept(RecordMembers.PlacementObservation) \subseteq M
  BY <1>8, <1>9, KeptNamed
<1> HIDE DEF M
<1> QED BY <1>7, <1>10, <1>11, FitsFewer

\* write_decision has a call for every member but the uncertainties.
LEMMA Layout_decision ==
  /\ Fits(write_decision, Kept(RecordMembers.PlacementDecision))
  /\ RecordMembers.PlacementDecision \subseteq Place
<1> DEFINE own == {"decision_id", "attempt_id", "placement_generation",
                    "observation_generation", "epoch", "policy_generation",
                    "workload_id", "request_id", "tenant_id", "namespace_id", "node_id",
                    "device_id", "selected_candidate", "rejected_candidates",
                    "hard_constraints", "soft_preferences", "score_components",
                    "cost_components", "tie_break", "tie_break_reason",
                    "selected_reason", "rejection_reasons", "classification",
                    "determinism", "outcome", "lifecycle"}
<1>0. /\ own \subseteq Label /\ "decision_id" \in Label /\ "attempt_id" \in Label
      /\ "placement_generation" \in Label /\ "observation_generation" \in Label
      /\ "epoch" \in Label /\ "policy_generation" \in Label /\ "workload_id" \in Label
      /\ "request_id" \in Label /\ "tenant_id" \in Label /\ "namespace_id" \in Label
      /\ "node_id" \in Label /\ "device_id" \in Label /\ "candidate_set" \in Label
      /\ "selected_candidate" \in Label /\ "rejected_candidates" \in Label
      /\ "hard_constraints" \in Label /\ "soft_preferences" \in Label
      /\ "score_components" \in Label /\ "cost_components" \in Label
      /\ "tie_break" \in Label /\ "tie_break_reason" \in Label
      /\ "selected_reason" \in Label /\ "rejection_reasons" \in Label
      /\ "confidence" \in Label /\ "classification" \in Label
      /\ "determinism" \in Label /\ "provenance" \in Label /\ "outcome" \in Label
      /\ "lifecycle" \in Label
  BY DEF Label
<1>1. Fits(U64(<<"decision_id", "attempt_id", "placement_generation",
                 "observation_generation",
                 "epoch", "policy_generation", "workload_id", "request_id", "tenant_id",
                 "namespace_id", "node_id", "device_id">>),
          Named({"decision_id", "attempt_id", "placement_generation",
                 "observation_generation",
                  "epoch", "policy_generation", "workload_id", "request_id",
                  "tenant_id", "namespace_id", "node_id", "device_id"}))
  BY <1>0, Fits12
<1>2. Fits(In("candidate_set", write_candidate_set),
          Inside("candidate_set", Kept(EvidenceMembers.CandidateSet)))
  BY <1>0, FitsIn, Layout_candidate_set
<1>3. Fits(U64(<<"selected_candidate">>), Named({"selected_candidate"}))
  BY <1>0, Fits1
<1>4. Fits(Vec("rejected_candidates", "w8"), Named({"rejected_candidates"}))
  BY <1>0, FitsOne DEF Kinds, Primitive, Structs
<1>5. Fits(Vec("hard_constraints", "PlacementConstraint"), Named({"hard_constraints"}))
  BY <1>0, FitsOne DEF Kinds, Primitive, Structs
<1>6. Fits(Vec("soft_preferences", "PlacementConstraint"), Named({"soft_preferences"}))
  BY <1>0, FitsOne DEF Kinds, Primitive, Structs
<1>7. Fits(Vec("score_components", "PlacementScoreComponent"),
          Named({"score_components"}))
  BY <1>0, FitsOne DEF Kinds, Primitive, Structs
<1>8. Fits(Vec("cost_components", "PlacementCostComponent"), Named({"cost_components"}))
  BY <1>0, FitsOne DEF Kinds, Primitive, Structs
<1>9. Fits(U8(<<"tie_break">>), Named({"tie_break"}))
  BY <1>0, Fits1
<1>10. Fits(Str(<<"tie_break_reason", "selected_reason">>),
          Named({"tie_break_reason", "selected_reason"}))
  BY <1>0, Fits2
<1>11. Fits(Vec("rejection_reasons", "RejectionReasonEntry"),
          Named({"rejection_reasons"}))
  BY <1>0, FitsOne DEF Kinds, Primitive, Structs
<1>12. Fits(In("confidence", write_confidence),
          Inside("confidence", Kept(ClaimMembers.Confidence)))
  BY <1>0, FitsIn, Layout_confidence
<1>13. Fits(U8(<<"classification", "determinism">>),
          Named({"classification", "determinism"}))
  BY <1>0, Fits2
<1>14. Fits(In("provenance", write_provenance),
          Inside("provenance", Kept(ClaimMembers.Provenance)))
  BY <1>0, FitsIn, Layout_provenance
<1>15. Fits(Opt("outcome", "PlacementOutcome"), Named({"outcome"}))
  BY <1>0, FitsOne DEF Kinds, Primitive, Structs
<1>16. Fits(U8(<<"lifecycle">>), Named({"lifecycle"}))
  BY <1>0, Fits1
<1> DEFINE front == U64(<<"decision_id", "attempt_id", "placement_generation",
                          "observation_generation", "epoch", "policy_generation",
                          "workload_id", "request_id", "tenant_id", "namespace_id",
                          "node_id", "device_id">>)
                 \o In("candidate_set", write_candidate_set)
                 \o U64(<<"selected_candidate">>) \o Vec("rejected_candidates", "w8")
                 \o Vec("hard_constraints", "PlacementConstraint")
                 \o Vec("soft_preferences", "PlacementConstraint")
           within == Named({"decision_id", "attempt_id", "placement_generation",
                            "observation_generation", "epoch", "policy_generation",
                            "workload_id", "request_id", "tenant_id", "namespace_id",
                            "node_id", "device_id"})
                 \cup Inside("candidate_set", Kept(EvidenceMembers.CandidateSet))
                 \cup Named({"selected_candidate"}) \cup Named({"rejected_candidates"})
                 \cup Named({"hard_constraints"}) \cup Named({"soft_preferences"})
<1>17. Fits(front, within)
  BY <1>1, <1>2, <1>3, <1>4, <1>5, <1>6, FitsConcat
<1> HIDE DEF front, within
<1> DEFINE middle == front \o Vec("score_components", "PlacementScoreComponent")
                 \o Vec("cost_components", "PlacementCostComponent")
                 \o U8(<<"tie_break">>)
                 \o Str(<<"tie_break_reason", "selected_reason">>)
                 \o Vec("rejection_reasons", "RejectionReasonEntry")
           among == within \cup Named({"score_components"}) \cup Named({"cost_components"})
                 \cup Named({"tie_break"}) \cup Named({"tie_break_reason", "selected_reason"})
                 \cup Named({"rejection_reasons"})
<1>18. Fits(middle, among)
  BY <1>17, <1>7, <1>8, <1>9, <1>10, <1>11, FitsConcat
<1> HIDE DEF middle, among
<1> DEFINE M == among \cup Inside("confidence", Kept(ClaimMembers.Confidence))
             \cup Named({"classification", "determinism"})
             \cup Inside("provenance", Kept(ClaimMembers.Provenance))
             \cup Named({"outcome"}) \cup Named({"lifecycle"})
<1>19. Fits(middle \o In("confidence", write_confidence)
            \o U8(<<"classification", "determinism">>)
            \o In("provenance", write_provenance) \o Opt("outcome", "PlacementOutcome")
            \o U8(<<"lifecycle">>), M)
  BY <1>18, <1>12, <1>13, <1>14, <1>15, <1>16, FitsConcat
<1>20. Fits(write_decision, M)
  BY <1>19 DEF front, middle, write_decision
<1>21. RecordMembers.PlacementDecision = Named(own)
         \cup Inside("candidate_set", EvidenceMembers.CandidateSet)
         \cup Inside("confidence", ClaimMembers.Confidence)
         \cup Inside("provenance", ClaimMembers.Provenance)
  BY DEF RecordMembers, Claim
<1>22. Named(own \ Uncertainties) \subseteq M
  BY DEF within, among, Named, Uncertainties
<1> HIDE DEF own
<1>23. /\ Inside("candidate_set", EvidenceMembers.CandidateSet) \subseteq Place
      /\ Kept(Inside("candidate_set", EvidenceMembers.CandidateSet)) =
           Inside("candidate_set", Kept(EvidenceMembers.CandidateSet))
  BY <1>0, InsidePlaces, Layout_candidate_set
<1>24. /\ Inside("confidence", ClaimMembers.Confidence) \subseteq Place
      /\ Kept(Inside("confidence", ClaimMembers.Confidence)) =
           Inside("confidence", Kept(ClaimMembers.Confidence))
  BY <1>0, InsidePlaces, Layout_confidence
<1>25. /\ Inside("provenance", ClaimMembers.Provenance) \subseteq Place
      /\ Kept(Inside("provenance", ClaimMembers.Provenance)) =
           Inside("provenance", Kept(ClaimMembers.Provenance))
  BY <1>0, InsidePlaces, Layout_provenance
<1>26. RecordMembers.PlacementDecision \subseteq Place
  BY <1>0, <1>21, NamedPlaces, <1>23, <1>24, <1>25
<1>27. Kept(RecordMembers.PlacementDecision) \subseteq Kept(Named(own))
         \cup Kept(Inside("candidate_set", EvidenceMembers.CandidateSet))
         \cup Kept(Inside("confidence", ClaimMembers.Confidence))
         \cup Kept(Inside("provenance", ClaimMembers.Provenance))
  BY <1>21 DEF Kept
<1>28. Kept(RecordMembers.PlacementDecision) \subseteq M
  BY <1>22, <1>27, KeptNamed, <1>23, <1>24, <1>25 DEF within, among
<1> HIDE DEF M
<1> QED BY <1>20, <1>26, <1>28, FitsFewer

\* The same of an entry of the rejection reasons.
LEMMA Layout_rejection_reason ==
  /\ Fits(write_rejection_reason, Kept(RecordMembers.RejectionReasonEntry))
  /\ RecordMembers.RejectionReasonEntry \subseteq Place
<1> DEFINE own == {"candidate_id", "text"}
<1>0. /\ own \subseteq Label /\ "candidate_id" \in Label /\ "text" \in Label
  BY DEF Label
<1>1. Fits(U64(<<"candidate_id">>), Named({"candidate_id"}))
  BY <1>0, Fits1
<1>2. Fits(Str(<<"text">>), Named({"text"}))
  BY <1>0, Fits1
<1> DEFINE M == Named({"candidate_id"}) \cup Named({"text"})
<1>3. Fits(write_rejection_reason, M)
  BY <1>1, <1>2, FitsConcat DEF write_rejection_reason
<1>4. RecordMembers.RejectionReasonEntry = Named(own)
  BY DEF RecordMembers
<1>5. Named(own \ Uncertainties) \subseteq M
  BY DEF Named, Uncertainties
<1> HIDE DEF own
<1>6. RecordMembers.RejectionReasonEntry \subseteq Place
  BY <1>0, <1>4, NamedPlaces
<1>7. Kept(RecordMembers.RejectionReasonEntry) \subseteq M
  BY <1>4, <1>5, KeptNamed
<1> HIDE DEF M
<1> QED BY <1>3, <1>6, <1>7, FitsFewer

\* The same of the epoch that persist writes.
LEMMA Layout_epoch ==
  /\ Fits(write_epoch, Kept(RecordMembers.Epoch))
  /\ RecordMembers.Epoch \subseteq Place
<1> DEFINE own == {"epoch"}
<1>0. /\ own \subseteq Label /\ "epoch" \in Label
  BY DEF Label
<1>1. Fits(U64(<<"epoch">>), Named({"epoch"}))
  BY <1>0, Fits1
<1> DEFINE M == Named({"epoch"})
<1>2. Fits(write_epoch, M)
  BY <1>1 DEF write_epoch
<1>3. RecordMembers.Epoch = Named(own)
  BY DEF RecordMembers
<1>4. Named(own \ Uncertainties) \subseteq M
  BY DEF Named, Uncertainties
<1> HIDE DEF own
<1>5. RecordMembers.Epoch \subseteq Place
  BY <1>0, <1>3, NamedPlaces
<1>6. Kept(RecordMembers.Epoch) \subseteq M
  BY <1>3, <1>4, KeptNamed
<1> HIDE DEF M
<1> QED BY <1>2, <1>5, <1>6, FitsFewer

(***************************************************************************)
(* The layouts of every struct.                                            *)
(***************************************************************************)

\* The structs of records are among those that have a layout.
LEMMA RecordStructs ==
  \A s \in DOMAIN RecordKind : s \in Structs
BY DEF RecordKind, Structs

\* Every write_ function writes the members of its struct, but for the
\* uncertainties.
LEMMA WriterFits ==
  ASSUME NEW s \in Structs
  PROVE  Fits(WriteLayout[s], Kept(Members[s])) /\ Members[s] \subseteq Place
<1>1. CASE s \in {"Provenance", "Measurement", "SourceDescriptor", "LocalityDescriptor"}
  BY <1>1, Layout_provenance, Layout_measurement, Layout_source_descriptor,
     Layout_locality_descriptor DEF WriteLayout, Members
<1>2. CASE s \in {"PlacementConstraint", "PlacementCostComponent", "PlacementScoreComponent"}
  BY <1>2, Layout_constraint, Layout_cost_component, Layout_score_component
     DEF WriteLayout, Members
<1>3. CASE s \in {"PlacementCandidate", "PlacementOutcome", "PlacementObservation"}
  BY <1>3, Layout_candidate, Layout_outcome, Layout_observation DEF WriteLayout, Members
<1>4. CASE s \in {"PlacementDecision", "RejectionReasonEntry", "Epoch"}
  BY <1>4, Layout_decision, Layout_rejection_reason, Layout_epoch DEF WriteLayout, Members
<1> QED BY <1>1, <1>2, <1>3, <1>4 DEF Structs

\* Every read_ function makes the calls of its write_ function, in their order.
LEMMA LayoutsAgree ==
  ReadLayout = WriteLayout /\ \A k : read_value(k) = write_value(k)
<1>1. /\ read_provenance = write_provenance /\ read_confidence = write_confidence
      /\ read_source_descriptor = write_source_descriptor
      /\ read_queue_descriptor = write_queue_descriptor
      /\ read_memory_descriptor = write_memory_descriptor
      /\ read_locality_descriptor = write_locality_descriptor
      /\ read_observation = write_observation
      /\ read_candidate_set = write_candidate_set
      /\ read_rejection_reason = write_rejection_reason /\ read_epoch = write_epoch
  BY DEF write_provenance, read_provenance, write_confidence, read_confidence,
         write_source_descriptor, read_source_descriptor,
         write_queue_descriptor, read_queue_descriptor,
         write_memory_descriptor, read_memory_descriptor,
         write_locality_descriptor, read_locality_descriptor,
         write_observation, read_observation, write_candidate_set, read_candidate_set,
         write_rejection_reason, read_rejection_reason, write_epoch, read_epoch
<1>2. /\ read_measurement = write_measurement /\ read_constraint = write_constraint
      /\ read_cost_component = write_cost_component
      /\ read_score_component = write_score_component
      /\ read_candidate = write_candidate /\ read_outcome = write_outcome
      /\ read_decision = write_decision
  BY <1>1 DEF write_measurement, read_measurement, write_constraint, read_constraint,
         write_cost_component, read_cost_component, write_score_component,
         read_score_component, write_candidate, read_candidate,
         write_outcome, read_outcome, write_decision, read_decision
<1>3. \A k : read_value(k) = write_value(k)
  BY DEF read_value, write_value
<1> QED BY <1>1, <1>2, <1>3 DEF ReadLayout, WriteLayout

\* write_value: what follows the kind of a Value is a layout.
LEMMA ValueFits ==
  ASSUME NEW k \in 1..5
  PROVE  Fits(write_value(k), {})
<1>1. "content" \in Label
  BY DEF Label
<1>2. /\ Fits(U64(<<"content">>), {}) /\ Fits(U8(<<"content">>), {})
      /\ Fits(Str(<<"content">>), {})
  <2>1. /\ Fits(U64(<<"content">>), Named({"content"}))
        /\ Fits(U8(<<"content">>), Named({"content"}))
        /\ Fits(Str(<<"content">>), Named({"content"}))
    BY <1>1, Fits1
  <2> QED BY <2>1, FitsFewer
<1>3. write_value(k) \in {U64(<<"content">>), U8(<<"content">>), Str(<<"content">>)}
  BY DEF write_value
<1> QED BY <1>2, <1>3

\* An element that is an integer or a string is one call.
LEMMA SingleFits ==
  ASSUME NEW s \in Primitive
  PROVE  Fits(Single(s), {<<>>})
<1> DEFINE e == [name |-> <<>>, as |-> s, of |-> ""]
<1>1. <<>> \in Seq(Label) /\ s \notin {"vec", "opt"}
  BY DEF Primitive
<1>2. e \in Entry
  BY <1>1 DEF Entry
<1>3. e.name = <<>>
  OBVIOUS
<1>4. Single(s) = <<e>>
  BY DEF Single
<1> HIDE DEF e
<1>5. <<e>> \in Seq(Entry) /\ <<e>> # <<>> /\ Len(<<e>>) = 1 /\ <<e>>[1] = e
  BY <1>2, OneTuple
<1>6. \E i \in 1..Len(<<e>>) : <<e>>[i].name = <<>>
  BY <1>3, <1>5
<1> QED BY <1>4, <1>5, <1>6 DEF Fits

(***************************************************************************)
(* The calls: frames of them, and the chain of frames that a value makes.  *)
(***************************************************************************)

CallType ==
  {c \in [name : Seq(Label), index : Seq(Nat), as : Primitive \cup {"Value", "vec", "opt"},
          of : {""} \cup Kinds] :
     c.as \in {"vec", "opt"} => c.of \in Kinds}
Frame == Seq(CallType) \ {<<>>}

\* What a token may hold, for the call that wrote it.
Holds(c, n) == n \in Nat /\ (c.as = "Value" => n \in 0..5)

\* A frame has a call for a place.
HasCall(f, name, index) == \E j \in 1..Len(f) : f[j].name = name /\ f[j].index = index

\* The calls of a layout at a place: a frame with a call for each of its members.
LEMMA CallsFrame ==
  ASSUME NEW a, NEW M, Fits(a, M), NEW name \in Seq(Label), NEW index \in Seq(Nat)
  PROVE  /\ Calls(a, name, index) \in Frame
         /\ \A m \in M : HasCall(Calls(a, name, index), name \o m, index)
<1> DEFINE f == Calls(a, name, index)
<1>1. Len(a) \in Nat \ {0} /\ \A i \in 1..Len(a) : a[i] \in Entry
  BY DEF Fits
<1>2. ASSUME NEW i \in 1..Len(a)
      PROVE  [name |-> name \o a[i].name, index |-> index, as |-> a[i].as, of |-> a[i].of]
               \in CallType
  <2>1. a[i].name \in Seq(Label)
    BY <1>1 DEF Entry
  <2>2. name \o a[i].name \in Seq(Label)
    BY <2>1
  <2> QED BY <1>1, <2>2 DEF Entry, CallType
<1>3. f \in [1..Len(a) -> CallType]
  BY <1>2 DEF Calls
<1>4. f \in Seq(CallType) /\ Len(f) = Len(a)
  BY <1>1, <1>3
<1>5. f # <<>>
  BY <1>1, <1>4
<1>6. \A i \in 1..Len(a) : f[i].name = name \o a[i].name /\ f[i].index = index
  BY DEF Calls
<1>7. ASSUME NEW m \in M PROVE HasCall(f, name \o m, index)
  <2>1. PICK i \in 1..Len(a) : a[i].name = m
    BY DEF Fits
  <2> QED BY <2>1, <1>4, <1>6 DEF HasCall
<1> QED BY <1>4, <1>5, <1>7 DEF Frame

\* What each element that a call opens is written with.
LEMMA ElementFits ==
  ASSUME NEW c \in CallType, NEW n, Holds(c, n), NEW i \in 1..Elements(c, n)
  PROVE  /\ Fits(WriteElement(c, n), {})
         /\ c.as \in {"vec", "opt"} => Fits(WriteElement(c, n), MembersOf(c.of))
<1>1. CASE c.as = "Value"
  <2>1. n \in 1..5
    BY <1>1 DEF Holds, Elements
  <2> QED BY <1>1, <2>1, ValueFits DEF WriteElement
<1>2. CASE c.as \in {"vec", "opt"}
  <2>1. c.of \in Kinds /\ c.as # "Value"
    BY <1>2 DEF CallType
  <2>2. CASE c.of \in Primitive
    <3>1. MembersOf(c.of) = {<<>>}
      BY <2>2 DEF MembersOf, Primitive, Structs
    <3> QED BY <2>1, <2>2, <3>1, SingleFits, FitsFewer DEF WriteElement
  <2>3. CASE c.of \in Structs
    <3>1. MembersOf(c.of) = Kept(Members[c.of]) /\ c.of \notin Primitive
      BY <2>3 DEF MembersOf, Kept, Primitive, Structs
    <3> QED BY <2>1, <2>3, <3>1, WriterFits, FitsFewer DEF WriteElement
  <2> QED BY <2>1, <2>2, <2>3 DEF Kinds
<1>3. CASE c.as \in Primitive
  BY <1>3 DEF Elements, Primitive
<1> QED BY <1>1, <1>2, <1>3 DEF CallType

\* The frames that a call opens, which the reader opens as the writer did.
LEMMA OpenedFrames ==
  ASSUME NEW c \in CallType, NEW n, Holds(c, n)
  PROVE  /\ WriteFrames(c, n) \in Seq(Frame)
         /\ ReadFrames(c, n) = WriteFrames(c, n)
         /\ Len(WriteFrames(c, n)) = Elements(c, n)
         /\ c.as \in {"vec", "opt"} =>
              \A i \in 1..Elements(c, n), m \in MembersOf(c.of) :
                HasCall(WriteFrames(c, n)[i], c.name \o m, Append(c.index, i))
<1> DEFINE w == WriteFrames(c, n)
           e == WriteElement(c, n)
<1>1. Elements(c, n) \in Nat /\ c.name \in Seq(Label) /\ c.index \in Seq(Nat)
  BY DEF Holds, Elements, CallType
<1>2. ReadElement(c, n) = e
  BY LayoutsAgree DEF ReadElement, WriteElement
<1>3. ReadFrames(c, n) = w
  BY <1>2 DEF ReadFrames, WriteFrames
<1>4. \A i \in 1..Elements(c, n) : Append(c.index, i) \in Seq(Nat)
  BY <1>1
<1>5. \A i \in 1..Elements(c, n) : w[i] = Calls(e, c.name, Append(c.index, i))
  BY DEF WriteFrames
<1>6. ASSUME NEW i \in 1..Elements(c, n) PROVE w[i] \in Frame
  <2>1. Fits(e, {})
    BY ElementFits
  <2>2. Append(c.index, i) \in Seq(Nat)
    BY <1>4
  <2> HIDE DEF e, w
  <2>3. Calls(e, c.name, Append(c.index, i)) \in Frame
    BY <1>1, <2>1, <2>2, CallsFrame
  <2> QED BY <1>5, <2>3
<1>7. w \in [1..Elements(c, n) -> Frame]
  BY <1>5, <1>6 DEF WriteFrames
<1>8. w \in Seq(Frame) /\ Len(w) = Elements(c, n)
  <2>1. Elements(c, n) \in Nat
    BY <1>1
  <2> HIDE DEF w
  <2> QED BY <1>7, <2>1
<1>9. ASSUME c.as \in {"vec", "opt"}, NEW i \in 1..Elements(c, n), NEW m \in MembersOf(c.of)
      PROVE  HasCall(w[i], c.name \o m, Append(c.index, i))
  <2>1. Fits(e, MembersOf(c.of))
    BY <1>9, ElementFits
  <2>2. Append(c.index, i) \in Seq(Nat) /\ w[i] = Calls(e, c.name, Append(c.index, i))
    BY <1>4, <1>5
  <2> HIDE DEF e, w
  <2> QED BY <1>1, <2>1, <2>2, CallsFrame
<1> QED BY <1>3, <1>8, <1>9

\* A call is still to be made at a place.
Pending(f, name, index) ==
  \E k \in 1..Len(f) : HasCall(f[k], name, index)

\* A call pending in one of two lists of frames is pending in both together.
LEMMA PendingConcat ==
  ASSUME NEW a \in Seq(Frame), NEW b \in Seq(Frame), NEW name, NEW index,
         Pending(a, name, index) \/ Pending(b, name, index)
  PROVE  Pending(a \o b, name, index)
<1>1. Len(a) \in Nat /\ Len(b) \in Nat
  OBVIOUS
<1>2. /\ Len(a \o b) = Len(a) + Len(b)
      /\ \A k \in 1..(Len(a) + Len(b)) : (a \o b)[k] = IF k <= Len(a) THEN a[k] ELSE b[k - Len(a)]
  BY <1>1
<1>3. CASE Pending(a, name, index)
  <2>1. PICK k \in 1..Len(a) : HasCall(a[k], name, index)
    BY <1>3 DEF Pending
  <2>2. k \in 1..Len(a \o b) /\ (a \o b)[k] = a[k]
    BY <1>1, <1>2
  <2> QED BY <2>1, <2>2 DEF Pending
<1>4. CASE Pending(b, name, index)
  <2>1. PICK k \in 1..Len(b) : HasCall(b[k], name, index)
    BY <1>4 DEF Pending
  <2>2. Len(a) + k \in 1..Len(a \o b) /\ (a \o b)[Len(a) + k] = b[k]
    BY <1>1, <1>2
  <2> QED BY <2>1, <2>2 DEF Pending
<1> QED BY <1>3, <1>4

\* The call that is made next, and what is left.
LEMMA NextCall ==
  ASSUME NEW f \in Seq(Frame), f # <<>>
  PROVE  /\ Call(f) \in CallType
         /\ Rest(f) \in Seq(Frame)
         /\ \A name, index : Pending(f, name, index) =>
              (Call(f).name = name /\ Call(f).index = index) \/ Pending(Rest(f), name, index)
<1> DEFINE g == Head(f)
           t == Tail(f)
<1>1. /\ Len(f) \in Nat \ {0} /\ g = f[1] /\ g \in Frame
      /\ t \in Seq(Frame) /\ Len(t) = Len(f) - 1 /\ \A k \in 1..Len(t) : t[k] = f[k + 1]
  OBVIOUS
<1>2. /\ g \in Seq(CallType) /\ Len(g) \in Nat \ {0} /\ Head(g) = g[1] /\ g[1] \in CallType
      /\ Tail(g) \in Seq(CallType) /\ Len(Tail(g)) = Len(g) - 1
      /\ \A j \in 1..Len(Tail(g)) : Tail(g)[j] = g[j + 1]
  BY <1>1 DEF Frame
<1>3. Call(f) = g[1]
  BY <1>2 DEF Call
<1>4. CASE Len(g) = 1
  <2>1. Rest(f) = t
    BY <1>4 DEF Rest
  <2>2. ASSUME NEW name, NEW index, Pending(f, name, index)
        PROVE  (g[1].name = name /\ g[1].index = index) \/ Pending(t, name, index)
    <3>1. PICK k \in 1..Len(f) : HasCall(f[k], name, index)
      BY <2>2 DEF Pending
    <3>2. CASE k = 1
      BY <1>1, <1>4, <3>1, <3>2 DEF HasCall
    <3>3. CASE k # 1
      <4>1. k - 1 \in 1..Len(t) /\ t[k - 1] = f[k]
        BY <1>1, <3>3
      <4> QED BY <3>1, <4>1 DEF Pending
    <3> QED BY <3>2, <3>3
  <2> QED BY <1>1, <1>2, <1>3, <2>1, <2>2
<1>5. CASE Len(g) # 1
  <2>1. Rest(f) = <<Tail(g)>> \o t
    BY <1>5 DEF Rest
  <2>2. Tail(g) # <<>>
    <3>1. Len(Tail(g)) # 0 /\ Len(<<>>) = 0
      BY <1>2, <1>5
    <3> QED BY <3>1
  <2>3. Tail(g) \in Frame
    BY <1>2, <2>2 DEF Frame
  <2>4. <<Tail(g)>> \in Seq(Frame) /\ Len(<<Tail(g)>>) = 1 /\ <<Tail(g)>>[1] = Tail(g)
    BY <2>3, OneTuple
  <2>5. <<Tail(g)>> \o t \in Seq(Frame)
    BY <1>1, <2>4
  <2>6. ASSUME NEW name, NEW index, Pending(f, name, index)
        PROVE  (g[1].name = name /\ g[1].index = index) \/ Pending(<<Tail(g)>> \o t, name, index)
    <3>1. PICK k \in 1..Len(f) : HasCall(f[k], name, index)
      BY <2>6 DEF Pending
    <3>2. CASE k = 1
      <4>1. PICK j \in 1..Len(g) : g[j].name = name /\ g[j].index = index
        BY <1>1, <3>1, <3>2 DEF HasCall
      <4>2. CASE j = 1
        BY <4>1, <4>2
      <4>3. CASE j # 1
        <5>1. j - 1 \in 1..Len(Tail(g)) /\ Tail(g)[j - 1] = g[j]
          BY <1>2, <4>3
        <5>2. 1 \in 1..Len(<<Tail(g)>>)
          BY <2>4
        <5>3. Pending(<<Tail(g)>>, name, index)
          BY <2>4, <4>1, <5>1, <5>2 DEF Pending, HasCall
        <5> QED BY <1>1, <2>4, <5>3, PendingConcat
      <4> QED BY <4>2, <4>3
    <3>3. CASE k # 1
      <4>1. k - 1 \in 1..Len(t) /\ t[k - 1] = f[k]
        BY <1>1, <3>3
      <4>2. Pending(t, name, index)
        BY <3>1, <4>1 DEF Pending
      <4> QED BY <1>1, <2>4, <4>2, PendingConcat
    <3> QED BY <3>2, <3>3
  <2> QED BY <1>2, <1>3, <2>1, <2>5, <2>6
<1> QED BY <1>4, <1>5

(***************************************************************************)
(* The inductive invariant.  The frames that the writer had before each    *)
(* call form a chain, and the reader goes along the same chain.            *)
(***************************************************************************)

\* A call with what was written or read by it, and the calls at the start.
Leaf == {l \in [call : CallType, n : Nat] : Holds(l.call, l.n)}
Root == << Calls(WriteLayout[struct], <<>>, <<>>) >>

TypeOK ==
  /\ struct \in DOMAIN RecordKind
  /\ shape \in Shapes
  /\ todo \in Seq(Frame)
  /\ body \in Seq([width : Primitive, n : Nat])
  /\ value \in Seq(Leaf)
  /\ got \in Seq(Leaf)
  /\ pos = Len(got) + 1
  /\ stage \in {"write", "read", "done", "thrown"}

\* h is what was still to be written before each call of the writer.
Chain(h) ==
  /\ h \in Seq(Seq(Frame)) /\ Len(h) = Len(value) + 1
  /\ h[1] = Root
  /\ \A p \in 1..Len(value) :
       /\ h[p] # <<>>
       /\ value[p].call = Call(h[p])
       /\ h[p + 1] = WriteFrames(value[p].call, value[p].n) \o Rest(h[p])

\* Where the writer, or then the reader, is on the chain.
At(h) ==
  IF stage = "write" THEN todo = h[Len(value) + 1] /\ got = <<>>
  ELSE h[Len(value) + 1] = <<>> /\ todo = h[Len(got) + 1]

\* Each token is of its call; what was read is what was written.
Tokens ==
  /\ Len(got) <= Len(body) /\ Len(body) <= Len(value)
  /\ stage = "write" => Len(body) = Len(value)
  /\ \A p \in 1..Len(body) : body[p] = [width |-> Width(value[p].call.as), n |-> value[p].n]
  /\ \A p \in 1..Len(got) : got[p] = value[p]
  /\ stage = "done" => Len(got) = Len(value)
  /\ stage = "thrown" => Len(body) < Len(value)
  /\ stage = "done" => todo = <<>>

\* Every member has been read, or its call is still to be made.
Here(name, index) == Has(got, name, index) \/ Pending(todo, name, index)
NoneLost ==
  stage # "write" =>
    /\ \A m \in MembersOf(struct) : Here(m, <<>>)
    /\ \A p \in 1..Len(got) : got[p].call.as \in {"vec", "opt"} =>
         \A i \in 1..Elements(got[p].call, got[p].n), m \in MembersOf(got[p].call.of) :
           Here(got[p].call.name \o m, Append(got[p].call.index, i))

\* Nothing is left unwritten but uncertainties.
OnlyUncertain == \A u \in unwritten : LastOf(u.name) \in Uncertainties

IInv == TypeOK /\ (\E h : Chain(h) /\ At(h)) /\ Tokens /\ NoneLost /\ OnlyUncertain

\* The first frame, and the members it has calls for.
LEMMA RootFrame ==
  ASSUME struct \in DOMAIN RecordKind
  PROVE  /\ Root \in Seq(Frame) /\ Root # <<>>
         /\ << Calls(ReadLayout[struct], <<>>, <<>>) >> = Root
         /\ \A m \in MembersOf(struct) : Pending(Root, m, <<>>)
<1> DEFINE f == Calls(WriteLayout[struct], <<>>, <<>>)
<1>1. struct \in Structs /\ <<>> \in Seq(Label) /\ <<>> \in Seq(Nat)
  BY RecordStructs
<1>2. Fits(WriteLayout[struct], MembersOf(struct)) /\ MembersOf(struct) \subseteq Place
  BY <1>1, WriterFits DEF MembersOf, Kept
<1>3. f \in Frame /\ \A m \in MembersOf(struct) : HasCall(f, <<>> \o m, <<>>)
  BY <1>1, <1>2, CallsFrame
<1>4. \A m \in MembersOf(struct) : <<>> \o m = m
  BY <1>2 DEF Place
<1>5. \A m \in MembersOf(struct) : HasCall(f, m, <<>>)
  BY <1>3, <1>4
<1> HIDE DEF f
<1>6. <<f>> \in Seq(Frame) /\ <<f>> # <<>> /\ Len(<<f>>) = 1 /\ <<f>>[1] = f
  BY <1>3, OneTuple
<1>7. \A m \in MembersOf(struct) : Pending(<<f>>, m, <<>>)
  BY <1>5, <1>6 DEF Pending
<1> QED BY <1>6, <1>7, LayoutsAgree DEF Root, f

\* The places that no call writes are uncertainties.
LEMMA UnwrittenUncertain ==
  ASSUME NEW s
  PROVE  \A m \in Unwritten(s) : m \in Place /\ LastOf(m) \in Uncertainties
<1>1. CASE s \in Structs
  <2>1. /\ \A m \in Kept(Members[s]) : \E i \in 1..Len(WriteLayout[s]) : WriteLayout[s][i].name = m
        /\ Members[s] \subseteq Place
    BY <1>1, WriterFits DEF Fits
  <2> QED BY <1>1, <2>1 DEF Unwritten, Kept
<1>2. CASE s \notin Structs
  BY <1>2 DEF Unwritten
<1> QED BY <1>1, <1>2

\* What the elements that a call opens leave unwritten are uncertainties.
LEMMA LeftOutUncertain ==
  ASSUME NEW c \in CallType, NEW n
  PROVE  \A u \in LeftOut(c, n) : LastOf(u.name) \in Uncertainties
<1> SUFFICES ASSUME NEW u \in LeftOut(c, n) PROVE LastOf(u.name) \in Uncertainties
  OBVIOUS
<1>1. PICK m \in Unwritten(c.of), i \in 1..Elements(c, n) :
        u = [name |-> c.name \o m, index |-> Append(c.index, i)]
  BY DEF LeftOut
<1>2. u.name = c.name \o m
  BY <1>1
<1>3. m \in Seq(Label) /\ m # <<>> /\ LastOf(m) \in Uncertainties /\ c.name \in Seq(Label)
  BY UnwrittenUncertain DEF Place, CallType
<1> QED BY <1>2, <1>3, LastOfConcat

\* Nothing is written, and the calls of the record are to be made.
LEMMA InitInv == Init => IInv
<1> SUFFICES ASSUME Init PROVE IInv
  OBVIOUS
<1>1. todo = Root /\ todo \in Seq(Frame)
  BY RootFrame DEF Init, Root
<1>2. TypeOK
  BY <1>1 DEF Init, TypeOK
<1>3. Chain(<<todo>>) /\ At(<<todo>>)
  <2>1. <<todo>> \in Seq(Seq(Frame)) /\ Len(<<todo>>) = 1 /\ <<todo>>[1] = todo
    BY <1>1, OneTuple
  <2>2. Len(value) = 0 /\ got = <<>> /\ stage = "write"
    BY DEF Init
  <2> QED BY <1>1, <2>1, <2>2 DEF Chain, At
<1>4. Tokens /\ NoneLost
  BY DEF Init, Tokens, NoneLost
<1>5. OnlyUncertain
  BY UnwrittenUncertain DEF Init, OnlyUncertain
<1> QED BY <1>2, <1>3, <1>4, <1>5 DEF IInv

\* A sequence with one more element.
LEMMA Appended ==
  ASSUME NEW S, NEW s \in Seq(S), NEW x \in S
  PROVE  /\ Append(s, x) \in Seq(S) /\ Len(s) \in Nat /\ Len(Append(s, x)) = Len(s) + 1
         /\ Append(s, x)[Len(s) + 1] = x
         /\ \A i \in 1..Len(s) : Append(s, x)[i] = s[i]
         /\ \A i \in 1..Len(Append(s, x)) : i \in 1..Len(s) \/ i = Len(s) + 1
OBVIOUS

\* The first k elements of a sequence.
LEMMA FirstOf ==
  ASSUME NEW S, NEW s \in Seq(S), NEW k \in 0..Len(s)
  PROVE  /\ SubSeq(s, 1, k) \in Seq(S) /\ Len(SubSeq(s, 1, k)) = k
         /\ \A i \in 1..k : SubSeq(s, 1, k)[i] = s[i]
<1>1. Len(s) \in Nat /\ k \in Int /\ 1 \in Int /\ \A i \in 1..k : s[i] \in S
  OBVIOUS
<1>2. /\ SubSeq(s, 1, k) \in Seq(S)
      /\ Len(SubSeq(s, 1, k)) = IF 1 <= k THEN k - 1 + 1 ELSE 0
      /\ \A i \in 1..(k - 1 + 1) : SubSeq(s, 1, k)[i] = s[1 + i - 1]
  BY <1>1, SubSeqProperties
<1> QED BY <1>1, <1>2

\* The token of a call is one of the four primitives.
LEMMA WidthType ==
  ASSUME NEW c \in CallType
  PROVE  Width(c.as) \in Primitive
BY DEF CallType, Width, Primitive

\* A call of the writer adds a link to the chain.
LEMMA WriteInv ==
  ASSUME IInv, stage = "write", todo # <<>>, NEW n, Holds(Call(todo), n), Write(n)
  PROVE  IInv'
<1> DEFINE c == Call(todo)
           l == [call |-> c, n |-> n]
           b == [width |-> Width(c.as), n |-> n]
           next == WriteFrames(c, n) \o Rest(todo)
<1>1. TypeOK /\ Tokens /\ OnlyUncertain
  BY DEF IInv
<1>2. c \in CallType /\ Rest(todo) \in Seq(Frame) /\ n \in Nat
  BY <1>1, NextCall DEF TypeOK, Holds
<1>3. WriteFrames(c, n) \in Seq(Frame)
  BY <1>2, OpenedFrames
<1>4. next \in Seq(Frame)
  BY <1>2, <1>3
<1>5. l \in Leaf /\ l.call = c /\ l.n = n
  BY <1>2 DEF Leaf
<1>6. b \in [width : Primitive, n : Nat]
  BY <1>2, WidthType
<1>7. /\ body' = Append(body, b) /\ value' = Append(value, l) /\ todo' = next
      /\ UNCHANGED <<struct, shape, pos, got, stage>>
  BY DEF Write
<1>8. \A u \in unwritten' : u \in unwritten \/ u \in LeftOut(c, n)
  BY DEF Write
<1> HIDE DEF c, l, b, next
<1>9. TypeOK'
  BY <1>1, <1>4, <1>5, <1>6, <1>7, Appended DEF TypeOK
<1>10. PICK h : Chain(h) /\ At(h)
  BY DEF IInv
<1>11. PICK g : g = Append(h, next)
  OBVIOUS
<1>12. Chain(g)' /\ At(g)'
  <2>1. /\ h \in Seq(Seq(Frame)) /\ Len(h) = Len(value) + 1 /\ todo = h[Len(value) + 1]
        /\ h[1] = Root /\ got = <<>> /\ value \in Seq(Leaf) /\ Len(value) \in Nat
    BY <1>1, <1>10 DEF Chain, At, TypeOK
  <2>2. /\ g \in Seq(Seq(Frame)) /\ Len(g) = Len(value) + 2 /\ g[Len(value) + 2] = next
        /\ \A i \in 1..(Len(value) + 1) : g[i] = h[i]
    BY <1>4, <1>11, <2>1, Appended
  <2>3. /\ Len(value') = Len(value) + 1 /\ value'[Len(value) + 1] = l
        /\ \A i \in 1..Len(value) : value'[i] = value[i]
    BY <1>5, <1>7, <2>1, Appended
  <2>4. g[1] = Root'
    <3>1. 1 \in 1..(Len(value) + 1)
      BY <2>1
    <3>2. g[1] = h[1]
      BY <2>2, <3>1
    <3>3. Root' = Root
      BY <1>7 DEF Root
    <3> QED BY <2>1, <3>2, <3>3
  <2>5. ASSUME NEW p \in 1..Len(value')
        PROVE  /\ g[p] # <<>> /\ value'[p].call = Call(g[p])
               /\ g[p + 1] = WriteFrames(value'[p].call, value'[p].n) \o Rest(g[p])
    <3>1. CASE p \in 1..Len(value)
      <4>1. g[p] = h[p] /\ g[p + 1] = h[p + 1] /\ value'[p] = value[p]
        BY <2>1, <2>2, <2>3, <3>1
      <4> QED BY <1>10, <3>1, <4>1 DEF Chain
    <3>2. CASE p = Len(value) + 1
      <4>1. p \in 1..(Len(value) + 1) /\ p + 1 = Len(value) + 2
        BY <2>1, <3>2
      <4>2. g[p] = h[p]
        BY <2>2, <4>1
      <4>3. h[p] = todo
        BY <2>1, <3>2
      <4>4. g[p + 1] = next
        BY <2>2, <4>1
      <4>5. value'[p] = l
        BY <2>3, <3>2
      <4> QED BY <1>5, <4>2, <4>3, <4>4, <4>5 DEF next, c
    <3> QED BY <2>1, <2>3, <3>1, <3>2
  <2>6. At(g)'
    BY <1>7, <2>1, <2>2, <2>3 DEF At
  <2> QED BY <2>2, <2>3, <2>4, <2>5, <2>6 DEF Chain
<1>13. Tokens'
  <2>1. value \in Seq(Leaf) /\ body \in Seq([width : Primitive, n : Nat]) /\ got = <<>>
    BY <1>1, <1>10 DEF At, TypeOK
  <2>2. /\ Len(body') = Len(body) + 1 /\ body'[Len(body) + 1] = b
        /\ \A i \in 1..Len(body) : body'[i] = body[i]
        /\ \A i \in 1..Len(body') : i \in 1..Len(body) \/ i = Len(body) + 1
    BY <1>6, <1>7, <2>1, Appended
  <2>3. /\ Len(value) \in Nat /\ Len(value') = Len(value) + 1 /\ value'[Len(value) + 1] = l
        /\ \A i \in 1..Len(value) : value'[i] = value[i]
    BY <1>5, <1>7, <2>1, Appended
  <2>4. Len(body) = Len(value)
    BY <1>1 DEF Tokens
  <2>5. \A p \in 1..Len(body') :
          body'[p] = [width |-> Width(value'[p].call.as), n |-> value'[p].n]
    BY <1>1, <1>5, <2>2, <2>3, <2>4 DEF Tokens, b
  <2> QED BY <1>7, <2>1, <2>2, <2>3, <2>4, <2>5 DEF Tokens
<1>14. NoneLost'
  BY <1>7 DEF NoneLost
<1>15. OnlyUncertain'
  BY <1>1, <1>2, <1>8, LeftOutUncertain DEF OnlyUncertain
<1> QED BY <1>9, <1>12, <1>13, <1>14, <1>15 DEF IInv

\* The reader starts where the writer did.
LEMMA OpenInv ==
  ASSUME IInv, NEW k \in 0..Len(body), Open(k)
  PROVE  IInv'
<1>1. TypeOK /\ Tokens /\ OnlyUncertain
  BY DEF IInv
<1>2. /\ stage = "write" /\ todo = <<>> /\ stage' = "read" /\ body' = SubSeq(body, 1, k)
      /\ todo' = << Calls(ReadLayout[struct], <<>>, <<>>) >>
      /\ UNCHANGED <<struct, shape, value, unwritten, pos, got>>
  BY DEF Open
<1>3. /\ todo' = Root /\ Root \in Seq(Frame)
      /\ \A m \in MembersOf(struct) : Pending(Root, m, <<>>)
  BY <1>1, <1>2, RootFrame DEF TypeOK
<1>4. PICK h : Chain(h) /\ At(h)
  BY DEF IInv
<1>5. /\ Len(h) = Len(value) + 1 /\ h[Len(value) + 1] = <<>> /\ h[1] = Root
      /\ got = <<>> /\ Len(got) = 0
  BY <1>2, <1>4 DEF At, Chain
<1>6. /\ body' \in Seq([width : Primitive, n : Nat]) /\ Len(body') = k
      /\ \A p \in 1..k : body'[p] = body[p]
  <2>1. body \in Seq([width : Primitive, n : Nat])
    BY <1>1 DEF TypeOK
  <2> QED BY <1>2, <2>1, FirstOf
<1>7. TypeOK'
  BY <1>1, <1>2, <1>3, <1>6 DEF TypeOK
<1>8. Chain(h)' /\ At(h)'
  BY <1>2, <1>3, <1>4, <1>5 DEF Chain, At, Root
<1>9. Tokens'
  <2>1. Len(body) \in Nat /\ Len(value) \in Nat /\ Len(body) = Len(value)
    BY <1>1, <1>2 DEF TypeOK, Tokens
  <2> QED BY <1>1, <1>2, <1>5, <1>6, <2>1 DEF Tokens
<1>10. NoneLost'
  BY <1>2, <1>3, <1>5 DEF NoneLost, Here
<1>11. OnlyUncertain'
  BY <1>1, <1>2 DEF OnlyUncertain
<1> QED BY <1>7, <1>8, <1>9, <1>10, <1>11 DEF IInv

\* While it reads, the reader is before the link of the chain that it reads next.
LEMMA OnChain ==
  ASSUME TypeOK, Tokens, stage = "read", todo # <<>>, NEW h, Chain(h), At(h)
  PROVE  /\ pos \in 1..Len(value) /\ value[pos] \in Leaf
         /\ todo = h[pos] /\ value[pos].call = Call(todo)
         /\ h[pos + 1] = WriteFrames(Call(todo), value[pos].n) \o Rest(todo)
         /\ h[Len(value) + 1] = <<>>
         /\ pos <= Len(body) =>
              body[pos] = [width |-> Width(Call(todo).as), n |-> value[pos].n]
<1>1. /\ Len(got) \in Nat /\ Len(value) \in Nat /\ Len(body) \in Nat /\ pos = Len(got) + 1
      /\ Len(got) <= Len(body) /\ Len(body) <= Len(value)
  BY DEF TypeOK, Tokens
<1>2. h[Len(value) + 1] = <<>> /\ todo = h[pos]
  BY <1>1 DEF At
<1>3. pos # Len(value) + 1
  BY <1>2
<1>4. pos \in 1..Len(value)
  BY <1>1, <1>3
<1>5. value[pos] \in Leaf
  BY <1>4 DEF TypeOK
<1>6. /\ value[pos].call = Call(todo)
      /\ h[pos + 1] = WriteFrames(Call(todo), value[pos].n) \o Rest(todo)
  BY <1>2, <1>4 DEF Chain
<1>7. pos <= Len(body) => body[pos] = [width |-> Width(Call(todo).as), n |-> value[pos].n]
  BY <1>1, <1>4, <1>6 DEF Tokens
<1> QED BY <1>2, <1>4, <1>5, <1>6, <1>7

\* A call of the reader gets what the call of the writer wrote.
LEMMA ReadInv ==
  ASSUME IInv, NEW as, Read(as)
  PROVE  IInv'
<1> DEFINE c == Call(todo)
           n == body[pos].n
           w == WriteFrames(c, n)
<1>1. TypeOK /\ Tokens /\ NoneLost /\ OnlyUncertain
  BY DEF IInv
<1>2. PICK h : Chain(h) /\ At(h)
  BY DEF IInv
<1>3. /\ stage = "read" /\ todo # <<>> /\ pos <= Len(body)
      /\ got' = Append(got, [call |-> c, n |-> n])
      /\ todo' = ReadFrames(c, n) \o Rest(todo) /\ pos' = pos + 1
      /\ UNCHANGED <<struct, shape, body, value, unwritten, stage>>
  BY DEF Read, Readable
<1>4. /\ pos \in 1..Len(value) /\ value[pos] \in Leaf /\ value[pos].call = c
      /\ h[pos + 1] = WriteFrames(c, value[pos].n) \o Rest(todo)
      /\ h[Len(value) + 1] = <<>>
      /\ body[pos] = [width |-> Width(c.as), n |-> value[pos].n]
  BY <1>1, <1>2, <1>3, OnChain
<1>5. n = value[pos].n /\ Holds(c, n) /\ n \in Nat
  BY <1>4 DEF Leaf
<1>6. value[pos] = [call |-> c, n |-> n]
  BY <1>4, <1>5 DEF Leaf
<1>7. /\ c \in CallType /\ Rest(todo) \in Seq(Frame)
      /\ \A name, index : Pending(todo, name, index) =>
           (c.name = name /\ c.index = index) \/ Pending(Rest(todo), name, index)
  BY <1>1, <1>3, NextCall DEF TypeOK
<1>8. /\ w \in Seq(Frame) /\ ReadFrames(c, n) = w /\ Len(w) = Elements(c, n)
      /\ c.as \in {"vec", "opt"} =>
           \A i \in 1..Elements(c, n), m \in MembersOf(c.of) :
             HasCall(w[i], c.name \o m, Append(c.index, i))
  BY <1>5, <1>7, OpenedFrames
<1>9. todo' = w \o Rest(todo) /\ todo' = h[pos + 1] /\ got' = Append(got, value[pos])
  BY <1>3, <1>4, <1>5, <1>6, <1>8
<1> HIDE DEF c, n, w
<1>10. w \o Rest(todo) \in Seq(Frame)
  BY <1>7, <1>8
<1>11. /\ got \in Seq(Leaf) /\ Len(got) \in Nat /\ pos = Len(got) + 1 /\ got' \in Seq(Leaf)
       /\ Len(got') = Len(got) + 1 /\ got'[Len(got) + 1] = value[pos]
       /\ \A i \in 1..Len(got) : got'[i] = got[i]
       /\ \A i \in 1..Len(got') : i \in 1..Len(got) \/ i = Len(got) + 1
  BY <1>1, <1>4, <1>9, Appended DEF TypeOK
<1>12. TypeOK'
  BY <1>1, <1>3, <1>9, <1>10, <1>11 DEF TypeOK
<1>13. Chain(h)' /\ At(h)'
  BY <1>2, <1>3, <1>4, <1>9, <1>11 DEF Chain, At, Root
<1>14. Tokens'
  <2>1. \A i \in 1..Len(got') : got'[i] = value[i]
    BY <1>1, <1>11 DEF Tokens
  <2>2. Len(body) \in Nat /\ Len(got') <= Len(body)
    BY <1>1, <1>3, <1>11 DEF TypeOK
  <2> QED BY <1>1, <1>3, <2>1, <2>2 DEF Tokens
<1>15. ASSUME NEW name, NEW index, Here(name, index) PROVE Here(name, index)'
  <2>1. CASE Has(got, name, index)
    <3>1. PICK p \in 1..Len(got) : got[p].call.name = name /\ got[p].call.index = index
      BY <2>1 DEF Has
    <3>2. p \in 1..Len(got') /\ got'[p] = got[p]
      BY <1>11
    <3> QED BY <3>1, <3>2 DEF Here, Has
  <2>2. CASE Pending(todo, name, index)
    <3>1. CASE c.name = name /\ c.index = index
      <4>1. pos \in 1..Len(got') /\ got'[pos].call = c
        BY <1>4, <1>11
      <4> QED BY <3>1, <4>1 DEF Here, Has
    <3>2. CASE Pending(Rest(todo), name, index)
      BY <1>7, <1>8, <1>9, <3>2, PendingConcat DEF Here
    <3> QED BY <1>7, <2>2, <3>1, <3>2
  <2> QED BY <1>15, <2>1, <2>2 DEF Here
<1>16. ASSUME c.as \in {"vec", "opt"}, NEW i \in 1..Elements(c, n), NEW m \in MembersOf(c.of),
              NEW name, NEW index, name = c.name \o m, index = Append(c.index, i)
       PROVE  Here(name, index)'
  <2>1. HasCall(w[i], name, index) /\ i \in 1..Len(w)
    BY <1>8, <1>16
  <2>2. Pending(w, name, index)
    BY <2>1 DEF Pending
  <2> QED BY <1>7, <1>8, <1>9, <2>2, PendingConcat DEF Here
<1>17. NoneLost'
  <2>1. \A m \in MembersOf(struct) : Here(m, <<>>)'
    BY <1>1, <1>3, <1>15 DEF NoneLost
  <2>2. ASSUME NEW p \in 1..Len(got'), got'[p].call.as \in {"vec", "opt"},
               NEW i \in 1..Elements(got'[p].call, got'[p].n),
               NEW m \in MembersOf(got'[p].call.of)
        PROVE  Here(got[p].call.name \o m, Append(got[p].call.index, i))'
    <3>1. PICK name, index :
            name = got'[p].call.name \o m /\ index = Append(got'[p].call.index, i)
      OBVIOUS
    <3>2. Here(name, index)'
      <4>1. CASE p \in 1..Len(got)
        <5>1. got'[p] = got[p]
          BY <1>11, <4>1
        <5>2. Here(name, index)
          BY <1>1, <1>3, <2>2, <3>1, <4>1, <5>1 DEF NoneLost
        <5> QED BY <1>15, <5>2
      <4>2. CASE p = Len(got) + 1
        <5>1. got'[p].call = c /\ got'[p].n = n
          BY <1>4, <1>5, <1>11, <4>2
        <5> QED BY <1>16, <2>2, <3>1, <5>1
      <4> QED BY <1>11, <4>1, <4>2
    <3> QED BY <3>1, <3>2 DEF Here
  <2> QED BY <1>3, <2>1, <2>2 DEF NoneLost
<1>18. OnlyUncertain'
  BY <1>1, <1>3 DEF OnlyUncertain
<1> QED BY <1>12, <1>13, <1>14, <1>17, <1>18 DEF IInv

\* A reader throws only where the body ends: a token that is there has the width
\* and the kind of the call.
LEMMA ThrowInv ==
  ASSUME IInv, Throw
  PROVE  IInv'
<1>1. TypeOK /\ Tokens /\ NoneLost /\ OnlyUncertain
  BY DEF IInv
<1>2. PICK h : Chain(h) /\ At(h)
  BY DEF IInv
<1>3. /\ stage = "read" /\ todo # <<>> /\ ~Readable /\ stage' = "thrown"
      /\ UNCHANGED <<struct, shape, todo, body, value, unwritten, pos, got>>
  BY DEF Throw
<1>4. Len(body) < Len(value)
  <2>1. /\ pos \in 1..Len(value) /\ value[pos] \in Leaf /\ value[pos].call = Call(todo)
        /\ pos <= Len(body) => body[pos] = [width |-> Width(Call(todo).as), n |-> value[pos].n]
    BY <1>1, <1>2, <1>3, OnChain
  <2>2. Call(todo).as = "Value" => value[pos].n \in 0..5
    BY <2>1 DEF Leaf, Holds
  <2>3. ~(pos <= Len(body))
    BY <1>3, <2>1, <2>2 DEF Readable
  <2>4. Len(got) \in Nat /\ Len(body) \in Nat /\ pos = Len(got) + 1 /\ Len(got) <= Len(body)
    BY <1>1 DEF TypeOK, Tokens
  <2> QED BY <2>1, <2>3, <2>4
<1>5. TypeOK' /\ Tokens' /\ OnlyUncertain'
  BY <1>1, <1>3, <1>4 DEF TypeOK, Tokens, OnlyUncertain
<1>6. Chain(h)' /\ At(h)'
  BY <1>2, <1>3 DEF Chain, At, Root
<1>7. NoneLost'
  BY <1>1, <1>3 DEF NoneLost, Here
<1> QED BY <1>5, <1>6, <1>7 DEF IInv

\* A reader without a call left is at the end of the chain.
LEMMA ReturnInv ==
  ASSUME IInv, Return
  PROVE  IInv'
<1>1. TypeOK /\ Tokens /\ NoneLost /\ OnlyUncertain
  BY DEF IInv
<1>2. PICK h : Chain(h) /\ At(h)
  BY DEF IInv
<1>3. /\ stage = "read" /\ todo = <<>> /\ stage' = "done"
      /\ UNCHANGED <<struct, shape, todo, body, value, unwritten, pos, got>>
  BY DEF Return
<1>4. Len(got) = Len(value)
  <2>1. /\ Len(got) \in Nat /\ Len(value) \in Nat /\ Len(got) <= Len(body)
        /\ Len(body) <= Len(value) /\ Len(body) \in Nat
    BY <1>1 DEF TypeOK, Tokens
  <2>2. h[Len(got) + 1] = <<>>
    BY <1>2, <1>3 DEF At
  <2>3. Len(got) + 1 \notin 1..Len(value)
    BY <1>2, <2>2 DEF Chain
  <2> QED BY <2>1, <2>3
<1>5. TypeOK' /\ Tokens' /\ OnlyUncertain'
  BY <1>1, <1>3, <1>4 DEF TypeOK, Tokens, OnlyUncertain
<1>6. Chain(h)' /\ At(h)'
  BY <1>2, <1>3 DEF Chain, At, Root
<1>7. NoneLost'
  BY <1>1, <1>3 DEF NoneLost, Here
<1> QED BY <1>5, <1>6, <1>7 DEF IInv

\* Every call of the writer and of the reader keeps the invariant.
LEMMA NextInv ==
  ASSUME IInv, [Next]_vars
  PROVE  IInv'
<1>1. TypeOK /\ Tokens /\ NoneLost /\ OnlyUncertain /\ shape \in ShapeType
  BY ShapesAssumption DEF IInv, TypeOK
<1>2. ASSUME NEW n, Write(n), stage = "write", todo # <<>>, Holds(Call(todo), n) PROVE IInv'
  BY <1>2, WriteInv
<1>3. CASE WriteScalar
  BY <1>1, <1>2, <1>3 DEF WriteScalar, Writing, ShapeType, Holds, Primitive
<1>4. CASE WriteValue
  BY <1>1, <1>2, <1>4 DEF WriteValue, Writing, ShapeType, Holds
<1>5. CASE WriteVec
  BY <1>1, <1>2, <1>5 DEF WriteVec, Writing, ShapeType, Holds
<1>6. CASE WriteOpt
  BY <1>1, <1>2, <1>6 DEF WriteOpt, Writing, ShapeType, Holds
<1>7. CASE \E k \in 0..Len(body) : Open(k)
  BY <1>7, OpenInv
<1>8. CASE ReadScalar \/ ReadValue \/ ReadVec \/ ReadOpt
  BY <1>8, ReadInv DEF ReadScalar, ReadValue, ReadVec, ReadOpt
<1>9. CASE Throw
  BY <1>9, ThrowInv
<1>10. CASE Return
  BY <1>10, ReturnInv
<1>11. CASE UNCHANGED vars
  <2>1. PICK h : Chain(h) /\ At(h)
    BY DEF IInv
  <2>2. Chain(h)' /\ At(h)'
    BY <1>11, <2>1 DEF vars, Chain, At, Root
  <2>3. TypeOK' /\ Tokens' /\ NoneLost' /\ OnlyUncertain'
    BY <1>1, <1>11 DEF vars, TypeOK, Tokens, NoneLost, Here, OnlyUncertain
  <2> QED BY <2>2, <2>3 DEF IInv
<1> QED BY <1>3, <1>4, <1>5, <1>6, <1>7, <1>8, <1>9, <1>10, <1>11 DEF Next

\* The inductive invariant holds.
THEOREM SpecInv == Spec => []IInv
<1>1. IInv /\ [Next]_vars => IInv'
  BY NextInv
<1> QED BY InitInv, <1>1, PTL DEF Spec

(***************************************************************************)
(* The theorems.                                                           *)
(***************************************************************************)

\* Whatever a record holds, a read_ function gives every member the value that
\* the write_ function wrote for it; it takes the body whole and throws only on
\* an incomplete one.
THEOREM RecordRoundTrip == Spec => []RoundTrip
<1>1. IInv => RoundTrip
  <2> SUFFICES ASSUME IInv PROVE RoundTrip
    OBVIOUS
  <2>1. /\ TypeOK /\ Tokens
        /\ Len(got) \in Nat /\ Len(body) \in Nat /\ Len(value) \in Nat
    BY DEF IInv, TypeOK
  <2> QED BY <2>1 DEF Tokens, RoundTrip
<1> QED BY <1>1, SpecInv, PTL

\* No member of a record is lost on the way: nor one of its elements, however
\* many a vector has, nor one of theirs.
THEOREM NoMemberLost == Spec => []EveryMember
<1>1. IInv => EveryMember
  <2> SUFFICES ASSUME IInv, stage = "done"
               PROVE  /\ \A m \in MembersOf(struct) : Has(got, m, <<>>)
                      /\ \A p \in 1..Len(got) : got[p].call.as \in {"vec", "opt"} =>
                           \A i \in 1..Elements(got[p].call, got[p].n),
                              m \in MembersOf(got[p].call.of) :
                             Has(got, got[p].call.name \o m, Append(got[p].call.index, i))
    BY DEF EveryMember
  <2>1. Tokens /\ NoneLost
    BY DEF IInv
  <2>2. Len(todo) = 0
    BY <2>1 DEF Tokens
  <2>3. \A name, index : Here(name, index) => Has(got, name, index)
    BY <2>2 DEF Here, Pending
  <2> QED BY <2>1, <2>3 DEF NoneLost
<1> QED BY <1>1, SpecInv, PTL

\* The canonical digest survives the binary form exactly when no claim of the
\* record carries a clock uncertainty.
THEOREM DigestSurvives == Spec => []DigestStable
<1>1. IInv => DigestStable
  <2> SUFFICES ASSUME IInv, stage = "done"
               PROVE  (to_json(value, unwritten) = to_json(got, {}))
                        <=> \A u \in unwritten : LastOf(u.name) # "uncertainty_ns"
    BY DEF DigestStable
  <2>1. TypeOK /\ Tokens /\ OnlyUncertain
    BY DEF IInv
  <2>2. Len(got) = Len(value) /\ \A p \in 1..Len(value) : got[p] = value[p]
    BY <2>1 DEF Tokens
  <2>3. to_json(got, {}).members = to_json(value, unwritten).members
    BY <2>2 DEF to_json
  <2>4. to_json(got, {}).others = {}
    BY DEF to_json
  <2>5. to_json(value, unwritten).others = {u \in unwritten : Shown(u.name)}
    BY DEF to_json
  <2>6. (to_json(value, unwritten) = to_json(got, {}))
          <=> {u \in unwritten : Shown(u.name)} = {}
    BY <2>3, <2>4, <2>5 DEF to_json
  <2>7. \A u \in unwritten : Shown(u.name) <=> LastOf(u.name) = "uncertainty_ns"
    BY <2>1 DEF OnlyUncertain, Uncertainties, Shown, JsonOmits
  <2> QED BY <2>6, <2>7
<1> QED BY <1>1, SpecInv, PTL
================================================================================
