-------------------------------- MODULE Ranking --------------------------------
(***************************************************************************)
(* The analysis functions of src/compute.cpp over a decision record:       *)
(* ranking, explanation, replay, comparison and counterfactual.            *)
(*                                                                         *)
(* A double is an integer in -Huge..Huge, or one of the three values that  *)
(* the arithmetic of finite doubles can still produce: PosInf, NegInf,     *)
(* NaN.  Costs and weights are finite (ingest_decision refuses others),    *)
(* their products and sums need not be.  A reason or a diagnostic is the   *)
(* name of the field or the number of the candidate it is about.           *)
(***************************************************************************)
EXTENDS Integers, Sequences, FiniteSets, Functions, Sorting

CONSTANTS
  Huge,      \* the largest finite double
  IntMax     \* the largest int

ASSUME NumbersAssumption == Huge \in Nat \ {0} /\ IntMax \in Nat \ {0}

PosInf == Huge + 1
NegInf == -Huge - 1
NaN == Huge + 2

Round(x) == IF x > Huge THEN PosInf ELSE IF x < -Huge THEN NegInf ELSE x
Times(a, b) == Round(a * b)                        \* of two finite doubles
Plus(a, b) ==
  CASE NaN \in {a, b} \/ {a, b} = {PosInf, NegInf} -> NaN
    [] PosInf \in {a, b} /\ NaN \notin {a, b} /\ NegInf \notin {a, b} -> PosInf
    [] NegInf \in {a, b} /\ NaN \notin {a, b} /\ PosInf \notin {a, b} -> NegInf
    [] OTHER -> Round(a + b)
Less(a, b) == NaN \notin {a, b} /\ a < b
Same(a, b) == NaN \notin {a, b} /\ a = b

(***************************************************************************)
(* A decision record, as far as the analysis looks at it.                  *)
(***************************************************************************)

PlacementCostComponent == [kind : STRING, cost : (-Huge)..Huge, policy_weight : (-Huge)..Huge]

PlacementCandidate ==
  [ candidate_id : Nat, total_bytes : Nat, free_bytes : Nat, used_bytes : Nat, depth : Nat,
    architecture : STRING, capabilities : SUBSET STRING, health : STRING,
    locality : Seq(STRING), costs : Seq(PlacementCostComponent) ]

PlacementConstraint ==
  [ field : STRING, value : [kind : STRING, number : Int, text : STRING],
    classification : STRING ]

\* selected_candidate is not nil; a candidate set that is complete is not
\* reconstructed: ingest_decision refuses any other decision.
PlacementDecision ==
  { d \in [ candidates : Seq(PlacementCandidate), selected_candidate : Nat \ {0},
             hard_constraints : Seq(PlacementConstraint),
             soft_preferences : Seq(PlacementConstraint),
             cost_components : Seq(PlacementCostComponent), policy_generation : Nat,
             tie_break : STRING, outcome : Seq([duration_ns : Nat, start_delay_ns : Nat]),
             missing_fields : Seq(STRING), complete : BOOLEAN, reconstructed : BOOLEAN ] :
      ~(d.complete /\ d.reconstructed) }

(***************************************************************************)
(* Hard constraints.                                                       *)
(***************************************************************************)

\* Value::as_uint throws for these.
Unsigned(v) == v.kind = "UInt" \/ (v.kind = "Int" /\ v.number >= 0)

IsNumber(v) == v.kind \in {"Int", "UInt", "Double"}

\* How much of the resource the candidate has to spare.
Slack(c, field, bound) ==
  CASE field = "memory.total_bytes" -> c.total_bytes - bound
    [] field = "memory.free_bytes" -> c.free_bytes - bound
    [] field = "queue.depth" -> bound - c.depth

\* Mutant: the kind of the value is not looked at before it is read as a number.
eval_constraintUnkinded(c, hc) ==
  CASE hc.field \in {"memory.total_bytes", "memory.free_bytes", "queue.depth"} ->
         IF ~Unsigned(hc.value) THEN "throws"
         ELSE IF Slack(c, hc.field, hc.value.number) < 0 THEN "violation" ELSE "met"
    [] OTHER -> "not-evaluable"

eval_constraint(c, hc) ==
  CASE hc.field \in {"memory.total_bytes", "memory.free_bytes", "queue.depth"}
         /\ IsNumber(hc.value) ->
         IF ~Unsigned(hc.value) THEN "throws"
         ELSE IF Slack(c, hc.field, hc.value.number) < 0 THEN "violation" ELSE "met"
    [] hc.field = "device.architecture" /\ hc.value.kind = "String" ->
         IF c.architecture # hc.value.text THEN "violation" ELSE "met"
    [] hc.field = "capability" /\ hc.value.kind = "String" ->
         IF hc.value.text \notin c.capabilities THEN "violation" ELSE "met"
    [] hc.field \in {"device.health", "health"} ->
         IF c.health \notin {"Healthy", "Degraded"} THEN "violation" ELSE "met"
    [] OTHER -> "not-evaluable"

(***************************************************************************)
(* Costs and the order of the survivors.                                   *)
(***************************************************************************)

weighted_total(c) ==
  LET s[i \in 0..Len(c.costs)] ==
        IF i = 0 THEN 0 ELSE Plus(s[i - 1], Times(c.costs[i].cost, c.costs[i].policy_weight))
  IN s[Len(c.costs)]

cost_signature(c) ==
  [i \in 1..Len(c.costs) |->
     IF c.costs[i].kind = "StateLocalityBenefit" THEN -c.costs[i].cost ELSE c.costs[i].cost]

\* operator< of two vectors of finite doubles
LexLess(s, t) ==
  \E n \in 0..Len(s) :
    /\ n < Len(t)
    /\ \A i \in 1..n : s[i] = t[i]
    /\ n = Len(s) \/ s[n + 1] < t[n + 1]

cost_less(a, b) ==
  LET ta == weighted_total(a)
      tb == weighted_total(b)
      sa == cost_signature(a)
      sb == cost_signature(b)
  IN IF ~Same(ta, tb) THEN Less(ta, tb)
     ELSE IF sa # sb THEN LexLess(sa, sb)
     ELSE a.candidate_id < b.candidate_id

has_cost_evidence(c) == c.costs # <<>>

\* Mutant: candidates without cost evidence, whose total is 0, are ranked with the others.
BetterByTotal(a, b) == cost_less(a, b)

\* Mutant: equal totals are left in the order in which they come.
BetterUntied(a, b) ==
  IF has_cost_evidence(a) # has_cost_evidence(b) THEN has_cost_evidence(a)
  ELSE Less(weighted_total(a), weighted_total(b))

\* The comparator of stable_sort.
Better(a, b) ==
  IF has_cost_evidence(a) # has_cost_evidence(b) THEN has_cost_evidence(a)
  ELSE IF ~has_cost_evidence(a) THEN a.candidate_id < b.candidate_id
  ELSE IF cost_less(a, b) THEN TRUE
  ELSE IF cost_less(b, a) THEN FALSE
  ELSE a.candidate_id < b.candidate_id

(***************************************************************************)
(* rank_candidates.                                                        *)
(***************************************************************************)

\* The first constraint that settles the fate of a candidate; 0 if none does.
Decisive(d, c) ==
  LET at == {i \in 1..Len(d.hard_constraints) :
               eval_constraint(c, d.hard_constraints[i]) \in {"violation", "throws"}}
  IN IF at = {} THEN 0 ELSE CHOOSE i \in at : \A j \in at : i <= j

\* Mutant: the loop goes on after a violation, and the last constraint decides.
FateLast(d, c) ==
  LET n == Len(d.hard_constraints)
  IN IF n > 0 /\ eval_constraint(c, d.hard_constraints[n]) = "violation"
       THEN "violation" ELSE "survives"

Fate(d, c) ==
  IF Decisive(d, c) = 0 THEN "survives"
  ELSE eval_constraint(c, d.hard_constraints[Decisive(d, c)])

\* The constraints looked at and not evaluable, by their places.
Unverifiable(d, c) ==
  LET end == IF Decisive(d, c) = 0 THEN Len(d.hard_constraints) ELSE Decisive(d, c) - 1
  IN {k \in 1..end : eval_constraint(c, d.hard_constraints[k]) = "not-evaluable"}

\* The exception of as_uint ends the analysis.
RankingThrows(d) ==
  \E i \in 1..Len(d.candidates) : Fate(d, d.candidates[i]) = "throws"

\* The candidates no constraint rejects, by their places.
Survivors(d) == {i \in 1..Len(d.candidates) : Fate(d, d.candidates[i]) = "survives"}

\* rejections is keyed by the candidate id: of two candidates with the same
\* id the later one is kept.
Rejections(d) ==
  LET at == {i \in 1..Len(d.candidates) : Fate(d, d.candidates[i]) = "violation"}
      ids == {d.candidates[i].candidate_id : i \in at}
      LastOf(id) == CHOOSE i \in at : /\ d.candidates[i].candidate_id = id
                                      /\ \A j \in at : d.candidates[j].candidate_id = id => j <= i
  IN [id \in ids |-> d.hard_constraints[Decisive(d, d.candidates[LastOf(id)])].field]

\* What the candidate set says is missing.
Absent(d) == {<<"absent", m, 0>> : m \in 1..Len(d.missing_fields)}

\* What the loop over the candidates, and the one over the survivors, misses.
Unverified(d) ==
  UNION {{<<"unverifiable", i, k>> : k \in Unverifiable(d, d.candidates[i])} :
         i \in 1..Len(d.candidates)}
Uncosted(d) ==
  {<<"no cost evidence", i, 0>> :
     i \in {j \in Survivors(d) : ~has_cost_evidence(d.candidates[j])}}

\* Missing evidence is a set: of the lists of messages, order and repetitions
\* are left out.
MissingEvidence(d) == Unverified(d) \cup Uncosted(d) \cup Absent(d)

\* candidate_id 0 is the nil id.
RankingOf(d, sorted) ==
  [ ranked |-> [p \in DOMAIN sorted |-> d.candidates[sorted[p]].candidate_id],
    rejections |-> Rejections(d),
    selected |-> IF Survivors(d) = {} THEN 0 ELSE d.candidates[sorted[1]].candidate_id,
    missing |-> MissingEvidence(d) ]

\* The results rank_candidates may return.
rank_candidates(d) ==
  {RankingOf(d, sorted) : sorted \in StableSorts(d.candidates, Survivors(d), Better)}

(***************************************************************************)
(* replay_decision, build_explanation, compare_decisions, counterfactual.  *)
(***************************************************************************)

replay_decision(d, r) ==
  LET empty == d.candidates = <<>>
  IN [ selected |-> d.selected_candidate,
       reproduced |-> r.selected = d.selected_candidate /\ ~empty,
       mismatches |-> CASE r.selected # d.selected_candidate -> <<"selected_candidate">>
                        [] r.selected = d.selected_candidate /\ empty -> <<"candidate_set">>
                        [] OTHER -> <<>>,
       missing_required_evidence |->
         r.missing \cup Absent(d)
         \cup (IF empty THEN {<<"empty candidate set", 0, 0>>} ELSE {}) ]

Count(s, Test(_)) == Cardinality({i \in 1..Len(s) : Test(s[i])})

\* Evidence that was measured, and all there is: a candidate counts once, and
\* once more for each of its cost components.
MeasuredEvidence(d) ==
  Count(d.candidates, has_cost_evidence)
  + Count(d.hard_constraints \o d.soft_preferences, LAMBDA m : m.classification = "Measured")
TotalEvidence(d) ==
  FoldFunction(+, 0, [i \in 1..Len(d.candidates) |-> 1 + Len(d.candidates[i].costs)])
  + Len(d.hard_constraints) + Len(d.soft_preferences)

\* Mutant: the label of a reconstructed set is looked at last.
ConfidenceClassLate(d, r) ==
  LET m == MeasuredEvidence(d)
      t == TotalEvidence(d)
  IN IF d.complete /\ t > 0 /\ 100 * m >= 95 * t /\ r.missing = {} THEN "CompleteMeasured"
     ELSE IF t > 0 /\ 100 * m >= 60 * t THEN "StrongMixedEvidence"
     ELSE IF d.reconstructed THEN "Reconstructed"
     ELSE IF 100 * m > 20 * t THEN "PartialEvidence"
     ELSE "InsufficientEvidence"

ConfidenceClass(d, r) ==
  LET m == MeasuredEvidence(d)
      t == TotalEvidence(d)
  IN IF d.complete /\ t > 0 /\ 100 * m >= 95 * t /\ r.missing = {} THEN "CompleteMeasured"
     ELSE IF t > 0 /\ 100 * m >= 60 * t /\ ~d.reconstructed THEN "StrongMixedEvidence"
     ELSE IF d.reconstructed THEN "Reconstructed"
     ELSE IF 100 * m > 20 * t THEN "PartialEvidence"
     ELSE "InsufficientEvidence"

\* The first candidate with the id.
HasCandidate(d, id) == \E i \in 1..Len(d.candidates) : d.candidates[i].candidate_id = id

\* The questions answered, in order; the wording of the answers is left out.
Lines(d, r) ==
  LET selected == HasCandidate(d, d.selected_candidate)
      sel == d.candidates[CHOOSE i \in 1..Len(d.candidates) :
                            /\ d.candidates[i].candidate_id = d.selected_candidate
                            /\ \A j \in 1..(i - 1) :
                                 d.candidates[j].candidate_id # d.selected_candidate]
      If(test, line) == IF test THEN <<line>> ELSE <<>>
  IN <<"why_candidate", "hard_constraints">>
     \o If(selected /\ Len(r.ranked) >= 2, "soft_costs")
     \o (IF selected THEN If(sel.locality # <<>>, "locality") \o <<"queue", "memory">>
                     ELSE <<>>)
     \o <<"tie_break", "missing_evidence", "confidence">>

build_explanation(d, r) ==
  [ confidence |-> ConfidenceClass(d, r),
    next_alternative |-> IF Len(r.ranked) >= 2 THEN r.ranked[2] ELSE 0,
    lines |-> Lines(d, r),
    missing_evidence |-> r.missing \cup Absent(d) ]

\* What compare_decisions looks at in two candidates of the same position.
CandidateDeltas(ca, cb) ==
  { f \in {"candidate_id", "free_bytes", "total_bytes", "depth", "architecture"} :
      ca[f] # cb[f] }
  \cup (IF ~Same(weighted_total(ca), weighted_total(cb)) THEN {"total_weighted_cost"} ELSE {})

\* The fields of the deltas, each with the position of its candidate or 0.
compare_decisions(a, b) ==
  LET n == Len(a.candidates)
      If(test, field) == IF test THEN {<<0, field>>} ELSE {}
  IN If(a.policy_generation # b.policy_generation, "policy_generation")
     \cup If(a.selected_candidate # b.selected_candidate, "selected_candidate")
     \cup (IF n # Len(b.candidates) THEN {<<0, "candidate_count">>}
           ELSE UNION {{<<i, f>> : f \in CandidateDeltas(a.candidates[i], b.candidates[i])} :
                       i \in 1..n})
     \cup If(Len(a.hard_constraints) # Len(b.hard_constraints), "hard_constraint_count")
     \cup If(Len(a.cost_components) # Len(b.cost_components), "cost_component_count")
     \cup If(a.tie_break # b.tie_break, "tie_break")
     \cup (IF (a.outcome = <<>>) # (b.outcome = <<>>) THEN {<<0, "outcome_present">>}
           ELSE IF a.outcome = <<>> THEN {}
           ELSE {<<0, f>> : f \in {g \in {"duration_ns", "start_delay_ns"} :
                                     a.outcome[1][g] # b.outcome[1][g]}})

AtLeastZero(x) == IF x < 0 THEN 0 ELSE x

\* The number of a change; a value of another kind counts as 0.
NumberOf(v) == IF IsNumber(v) THEN v.number ELSE 0

\* int arithmetic: a wide unsigned wraps, a double out of range converts to
\* the smallest int (undefined in C++; what x86-64 does), a sum wraps.
WrapInt(x) == ((x + IntMax + 1) % (2 * IntMax + 2)) - IntMax - 1
DoubleToInt(x) == IF x \in (-IntMax - 1)..IntMax THEN x ELSE -IntMax - 1

\* Mutant: a change of the free memory subtracts what it should add.
PerturbWrongSign(c, ch) ==
  LET dv == NumberOf(ch.new_value)
      free == AtLeastZero(IF ch.relative THEN c.free_bytes - dv ELSE dv)
  IN CASE ch.target = "memory.free_bytes" ->
            [c EXCEPT !.free_bytes = free, !.used_bytes = AtLeastZero(c.total_bytes - free)]
       [] OTHER -> c

\* One change applied to one candidate; a delta of the total memory is taken
\* as its new value.
Perturb(c, ch) ==
  LET dv == NumberOf(ch.new_value)
      free == AtLeastZero(IF ch.relative THEN c.free_bytes + dv ELSE dv)
  IN CASE ch.target = "memory.free_bytes" ->
            [c EXCEPT !.free_bytes = free, !.used_bytes = AtLeastZero(c.total_bytes - free)]
       [] ch.target = "queue.depth" ->
            [c EXCEPT !.depth = AtLeastZero(
               IF ch.relative THEN WrapInt(WrapInt(@) + DoubleToInt(dv)) ELSE DoubleToInt(dv))]
       [] ch.target = "memory.total_bytes" -> [c EXCEPT !.total_bytes = AtLeastZero(dv)]
       [] ch.target = "transfer_cost" ->
            [c EXCEPT !.costs = [i \in 1..Len(@) |->
               IF @[i].kind = "TransferCost" THEN [@[i] EXCEPT !.cost = dv] ELSE @[i]]]
       [] OTHER -> c

\* scope is the candidate id after the colon of the field; where there is none
\* the change is made to every candidate.
Everyone == -1
Apply(c, ch) == IF ch.scope \in {Everyone, c.candidate_id} THEN Perturb(c, ch) ELSE c

\* A candidate after the changes, one after the other.
After(c, changes) ==
  LET a[i \in 0..Len(changes)] == IF i = 0 THEN c ELSE Apply(a[i - 1], changes[i])
  IN a[Len(changes)]

Changed(d, changes) ==
  [d EXCEPT !.candidates = [i \in 1..Len(@) |-> After(@[i], changes)]]

counterfactual(base, r) ==
  [ resulting_ranking |-> r.ranked,
    resulting_decision |-> r.selected,
    decision_changed |-> r.selected # base.selected_candidate ]
================================================================================
