------------------------------- MODULE MCAnalysis ------------------------------
(***************************************************************************)
(* Small instances of Analysis.                                            *)
(***************************************************************************)
EXTENDS Analysis

Cost(k, c, w) == [kind |-> k, cost |-> c, policy_weight |-> w]

\* No evidence; a cost of zero; two costs that differ; the same total from
\* other components; totals that overflow, to infinity and to no number.
CostLists ==
  { <<>>,
    << Cost("TransferCost", 0, 1) >>,
    << Cost("TransferCost", 2, 1) >>,
    << Cost("TransferCost", 1, 1), Cost("StateLocalityBenefit", 1, 1) >>,
    << Cost("QueueCost", Huge, 2) >>,
    << Cost("QueueCost", Huge, 2), Cost("TransferCost", -Huge, 2) >> }

Candidate(id, costs) ==
  [ candidate_id |-> id, total_bytes |-> 2, free_bytes |-> 1, used_bytes |-> 1, depth |-> 1,
    architecture |-> "sm_120", capabilities |-> {"cuda"}, health |-> "Healthy",
    locality |-> <<>>, costs |-> costs ]

\* As above; full, with a long queue; another device, offline, with a queue
\* longer than an int.
Variants(c) ==
  { c,
    [c EXCEPT !.free_bytes = 0, !.used_bytes = 2, !.depth = 2, !.locality = <<"weights">>],
    [c EXCEPT !.architecture = "x86-64", !.capabilities = {}, !.health = "Offline",
              !.depth = IntMax + 1] }

Constraint(f, k, n, t) ==
  [field |-> f, value |-> [kind |-> k, number |-> n, text |-> t], classification |-> "Measured"]

ConstraintLists ==
  { <<>>,
    << Constraint("memory.free_bytes", "UInt", 1, "") >>,
    << Constraint("memory.total_bytes", "UInt", 3, ""), Constraint("memory.free_bytes", "Double", 1, "") >>,
    << Constraint("queue.depth", "Int", 1, ""), Constraint("queue.depth", "Int", -1, "") >>,
    << Constraint("tenant", "String", 0, "t1"), Constraint("health", "None", 0, "") >>,
    << Constraint("capability", "String", 0, "cuda"), Constraint("memory.free_bytes", "String", 0, "1") >>,
    << Constraint("device.architecture", "String", 0, "sm_120"), Constraint("queue.depth", "UInt", 2, "") >> }

Decide(cs, hard, sel) ==
  [ candidates |-> cs, selected_candidate |-> sel, hard_constraints |-> hard,
    soft_preferences |-> <<>>, cost_components |-> <<>>, policy_generation |-> 1,
    tie_break |-> "None", outcome |-> <<>>, missing_fields |-> <<>>,
    complete |-> cs # <<>>, reconstructed |-> FALSE ]

\* Two candidates under every list of constraints.
Pairs ==
  UNION { { Decide(<<a, b>>, hard, 1) : hard \in ConstraintLists } :
            a \in UNION {Variants(Candidate(1, s)) : s \in CostLists},
            b \in UNION {Variants(Candidate(2, s)) : s \in CostLists} }

\* Three, among them two with the same id.
Triples ==
  { Decide(<<Candidate(3, s), Candidate(1, t), Candidate(id, u)>>, <<>>, 1) :
      s, t, u \in CostLists, id \in {1, 2} }

\* Totals 0, 2 and NaN, which the comparator puts in a circle, and a candidate
\* without costs.
Unordered ==
  { Decide(<<Candidate(3, << Cost("TransferCost", 0, 1) >>), Candidate(1, << Cost("TransferCost", 2, 1) >>),
             Candidate(2, << Cost("QueueCost", Huge, 2), Cost("TransferCost", -Huge, 2) >>),
             Candidate(4, <<>>)>>, <<>>, 1) }

\* Sets that are not complete: empty, reconstructed, with evidence missing,
\* with constraints that outweigh the candidates.
Many == [i \in 1..20 |-> Constraint("health", "None", 0, "")]
Incomplete ==
  { [Decide(cs, hard, 1) EXCEPT !.complete = FALSE, !.reconstructed = r, !.missing_fields = m] :
      cs \in {<<>>} \cup {<<Candidate(1, s)>> : s \in CostLists},
      hard \in {<<>>, Many, << Constraint("tenant", "String", 0, "t1") >>},
      r \in BOOLEAN, m \in {<<>>, <<"queue.depth">>} }
  \cup {Decide(<<Candidate(1, s)>>, Many, 1) : s \in CostLists}

Base == Decide(<<Candidate(1, << Cost("TransferCost", 2, 1) >>)>>, <<>>, 1)
Outcome(s, t) == << [duration_ns |-> s, start_delay_ns |-> t] >>

\* Decisions to compare with each other.
Compared ==
  { Base,
    [Base EXCEPT !.policy_generation = 2, !.tie_break = "CandidateId"],
    [Base EXCEPT !.candidates = @ \o <<Candidate(2, <<>>)>>],
    [Base EXCEPT !.candidates[1].costs = <<>>, !.candidates[1].depth = 0],
    [Base EXCEPT !.candidates[1].architecture = "x86-64", !.hard_constraints = Many],
    [Base EXCEPT !.candidates[1].costs = << Cost("TransferCost", 3, 1) >>],
    [Base EXCEPT !.outcome = Outcome(1, 1)],
    [Base EXCEPT !.outcome = Outcome(1, 2), !.cost_components = << Cost("TransferCost", 2, 1) >>] }

\* Monotonic (0 where there is none) and wall-clock times.
EventTimes == (0..2) \X (1..2)

Observed(id, w, t) ==
  [ kind |-> "observation", observation_id |-> id, decision_id |-> 0, workload_id |-> w,
    mono |-> t[1], wall |-> t[2], label |-> 1 ]
Decided(id, w, t) ==
  [ kind |-> "decision", observation_id |-> 0, decision_id |-> id, workload_id |-> w,
    mono |-> t[1], wall |-> t[2], label |-> 1 ]
Concluded(d, t) ==
  [d EXCEPT !.kind = "outcome", !.mono = t[1], !.wall = t[2], !.label = 0]

\* Two observations, perhaps of different workloads, and a decision, with and
\* without monotonic time; a decision of another workload.
ObservedLogs ==
  { << Observed(2, 1, t), Observed(1, w, u), Decided(1, 1, v), Decided(2, 2, v) >> :
      t, u, v \in EventTimes, w \in 1..2 }

\* Two decisions and the outcome of one of them.
DecidedLogs ==
  { << Decided(2, 1, t), Decided(1, 1, u), Observed(1, w, v),
       Concluded(Decided(2, 1, t), <<2, 2>>) >> :
      t, u, v \in EventTimes, w \in 1..2 }

MCLogs == ObservedLogs \cup DecidedLogs

MCConcludedContents == {[dec |-> <<>>, log |-> l] : l \in DecidedLogs}

\* Two decisions of the same time.
TiedLog == << Decided(1, 1, <<1, 1>>), Decided(2, 1, <<1, 1>>) >>

\* Three observations that the rule puts in a circle: the first is later than
\* the last by the monotonic clock, and one without monotonic time is between
\* them by the wall clock.
CircularLog == << Observed(1, 1, <<2, 1>>), Observed(2, 1, <<0, 2>>), Observed(3, 1, <<1, 3>>) >>

MCUnsettledContents == {[dec |-> <<>>, log |-> l] : l \in {TiedLog, CircularLog}}

MCContents ==
  {[dec |-> <<d>>, log |-> <<>>] : d \in Pairs \cup Triples \cup Unordered \cup Incomplete}
  \cup {[dec |-> <<a, b>>, log |-> <<>>] : a, b \in Compared}
  \cup {[dec |-> <<>>, log |-> l] : l \in MCLogs}

Change(t, id, n, rel) ==
  [target |-> t, scope |-> id, new_value |-> [kind |-> "Int", number |-> n], relative |-> rel]

MCChanges ==
  { <<>>,
    << Change("memory.free_bytes", 1, 1, TRUE) >>,
    << Change("queue.depth", Everyone, -1, TRUE), Change("memory.free_bytes", 2, 2, TRUE) >>,
    << Change("queue.depth", 2, IntMax + 1, FALSE) >>,
    << Change("transfer_cost", Everyone, 0, FALSE), Change("memory.total_bytes", 1, 3, FALSE) >> }
================================================================================
