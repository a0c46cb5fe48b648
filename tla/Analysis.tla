-------------------------------- MODULE Analysis -------------------------------
(***************************************************************************)
(* The analysis queries of the engine (src/observatory.cpp): explain,      *)
(* counterfactual, compare, replay and timeline, over the decisions and    *)
(* the log it holds.  A query runs under the shared lock and changes       *)
(* nothing, so one query is asked of each content of the engine.           *)
(***************************************************************************)
EXTENDS Ranking, Timeline

CONSTANTS
  Contents,   \* what the engine may hold: decisions, and a log of events
  Changes,    \* the lists of changes a counterfactual is asked for
  Workloads   \* the workloads a timeline is asked for

CounterfactualChange ==
  [ target : STRING, scope : Nat \cup {Everyone},
    new_value : [kind : STRING, number : Int], relative : BOOLEAN ]

ASSUME ContentsAssumption ==
  \A c \in Contents : c.dec \in Seq(PlacementDecision) /\ c.log \in Seq(TimelineEntry)

ASSUME ChangesAssumption == Changes \subseteq Seq(CounterfactualChange)

VARIABLES
  dec,        \* the decisions; a decision's id is its place
  log,        \* the events of observations and decisions, in order of arrival
  query,      \* the query asked
  answer      \* its answer

vars == <<dec, log, query, answer>>

Asked(q) == query.name = q

Init ==
  /\ \E c \in Contents : dec = c.dec /\ log = c.log
  /\ query = [name |-> "none"]
  /\ answer = [kind |-> "none"]

Known(id) == id \in 1..Len(dec)

\* An id that is not found is answered with an empty result.
UnknownDecision == [kind |-> "unknown"]

\* std::runtime_error from Value::as_uint
Throws == [kind |-> "throws"]

Answer(q, a) ==
  /\ query' = q
  /\ answer' = a
  /\ UNCHANGED <<dec, log>>

explain(id) ==
  LET q == [name |-> "explain", id |-> id]
  IN \/ ~Known(id) /\ Answer(q, UnknownDecision)
     \/ Known(id) /\ RankingThrows(dec[id]) /\ Answer(q, Throws)
     \/ /\ Known(id) /\ ~RankingThrows(dec[id])
        /\ \E r \in rank_candidates(dec[id]) :
             Answer(q, [kind |-> "explanation", of |-> build_explanation(dec[id], r)])

replay(id) ==
  LET q == [name |-> "replay", id |-> id]
  IN \/ ~Known(id) /\ Answer(q, UnknownDecision)
     \/ Known(id) /\ RankingThrows(dec[id]) /\ Answer(q, Throws)
     \/ /\ Known(id) /\ ~RankingThrows(dec[id])
        /\ \E r \in rank_candidates(dec[id]) :
             Answer(q, [kind |-> "replay", of |-> replay_decision(dec[id], r), ranking |-> r])

counterfactual_query(id, changes) ==
  LET q == [name |-> "counterfactual", id |-> id, changes |-> changes]
  IN \/ ~Known(id) /\ Answer(q, UnknownDecision)
     \/ Known(id) /\ RankingThrows(Changed(dec[id], changes)) /\ Answer(q, Throws)
     \/ /\ Known(id) /\ ~RankingThrows(Changed(dec[id], changes))
        /\ \E r \in rank_candidates(Changed(dec[id], changes)) :
             Answer(q, [kind |-> "counterfactual", of |-> counterfactual(dec[id], r)])

compare(a, b) ==
  LET q == [name |-> "compare", a |-> a, b |-> b]
  IN \/ ~(Known(a) /\ Known(b)) /\ Answer(q, UnknownDecision)
     \/ Known(a) /\ Known(b)
        /\ Answer(q, [kind |-> "comparison", of |-> compare_decisions(dec[a], dec[b])])

timeline_query(w) ==
  \E t \in timeline(log, w) :
    Answer([name |-> "timeline", workload |-> w], [kind |-> "timeline", of |-> t])

\* Ids asked for: unknown ones too.
AskedIds == 0..2

Next ==
  /\ Asked("none")
  /\ \/ \E id \in AskedIds : explain(id) \/ replay(id)
     \/ \E id \in AskedIds, changes \in Changes : counterfactual_query(id, changes)
     \/ \E a, b \in AskedIds : compare(a, b)
     \/ \E w \in Workloads : timeline_query(w)

Spec == Init /\ [][Next]_vars

(***************************************************************************)
(* Properties.                                                             *)
(***************************************************************************)

Decision == dec[query.id]

\* No total cost of the decision overflows into a NaN.
Ordinary(d) == \A i \in 1..Len(d.candidates) : weighted_total(d.candidates[i]) # NaN

Rearrangements(s) ==
  {[i \in 1..Len(s) |-> s[f[i]]] : f \in Bijection(1..Len(s), 1..Len(s))}

\* The ranking does not depend on the order in which the candidates were
\* recorded: neither the ranked ids nor the rejected ones.  A NaN total is
\* the exception, since the comparator is no order then.
RankingIsOrderFree ==
  answer.kind = "replay" /\ Ordinary(Decision) =>
    \A cs \in Rearrangements(Decision.candidates) :
      \A r \in rank_candidates([Decision EXCEPT !.candidates = cs]) :
        /\ r.ranked = answer.ranking.ranked
        /\ DOMAIN r.rejections = DOMAIN answer.ranking.rejections

\* A hard constraint is violated by the candidate, by itself.
Excluded(d, c) ==
  \E i \in 1..Len(d.hard_constraints) : eval_constraint(c, d.hard_constraints[i]) = "violation"

\* Every candidate is either ranked or rejected, a rejected one violates a
\* constraint, a ranked one none; those without cost evidence come last.
\* With a NaN total the comparator is no order, and they may come anywhere.
RankingIsSound ==
  answer.kind = "replay" =>
    LET r == answer.ranking
        cs == Decision.candidates
        Distinct == \A i, j \in 1..Len(cs) : cs[i].candidate_id = cs[j].candidate_id => i = j
        HasCosts(id) == \E i \in 1..Len(cs) : cs[i].candidate_id = id /\ cs[i].costs # <<>>
    IN /\ \A i \in 1..Len(cs) :
            IF Excluded(Decision, cs[i]) THEN cs[i].candidate_id \in DOMAIN r.rejections
                                         ELSE cs[i].candidate_id \in Range(r.ranked)
       /\ Len(r.ranked) = Cardinality({i \in 1..Len(cs) : ~Excluded(Decision, cs[i])})
       /\ Ordinary(Decision) /\ Distinct =>
            \A i, j \in 1..Len(r.ranked) :
              i < j /\ HasCosts(r.ranked[j]) => HasCosts(r.ranked[i])

\* The reference: candidates with costs before those without, then by total,
\* then by the costs one after the other, then by id.
Preferred(a, b) ==
  LET Key(c) == << IF c.costs = <<>> THEN 1 ELSE 0, weighted_total(c) >> \o
                [i \in 1..Len(c.costs) |-> IF c.costs[i].kind = "StateLocalityBenefit"
                                             THEN -c.costs[i].cost ELSE c.costs[i].cost]
  IN LexLess(Key(a), Key(b)) \/ (Key(a) = Key(b) /\ a.candidate_id < b.candidate_id)

\* Replay reports success exactly when the recorded selection is the best
\* candidate that no hard constraint excludes; never for an empty set.
ReplayIsHonest ==
  answer.kind = "replay" /\ Ordinary(Decision) =>
    LET S == {i \in 1..Len(Decision.candidates) : ~Excluded(Decision, Decision.candidates[i])}
    IN answer.of.reproduced <=>
         \E i \in S :
           /\ Decision.candidates[i].candidate_id = Decision.selected_candidate
           /\ \A j \in S : ~Preferred(Decision.candidates[j], Decision.candidates[i])

\* An analysis fails only because of a numeric constraint whose value is not
\* an unsigned number, and never when such a constraint comes after one that
\* already excludes each candidate.
ThrowsOnlyOnSigned ==
  answer.kind = "throws" =>
    \E i \in 1..Len(Decision.hard_constraints), c \in Range(Decision.candidates) :
      /\ IsNumber(Decision.hard_constraints[i].value)
      /\ ~Unsigned(Decision.hard_constraints[i].value)
      /\ query.name # "counterfactual" =>
           ~Excluded([Decision EXCEPT !.hard_constraints = SubSeq(@, 1, i - 1)], c)

\* An explanation of a reconstructed candidate set says so, however much of
\* its evidence was measured; and full confidence has no evidence missing.
ConfidenceIsHonest ==
  answer.kind = "explanation" =>
    /\ Decision.reconstructed <=> answer.of.confidence = "Reconstructed"
    /\ answer.of.confidence = "CompleteMeasured" =>
         Decision.complete /\ answer.of.missing_evidence = {}

\* Changes that only make room: more free memory, or a shorter queue.
MakesRoom(ch) ==
  /\ ch.relative
  /\ \/ ch.target = "memory.free_bytes" /\ NumberOf(ch.new_value) >= 0
     \/ ch.target = "queue.depth" /\ NumberOf(ch.new_value) \in (-IntMax)..0

\* A counterfactual without changes repeats the replay: the decision changed
\* if and only if it is not reproduced.  Making room for candidates excludes
\* none that was ranked, as long as the queue depths are ints.
CounterfactualIsSound ==
  answer.kind = "counterfactual" /\ Ordinary(Decision) /\ Decision.candidates # <<>> =>
    \A r \in rank_candidates(Decision) :
      /\ query.changes = <<>> =>
           /\ answer.of.resulting_ranking = r.ranked
           /\ answer.of.decision_changed <=> ~replay_decision(Decision, r).reproduced
      /\ /\ \A i \in 1..Len(query.changes) : MakesRoom(query.changes[i])
         /\ \A c \in Range(Decision.candidates) : c.depth <= IntMax
         => Range(r.ranked) \subseteq Range(answer.of.resulting_ranking)

\* The rule for two entries of a timeline: by the monotonic clock where both
\* have it and differ, otherwise by the wall clock, at the same time decisions
\* first, and observations by their ids.
Earlier(a, b) ==
  LET Clocked == a.mono # 0 /\ b.mono # 0
  IN \/ Clocked /\ a.mono < b.mono
     \/ /\ Clocked => a.mono = b.mono
        /\ \/ a.wall < b.wall
           \/ /\ a.wall = b.wall
              /\ \/ a.kind = "decision" /\ b.kind = "observation"
                 \/ a.kind = b.kind /\ a.observation_id < b.observation_id

\* No entry contradicts the rule for two others, as one without monotonic time
\* may: when a is earlier than c, any b is later than a or earlier than c.
Consistent(t) ==
  \A i, j, k \in DOMAIN t :
    Earlier(t[i], t[k]) => Earlier(t[i], t[j]) \/ Earlier(t[j], t[k])

\* Entries that differ are told apart by the rule, as two decisions of the
\* same time are not.
ToldApart(t) ==
  \A i, j \in DOMAIN t : t[i] = t[j] \/ Earlier(t[i], t[j]) \/ Earlier(t[j], t[i])

\* A timeline has each observation and each decision of its workload once, and
\* it follows the rule where the rule is consistent.  Whatever the order in
\* which the events arrived, the same timeline is returned: exactly if the rule
\* is consistent and tells the entries apart.
TimelineIsSettled ==
  answer.kind = "timeline" =>
    LET t == answer.of
        Listed(e) == e.workload_id = query.workload /\ e.kind # "outcome"
    IN /\ \A e \in Range(log) : Cardinality({i \in DOMAIN t : t[i] = e}) =
            IF Listed(e) THEN Cardinality({i \in DOMAIN log : log[i] = e}) ELSE 0
       /\ Consistent(t) => \A i, j \in DOMAIN t : i < j => ~Earlier(t[j], t[i])
       /\ (\A l \in Rearrangements(log) : timeline(l, query.workload) = {t})
            <=> Consistent(t) /\ ToldApart(t)

\* The order that docs/timeline.md promises, ties broken by kind and identity:
\* two entries that the rule does not tell apart come in the order of their ids,
\* and no entry comes before an earlier one.
TimelineOrderIsDocumented ==
  answer.kind = "timeline" =>
    \A i, j \in DOMAIN answer.of :
      LET a == answer.of[i]
          b == answer.of[j]
      IN i < j => \/ Earlier(a, b)
                  \/ ~Earlier(b, a) /\ a.decision_id <= b.decision_id

\* The events that docs/timeline.md promises: for an outcome recorded of a
\* decision of the workload, there is an entry in the timeline.
OutcomesAreListed ==
  answer.kind = "timeline" =>
    \A e \in Range(log) :
      e.kind = "outcome" /\ e.workload_id = query.workload =>
        \E x \in Range(answer.of) : x.kind = "outcome" /\ x.decision_id = e.decision_id
================================================================================
