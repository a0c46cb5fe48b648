-------------------------------- MODULE Timeline -------------------------------
(***************************************************************************)
(* Observatory::timeline: the events of a workload, sorted.                *)
(*                                                                         *)
(* An event of the log carries all that the entry made of it has, and the  *)
(* workload of the timeline it belongs to; an outcome belongs where its    *)
(* decision does.  The id of what an event does not concern is nil, 0: a   *)
(* decision has no observation_id.  mono is 0 where the source had no      *)
(* monotonic clock.  The label is the source of an observation and the     *)
(* candidate that a decision has selected.                                 *)
(***************************************************************************)
EXTENDS Integers, Sequences, Sorting

TimelineEntry ==
  [ kind : {"observation", "decision", "outcome"}, observation_id : Nat, decision_id : Nat,
    workload_id : Nat, mono : Nat, wall : Int, label : Nat ]

\* Mutant: wall-clock time first.
EntryBeforeByWall(a, b) ==
  IF a.wall # b.wall THEN a.wall < b.wall
  ELSE IF a.kind # b.kind THEN a.kind = "decision"
  ELSE a.observation_id < b.observation_id

\* The comparator; of the two kinds it meets, "decision" is the smaller string.
EntryBefore(a, b) ==
  IF a.mono # b.mono /\ a.mono # 0 /\ b.mono # 0 THEN a.mono < b.mono
  ELSE IF a.wall # b.wall THEN a.wall < b.wall
  ELSE IF a.kind # b.kind THEN a.kind = "decision"
  ELSE a.observation_id < b.observation_id

\* The observations and the decisions of the workload, as places in the log;
\* in which order they are collected makes no difference to std::sort, which
\* is not stable.  The outcomes are not looked at.
Entries(log, w) ==
  {i \in DOMAIN log : log[i].workload_id = w /\ log[i].kind # "outcome"}

\* The timelines the call may return.
timeline(log, w) ==
  {[p \in DOMAIN f |-> log[f[p]]] : f \in Sorts(log, Entries(log, w), EntryBefore)}
================================================================================
