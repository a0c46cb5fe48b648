----------------------------- MODULE EvidenceLedger ----------------------------
(***************************************************************************)
(* What the Observatory promises to those who read its evidence, without   *)
(* the indices, the checks and the counters it keeps it with: a ledger to  *)
(* which entries are only ever added, fenced by a token per source, and a  *)
(* register per decision that is written once, then concluded once.        *)
(***************************************************************************)
EXTENDS Sequences, Integers

CONSTANTS
  Nil,           \* nothing
  Sources,       \* who speaks
  Tokens,        \* fencing tokens: [generation, boot]
  Entries,       \* what may be entered
  DecisionKeys,  \* the decisions' keys
  Decided,       \* what a decision may be
  Concluded      \* how it may come out

VARIABLES
  token,     \* the token of each source
  entries,   \* the ledger
  decided,   \* the decision of each key, Nil until it is taken
  concluded  \* its outcome, Nil until it is known

ledger == <<token, entries, decided, concluded>>

Init ==
  /\ token = [s \in Sources |-> [generation |-> 0, boot |-> Nil]]
  /\ entries = <<>>
  /\ decided = [k \in DecisionKeys |-> Nil]
  /\ concluded = [k \in DecisionKeys |-> Nil]

\* A token is replaced by one of a higher generation; or its boot, as long
\* as it has none, is filled in.
Supersedes(t, u) ==
  \/ t.generation > u.generation
  \/ t.generation = u.generation /\ u.boot \in {Nil, t.boot}

Fence(s, t) ==
  /\ Supersedes(t, token[s])
  /\ token' = [token EXCEPT ![s] = t]
  /\ UNCHANGED <<entries, decided, concluded>>

\* An entry is new, and carries the token its source has once it is entered.
Enter(e) ==
  LET t == [generation |-> e.source_generation, boot |-> e.worker_boot]
  IN /\ \A i \in 1..Len(entries) : entries[i].observation_id # e.observation_id
     /\ Supersedes(t, token[e.source_id])
     /\ token' = [token EXCEPT ![e.source_id] = t]
     /\ entries' = Append(entries, e)
     /\ UNCHANGED <<decided, concluded>>

\* A decision is taken once, and an attempt belongs to one decision.
Decide(k, d) ==
  /\ decided[k] = Nil
  /\ d.decision_id = k
  /\ \A j \in DecisionKeys : decided[j] # Nil /\ d.attempt_id # Nil =>
                       decided[j].attempt_id # d.attempt_id
  /\ decided' = [decided EXCEPT ![k] = d]
  /\ UNCHANGED <<token, entries, concluded>>

\* A decision that was taken is concluded once, by its own attempt.
Conclude(k, o) ==
  /\ decided[k] # Nil
  /\ concluded[k] = Nil
  /\ o.attempt_id = Nil \/ decided[k].attempt_id \in {Nil, o.attempt_id}
  /\ concluded' = [concluded EXCEPT ![k] = o]
  /\ UNCHANGED <<token, entries, decided>>

Next ==
  \/ \E s \in Sources, t \in Tokens : Fence(s, t)
  \/ \E e \in Entries : Enter(e)
  \/ \E k \in DecisionKeys, d \in Decided : Decide(k, d)
  \/ \E k \in DecisionKeys, o \in Concluded : Conclude(k, o)

Spec == Init /\ [][Next]_ledger
================================================================================
