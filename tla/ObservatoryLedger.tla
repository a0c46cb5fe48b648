---------------------------- MODULE ObservatoryLedger --------------------------
(***************************************************************************)
(* The Observatory, with its default configuration, implements the         *)
(* evidence ledger.                                                        *)
(***************************************************************************)
EXTENDS Observatory

\* The generations that descriptors and observations speak of.
Generations ==
  {0} \cup {d.generation : d \in Descriptors} \cup {o.source_generation : o \in Observations}

\* A decision is found through its index, as every query does.
DecisionOf(k) == IF dec_by_id[k] = 0 THEN Nil ELSE dec[dec_by_id[k]]

Ledger ==
  INSTANCE EvidenceLedger WITH
    Sources <- SourceId,
    Tokens <- [generation : Generations, boot : Boot \cup {Nil}],
    Entries <- {[o EXCEPT !.lifecycle = "Correlated"] : o \in Observations},
    DecisionKeys <- DecisionId,
    Decided <- Decisions,
    Concluded <- Outcomes,
    token <- [s \in SourceId |-> [generation |-> src_gen[s], boot |-> src_boot[s]]],
    entries <- obs,
    decided <- [k \in DecisionId |-> DecisionOf(k)],
    concluded <- outcomes

\* Every behaviour of the engine is one of the ledger: whatever is registered,
\* reported, refused late or early and interleaved, a call enters one new
\* entry under its source's token, takes or concludes one decision, moves one
\* token forward, or changes nothing a reader of the evidence can see.
ImplementsLedger == Ledger!Spec
================================================================================
