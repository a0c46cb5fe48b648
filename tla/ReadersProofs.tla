----------------------------- MODULE ReadersProofs -----------------------------
(***************************************************************************)
(* Proofs about Readers, for any number of threads and of calls: reads     *)
(* under the shared lock are of one moment, the racy counter of snapshot   *)
(* is bounded, and persist leaves its copy at path.                        *)
(***************************************************************************)
EXTENDS Readers, FiniteSetTheorems, TLAPS

(***************************************************************************)
(* The inductive invariant.                                                *)
(***************************************************************************)

\* Where a thread is in its call.
Positions ==
  /\ call \in [Reader -> Function \cup {Nil}]
  /\ step \in [Reader -> Nat]
  /\ DOMAIN got = Reader /\ DOMAIN cut = Reader
  /\ \A r \in Reader :
       IF call[r] = Nil THEN step[r] = 0 /\ got[r] = Empty ELSE step[r] <= Len(Steps(call[r]))

\* A thread that holds the lock sees the state as it was when it took it.
LockHolds == \A r \in Reader : Inside(r) => cut[r] = Part

\* A thread between the load and the store of its increment.
Incrementing(r) == call[r] = "snapshot" /\ step[r] = 1

\* As long as no increment has begun inside another, only one is under way.
CounterInv ==
  /\ snapshot_count \in Nat /\ counted \in Nat /\ loaded \in [Reader -> Nat]
  /\ raced \in BOOLEAN
  /\ \A r \in Reader : loaded[r] <= counted
  /\ ~raced =>
       /\ \A r \in Reader : Incrementing(r) => loaded[r] = snapshot_count
       /\ \A q, r \in Reader : Incrementing(q) /\ Incrementing(r) => q = r

\* A persist that has opened its file and has not returned.
InFile(r) == call[r] = "persist" /\ step[r] >= 7

PathOK == IF last = Empty THEN path = 0 ELSE path # 0 /\ content[path] = last

\* How far the one persist in its file operations has come.
Progress(r) ==
  /\ step[r] = 7 => tmp # 0 /\ open[r] = tmp /\ tmp # path /\ content[tmp] = Empty
  /\ step[r] = 8 => tmp # 0 /\ tmp # path /\ content[tmp] = got[r]
  /\ step[r] = 9 => tmp # 0 /\ path = 0 /\ content[tmp] = got[r]
  /\ step[r] = 10 => tmp = 0 /\ path # 0 /\ content[path] = got[r]

\* The files as long as no two persists have overlapped.
Calm ==
  /\ path \in Inode \cup {0} /\ tmp \in Inode \cup {0}
  /\ DOMAIN content = Inode
  /\ \A q, r \in Reader : InFile(q) /\ InFile(r) => q = r
  /\ \A r \in Reader : open[r] # 0 => InFile(r) /\ step[r] = 7
  /\ \A r \in Reader : InFile(r) => Progress(r)
  /\ (\A r \in Reader : ~InFile(r)) => tmp = 0 /\ PathOK

\* persist has its first part from its first step on.
CopyBegun == \A r \in Reader : call[r] = "persist" /\ step[r] >= 1 => "obs" \in DOMAIN got[r]

FileInv ==
  /\ overlapped \in BOOLEAN /\ DOMAIN open = Reader
  /\ ~overlapped => Calm

RInv ==
  /\ Positions
  /\ LockHolds /\ ReadsAreCut
  /\ CounterInv /\ SnapshotCountSound
  /\ CopyBegun /\ FileInv

(***************************************************************************)
(* The step lists.                                                         *)
(***************************************************************************)

PartName ==
  {"obs", "dec", "sources", "outcomes", "src_health", "src_gen", "coordinator",
   "observation_count", "decision_count", "outcome_count", "source_count",
   "superseded", "rejected", "events"}

LEMMA PartNames == DOMAIN Part = PartName
BY DEF Part, PartName

LEMMA PersistSteps ==
  /\ Steps("persist") = persist /\ Len(persist) = 10
  /\ persist[1] = "obs" /\ persist[2] = "dec" /\ persist[3] = "sources"
  /\ persist[4] = "outcomes" /\ persist[5] = "coordinator" /\ persist[6] = "unlock"
  /\ persist[7] = "open" /\ persist[8] = "write" /\ persist[9] = "remove"
  /\ persist[10] = "rename"
BY DEF Steps, persist

LEMMA SnapshotSteps ==
  /\ Steps("snapshot") = snapshot /\ Len(snapshot) = 8
  /\ snapshot[1] = "load" /\ snapshot[2] = "store" /\ snapshot[3] = "dec"
  /\ snapshot[4] = "obs" /\ snapshot[5] = "src_health" /\ snapshot[6] = "observation_count"
  /\ snapshot[7] = "decision_count" /\ snapshot[8] = "outcome_count"
BY DEF Steps, snapshot

\* The other functions read parts, or the counter, and nothing else.
LEMMA OtherSteps ==
  ASSUME NEW c \in Function, c # "persist", c # "snapshot",
         NEW i \in 1..Len(Steps(c))
  PROVE Steps(c)[i] \in PartName \cup {"snapshot_count"}
<1>1. CASE c = "sources"
  BY <1>1 DEF Steps, sources_list, PartName
<1>2. CASE c = "source_health"
  BY <1>2 DEF Steps, source_health, PartName
<1>3. CASE c = "decision"
  BY <1>3 DEF Steps, decision, PartName
<1>4. CASE c = "outcome"
  BY <1>4 DEF Steps, outcome, PartName
<1>5. CASE c = "has_observation"
  BY <1>5 DEF Steps, has_observation, PartName
<1>6. CASE c = "candidates"
  BY <1>6 DEF Steps, candidates, PartName
<1>7. CASE c = "observations"
  BY <1>7 DEF Steps, observations, PartName
<1>8. CASE c = "decisions"
  BY <1>8 DEF Steps, decisions, PartName
<1>9. CASE c = "stats"
  BY <1>9 DEF Steps, stats, PartName
<1>10. CASE c \in {"current_source_generation", "coordinator_epoch"}
  BY <1>10 DEF Steps, current_source_generation, coordinator_epoch, PartName
<1>11. CASE c \in {"explain", "counterfactual", "replay"}
  BY <1>11 DEF Steps, explain, counterfactual, replay, PartName
<1>12. CASE c \in {"compare", "timeline"}
  BY <1>12 DEF Steps, compare, timeline, PartName
<1> QED
  BY <1>1, <1>2, <1>3, <1>4, <1>5, <1>6, <1>7, <1>8, <1>9, <1>10, <1>11, <1>12 DEF Function

LEMMA StepsLength ==
  ASSUME NEW c \in Function
  PROVE Len(Steps(c)) \in Nat
<1>1. CASE c \in {"persist", "snapshot"}
  BY <1>1, PersistSteps, SnapshotSteps
<1>2. CASE c \notin {"persist", "snapshot"}
  BY <1>2 DEF Function, Steps, sources_list, source_health, current_source_generation,
     coordinator_epoch, decision, outcome, has_observation, candidates, observations,
     decisions, explain, counterfactual, compare, replay, timeline, stats
<1> QED BY <1>1, <1>2

\* Which step is in which place.
LEMMA StepPlaces ==
  ASSUME NEW c \in Function, NEW i \in 1..Len(Steps(c))
  PROVE /\ Steps(c)[i] = "unlock" => c = "persist" /\ i = 6
        /\ Steps(c)[i] = "open" => c = "persist" /\ i = 7
        /\ Steps(c)[i] = "write" => c = "persist" /\ i = 8
        /\ Steps(c)[i] = "remove" => c = "persist" /\ i = 9
        /\ Steps(c)[i] = "rename" => c = "persist" /\ i = 10
        /\ Steps(c)[i] = "load" => c = "snapshot" /\ i = 1
        /\ Steps(c)[i] = "store" => c = "snapshot" /\ i = 2
        /\ Steps(c)[i] = "snapshot_count" => c # "persist" /\ c # "snapshot"
        /\ Steps(c)[i] \in PartName => (c = "persist" => i <= 5) /\ (c = "snapshot" => i >= 3)
<1>1. CASE c = "persist"
  <2>1. i \in 1..10
    BY <1>1, PersistSteps
  <2>2. i \in {1, 2, 3, 4, 5, 6, 7, 8, 9, 10}
    BY <2>1
  <2> QED BY <1>1, <2>2, PersistSteps DEF PartName
<1>2. CASE c = "snapshot"
  <2>1. i \in 1..8
    BY <1>2, SnapshotSteps
  <2>2. i \in {1, 2, 3, 4, 5, 6, 7, 8}
    BY <2>1
  <2> QED BY <1>2, <2>2, SnapshotSteps DEF PartName
<1>3. CASE c # "persist" /\ c # "snapshot"
  <2>1. Steps(c)[i] \in PartName \cup {"snapshot_count"}
    BY <1>3, OtherSteps
  <2> QED BY <1>3, <2>1 DEF PartName
<1> QED BY <1>1, <1>2, <1>3

\* Where a thread is when it is at a step.
LEMMA AtPlaces ==
  ASSUME Positions, NEW r \in Reader, NEW s, At(r, s)
  PROVE /\ call[r] \in Function /\ step[r] \in Nat /\ step[r] + 1 <= Len(Steps(call[r]))
        /\ s = "unlock" => call[r] = "persist" /\ step[r] = 5
        /\ s = "open" => call[r] = "persist" /\ step[r] = 6
        /\ s = "write" => call[r] = "persist" /\ step[r] = 7
        /\ s = "remove" => call[r] = "persist" /\ step[r] = 8
        /\ s = "rename" => call[r] = "persist" /\ step[r] = 9
        /\ s = "load" => call[r] = "snapshot" /\ step[r] = 0
        /\ s = "store" => call[r] = "snapshot" /\ step[r] = 1
        /\ s = "snapshot_count" => call[r] # "persist" /\ call[r] # "snapshot"
        /\ s \in PartName =>
             (call[r] = "persist" => step[r] <= 4) /\ (call[r] = "snapshot" => step[r] >= 2)
<1>1. call[r] \in Function /\ step[r] \in Nat /\ step[r] < Len(Steps(call[r]))
  BY DEF At, Positions
<1>2. Len(Steps(call[r])) \in Nat
  BY <1>1, StepsLength
<1>3. PICK i \in 1..Len(Steps(call[r])) : i = step[r] + 1
  BY <1>1, <1>2
<1>4. Steps(call[r])[i] = s
  BY <1>3 DEF At
<1>5. PICK c \in Function : c = call[r]
  BY <1>1
<1>6. i \in 1..Len(Steps(c)) /\ Steps(c)[i] = s
  BY <1>4, <1>5
<1>7. /\ s = "unlock" => c = "persist" /\ i = 6
      /\ s = "open" => c = "persist" /\ i = 7
      /\ s = "write" => c = "persist" /\ i = 8
      /\ s = "remove" => c = "persist" /\ i = 9
      /\ s = "rename" => c = "persist" /\ i = 10
      /\ s = "load" => c = "snapshot" /\ i = 1
      /\ s = "store" => c = "snapshot" /\ i = 2
      /\ s = "snapshot_count" => c # "persist" /\ c # "snapshot"
      /\ s \in PartName => (c = "persist" => i <= 5) /\ (c = "snapshot" => i >= 3)
  BY <1>6, StepPlaces
<1> QED BY <1>1, <1>2, <1>3, <1>5, <1>7

\* A step has been done when the thread is past its place.
LEMMA DonePlaces ==
  ASSUME NEW c \in Function, NEW n \in Nat, n <= Len(Steps(c))
  PROVE /\ (\E i \in 1..n : Steps(c)[i] = "unlock") <=> c = "persist" /\ n >= 6
        /\ (\E i \in 1..n : Steps(c)[i] = "open") <=> c = "persist" /\ n >= 7
<1>0. Len(Steps(c)) \in Nat
  BY StepsLength
<1>1. \A i \in 1..n : i \in 1..Len(Steps(c))
  BY <1>0
<1>2. \A i \in 1..n : Steps(c)[i] = "unlock" => c = "persist" /\ i = 6
  BY <1>1, StepPlaces
<1>3. \A i \in 1..n : Steps(c)[i] = "open" => c = "persist" /\ i = 7
  BY <1>1, StepPlaces
<1>4. c = "persist" /\ n >= 6 => 6 \in 1..n /\ Steps(c)[6] = "unlock"
  BY PersistSteps
<1>5. c = "persist" /\ n >= 7 => 7 \in 1..n /\ Steps(c)[7] = "open"
  BY PersistSteps
<1> QED BY <1>2, <1>3, <1>4, <1>5

\* Who holds the lock.
Locked(r) == call[r] # Nil /\ ~(call[r] = "persist" /\ step[r] >= 6)

LEMMA InsideIsLocked ==
  ASSUME Positions, NEW r \in Reader
  PROVE Inside(r) <=> Locked(r)
<1>1. CASE call[r] # Nil
  <2>1. PICK c \in Function, n \in Nat : c = call[r] /\ n = step[r] /\ n <= Len(Steps(c))
    BY <1>1 DEF Positions
  <2>2. (\E i \in 1..n : Steps(c)[i] = "unlock") <=> c = "persist" /\ n >= 6
    BY <2>1, DonePlaces
  <2> QED BY <1>1, <2>1, <2>2 DEF Inside, Locked, Done
<1>2. CASE call[r] = Nil
  BY <1>2 DEF Inside, Locked
<1> QED BY <1>1, <1>2

LEMMA InsideIsLockedPrimed ==
  ASSUME Positions', NEW r \in Reader
  PROVE Inside(r)' <=> Locked(r)'
<1>1. CASE call'[r] # Nil
  <2>1. PICK c \in Function, n \in Nat : c = call'[r] /\ n = step'[r] /\ n <= Len(Steps(c))
    BY <1>1 DEF Positions
  <2>2. (\E i \in 1..n : Steps(c)[i] = "unlock") <=> c = "persist" /\ n >= 6
    BY <2>1, DonePlaces
  <2> QED BY <1>1, <2>1, <2>2 DEF Inside, Locked, Done
<1>2. CASE call'[r] = Nil
  BY <1>2 DEF Inside, Locked
<1> QED BY <1>1, <1>2

LEMMA WritingIsInFile ==
  ASSUME Positions, NEW r \in Reader
  PROVE Writing(r) <=> InFile(r)
<1>1. CASE call[r] = "persist"
  <2>0. call[r] # Nil /\ "persist" \in Function
    BY <1>1, CallsAssumption DEF Function
  <2>1. PICK c \in Function, n \in Nat : c = call[r] /\ n = step[r] /\ n <= Len(Steps(c))
    BY <2>0 DEF Positions
  <2>2. (\E i \in 1..n : Steps(c)[i] = "open") <=> c = "persist" /\ n >= 7
    BY <2>1, DonePlaces
  <2> QED BY <1>1, <2>1, <2>2 DEF Writing, InFile, Done
<1>2. CASE call[r] # "persist"
  BY <1>2 DEF Writing, InFile
<1> QED BY <1>1, <1>2

(***************************************************************************)
(* The steps of a thread.                                                  *)
(***************************************************************************)

\* A step inside a call.
Working(r) ==
  \/ \E p \in DOMAIN Part : ReadPart(r, p)
  \/ ReadCount(r) \/ LoadCount(r) \/ StoreCount(r) \/ Unlock(r)
  \/ OpenTmp(r) \/ WriteTmp(r) \/ RemovePath(r) \/ RenameTmp(r)

LEMMA WorkingAdvances ==
  ASSUME NEW r \in Reader, Working(r)
  PROVE Advance(r) /\ \E s : At(r, s)
<1>1. ASSUME NEW p \in DOMAIN Part, ReadPart(r, p) PROVE Advance(r) /\ \E s : At(r, s)
  BY <1>1 DEF ReadPart
<1> QED
  BY <1>1 DEF Working, ReadCount, LoadCount, StoreCount, Unlock, OpenTmp, WriteTmp,
              RemovePath, RenameTmp

LEMMA NextCases ==
  ASSUME [RNext]_rvars
  PROVE \/ UNCHANGED rvars \/ Write
        \/ \E r \in Reader : (\E c \in Calls : Begin(r, c)) \/ Working(r) \/ Return(r)
BY DEF RNext, Working

\* What one thread does leaves the others where they are.
LEMMA OtherThreads ==
  ASSUME Positions, NEW r \in Reader,
         (\E c \in Calls : Begin(r, c)) \/ Working(r) \/ Return(r),
         NEW q \in Reader, q # r
  PROVE /\ call'[q] = call[q] /\ step'[q] = step[q]
        /\ got'[q] = got[q] /\ cut'[q] = cut[q]
<1>0. DOMAIN call = Reader /\ DOMAIN step = Reader /\ DOMAIN got = Reader /\ DOMAIN cut = Reader
  BY DEF Positions
<1>1. CASE \E c \in Calls : Begin(r, c)
  BY <1>0, <1>1 DEF Begin
<1>2. CASE Working(r)
  <2>1. Advance(r)
    BY <1>2, WorkingAdvances
  <2>2. got'[q] = got[q]
    <3>1. ASSUME NEW p \in DOMAIN Part, ReadPart(r, p) PROVE got'[q] = got[q]
      BY <1>0, <3>1 DEF ReadPart
    <3> QED BY <1>2, <3>1 DEF Working, ReadCount, LoadCount, StoreCount, Unlock, OpenTmp, WriteTmp,
                       RemovePath, RenameTmp
  <2> QED BY <1>0, <2>1, <2>2 DEF Advance
<1>3. CASE Return(r)
  BY <1>0, <1>3 DEF Return
<1> QED BY <1>1, <1>2, <1>3

LEMMA PositionsKept ==
  ASSUME Positions, [RNext]_rvars
  PROVE Positions'
<1>0. /\ call \in [Reader -> Function \cup {Nil}] /\ step \in [Reader -> Nat]
      /\ DOMAIN got = Reader /\ DOMAIN cut = Reader
      /\ \A r \in Reader : IF call[r] = Nil THEN step[r] = 0 /\ got[r] = Empty
                                            ELSE step[r] <= Len(Steps(call[r]))
  BY DEF Positions
<1>1. CASE UNCHANGED <<call, step, got, cut>>
  BY <1>0, <1>1 DEF Positions
<1>2. ASSUME NEW r \in Reader, NEW c \in Calls, Begin(r, c) PROVE Positions'
  <2>1. /\ c \in Function /\ c # Nil /\ call[r] = Nil /\ step' = step /\ got' = got
        /\ call' = [call EXCEPT ![r] = c] /\ DOMAIN cut' = Reader
    BY <1>0, <1>2, CallsAssumption DEF Begin
  <2>2. Len(Steps(c)) \in Nat
    BY <2>1, StepsLength
  <2>3. call' \in [Reader -> Function \cup {Nil}] /\ call'[r] = c /\ step[r] = 0
    BY <1>0, <2>1
  <2>4. 0 <= Len(Steps(c))
    BY <2>2
  <2>5. \A q \in Reader : IF call'[q] = Nil THEN step'[q] = 0 /\ got'[q] = Empty
                                            ELSE step'[q] <= Len(Steps(call'[q]))
    BY <1>0, <2>1, <2>3, <2>4
  <2> QED BY <1>0, <2>1, <2>3, <2>5 DEF Positions
<1>3. ASSUME NEW r \in Reader, Working(r) PROVE Positions'
  <2>1. Advance(r) /\ \E s : At(r, s)
    BY <1>3, WorkingAdvances
  <2>2. call[r] \in Function /\ step[r] \in Nat /\ step[r] + 1 <= Len(Steps(call[r]))
    BY <2>1, AtPlaces
  <2>3. step' \in [Reader -> Nat] /\ step'[r] = step[r] + 1 /\ call' = call /\ cut' = cut
    BY <1>0, <2>1, <2>2 DEF Advance
  <2>4. DOMAIN got' = Reader
    <3>1. ASSUME NEW p \in DOMAIN Part, ReadPart(r, p) PROVE DOMAIN got' = Reader
      BY <1>0, <3>1 DEF ReadPart
    <3> QED BY <1>0, <1>3, <3>1 DEF Working, ReadCount, LoadCount, StoreCount, Unlock, OpenTmp,
                       WriteTmp, RemovePath, RenameTmp
  <2>5. \A q \in Reader : q # r => step'[q] = step[q] /\ got'[q] = got[q]
    BY <1>3, OtherThreads
  <2>6. call[r] # Nil
    BY <2>2, CallsAssumption
  <2> QED BY <1>0, <2>2, <2>3, <2>4, <2>5, <2>6 DEF Positions
<1>4. ASSUME NEW r \in Reader, Return(r) PROVE Positions'
  BY <1>0, <1>4 DEF Positions, Return, Empty
<1> QED BY <1>1, <1>2, <1>3, <1>4, NextCases DEF rvars, Write

(***************************************************************************)
(* The lock.                                                               *)
(***************************************************************************)

LEMMA LockKept ==
  ASSUME Positions, LockHolds, [RNext]_rvars
  PROVE LockHolds'
<1>0. Positions' /\ DOMAIN cut = Reader
  BY PositionsKept DEF Positions
<1>1. \A r \in Reader : Locked(r) => cut[r] = Part
  BY InsideIsLocked DEF LockHolds
<1>2. SUFFICES ASSUME NEW q \in Reader, Locked(q)' PROVE cut'[q] = Part'
  BY <1>0, InsideIsLockedPrimed DEF LockHolds
<1> HIDE DEF Part
<1>3. CASE UNCHANGED rvars
  <2>1. Locked(q) /\ cut' = cut
    BY <1>2, <1>3 DEF rvars, Locked
  <2>2. Part' = Part
    BY <1>3 DEF rvars, Part, vars
  <2> QED BY <1>1, <2>1, <2>2
<1>4. CASE Write
  <2>1. Locked(q)
    BY <1>2, <1>4 DEF Write, Locked
  <2> QED BY <1>4, <2>1, InsideIsLocked DEF Write
<1>5. ASSUME NEW r \in Reader, (\E c \in Calls : Begin(r, c)) \/ Working(r) \/ Return(r)
      PROVE cut'[q] = Part'
  <2>0. Part' = Part
    <3>1. vars' = vars
      BY <1>5, WorkingAdvances DEF Begin, Return, Advance
    <3> QED BY <3>1 DEF Part, vars
  <2>1. CASE q # r
    <3>1. call'[q] = call[q] /\ step'[q] = step[q] /\ cut'[q] = cut[q]
      BY <1>5, <2>1, OtherThreads
    <3>2. Locked(q)
      BY <1>2, <3>1 DEF Locked
    <3> QED BY <1>1, <2>0, <3>1, <3>2
  <2>2. CASE q = r /\ \E c \in Calls : Begin(r, c)
    BY <1>0, <2>0, <2>2 DEF Begin
  <2>3. CASE q = r /\ Working(r)
    <3>1. Advance(r) /\ step[r] \in Nat /\ call[r] \in Function
      BY <2>3, WorkingAdvances, AtPlaces
    <3>2. cut' = cut /\ call' = call /\ step'[r] = step[r] + 1
      BY <3>1 DEF Advance, Positions
    <3>3. Locked(q)
      BY <1>2, <2>3, <3>1, <3>2 DEF Locked
    <3> QED BY <1>1, <2>0, <3>2, <3>3
  <2>4. CASE q = r /\ Return(r)
    <3>1. call'[q] = Nil
      BY <2>4 DEF Return, Positions
    <3> QED BY <1>2, <3>1 DEF Locked
  <2> QED BY <1>5, <2>1, <2>2, <2>3, <2>4
<1> QED BY <1>3, <1>4, <1>5, NextCases

LEMMA CutKept ==
  ASSUME Positions, LockHolds, ReadsAreCut, [RNext]_rvars
  PROVE ReadsAreCut'
<1>0. DOMAIN got = Reader /\ DOMAIN cut = Reader
  BY DEF Positions
<1> SUFFICES ASSUME NEW q \in Reader, NEW p \in DOMAIN (got'[q])
             PROVE got'[q][p] = cut'[q][p]
  BY DEF ReadsAreCut
<1> HIDE DEF Part
<1>1. CASE got'[q] = got[q] /\ cut'[q] = cut[q]
  BY <1>1 DEF ReadsAreCut
<1>2. ASSUME NEW r \in Reader, (\E c \in Calls : Begin(r, c)) \/ Working(r) \/ Return(r)
      PROVE got'[q][p] = cut'[q][p]
  <2>1. CASE q # r
    BY <1>1, <1>2, <2>1, OtherThreads
  <2>2. CASE q = r /\ \E c \in Calls : Begin(r, c)
    <3>1. PICK c \in Calls : Begin(r, c)
      BY <2>2
    <3>2. call[r] = Nil /\ got' = got
      BY <3>1 DEF Begin
    <3>3. got[r] = Empty
      BY <3>2 DEF Positions
    <3> QED BY <2>2, <3>2, <3>3 DEF Empty
  <2>3. CASE q = r /\ Return(r)
    <3>1. got'[r] = <<>>
      BY <1>0, <2>3 DEF Return
    <3> QED BY <2>3, <3>1
  <2>4. CASE q = r /\ \E s \in DOMAIN Part : ReadPart(r, s)
    <3>1. PICK s \in DOMAIN Part : ReadPart(r, s)
      BY <2>4
    <3>2. call[r] \in Function /\ step[r] \in Nat /\ (call[r] = "persist" => step[r] <= 4)
      BY <3>1, AtPlaces, PartNames DEF ReadPart
    <3>3. Locked(r)
      BY <3>2, CallsAssumption DEF Locked
    <3>4. cut[r] = Part
      BY <3>3, InsideIsLocked DEF LockHolds
    <3>5. got'[r] = WithPart(got[r], s) /\ cut' = cut
      BY <1>0, <3>1 DEF ReadPart, Advance
    <3>6. p \in DOMAIN got[r] \cup {s} /\ got'[r][p] = IF p = s THEN Part[s] ELSE got[r][p]
      BY <2>4, <3>5 DEF WithPart
    <3> QED BY <2>4, <3>4, <3>5, <3>6 DEF ReadsAreCut
  <2>5. CASE q = r /\ Working(r) /\ ~\E s \in DOMAIN Part : ReadPart(r, s)
    <3>1. cut' = cut
      BY <2>5, WorkingAdvances DEF Advance
    <3>2. got' = got
      BY <2>5 DEF Working, ReadCount, LoadCount, StoreCount, Unlock, OpenTmp,
                       WriteTmp, RemovePath, RenameTmp
    <3> QED BY <1>1, <3>1, <3>2
  <2> QED BY <1>2, <2>1, <2>2, <2>3, <2>4, <2>5
<1>3. CASE UNCHANGED rvars \/ Write
  BY <1>1, <1>3 DEF rvars, Write
<1> QED BY <1>2, <1>3, NextCases

(***************************************************************************)
(* The counter of snapshot.                                                *)
(***************************************************************************)

LEMMA AtStore ==
  ASSUME Positions, NEW r \in Reader
  PROVE At(r, "store") <=> Incrementing(r)
<1>1. At(r, "store") => Incrementing(r)
  BY AtPlaces DEF Incrementing
<1>2. ASSUME Incrementing(r) PROVE At(r, "store")
  <2>1. call[r] = "snapshot" /\ step[r] = 1 /\ "snapshot" # Nil
    BY <1>2, CallsAssumption DEF Incrementing, Function
  <2>2. step[r] < Len(Steps(call[r])) /\ Steps(call[r])[step[r] + 1] = "store"
    BY <2>1, SnapshotSteps
  <2> QED BY <2>1, <2>2 DEF At
<1> QED BY <1>1, <1>2

\* Only the load brings a thread into its increment.
LEMMA EntersByLoad ==
  ASSUME Positions, NEW r \in Reader, Incrementing(r)',
         (\E c \in Calls : Begin(r, c)) \/ Working(r) \/ Return(r)
  PROVE LoadCount(r)
<1>0. DOMAIN call = Reader /\ DOMAIN step = Reader
  BY DEF Positions
<1>1. CASE \E c \in Calls : Begin(r, c)
  <2>1. step'[r] = 0
    BY <1>1 DEF Begin, Positions
  <2> QED BY <2>1 DEF Incrementing
<1>2. CASE Return(r)
  <2>1. step'[r] = 0
    BY <1>0, <1>2 DEF Return
  <2> QED BY <2>1 DEF Incrementing
<1>3. CASE Working(r)
  <2>1. Advance(r) /\ step[r] \in Nat
    BY <1>3, WorkingAdvances, AtPlaces
  <2>2. call' = call /\ step'[r] = step[r] + 1
    BY <1>0, <2>1 DEF Advance
  <2>3. call[r] = "snapshot" /\ step[r] = 0
    BY <2>1, <2>2 DEF Incrementing
  <2>4. ASSUME NEW p \in DOMAIN Part, ReadPart(r, p) PROVE FALSE
    <3>1. At(r, p) /\ p \in PartName
      BY <2>4, PartNames DEF ReadPart
    <3> QED BY <2>3, <3>1, AtPlaces
  <2>5. /\ ~At(r, "snapshot_count") /\ ~At(r, "store") /\ ~At(r, "unlock") /\ ~At(r, "open")
        /\ ~At(r, "write") /\ ~At(r, "remove") /\ ~At(r, "rename")
    BY <2>3, AtPlaces
  <2> QED BY <1>3, <2>4, <2>5 DEF Working, ReadCount, StoreCount, Unlock, OpenTmp,
                       WriteTmp, RemovePath, RenameTmp
<1> QED BY <1>1, <1>2, <1>3

LEMMA LoadKeepsCounter ==
  ASSUME Positions, CounterInv, SnapshotCountSound, NEW r \in Reader, LoadCount(r)
  PROVE CounterInv' /\ SnapshotCountSound'
<1>0. /\ snapshot_count \in Nat /\ counted \in Nat /\ loaded \in [Reader -> Nat]
      /\ raced \in BOOLEAN /\ \A q \in Reader : loaded[q] <= counted
      /\ snapshot_count <= counted
  BY DEF CounterInv, SnapshotCountSound
<1>1. /\ snapshot_count' = snapshot_count /\ counted' = counted
      /\ loaded' = [loaded EXCEPT ![r] = snapshot_count]
  BY DEF LoadCount
<1>2. loaded' \in [Reader -> Nat] /\ \A q \in Reader : loaded'[q] <= counted'
  BY <1>0, <1>1
<1>3. raced' = (raced \/ \E q \in Reader \ {r} : At(q, "store"))
  BY DEF LoadCount
<1>4. raced' \in BOOLEAN
  BY <1>3
<1>5. ~raced' => ~raced /\ \A q \in Reader : q # r => ~Incrementing(q)
  BY <1>3, AtStore
<1>6. \A q \in Reader : q # r => (Incrementing(q)' <=> Incrementing(q))
  <2>1. Working(r)
    BY DEF Working
  <2> QED BY <2>1, OtherThreads DEF Incrementing
<1>7. ~raced' => \A q \in Reader : Incrementing(q)' => q = r /\ loaded'[q] = snapshot_count'
  BY <1>0, <1>1, <1>5, <1>6
<1>8. SnapshotCountSound'
  BY <1>1, <1>5 DEF SnapshotCountSound
<1> QED BY <1>0, <1>1, <1>2, <1>4, <1>7, <1>8 DEF CounterInv

LEMMA StoreKeepsCounter ==
  ASSUME Positions, CounterInv, SnapshotCountSound, NEW r \in Reader, StoreCount(r)
  PROVE CounterInv' /\ SnapshotCountSound'
<1>0. /\ snapshot_count \in Nat /\ counted \in Nat /\ loaded \in [Reader -> Nat]
      /\ raced \in BOOLEAN /\ \A q \in Reader : loaded[q] <= counted
  BY DEF CounterInv
<1>1. /\ snapshot_count' = loaded[r] + 1 /\ counted' = counted + 1
      /\ loaded' = [loaded EXCEPT ![r] = 0] /\ raced' = raced
  BY DEF StoreCount, Incremented
<1>2. loaded' \in [Reader -> Nat] /\ \A q \in Reader : loaded'[q] <= counted'
  BY <1>0, <1>1
<1>3. loaded[r] \in Nat /\ loaded[r] <= counted
  BY <1>0
<1>4. Incrementing(r)
  BY AtStore DEF StoreCount
<1>5. ~raced => loaded[r] = snapshot_count /\ snapshot_count = counted
  BY <1>4 DEF CounterInv, SnapshotCountSound
<1>6. SnapshotCountSound'
  BY <1>0, <1>1, <1>3, <1>5 DEF SnapshotCountSound
<1>7. Working(r)
  BY DEF Working
<1>8. ~Incrementing(r)'
  <2>1. step[r] = 1 /\ step'[r] = step[r] + 1
    BY <1>4, <1>7, WorkingAdvances DEF Advance, Incrementing, Positions
  <2> QED BY <2>1 DEF Incrementing
<1>9. ~raced' => \A q \in Reader : ~Incrementing(q)'
  <2>1. \A q \in Reader : q # r => (Incrementing(q)' <=> Incrementing(q))
    BY <1>7, OtherThreads DEF Incrementing
  <2> QED BY <1>1, <1>4, <1>8, <2>1 DEF CounterInv
<1>10. snapshot_count' \in Nat /\ counted' \in Nat /\ raced' \in BOOLEAN
  BY <1>0, <1>1, <1>3
<1> QED BY <1>2, <1>6, <1>9, <1>10 DEF CounterInv

LEMMA CounterKept ==
  ASSUME Positions, CounterInv, SnapshotCountSound, [RNext]_rvars
  PROVE CounterInv' /\ SnapshotCountSound'
<1>1. ASSUME UNCHANGED counter, \A q \in Reader : Incrementing(q)' => Incrementing(q)
      PROVE CounterInv' /\ SnapshotCountSound'
  BY <1>1 DEF counter, CounterInv, SnapshotCountSound
<1>2. CASE UNCHANGED rvars \/ Write
  BY <1>1, <1>2 DEF rvars, Write, Incrementing
<1>3. ASSUME NEW r \in Reader, (\E c \in Calls : Begin(r, c)) \/ Working(r) \/ Return(r),
             ~LoadCount(r), ~StoreCount(r)
      PROVE CounterInv' /\ SnapshotCountSound'
  <2>1. UNCHANGED counter
    <3>1. ASSUME NEW p \in DOMAIN Part, ReadPart(r, p) PROVE UNCHANGED counter
      BY <3>1 DEF ReadPart
    <3> QED BY <1>3, <3>1 DEF Begin, Return, Working, ReadCount, Unlock, OpenTmp, WriteTmp,
                       RemovePath, RenameTmp
  <2>2. ~Incrementing(r)'
    BY <1>3, EntersByLoad
  <2>3. \A q \in Reader : q # r => (Incrementing(q)' => Incrementing(q))
    BY <1>3, OtherThreads DEF Incrementing
  <2> QED BY <1>1, <2>1, <2>2, <2>3
<1> QED BY <1>2, <1>3, LoadKeepsCounter, StoreKeepsCounter, NextCases

(***************************************************************************)
(* The files of persist.                                                   *)
(***************************************************************************)

LEMMA CopyKept ==
  ASSUME Positions, CopyBegun, [RNext]_rvars
  PROVE CopyBegun'
<1>0. DOMAIN call = Reader /\ DOMAIN step = Reader /\ DOMAIN got = Reader
  BY DEF Positions
<1> SUFFICES ASSUME NEW q \in Reader, call'[q] = "persist", step'[q] >= 1
             PROVE "obs" \in DOMAIN got'[q]
  BY DEF CopyBegun
<1>1. CASE UNCHANGED rvars \/ Write
  BY <1>1 DEF rvars, Write, CopyBegun
<1>2. ASSUME NEW r \in Reader, (\E c \in Calls : Begin(r, c)) \/ Working(r) \/ Return(r)
      PROVE "obs" \in DOMAIN got'[q]
  <2>1. CASE q # r
    BY <1>2, <2>1, OtherThreads DEF CopyBegun
  <2>2. CASE q = r /\ \E c \in Calls : Begin(r, c)
    <3>1. step'[r] = 0
      BY <2>2 DEF Begin, Positions
    <3> QED BY <2>2, <3>1
  <2>3. CASE q = r /\ Return(r)
    <3>1. step'[r] = 0
      BY <1>0, <2>3 DEF Return
    <3> QED BY <2>3, <3>1
  <2>4. CASE q = r /\ Working(r)
    <3>1. Advance(r) /\ step[r] \in Nat
      BY <2>4, WorkingAdvances, AtPlaces
    <3>2. call' = call /\ step'[r] = step[r] + 1
      BY <1>0, <3>1 DEF Advance
    <3>3. CASE \E p \in DOMAIN Part : ReadPart(r, p)
      <4>1. PICK p \in DOMAIN Part : ReadPart(r, p)
        BY <3>3
      <4>2. DOMAIN got'[r] = DOMAIN got[r] \cup {p}
        BY <1>0, <4>1 DEF ReadPart, WithPart
      <4>3. CASE step[r] >= 1
        BY <2>4, <3>2, <4>2, <4>3 DEF CopyBegun
      <4>4. CASE step[r] = 0
        <5>1. call[r] = "persist" /\ Steps(call[r])[1] = p
          BY <2>4, <3>2, <4>1, <4>4 DEF ReadPart, At
        <5>2. p = "obs"
          BY <5>1, PersistSteps
        <5> QED BY <2>4, <4>2, <5>2
      <4> QED BY <3>1, <4>3, <4>4
    <3>4. CASE ~\E p \in DOMAIN Part : ReadPart(r, p)
      <4>1. got' = got
        BY <2>4, <3>4 DEF Working, ReadCount, LoadCount, StoreCount, Unlock, OpenTmp,
                       WriteTmp, RemovePath, RenameTmp
      <4>2. call[r] = "persist"
        BY <2>4, <3>2
      <4>3. \/ At(r, "snapshot_count") \/ At(r, "load") \/ At(r, "store") \/ At(r, "unlock")
            \/ At(r, "open") \/ At(r, "write") \/ At(r, "remove") \/ At(r, "rename")
        BY <2>4, <3>4 DEF Working, ReadCount, LoadCount, StoreCount, Unlock, OpenTmp,
                       WriteTmp, RemovePath, RenameTmp
      <4>4. step[r] >= 1
        BY <4>2, <4>3, AtPlaces
      <4> QED BY <2>4, <4>1, <4>2, <4>4 DEF CopyBegun
    <3> QED BY <3>3, <3>4
  <2> QED BY <1>2, <2>1, <2>2, <2>3, <2>4
<1> QED BY <1>1, <1>2, NextCases

\* Nothing that concerns the files of a calm state changes.
LEMMA CalmStays ==
  ASSUME Calm, UNCHANGED <<path, tmp, open, content, last>>,
         \A q \in Reader : InFile(q)' <=> InFile(q),
         \A q \in Reader : InFile(q) => step'[q] = step[q] /\ got'[q] = got[q]
  PROVE Calm'
<1>1. PathOK' <=> PathOK
  BY DEF PathOK
<1>2. \A q \in Reader : InFile(q)' => Progress(q)'
  BY DEF Calm, Progress
<1> QED BY <1>1, <1>2 DEF Calm

\* The file a persist opens in a calm state is a new one.
LEMMA FreshInode ==
  ASSUME Calm, \A q \in Reader : ~InFile(q)
  PROVE LET i == IF tmp # 0 THEN tmp
                 ELSE CHOOSE n \in Inode \ Referenced : \A m \in Inode \ Referenced : n <= m
        IN i \in Inode /\ i # path /\ i # 0
<1>1. tmp = 0 /\ \A r \in Reader : open[r] = 0
  BY DEF Calm
<1>2. Cardinality(Reader) \in Nat
  BY CallsAssumption, FS_CardinalityType
<1>3. Inode \subseteq Nat /\ 0 \notin Inode /\ 1 \in Inode /\ 2 \in Inode /\ \A n \in Inode : n >= 1
  BY <1>2 DEF Inode
<1>4. Inode \ Referenced = Inode \ {path}
  BY <1>1, <1>3 DEF Referenced
<1>5. \E n \in Inode \ {path} : \A m \in Inode \ {path} : n <= m
  <2>1. CASE path # 1
    BY <1>3, <2>1
  <2>2. CASE path = 1
    <3>1. 2 \in Inode \ {path} /\ \A m \in Inode \ {path} : 2 <= m
      BY <1>3, <2>2
    <3> QED BY <3>1
  <2> QED BY <2>1, <2>2
<1>6. (CHOOSE n \in Inode \ Referenced : \A m \in Inode \ Referenced : n <= m) \in Inode \ {path}
  BY <1>4, <1>5
<1> QED BY <1>1, <1>3, <1>6

LEMMA OpenKeepsCalm ==
  ASSUME Positions, Calm, DOMAIN open = Reader, NEW r \in Reader, OpenTmp(r),
         \A q \in Reader \ {r} : ~Writing(q)
  PROVE Calm'
<1>1. call[r] = "persist" /\ step[r] = 6 /\ Advance(r)
  BY AtPlaces DEF OpenTmp
<1>2. \A q \in Reader : ~InFile(q)
  BY <1>1, WritingIsInFile DEF InFile
<1>3. PICK i \in Inode : i = IF tmp # 0 THEN tmp
          ELSE CHOOSE n \in Inode \ Referenced : \A m \in Inode \ Referenced : n <= m
  BY <1>2, FreshInode
<1>4. i # path /\ i # 0
  BY <1>2, <1>3, FreshInode
<1>5. /\ tmp' = i /\ open' = [open EXCEPT ![r] = i] /\ content' = [content EXCEPT ![i] = Empty]
      /\ path' = path
  BY <1>3 DEF OpenTmp
<1>6. DOMAIN content = Inode /\ path \in Inode \cup {0} /\ \A q \in Reader : open[q] = 0
  BY <1>2 DEF Calm
<1>7. call' = call /\ step'[r] = 7 /\ \A q \in Reader : q # r => step'[q] = step[q]
  BY <1>1 DEF Advance, Positions
<1>8. InFile(r)' /\ \A q \in Reader : InFile(q)' => q = r
  BY <1>1, <1>2, <1>7 DEF InFile
<1>9. Progress(r)'
  <2>1. tmp' # 0 /\ open'[r] = tmp' /\ tmp' # path' /\ content'[tmp'] = Empty
    BY <1>4, <1>5, <1>6
  <2> QED BY <1>7, <2>1 DEF Progress
<1>10. \A q \in Reader : open'[q] # 0 => q = r
  BY <1>5, <1>6
<1>11. path' \in Inode \cup {0} /\ tmp' \in Inode \cup {0} /\ DOMAIN content' = Inode
  BY <1>5, <1>6
<1> QED BY <1>7, <1>8, <1>9, <1>10, <1>11 DEF Calm

\* The other file operations are those of the one persist there is.
LEMMA FileStepKeepsCalm ==
  ASSUME Positions, Calm, DOMAIN open = Reader, NEW r \in Reader,
         WriteTmp(r) \/ RemovePath(r) \/ RenameTmp(r)
  PROVE Calm'
<1>0. call[r] = "persist" /\ Advance(r) /\ got' = got /\ last' = last
  BY AtPlaces DEF WriteTmp, RemovePath, RenameTmp
<1>1. step[r] \in Nat /\ step[r] >= 7 /\ step[r] <= 9
  BY AtPlaces DEF WriteTmp, RemovePath, RenameTmp
<1>2. InFile(r) /\ Progress(r)
  BY <1>0, <1>1 DEF InFile, Calm
<1>3. call' = call /\ step'[r] = step[r] + 1 /\ \A q \in Reader : q # r => step'[q] = step[q]
  BY <1>0 DEF Advance, Positions
<1>4. InFile(r)' /\ \A q \in Reader : InFile(q)' => q = r
  <2>1. \A q \in Reader : InFile(q) => q = r
    BY <1>2 DEF Calm
  <2> QED BY <1>0, <1>1, <1>3, <2>1 DEF InFile
<1>5. /\ path \in Inode \cup {0} /\ tmp \in Inode \cup {0} /\ DOMAIN content = Inode /\ 0 \notin Inode
      /\ \A q \in Reader : open[q] # 0 => q = r /\ step[r] = 7
  <2>1. \A q \in Reader : open[q] # 0 => InFile(q) /\ step[q] = 7
    BY DEF Calm
  <2>2. 0 \notin Inode
    BY DEF Inode
  <2> QED BY <1>2, <2>1, <2>2 DEF Calm
<1>6. SUFFICES /\ path' \in Inode \cup {0} /\ tmp' \in Inode \cup {0} /\ DOMAIN content' = Inode
               /\ \A q \in Reader : open'[q] = 0
               /\ Progress(r)'
  BY <1>4, <1>6 DEF Calm
<1>7. CASE WriteTmp(r)
  <2>1. step[r] = 7 /\ step'[r] = 8 /\ tmp # 0 /\ open[r] = tmp /\ tmp # path /\ content[tmp] = Empty
    BY <1>2, <1>3, <1>7, AtPlaces DEF WriteTmp, Progress
  <2>2. /\ path' = path /\ tmp' = tmp /\ open' = [open EXCEPT ![r] = 0]
        /\ content' = [content EXCEPT ![tmp] = got[r]]
    BY <1>7, <2>1 DEF WriteTmp
  <2>3. content'[tmp] = got[r] /\ DOMAIN content' = Inode
    BY <1>5, <2>1, <2>2
  <2>4. \A q \in Reader : open'[q] = 0
    BY <1>5, <2>2
  <2>5. Progress(r)'
    BY <1>0, <2>1, <2>2, <2>3 DEF Progress
  <2> QED BY <1>5, <2>2, <2>3, <2>4, <2>5
<1>8. CASE RemovePath(r)
  <2>1. step[r] = 8 /\ step'[r] = 9 /\ tmp # 0 /\ tmp # path /\ content[tmp] = got[r]
    BY <1>2, <1>3, <1>8, AtPlaces DEF RemovePath, Progress
  <2>2. \A q \in Reader : open[q] = 0
    BY <1>5, <2>1
  <2>3. ~Held(r, path)
    BY <2>2 DEF Held
  <2>4. path' = 0 /\ tmp' = tmp /\ open' = open /\ content' = content
    BY <1>8, <2>3 DEF RemovePath
  <2>5. Progress(r)'
    BY <1>0, <2>1, <2>4 DEF Progress
  <2> QED BY <1>5, <2>2, <2>4, <2>5
<1>9. CASE RenameTmp(r)
  <2>1. step[r] = 9 /\ step'[r] = 10 /\ tmp # 0 /\ path = 0 /\ content[tmp] = got[r]
    BY <1>2, <1>3, <1>9, AtPlaces DEF RenameTmp, Progress
  <2>2. \A q \in Reader : open[q] = 0
    BY <1>5, <2>1
  <2>3. ~Held(r, tmp)
    BY <2>2 DEF Held
  <2>4. path' = tmp /\ tmp' = 0 /\ open' = open /\ content' = content
    BY <1>9, <2>1, <2>3 DEF RenameTmp
  <2>5. Progress(r)'
    BY <1>0, <2>1, <2>4 DEF Progress
  <2> QED BY <1>5, <2>2, <2>4, <2>5
<1> QED BY <1>7, <1>8, <1>9

LEMMA ReturnKeepsCalm ==
  ASSUME Positions, CopyBegun, Calm, DOMAIN open = Reader, NEW r \in Reader, Return(r)
  PROVE Calm'
<1>0. /\ path' = path /\ tmp' = tmp /\ open' = open /\ content' = content
      /\ call'[r] = Nil /\ Nil # "persist"
      /\ \A q \in Reader : q # r => call'[q] = call[q] /\ step'[q] = step[q] /\ got'[q] = got[q]
  BY OtherThreads, CallsAssumption DEF Return, Positions, Function
<1>1. ~InFile(r)'
  BY <1>0 DEF InFile
<1>2. CASE call[r] = "persist"
  <2>1. step[r] = 10
    BY <1>2, PersistSteps DEF Return
  <2>2. InFile(r) /\ Progress(r) /\ "obs" \in DOMAIN got[r]
    BY <1>2, <2>1 DEF InFile, Calm, CopyBegun
  <2>3. last' = got[r] /\ tmp = 0 /\ path # 0 /\ content[path] = got[r]
    BY <1>2, <2>1, <2>2 DEF Return, Progress
  <2>4. last' # Empty
    BY <2>2, <2>3 DEF Empty
  <2>5. PathOK'
    BY <1>0, <2>3, <2>4 DEF PathOK
  <2>6. \A q \in Reader : ~InFile(q)'
    <3>1. \A q \in Reader : InFile(q) => q = r
      BY <2>2 DEF Calm
    <3> QED BY <1>0, <1>1, <3>1 DEF InFile
  <2>7. \A q \in Reader : open[q] = 0
    <3>1. \A q \in Reader : open[q] # 0 => InFile(q) /\ step[q] = 7
      BY DEF Calm
    <3>2. \A q \in Reader : InFile(q) => q = r
      BY <2>2 DEF Calm
    <3> QED BY <2>1, <3>1, <3>2
  <2>8. path' \in Inode \cup {0} /\ tmp' \in Inode \cup {0} /\ DOMAIN content' = Inode
    BY <1>0 DEF Calm
  <2> QED BY <1>0, <2>3, <2>5, <2>6, <2>7, <2>8 DEF Calm
<1>3. CASE call[r] # "persist"
  <2>1. ~InFile(r) /\ last' = last
    BY <1>3 DEF InFile, Return
  <2>2. \A q \in Reader : InFile(q)' <=> InFile(q)
    BY <1>0, <1>1, <2>1 DEF InFile
  <2>3. \A q \in Reader : InFile(q) => step'[q] = step[q] /\ got'[q] = got[q]
    BY <1>0, <2>1
  <2> QED BY <1>0, <2>1, <2>2, <2>3, CalmStays
<1> QED BY <1>2, <1>3

\* A step before the first file operation, or of another function.
LEMMA BeforeKeepsCalm ==
  ASSUME Positions, Calm, NEW r \in Reader, UNCHANGED files,
         (\E c \in Calls : Begin(r, c)) \/ (Working(r) /\ (call[r] = "persist" => step[r] <= 5))
  PROVE Calm'
<1>0. DOMAIN call = Reader /\ DOMAIN step = Reader
  BY DEF Positions
<1>1. \A q \in Reader : q # r => call'[q] = call[q] /\ step'[q] = step[q] /\ got'[q] = got[q]
  BY OtherThreads
<1>2. ~InFile(r) /\ ~InFile(r)'
  <2>1. CASE \E c \in Calls : Begin(r, c)
    <3>1. call[r] = Nil /\ step'[r] = 0 /\ Nil # "persist"
      BY <2>1, CallsAssumption DEF Begin, Positions, Function
    <3> QED BY <3>1 DEF InFile
  <2>2. CASE Working(r) /\ (call[r] = "persist" => step[r] <= 5)
    <3>1. Advance(r) /\ step[r] \in Nat
      BY <2>2, WorkingAdvances, AtPlaces
    <3>2. call' = call /\ step'[r] = step[r] + 1
      BY <1>0, <3>1 DEF Advance
    <3> QED BY <2>2, <3>1, <3>2 DEF InFile
  <2> QED BY <2>1, <2>2
<1>3. \A q \in Reader : InFile(q)' <=> InFile(q)
  BY <1>1, <1>2 DEF InFile
<1>4. \A q \in Reader : InFile(q) => step'[q] = step[q] /\ got'[q] = got[q]
  BY <1>1, <1>2
<1> QED BY <1>3, <1>4, CalmStays DEF files

LEMMA FilesKept ==
  ASSUME Positions, CopyBegun, FileInv, [RNext]_rvars
  PROVE FileInv'
<1>0. overlapped \in BOOLEAN /\ DOMAIN open = Reader /\ (~overlapped => Calm)
  BY DEF FileInv
<1>1. CASE UNCHANGED rvars \/ Write
  <2>1. UNCHANGED <<call, step, got>> /\ UNCHANGED files
    BY <1>1 DEF rvars, Write
  <2>2. Calm => Calm'
    BY <2>1, CalmStays DEF files, InFile
  <2> QED BY <1>0, <2>1, <2>2 DEF FileInv, files
<1>2. ASSUME NEW r \in Reader, OpenTmp(r) PROVE FileInv'
  <2>1. /\ overlapped' = (overlapped \/ \E q \in Reader \ {r} : Writing(q))
        /\ DOMAIN open' = Reader
    BY <1>0, <1>2 DEF OpenTmp
  <2>2. ~overlapped' => Calm'
    BY <1>0, <1>2, <2>1, OpenKeepsCalm
  <2>3. overlapped' \in BOOLEAN
    BY <2>1
  <2> QED BY <2>1, <2>2, <2>3 DEF FileInv
<1>3. ASSUME NEW r \in Reader, WriteTmp(r) \/ RemovePath(r) \/ RenameTmp(r) PROVE FileInv'
  <2>1. overlapped' = overlapped /\ DOMAIN open' = Reader
    BY <1>0, <1>3 DEF WriteTmp, RemovePath, RenameTmp
  <2> QED BY <1>0, <1>3, <2>1, FileStepKeepsCalm DEF FileInv
<1>4. ASSUME NEW r \in Reader, Return(r) PROVE FileInv'
  <2>1. overlapped' = overlapped /\ open' = open
    BY <1>4 DEF Return
  <2> QED BY <1>0, <1>4, <2>1, ReturnKeepsCalm DEF FileInv
<1>5. ASSUME NEW r \in Reader, UNCHANGED files,
             (\E c \in Calls : Begin(r, c)) \/ (Working(r) /\ (call[r] = "persist" => step[r] <= 5))
      PROVE FileInv'
  <2>1. overlapped' = overlapped /\ open' = open
    BY <1>5 DEF files
  <2>2. Calm => Calm'
    BY <1>5, BeforeKeepsCalm
  <2> QED BY <1>0, <2>1, <2>2 DEF FileInv
<1>6. ASSUME NEW r \in Reader, NEW c \in Calls, Begin(r, c) PROVE FileInv'
  BY <1>5, <1>6 DEF Begin
<1>7. ASSUME NEW r \in Reader, NEW p \in DOMAIN Part, ReadPart(r, p) PROVE FileInv'
  <2>1. call[r] = "persist" => step[r] <= 5
    <3>1. At(r, p) /\ p \in PartName
      BY <1>7, PartNames DEF ReadPart
    <3>2. (call[r] = "persist" => step[r] <= 4) /\ step[r] \in Nat
      BY <3>1, AtPlaces
    <3> QED BY <3>2
  <2>2. Working(r) /\ UNCHANGED files
    BY <1>7 DEF Working, ReadPart
  <2> QED BY <1>5, <2>1, <2>2
<1>8. ASSUME NEW r \in Reader, ReadCount(r) \/ LoadCount(r) \/ StoreCount(r) \/ Unlock(r)
      PROVE FileInv'
  <2>1. call[r] = "persist" => step[r] <= 5
    BY <1>8, AtPlaces DEF ReadCount, LoadCount, StoreCount, Unlock
  <2>2. Working(r) /\ UNCHANGED files
    BY <1>8 DEF Working, ReadCount, LoadCount, StoreCount, Unlock
  <2> QED BY <1>5, <2>1, <2>2
<1>9. ASSUME NEW r \in Reader, Working(r) PROVE FileInv'
  BY <1>2, <1>3, <1>7, <1>8, <1>9 DEF Working
<1> QED BY <1>1, <1>4, <1>6, <1>9, NextCases

(***************************************************************************)
(* The theorems.                                                           *)
(***************************************************************************)

LEMMA InitRInv == RInit => RInv
<1> SUFFICES ASSUME RInit PROVE RInv
  OBVIOUS
<1>0. "persist" # Nil /\ "snapshot" # Nil
  BY CallsAssumption DEF Function
<1>1. Positions /\ CopyBegun
  <2>1. /\ call = [r \in Reader |-> Nil] /\ step = [r \in Reader |-> 0]
        /\ got = [r \in Reader |-> Empty] /\ cut = [r \in Reader |-> Nil]
    BY DEF RInit, Empty
  <2> QED BY <1>0, <2>1 DEF Positions, CopyBegun
<1>2. LockHolds
  BY DEF RInit, LockHolds, Inside
<1>3. ReadsAreCut
  BY DEF RInit, ReadsAreCut
<1>4. CounterInv /\ SnapshotCountSound
  <2>1. \A r \in Reader : ~Incrementing(r)
    BY <1>0 DEF RInit, Incrementing
  <2>2. /\ snapshot_count = 0 /\ counted = 0 /\ loaded = [r \in Reader |-> 0]
        /\ raced = FALSE
    BY DEF RInit
  <2>3. loaded \in [Reader -> Nat] /\ \A r \in Reader : loaded[r] <= counted
    BY <2>2
  <2>4. CounterInv
    BY <2>1, <2>2, <2>3 DEF CounterInv
  <2>5. SnapshotCountSound
    BY <2>2 DEF SnapshotCountSound
  <2> QED BY <2>4, <2>5
<1>5. FileInv
  <2>1. \A r \in Reader : ~InFile(r)
    BY <1>0 DEF RInit, InFile
  <2> QED BY <2>1 DEF RInit, FileInv, Calm, PathOK
<1> QED BY <1>1, <1>2, <1>3, <1>4, <1>5 DEF RInv

LEMMA RInvariant == RSpec => []RInv
<1>1. RInv /\ [RNext]_rvars => RInv'
  BY PositionsKept, LockKept, CutKept, CounterKept, CopyKept, FilesKept DEF RInv
<1> QED BY InitRInv, <1>1, PTL DEF RSpec

\* What a const member function of the Observatory returns, and what persist
\* writes, is the state at one moment, the one at which it took the shared
\* lock: for any number of threads and writers.
THEOREM ReadsAreOfOneMoment == RSpec => []ReadsAreCut
<1>1. RInv => ReadsAreCut
  BY DEF RInv
<1> QED BY <1>1, RInvariant, PTL

\* The unprotected ++snapshot_count of snapshot loses increments under the
\* shared lock, but the counter stays between 1 and the number of snapshots,
\* and exact until two increments meet.
THEOREM SnapshotCountBounded == RSpec => []SnapshotCountSound
<1>1. RInv => SnapshotCountSound
  BY DEF RInv
<1> QED BY <1>1, RInvariant, PTL

\* Until two calls of persist overlap in their file operations, path holds
\* the whole copy of the call that returned last, whatever other threads
\* write to the engine while it writes the file.
THEOREM PersistLeavesCopy == RSpec => []PersistLeavesItsCopy
<1>1. RInv => PersistLeavesItsCopy
  <2> SUFFICES ASSUME RInv, ~overlapped, \A r \in Reader : ~Writing(r)
               PROVE PathOK
    BY DEF PersistLeavesItsCopy, PathOK
  <2>1. Positions /\ Calm
    BY DEF RInv, FileInv
  <2>2. \A r \in Reader : ~InFile(r)
    BY <2>1, WritingIsInFile
  <2> QED BY <2>1, <2>2 DEF Calm
<1> QED BY <1>1, RInvariant, PTL
================================================================================
