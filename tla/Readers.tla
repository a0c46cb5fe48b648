-------------------------------- MODULE Readers --------------------------------
(***************************************************************************)
(* Threads that read one Observatory while others write it: the const      *)
(* member functions of src/observatory.cpp under the shared lock, and what *)
(* persist does with its copy once it has given the lock back.             *)
(*                                                                         *)
(* A call goes through its steps one at a time.  Most steps copy one part  *)
(* of the state; the selection a query makes from what it has read, by id  *)
(* or by filter, is a function of that and is left out.  Readers share the *)
(* lock, so their steps interleave with each other; a write operation (an  *)
(* action of Observatory) needs the lock for itself.                       *)
(*                                                                         *)
(* snapshot increments a plain counter under the shared lock.  That is a   *)
(* data race; the load and the store of the increment are apart.           *)
(***************************************************************************)
EXTENDS Observatory

CONSTANTS
  Reader,      \* threads
  Calls,       \* the functions they call
  MaxCalls     \* bound: calls of one thread

\* The const member functions that take the lock: all but replay_decision,
\* which looks at nothing but its argument.
Function ==
  {"sources", "source_health", "current_source_generation", "coordinator_epoch",
   "decision", "outcome", "has_observation", "candidates", "observations", "decisions",
   "explain", "counterfactual", "compare", "replay", "timeline",
   "snapshot", "stats", "persist"}

ASSUME CallsAssumption ==
  /\ IsFiniteSet(Reader)
  /\ Calls \subseteq Function
  /\ Nil \notin Function
  /\ MaxCalls \in Nat

VARIABLES
  call,           \* the function each thread is in, Nil if none
  step,           \* steps of it that are done
  got,            \* the parts it has read
  made,           \* calls made
  snapshot_count, \* the counter
  loaded,         \* the value each thread has loaded for its increment
  path,           \* the file at path, 0 if there is none
  tmp,            \* the file at path.tmp, 0 if there is none
  open,           \* the file each thread has open, 0 if none
  content,        \* what each file holds
  cut,            \* history: the parts when the thread took the lock
  counted,        \* history: increments done
  raced,          \* history: an increment began inside another
  overlapped,     \* history: a persist opened its file inside another
  last            \* history: the copy of the persist that returned last, or Empty

counter == <<snapshot_count, loaded, counted, raced>>
files == <<path, tmp, open, content, overlapped, last>>
rvars == <<vars, call, step, got, made, counter, files, cut>>

(***************************************************************************)
(* The functions, as the steps they take under the lock and, for persist,  *)
(* after it.  Clock reads are left out.                                    *)
(***************************************************************************)

sources_list == <<"sources">>
source_health == <<"src_health">>
current_source_generation == <<"src_gen">>
coordinator_epoch == <<"coordinator">>
decision == <<"dec", "outcomes">>
outcome == <<"outcomes">>
has_observation == <<"obs">>
candidates == <<"dec">>
observations == <<"obs">>
decisions == <<"dec">>
explain == <<"dec">>
counterfactual == <<"dec">>
compare == <<"dec", "dec">>
replay == <<"dec">>
timeline == <<"obs", "dec">>

snapshot ==
  <<"load", "store", "dec", "obs", "src_health",
    "observation_count", "decision_count", "outcome_count">>

stats ==
  <<"observation_count", "decision_count", "outcome_count", "source_count",
    "superseded", "rejected", "events", "snapshot_count">>

\* Mutant: the lock is given back before everything is copied.
persistUnlockedEarly ==
  <<"obs", "dec", "unlock", "sources", "outcomes", "coordinator",
    "open", "write", "remove", "rename">>

\* Mutant: the old file is removed after the rename.
persistRemoveLast ==
  <<"obs", "dec", "sources", "outcomes", "coordinator", "unlock",
    "open", "write", "rename", "remove">>

persist ==
  <<"obs", "dec", "sources", "outcomes", "coordinator", "unlock",
    "open", "write", "remove", "rename">>

Steps(c) ==
  CASE c = "sources" -> sources_list
    [] c = "source_health" -> source_health
    [] c = "current_source_generation" -> current_source_generation
    [] c = "coordinator_epoch" -> coordinator_epoch
    [] c = "decision" -> decision
    [] c = "outcome" -> outcome
    [] c = "has_observation" -> has_observation
    [] c = "candidates" -> candidates
    [] c = "observations" -> observations
    [] c = "decisions" -> decisions
    [] c = "explain" -> explain
    [] c = "counterfactual" -> counterfactual
    [] c = "compare" -> compare
    [] c = "replay" -> replay
    [] c = "timeline" -> timeline
    [] c = "snapshot" -> snapshot
    [] c = "stats" -> stats
    [] c = "persist" -> persist

Entries(map) == Cardinality({k \in DOMAIN map : map[k] # Nil})

\* The parts of the state that are copied.
Part ==
  [ obs |-> obs, dec |-> dec, sources |-> sources, outcomes |-> outcomes,
    src_health |-> src_health, src_gen |-> src_gen, coordinator |-> coordinator,
    observation_count |-> Len(obs), decision_count |-> Len(dec),
    outcome_count |-> Entries(outcomes), source_count |-> Entries(sources),
    superseded |-> superseded, rejected |-> rejected, events |-> events ]

(***************************************************************************)
(* The lock.                                                               *)
(***************************************************************************)

Done(r, s) == \E i \in 1..step[r] : Steps(call[r])[i] = s

\* The thread holds the lock: persist until it unlocks, others until they return.
Inside(r) == call[r] # Nil /\ ~Done(r, "unlock")

Inode == 1..(Cardinality(Reader) + 2)
Empty == <<>>
Mixed == <<"mixed">>

RInit ==
  /\ Init
  /\ call = [r \in Reader |-> Nil]
  /\ step = [r \in Reader |-> 0]
  /\ got = [r \in Reader |-> <<>>]
  /\ made = [r \in Reader |-> 0]
  /\ snapshot_count = 0
  /\ loaded = [r \in Reader |-> 0]
  /\ path = 0 /\ tmp = 0
  /\ open = [r \in Reader |-> 0]
  /\ content = [i \in Inode |-> Empty]
  /\ cut = [r \in Reader |-> Nil]
  /\ counted = 0
  /\ raced = FALSE
  /\ overlapped = FALSE
  /\ last = Empty

\* A write operation of the engine, under the unique lock.
Write ==
  /\ \A r \in Reader : ~Inside(r)
  /\ Next
  /\ UNCHANGED <<call, step, got, made, counter, files, cut>>

Begin(r, c) ==
  /\ call[r] = Nil
  /\ made[r] < MaxCalls
  /\ call' = [call EXCEPT ![r] = c]
  /\ made' = [made EXCEPT ![r] = @ + 1]
  /\ cut' = [cut EXCEPT ![r] = Part]
  /\ UNCHANGED <<vars, step, got, counter, files>>

At(r, s) == call[r] # Nil /\ step[r] < Len(Steps(call[r])) /\ Steps(call[r])[step[r] + 1] = s

\* The step is done; the rest of the call is untouched.
Advance(r) ==
  /\ step' = [step EXCEPT ![r] = @ + 1]
  /\ UNCHANGED <<vars, call, made, cut>>

\* The copies c with one of part p added.
WithPart(c, p) == [q \in DOMAIN c \cup {p} |-> IF q = p THEN Part[p] ELSE c[q]]

ReadPart(r, p) ==
  /\ At(r, p)
  /\ got' = [got EXCEPT ![r] = WithPart(@, p)]
  /\ Advance(r)
  /\ UNCHANGED <<counter, files>>

\* stats reads the counter, which another thread may be incrementing.
ReadCount(r) ==
  /\ At(r, "snapshot_count")
  /\ Advance(r)
  /\ UNCHANGED <<got, counter, files>>

\* ++snapshot_count
LoadCount(r) ==
  /\ At(r, "load")
  /\ loaded' = [loaded EXCEPT ![r] = snapshot_count]
  /\ raced' = (raced \/ \E q \in Reader \ {r} : At(q, "store"))
  /\ Advance(r)
  /\ UNCHANGED <<got, snapshot_count, counted, files>>

\* Mutant: the value is stored as it was loaded.
IncrementedNot(n) == n

Incremented(n) == n + 1

StoreCount(r) ==
  /\ At(r, "store")
  /\ snapshot_count' = Incremented(loaded[r])
  /\ loaded' = [loaded EXCEPT ![r] = 0]
  /\ counted' = counted + 1
  /\ Advance(r)
  /\ UNCHANGED <<got, raced, files>>

Unlock(r) ==
  /\ At(r, "unlock")
  /\ Advance(r)
  /\ UNCHANGED <<got, counter, files>>

(***************************************************************************)
(* The file operations of persist.                                         *)
(***************************************************************************)

\* Between the opening of path.tmp and the return.
Writing(r) == call[r] = "persist" /\ Done(r, "open")

Referenced == {path, tmp} \cup {open[r] : r \in Reader}

\* ofstream(tmp, trunc): the file there is emptied, or a new one is made.
OpenTmp(r) ==
  /\ At(r, "open")
  /\ LET i == IF tmp # 0 THEN tmp
              ELSE CHOOSE n \in Inode \ Referenced : \A m \in Inode \ Referenced : n <= m
     IN /\ tmp' = i
        /\ open' = [open EXCEPT ![r] = i]
        /\ content' = [content EXCEPT ![i] = Empty]
  /\ overlapped' = (overlapped \/ \E q \in Reader \ {r} : Writing(q))
  /\ Advance(r)
  /\ UNCHANGED <<got, counter, path, last>>

\* The bytes go to the start of the file, over what another thread has put
\* there meanwhile; the end of a longer one shows behind them.
WriteTmp(r) ==
  /\ At(r, "write")
  /\ LET i == open[r]
     IN \E c \in IF content[i] \in {Empty, got[r]} THEN {got[r]} ELSE {got[r], Mixed} :
          content' = [content EXCEPT ![i] = c]
  /\ open' = [open EXCEPT ![r] = 0]
  /\ Advance(r)
  /\ UNCHANGED <<got, counter, path, tmp, overlapped, last>>

\* Some other thread has the file open: it cannot be removed or renamed then
\* on Windows, the platform of the build.
Held(r, file) == \E q \in Reader \ {r} : file # 0 /\ open[q] = file

\* A failure of remove is not looked at.
RemovePath(r) ==
  /\ At(r, "remove")
  /\ path' = IF Held(r, path) THEN path ELSE 0
  /\ Advance(r)
  /\ UNCHANGED <<got, counter, tmp, open, content, overlapped, last>>

\* Neither is one of rename, which also fails when path.tmp is gone or when
\* there is a file at path again.
RenameTmp(r) ==
  /\ At(r, "rename")
  /\ IF tmp = 0 \/ path # 0 \/ Held(r, tmp)
       THEN UNCHANGED <<path, tmp>>
       ELSE path' = tmp /\ tmp' = 0
  /\ Advance(r)
  /\ UNCHANGED <<got, counter, open, content, overlapped, last>>

Return(r) ==
  /\ call[r] # Nil
  /\ step[r] = Len(Steps(call[r]))
  /\ last' = IF call[r] = "persist" THEN got[r] ELSE last
  /\ call' = [call EXCEPT ![r] = Nil]
  /\ step' = [step EXCEPT ![r] = 0]
  /\ got' = [got EXCEPT ![r] = <<>>]
  /\ cut' = [cut EXCEPT ![r] = Nil]
  /\ UNCHANGED <<vars, made, counter, path, tmp, open, content, overlapped>>

RNext ==
  \/ Write
  \/ \E r \in Reader :
       \/ \E c \in Calls : Begin(r, c)
       \/ \E p \in DOMAIN Part : ReadPart(r, p)
       \/ ReadCount(r) \/ LoadCount(r) \/ StoreCount(r) \/ Unlock(r)
       \/ OpenTmp(r) \/ WriteTmp(r) \/ RemovePath(r) \/ RenameTmp(r)
       \/ Return(r)

RSpec == RInit /\ [][RNext]_rvars

(***************************************************************************)
(* Properties.                                                             *)
(***************************************************************************)

\* All that a call returns, and all that persist writes, is from one moment:
\* the one at which it took the lock.  So the counts of a snapshot are those
\* of the records in it, and a trace never has an outcome without its
\* decision, although the parts are read one after the other.
ReadsAreCut ==
  \A r \in Reader : \A p \in DOMAIN got[r] : got[r][p] = cut[r][p]

\* The racy counter loses increments and may go backwards, but never exceeds
\* the number of snapshots, is never 0 after one, and is exact as long as no
\* two increments have met.
SnapshotCountSound ==
  /\ snapshot_count <= counted
  /\ counted > 0 => snapshot_count > 0
  /\ ~raced => snapshot_count = counted

\* As long as no two calls of persist have overlapped in their file
\* operations, what is at path between two calls is the whole copy of the one
\* that returned last, whatever was written to the engine meanwhile.  (The
\* copy may be older than the one it replaces: persist copies and writes
\* under different locks.)
PersistLeavesItsCopy ==
  ~overlapped /\ (\A r \in Reader : ~Writing(r)) =>
    IF last = Empty THEN path = 0 ELSE path # 0 /\ content[path] = last
================================================================================
