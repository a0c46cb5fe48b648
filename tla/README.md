# Placement Observatory: TLA+ models, checks and proofs

Placement Observatory records what a placement scheduler saw and did: workers send
observations, decisions and outcomes to an engine that validates them, keeps them in
append-only logs, answers queries about them and saves them to a trace file. This
directory models the engine and the abstract ledger it implements, the trace on disk
across crashes and its encoding, the threads that read and persist, the collector process
with its clients, and the analysis functions.

## The system

| Part | State | Operations | Correct when |
|---|---|---|---|
| Engine (`src/observatory.cpp`) | observation log `obs`, decisions `dec`, outcomes, id and attempt indices, per-source generation `src_gen` and trusted boot `src_boot`, last descriptor `sources`, health, coordinator epoch, counters | `register_source`, `update_source_health`, `set_coordinator_epoch`, `ingest`, `ingest_decision`, `ingest_outcome` | evidence of a source is ordered by generation, one boot per generation, ids and attempts unique, outcomes linked, nothing rewritten |
| Trace (`persist`, `recover`) | `path`, `path.tmp` | copy, write, remove, rename; load record by record | a restart loses no completed trace and restores the same evidence and authority |
| Queries, snapshot, timeline, stats | reads the engine; one counter | shared-lock reads | answers are one consistent state; the timeline does not depend on the order of arrival |
| Analysis (`src/compute.cpp`) | none | rank, explain, replay, compare, counterfactual | deterministic, the selected candidate is explained by the evidence |
| Collector (`cli/po.cpp serve`) | connection threads, `running` flag, one shared engine | accept, handle a frame, shutdown, join, persist | every request is answered; shutdown persists |
| Protocol (`src/protocol.cpp`) | socket buffers | frame encode/decode, partial reads | a frame is delivered whole or refused |
| Codec (`src/serialize.cpp`) | none | records to bytes and back, JSON | a damaged record is detected, a sound one round-trips with all its members |
| Providers, CUDA, hashing, JSON text, benchmarks, examples | - | input/output and arithmetic | not modelled |

Interaction: connection threads and library callers invoke the engine concurrently; each
write holds the engine's `shared_mutex` exclusively, each read holds it shared. `persist`
holds it only while copying. The collector recovers its trace at start, sets the
coordinator epoch, serves until `Shutdown`, joins its threads and persists.

What is hard: late or repeated messages of superseded workers; checks that fail after part
of the state has changed; authority that is not written to the trace and has to be rebuilt
from it; crashes between the file operations; writes that fail unnoticed. `PROJECT.json`
lists each hazard with its line and the properties aimed at it.

## Modules

`Observatory` is the engine. Every write operation is one action because it holds the
unique lock from its first line to its last; any number of threads is any interleaving of
these actions. Variables have the names of the fields of `Observatory::Impl`. `ingest` has
three ways out and they are three actions: `IngestRefusedEarly` (only the rejection counter
changes), `IngestRefusedLate` (the authority has already been updated) and
`IngestAdmitted`. An absent map entry is 0 or `Nil`, as the code reads it. Arguments are
constant sets (`Observations`, `Decisions`, ...), so that a model instance chooses them and
a proof holds for all of them. Left out: the secondary indices (`idx_obs_*`, most
`idx_dec_*`) that the code writes and never reads, `src_last_seen`, which nothing reads,
the returned error text, and the descriptive fields of records. What the loops over
measurements and cost components find is one value per record (`ValueClass`).

`Persistence` extends the engine with the two files and the process. `persist` is four
steps (`PersistCopy`, `PersistWrite`, `PersistRemove`, `PersistRename`) between which
other threads operate and the process may stop. `unordered_map` traversal order is
arbitrary. A write may be cut short by a crash, or fail without `persist` noticing, which
leaves a `Torn` record. `recover` is one step per record with no operation in between (it
holds the lock) on a fresh engine, which is how every command of the CLI calls it.
`short_write`, `saved_gen` and `durable_gen` are history variables that only properties
read. One persist is in flight at a time.

`EvidenceLedger` is what the engine promises a reader of its evidence: entries are only
added, each under the fencing token (generation and boot) of its source; a decision is
taken once, by an attempt of its own, and concluded once. `ObservatoryLedger` instantiates
it with the engine's state: the token is `src_gen` and `src_boot`, a decision is what
`dec_by_id` leads to, as every query finds it. The three ways out of `ingest` become
nothing, `Fence` and `Enter`; so the ledger also says what a late refusal may do. It is
the promise of the default configuration, with all checks on.

`Readers` puts threads around the engine that call the const member functions: all that take
the shared lock, the analysis queries included (`replay_decision` looks at its argument
only). A call is the sequence of the parts it copies under the lock, one step each, so that readers
interleave with each other; a write needs the lock alone. `persist` goes on after its
unlock with `path.tmp`, which all threads share: files are inodes, an open truncates, a
remove or a rename of a file that another thread has open fails (the build is for
Windows), and failures are not looked at. `++snapshot_count` under the shared lock is a
data race, modelled as a load and a store. What a filter selects from the copied part is
left out, and so are clock reads.

`Collector` puts the process of `po serve` around the engine: one thread per connection
(`serve_handle_conn`), the polling main loop, the joins and the final `persist`
(`cmd_serve`), and client processes that send a script of frames and wait for a reply to
each (`cmd_client`, `cmd_worker`). The collector is started with `--trace` and without
earlier evidence; recovery is `Persistence`'s subject. A frame in transit is the number of
the request in its client's script. `recv_frame` reads a frame in three parts, but a peer
that stops inside a frame is indistinguishable from one that stops before it; a bad magic,
version, type, length or checksum is the verdict `refused`. A payload that does not decode
throws out of the thread function, which ends the process (`Terminate`).

`Layouts` has, for each struct that a record contains, the layout of its writer and,
separately, of its reader, in the order of their calls, and the members of the struct.
`Codec` runs them: the calls still to be made are a stack of frames, each step of the writer
makes one and appends a token, and a vector, an option or a typed value puts the frames of
its elements on top. The value is chosen on the way, so that every record is written in
some behaviour. A reader then goes through its own layouts over the tokens, all of them or,
as may happen to the payload of a message, the first of them only. A token is an integer, a
string, a count or a flag, with its width. The canonical JSON form is the set of the
members it lists. The caps on strings (64 MiB) are left out: a body has the same one and a
frame a lower one.

`TraceFile` is the file as a sequence of tokens: records in their envelopes, in the order
of `persist`, left whole, cut or altered at a token, and read by the loop of `recover`. A
body is any sequence of tokens, also one longer than `decode_record` takes.

`Ranking` has the functions of `compute.cpp` as operators, `Timeline` the timeline (its
entries with all their members; outcomes are in the log and are passed over), and
`Sorting` what `std::sort` and `std::stable_sort` may do: for a comparator that is no
strict weak order on the elements, any arrangement. A double is an integer up to `Huge`,
an infinity or NaN; an int wraps at `IntMax`, and a double outside the int range converts
to the smallest int, as on x86-64. `Analysis` is the state machine that asks one query of
each content of the engine. The wording of explanations, the digests in a replay, and
non-finite values in a counterfactual change are left out; a candidate number too long
for `stoull` too.

A listing of places stands for a sorted vector, so that the survivors and the events of a
workload are sets of places. The evidence that a ranking misses is a set: the order and the
repetitions of its messages are left out. The double arithmetic of a counterfactual is
exact here, as it is in the code for byte counts up to 2^53.

`MC*` modules give the argument sets small values. `MCTrace` has the instances of both
`Codec` and `TraceFile`, which share no state: a behaviour is one of either. A behaviour of
`MCObservatory`'s `OneKindSpec` has observations or decisions, not both. The theorems are in `ObservatoryProofs`,
`LedgerProofs`, `PersistenceProofs`, `CollectorProofs`, `ReadersProofs`, `AnalysisProofs`
(with lemmas about `Sorting`, `Timeline` and `Ranking`), `CodecProofs` and
`TraceFileProofs`.

Operators whose comment starts with "Mutant" are deliberate faults, one per checked
property, used to confirm that the property notices them; no specification uses them.

## Runs

| Run | Instance | Checks |
|---|---|---|
| `engine` | all checks on and every reason for refusal; in a behaviour either 2 sources, 3 observation ids, generations 1-2, 2 boots and no boot, coordinator epoch 0 or 2, or 3 decisions over 2 attempts with outcomes | `TypeOK`, `IndexesExact`, `SourceOrder`, `BootFence`, `AuthorityCoversLog`, `AttemptUnique`, `OutcomeLinked`, `EventsCountEvidence`, `AuthorityMonotone`, `AdmittedIsCurrent`, `EvidenceAppendOnly`, `ImplementsLedger` |
| `persistence` | 2 observations, 1 decision with outcome, 3 persists, unlimited crashes, short writes | `PTypeOK`, `IndexesExact`, `SourceOrder`, `RecoveryExact`, `GenerationCoversLog`, `TraceSomewhere` |
| `collector` | a worker that may be killed, a second process that may linger, an operator who shuts down; five scenarios | `AckedIsDurable`, `RepliesMatch`, `StatusIsFresh`, `ShutdownPersists`, `NobodyWaitsForever` |
| `trace` | one record of any kind, eight shapes (0-2 elements, options set or not or mixed, every kind of value, uncertainties set or not), two of them cut at every token; or a file with the epoch and up to two more records of any kind, four bodies (none, one that looks like a header, one of the greatest length, one longer), cut at every token, every token altered | `RoundTrip`, `EveryMember`, `DigestStable`, `LoadedWasWritten`, `DamageStops` |
| `analysis` | two candidates of 18 variants each under seven lists of constraints, triples with a repeated id, four candidates of which one has a NaN total, incomplete sets, pairs to compare, logs of two observations and a decision, and of two decisions, an observation and an outcome, with and without monotonic time; `Huge` = 4, `IntMax` = 3 | `RankingIsOrderFree`, `RankingIsSound`, `ReplayIsHonest`, `ThrowsOnlyOnSigned`, `ConfidenceIsHonest`, `CounterfactualIsSound`, `TimelineIsSettled` |
| `readers` | two threads, two calls each of any function, one observation, one decision with outcome | `ReadsAreCut`, `SnapshotCountSound`, `PersistLeavesItsCopy` |

Bounds. `BootFence` and `SourceOrder` compare two entries of one source; three observations
over two sources leave room for one from elsewhere in between, two generations for a
takeover, and two boots plus none for a rival that hides its identity. Observations and
decisions read nothing that the other writes; the coordinator epoch, which both look at,
changes in every behaviour of `engine`, `persistence` mixes the two, and the theorems hold
for any mixture. `MaxRejected` caps
the rejection counter; one refusal of each kind, followed by any admissions, is enough to
show what a refusal leaves behind. The runs have the three checks of the configuration on;
what holds with any of them off is proved (`SourceOrder`, `AuthorityCoversLog`,
`AuthorityMonotone`, for every set `Configs`). Two persists are needed for
one trace to replace another. A third one belongs to a process that started after a crash
between `remove` and `rename`: it finds nothing at `path`, starts empty, and truncates
`path.tmp`, the last copy. What `TraceSomewhere` says is therefore about a process that
found a trace or has written one. Sources, ids, boots and reader threads are interchangeable,
so the safety runs use symmetry where it is sound; `collector`, which checks liveness,
uses none.

In `collector` three processes are enough for the races that matter: one request is in the
engine, one arrives, and the shutdown comes between any two steps of both; the scenarios
differ in what the requests do to each other. In `readers` two threads suffice to lose an
increment or to share `path.tmp`, and two calls each for one persist to follow another. In
`trace` two elements show that a count is read as it was written and that one element is
not taken for another; a damaged record has one before and one behind it, an
altered length may reach the checksum of the next record, and `kMaxBody` is 6, so that a
length at the limit is a number like others. In `analysis` two candidates show every
comparison and three every failure of transitivity; `Huge` lets a product overflow and
two opposite infinities meet, `IntMax` lets a queue depth leave the int range. Three
events are enough for a circle of the timeline's rule, two for a tie.

`engine`, `persistence` and the runs of expected violations of their modules check for
deadlock. `collector`, `readers`, `trace` and `analysis` do not: clients finish their scripts and the process ends, threads have made their calls, a record
or a file has been read, a query has been answered.

Fairness is assumed in `collector` only: weak fairness of the main thread, of every
connection thread and of every client. Each is a thread or process that the operating
system schedules, none waits for a lock held forever, and the main thread's wait is a poll
with a timeout (`wait_accept(50)`), which is what makes it fair although nobody connects
(the mutant that waits in `accept` breaks `ShutdownPersists`). A client that lingers or is
killed is under no obligation to close, and nothing obliges a client to shut down.

What the runs show beyond "it holds":

- `AckedIsDurable`: evidence acknowledged while a shutdown is under way is still in the
  trace, because the joins come before `persist`. It says nothing when the process is
  terminated: then acknowledged evidence is lost with it.
- `ShutdownPersists` names its two exceptions: an undecodable payload, and a peer that keeps
  its connection open, for which the join waits without limit.
- `DigestStable` is an equivalence: a digest changes across persist and recover exactly when
  a claim carries `uncertainty_ns`, which the JSON form has and the binary form has not.
- `DamageStops`: `recover` cannot tell a trace that was cut between two records from a whole
  one. (It returns a count of records, which no caller compares with anything.) Damage is
  not the only thing that stops it: `persist` writes bodies of any length, and one beyond
  `kMaxBody` (64 MiB) hides all records behind it.
- `SnapshotCountSound`: the racy counter may even go backwards; what remains is that it never
  exceeds the number of snapshots.
- `PersistLeavesItsCopy` needs its premise: overlapping persists to one path may mix their
  bytes or, when one renames what the other has just removed or still has open, leave no
  trace at all, although `src/README.md` calls the facade thread-safe, persistence
  included. And the copy that is left may be the older of two.
- `RankingIsOrderFree` and `RankingIsSound` name where they end: with a NaN total the
  comparator is no order, and among four candidates even one without cost evidence may be
  ranked before others.
- `TimelineIsSettled` is an equivalence: the order of arrival cannot change a timeline
  exactly when the rule (monotonic time, wall clock, kind, observation id) goes in no circle
  and tells the entries apart. It does not when some entries lack monotonic time and the
  clocks disagree, nor for two decisions of one time.
- What a premise leaves out is not caught: a torn file renamed over a whole one and a second
  persist that overlaps the first (`TraceSomewhere`, `PersistLeavesItsCopy`), NaN totals,
  depths beyond the int range (`CounterfactualIsSound`), and evidence that a terminated
  collector had acknowledged. `StatusIsFresh` bounds the generation in a reply, not the pair
  of epoch and generation, which are read under two locks. The `note` of each hazard in
  `PROJECT.json` says so.

Six runs show a statement of the repository that the code does not keep:

- `refusal_authority`: an observation refused for a stale coordinator epoch has already
  replaced its source's generation and boot (`observatory.cpp:179-187`), against "stale
  evidence never mutates current state" (`docs/sources.md`). The test that asserts this
  (`tests/authority.test.cpp:34`) looks at a different source.
- `atomic_replacement`: a crash between `remove` and `rename` (`observatory.cpp:421-422`)
  leaves nothing at `path`, against "Atomic replacement" (line 418). `TraceSomewhere` holds:
  the data is then complete in `path.tmp`, which `recover` does not look at.
- `recovered_boot`: the descriptor record restores the generation first, so an observation
  of the same generation no longer restores the trusted boot (`observatory.cpp:456`), and
  `BootFence`, proved for a running engine, fails across a restart.
- `recovered_generation`: the trace holds the last descriptor, not the enforced generation;
  registering generation 2 and then 1 recovers as 1, against "preserves source generations"
  (`docs/recovery.md`).

- `timeline_order`: `docs/timeline.md` promises a deterministic order with ties broken by
  kind and identity. Decisions are compared by an observation id that is nil in all of them
  (`observatory.cpp:372`, 378), so two of one time come in any order; and the fall-back to
  the wall clock is decided pair by pair (lines 375-376), so that entries with and without
  monotonic time may go in a circle, and then any list may be returned. Either of the run's
  two logs violates the property by itself.
- `timeline_outcomes`: the same document, and the comment at `core/analysis.hpp:78`, name
  outcome events among the entries; `timeline` never looks at the outcomes.

What does survive a restart is `SourceOrder` with `GenerationCoversLog`: a recovered engine
never enforces a generation older than evidence it holds.

## Proofs

`ObservatoryProofs` proves for all constants that satisfy the assumptions of `Observatory`
(`Nil` is none of the identifiers; arguments are of their record types; the bound is a
natural number):

- `TypeCorrect`: `Spec => []TypeOK`, one lemma per operation;
- `AuthorityIsMonotone`, `AdmissionsAreCurrent`, `EvidenceIsAppendOnly`: the step
  properties, from lemmas that say which operations change the authority
  (`AuthorityChange`), the observation log (`ObsChange`) and the decision state
  (`DecChange`);
- `AuthorityCovers`, `SourcesInOrder`, `BootsFenced`, from the inductive invariant
  `AuthorityInv`. `SourceOrder` and `BootFence` relate entries of the log to each other and
  are not inductive: nothing in them says why the next entry must agree with the old ones.
  `AuthorityCoversLog` does: `src_gen` bounds every logged generation and `src_boot` is the
  boot of every logged entry of the current one, so the two comparisons `ingest` makes are
  comparisons with the whole log. It is preserved because the authority only moves forward
  (`AuthorityStep`);
- `IndexesAreExact`, then `AttemptsUnique` and `OutcomesLinked` relative to it. The attempt
  check of `ingest_decision` lets through an attempt indexed at a decision *with the same
  id*; that this case cannot occur needs the decision index to be exact
  (`AdmittedAttemptIsNew`).

- `EventsAreCounted`: every admission counts one event and adds one entry.

`LedgerProofs` proves `EngineImplementsLedger`: the engine, with all checks on, implements
`EvidenceLedger` under the mapping of `ObservatoryLedger`. Each operation is a step of the
ledger or leaves it alone: a registration and a late refusal are a `Fence` or nothing
(`RegisterFences`, `AdoptionIsFencing`), an admission is an `Enter` under the token it
has just written. A decision is looked up through `dec_by_id`, so the argument needs
`IndexesAreExact` and `AttemptsUnique`. The assumption that `Nil` is no record, no
decision and no boot is part of `NilAssumption`.

`PersistenceProofs` proves all invariants of `persistence`, for any number of persists,
crashes and restarts (`IdsAssumption`: there are finitely many identifiers;
`AbsentAssumption`: no file is no list of records). The inductive invariant `PInv` says
what a file may hold (`FileOK`: the epoch first, no record twice, an outcome after its
decision, observations in the order of generations, and, at most at its end, a torn
record) of the copy, of `path.tmp` and of `path`; and what the engine inside `recover`
has made of the records read so far. `OrderSurvives`, `IndexesSurvive`, `LinksSurvive` and
`GenerationsCover` follow; `RecoveryIsExact` says that nothing in such a file is lost,
doubled, reordered or invented. `TraceIsSomewhere` needs one more conjunct, `SafeCopy`:
which of the two files is the complete one at each step of `persist`.

`CollectorProofs` proves the safety of the collector for any number of clients and any
scripts of frames (`ScenariosAssumption`). The inductive invariant `CInv` has four parts per
client: at most one of request, work and reply is under way (`OneOutstanding`), an answer is
of the kind its request asks for, whatever was called accepted is in the engine (`Acked`),
and a status is no older than its request (`Fresh`); and two for the process: a connection
is accepted once, and after the joins no thread is left (`JoinedFirst`), which is why what
`persist` writes contains what was acknowledged. `RepliesAreMatched`, `AckedIsInTrace` and
`StatusIsRecent` follow. The frames are of their types; the assumption that an absent file is
no trace is `AbsentAssumption`.

`ReadersProofs` proves for any finite set of threads (`CallsAssumption`):
`ReadsAreOfOneMoment`, since nothing a reader copies changes while it is inside
(`LockHolds`); `SnapshotCountBounded`, from an invariant that relates the counter to the
loads not yet stored (`CounterInv`, by the cardinality of the set of threads between the
two); and `PersistLeavesCopy`, from `FileInv`, which says at each file operation of a call
without a rival what `path` and `path.tmp` hold.

`AnalysisProofs` proves all seven properties of `analysis` for every content of the engine:
any number of candidates, costs, constraints, changes and events of their types
(`ContentsAssumption`, `ChangesAssumption`; that a selection is not nil and that no set is
both complete and reconstructed is what `ingest_decision` checks). `AInv` says that the
answer is one the query has; the rest is about the operators.

- `RankingsAreOrderFree`: NaN totals apart, the comparator is `Precedes`, a strict weak order
  in which ties have the same id (`BetterIsOrder`, `PrecedesOrder`). Of two sorted listings of
  the same candidates neither is ahead of the other at any place: all that follow would be
  among too few (`NoneAhead`, by the pigeonhole argument of `NoRoom`).
- `ReplaysAreHonest`: `Precedes` is the reference order (`PreferredPrecedes`, by what
  lexicographic order does to lists that begin with a pair), and the first of a sorted list
  is one that nothing precedes (`FirstIsBest`).
- `RankingsAreSound`, `OnlySignedConstraintsThrow`: what the loop over the constraints settles
  (`DecisiveFacts`, `FateFacts`).
- `CounterfactualsAreSound`: a change that makes room keeps all that constraints look at, and
  int arithmetic does not wrap as long as depths are ints (`ApplyMakesRoom`); so do any number
  of them (`AfterMakesRoom`).
- `TimelinesAreSettled`: an event is listed as often as it was logged, by a bijection between
  its places (`TimelineCounts`). All the comparator lacks to be a strict weak order is that
  the rule is consistent (`ConsistentIsOrder`); what may be returned is the same for every
  arrangement of the log (`SameTimelines`, by moving listings along the permutation and back).
  Of two lists in order neither has an earlier entry than the other at any place
  (`NoneEarlier`, by pigeonhole), so if entries are told apart there is one (`OneTimeline`);
  if not, or if any list is allowed, two entries that differ can be swapped
  (`OnlyTimeline`).
- `ExplanationsAreHonest`.

Where a definition is a recursive function (`weighted_total`, `After`), that the function
exists and what it computes is proved by the least counterexample (`LeastNatural`, from the
well-founded order of the naturals) in place of an induction theorem.

`CodecProofs` proves the first three properties of `trace` for every record: any number of elements,
any nesting that the structs allow, any values (`ShapesAssumption`: a count is a natural
number, an option 0 or 1, a kind 0 to 5). `RoundTrip` is not inductive: that the tokens
read so far agree says nothing about the calls to come. The invariant `IInv` says that there
is a chain of stacks, the first that of the whole record, each next one what a call of the
writer leaves of the one before (`Chain`); the writer is at its end, and the reader is on
the same chain, at the place of its next token (`At`). A reader's call has therefore the
width that the writer's had, and opens the same frames, because the two layouts agree
(`LayoutsAgree`). Nothing is by induction over the nesting: the stack makes it a sequence of
steps. `RecordRoundTrip` follows. `NoMemberLost` is the part that does not compare the two
sides, which could leave out the same member: each layout has a call for every member of its
struct but the uncertainties (`WriterFits`, one lemma per function), and a member has been
read or its call is still on the stack (`NoneLost`). `DigestSurvives` needs both, and that
nothing but an uncertainty is left out (`OnlyUncertain`).

`TraceFileProofs` proves the other two properties of `trace` for any number and length of records,
any damaged token and any content it may get (`TraceAssumption`). The invariant says that
the records lie one behind the other without a gap (`Laid`), that the file still has them but
for the damage (`Contents`, `Damaged`), and that `recover` is right behind the last
record it has loaded (`Reached`). The argument is about what a digest can be mistaken for: a
token that is a digest is the checksum of some record that was written (`ChecksumPlace`), and
what it covers determines that record's length, hence its start; so a record that
`decode_record` takes is the one that was written there, whatever the length before it says
(`TakenSound`), and one that was written and is sound is taken (`SoundTaken`).
`OnlyWrittenLoaded` and `RecoveryStopsAtDamage` follow. What SHA-256 contributes is the
definition of `Sha256`: digests are equal when they are of the same tokens.

Only model-checked: liveness (`ShutdownPersists`, `NobodyWaitsForever`), which is out of the
prover's reach. Each inductive invariant was checked with TLC on the instances of the runs
before it was proved; of `Codec`'s, all but the existence of the chain.

## Not modelled

- Host, process, synthetic and CUDA providers: operating-system and device queries that
  fill observations; what becomes of the observations is `ingest`. They number their
  observations from fixed bases, so collecting twice into one engine is refused.
- JSON text, SHA-256 and CRC-32 arithmetic, the names of enumerators.
- The codecs of descriptors that no record contains (device, node, workload, topology,
  reservation, deadline), and `decode_frame`, which only tests call.
- The trace commands of the CLI: each recovers into a fresh engine, asks one query or adds
  evidence, prints, and may persist. Two of them on one trace at the same time lose the
  evidence of the one that persists first; nothing in the repository says otherwise.
- Benchmarks and examples.

Statements of the documentation that differ from the code without a run of their own,
because the code has no behaviour to check them against: nothing lowers a confidence for
stale sources (`docs/explanation.md`); nothing removes orphan `.tmp` files (`docs/recovery.md`); an observation that does not decode is not
rejected but ends the collector (`docs/protocol.md`, action `Terminate`); a counterfactual
change without a candidate number applies to every candidate, not to the "first match"
(comment at `compute.cpp:296`, operator `Changed`).

## Plan

1. Prove that the restart cycle of `Persistence` implements `EvidenceLedger` up to what was
   last saved.
2. Prove that a wait of `Collector` is for a thread that can move (the safety part of
   `NobodyWaitsForever`).
3. Compose `TraceFile` with `Persistence`, whose `Torn` record stands for what `TraceFile`
   says of a file without its end.
