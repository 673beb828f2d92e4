# A verification development of chaintracks-cloudflare

chaintracks-cloudflare is a block header service on Cloudflare: a worker with a
D1 database, a minute cron, a durable object that reads a peer's tip stream, and
HTTP routes. It keeps the heaviest header chain it has been offered, announces
its tip to webhooks, journals chain events for consumers, and serves headers.
This directory holds TLA+ modules of its state-changing parts, TLC runs of them,
and TLAPS proofs about nine of them. Paths below are relative to the
repository; `PROJECT.json` maps every definition to the lines it models.

    tlc -config WriterLease.cfg MCWriterLease      # a run: <name>.cfg and the MC module of PROJECT.json
    tlapm LeaseAndStreamProofs.tla                 # the proofs

## 1. Inventory

### The parts, their state and their operations

| Part | State | Operations | Module |
|---|---|---|---|
| Writer lease (`src/sync.rs`, migration 0015) | `sync_state.lease_owner`, `lease_until` | `take_lease`, the fence in every header transaction, `lease_left_ms`, `note_lapse`, `Fenced::close`, `release_lease` | WriterLease |
| Header store (`src/storage.rs`, the writers of `src/sync.rs`, `src/push.rs`) | `headers` (parent link, work, active, tip flag), `sync_state.pending_reorg_from` | `insert_header`, `handle_reorg`, `insert_with_parent_backfill`, `relink_orphan_and_reevaluate`, `insert_headers_batch`, `update_chain_tip_to_highest`, `ingest_pushed` / `canonicalize_pushed`, `heal_links`, `store_heal_progress`, `dedupe_active_heights`, `repair_cumulative_work` | HeaderStore |
| Tip announce (`notify_tip` and its statements) | the claim and its clock, the failure counters, `pending_reorg_from`, `announce_deliveries` | claim, re-claim, POST, record, clear, count | Announce |
| Chain-event journal (migrations 0009, 0011) | `chain_events`, `chain_event_state.tip_hash` | triggers on `headers` and `sync_state` | ChainJournal |
| Event feed (`src/events.rs`, migration 0012) | `chain_events`, `chain_event_state.floor`, `chain_event_deliveries`; a client's cursor | `deliver`, `retain`, `read_page`, streams | EventFeed |
| Tip stream and poll rule (`src/tip_stream.rs`, `poll_for_new_blocks`) | the object's `StreamState`, `PollState`, its alarm; `last_seen_height` | alarm, session, `through_the_lease`, `/wake`, `/polled`, a pass | TipStream |
| Re-validation and served ceiling (`src/storage.rs`, `/admin/revalidate`, migration 0008) | `validated_height`, `validated_hash`, `validation_fault`, `validation_complete` | `revalidate_step`, the restart, `served_ceiling` | Revalidation |
| Consensus rules (`src/consensus.rs`) | none | proof of work, checkpoints, difficulty, median time | in part, inside HeaderStore |
| Courier ladder and rung tips (`src/couriers.rs`, `src/rungs.rs`, `src/woc.rs`, migration 0010) | `sync_rung_tips`, `chain_splits`; a tick's faults, preferred rung and observations | `chain_info`, `header_by_hash`, `finish_observations`, `record`, the triggers of split and splitResolved | Couriers |
| Edge cache of the header routes (`src/edge.rs`, `src/routes.rs`) | `caches.default` of each colo | `lookup`, `answer`, `purge`, `/admin/ingest`, `/admin/edge-purge` | EdgeCache |
| Hand-over and read-through (`src/push.rs`, `src/sync.rs`) | none of their own | `hand_over`, `read_through` | the write in HeaderStore; the budget planned |
| Bulk bootstrap (`src/sync.rs`, `src/r2.rs`) | a progress row | `bootstrap_from_peer` | the write in HeaderStore; the progress planned |
| HTTP request parsing and formats, SSE parser, health report, D1 access | buffers | reads, formats | not modelled |

### How they interact

The minute cron (`poll_for_new_blocks`) asks the durable object (`/wake`) whether
the couriers need asking. If so it takes the lease, asks the couriers, writes the
store, heals, re-validates, announces the tip, releases, and reports the outcome
(`/polled`). In any case it then delivers the event outbox and retains the
journal. The durable object, on a tip event, walks the pushed header back to a
stored row and writes it under the same lease; it then announces and delivers
without the lease. Operator routes write the store under the lease, and write the
re-validation record under none. Triggers journal every tip move inside the
transaction that makes it. All of this shares one D1 database, whose unit of
atomicity is one statement or one `batch`.

### What is hard, and what makes each part correct

- **Lease.** Holders hang past their term, die, or fail to release; the take may
  commit and lose its answer; two of the three readings of the clock are in
  seconds and one in milliseconds. Correct: headers of two holders never
  interleave, and a pass that the fence refused is never stamped as complete.
- **Store.** An operation is several transactions and may be cut after any.
  Correct: between operations the active rows are the tip's own chain, no row
  claims work it does not have, the pending fork covers every changed height, no
  checkpoint is crossed, and the store settles on the network's chain, which an
  orphan left by a cut walk may prevent (section 6).
- **Announce.** Announcers cross with each other and with reorgs, and judge after
  their POSTs what they read before. Correct: one announcer in a claim's window,
  no fork is cleared that a target never had, no record goes back, every target is
  told. Tips of one height, and two reorgs from one height, are where it falls short
  (section 6).
- **Journal and feed.** Delivery, retention and reading cross with no lease.
  Correct: the journal names the served tip, its rows decode, no consumer misses
  a chain row without being told of a hole, and everybody ends at the head.
- **Tip stream.** The object loses its memory at any step, the peer may push
  anything or nothing. Correct: the couriers go unasked only while something was
  really heard, and a session always comes back.
- **Ladder.** Couriers lie, fault, follow different branches and come and go; the
  pass observes them at its end, and passes may overlap. Correct: no observation
  replaces a later one, a split is said when the couriers really stand apart and
  resolved only when they really do not.
- **Edge.** Answers outlive the rows they were read from, in caches nobody can
  list. Correct: what is kept lies below every reorg, and a purge takes all it names.
- **Re-validation.** Steps read and write unfenced while reorgs go on. Correct:
  no refused row is served, no sound store is faulted, and the pass completes.

## 2. Modules

Each module translates one part; each `MC<module>` gives it finite constants. In
every module an action is one D1 transaction, one POST, or one handler turn with
no await inside; what the code has read and not yet used is part of the state.
Variables marked *history* in a module are read by properties alone. Definitions
headed "Mutant" in a module are slips that the properties are known to catch;
no specification uses them.

**WriterLease** (`src/sync.rs`). A writer is one invocation; its token is random,
so it takes the lease once. `Take`, `TakeFault`, `TakeAnswerLost` are the three
outcomes of `take_lease`; `Commit`, `FenceRefuses`, `BatchFault`, `Probe` are
`Fenced::fenced` and the term read that classifies its failure; `NoteLapse` is
`heal_links`' own check; `Close`, `Release`, `ReleaseFault`, `StrayCommit`,
`StrayClose`, `Crash` are the ends. `Tick` moves a clock of `MsPerS` parts in a
second and stops once no term is running, which nothing can tell from a clock
that goes on.

**StoreTurns** is the abstract specification of the lease, with no lease, clock
or fence in it: writers that have the store in turns. WriterLease implements it
under the mapping of `Stage` (where a writer stands), `turn` (who wrote last) and
`over` (who was overtaken): a commit is a write, a failed fence breaks the turn,
and a pass whose turn was broken never ends as complete. `GivesTurns` is the
refinement; TLC checks it on the instance and TLAPS proves it.

**HeaderStore** (`src/storage.rs`, `src/sync.rs`, `src/push.rs`). The headers in
existence are a tree with weights, given by constants. `todo` is the queue of
transactions the running operation still makes; `Cut` drops the rest of it. One
operation runs at a time, as WriterLease justifies: header transactions of two
holders never interleave. Not covered by that argument, and not modelled here,
is a writer that goes on without a lease (section 6). Rows are
never deleted, as in the code. `rank` keeps the order of `header_id` among rows
of one height, which the sweep reads. `CutBulk` and `BackfillAnywhere` switch two
environments on: a bulk write cut between its rows and its tip, and a backfill
above the tip. `RepairWork` reads the active rows of the last `RepairWindow` heights,
takes the lowest for its anchor, stops at a break, and rewrites what is wrong in
batches of `RepairBatch`, between which it may be cut. `Offered` is what a pass asks
the couriers for: a height above the tip once those below it have landed, and the
network's tip when it competes at the height of the store's. With `CutBulk` or `BackfillAnywhere` rows stand active above the tip flag, and
`ActiveIsTheTipsChain`, `StoredInactiveIsInactive` and `TipNeverLosesWork` fail
(section 6), so they are checked with both off; `WorkIsNeverOverstated` and
`EveryEventIsWhole` are checked with both on.

**ServedChain** is the abstract specification of the store, with no rows, links,
queues or repairs in it: one chain is served at every moment and the tip is on it. It
grows at its end (`Grow`), the tip going along or following later, or, when it ends
in the tip, gives way to a branch that claims more work and parts from it at most
`Depth` below (`Replace`); claims may be rewritten (`Weigh`), never above the work.
HeaderStore implements it under `served <- active`, `claim <- work`: `ServesOneChain`
is the refinement. It holds between any two transactions, where
`ActiveIsTheTipsChain` speaks of the state between operations: while a run is
written in chunks the chain is longer than the tip says, and never anything else.
The abstract store names neither a queue nor a height at which two rows could stand,
so it is also what a reader may assume who knows nothing of the writers.

**Announce** (`notify_tip`). An announcer's reads (tip, row, deliveries, pending
fork), its claim or re-claim, the answer of each target (`Accepted`, `Refused`), its
records, its clear and its count are separate steps; between any two the chain grows
or reorgs, to a tip of any height and from any height. Of the failure counter
its value modulo `ANNOUNCE_STUCK_AFTER` is kept. A claim's age is young or old.

**ChainJournal** (migrations 0009 and 0011, and `decode` of `src/events.rs`)
EXTENDS HeaderStore and adds what the triggers write to each of its transactions.
Re-validation is complete here; the reaction of the triggers to a lowered ceiling
is planned. It records the events a transaction writes, not the table, which is
EventFeed's.

**EventFeed** (`src/events.rs` under feed 2). A row is its cursor and whether it
is a chain row or a `tipAge` row. Deliverers read the outbox, then each target's
rows, POST, record; a tick then reads the floor and deletes in one transaction.
Clients page, stream (`STREAM_QUERY_BOUND` queries) and restart below a floor
after a 410.

**TipStream** (`src/tip_stream.rs`, `poll_for_new_blocks`). Clocks are relative
ages and times left, so the state is finite. The durable object's session is
lost with it (`Evict`), the saved copy is what the code last put. The chain is
reduced to heights; what the door does with a push is a choice. A push never
takes the lease from a pass at work (a pass that outlives its term is
WriterLease's), a chunk carries one event, overlapping ticks leave only their
`/wake`, puts of the object's storage do not fail.

**Revalidation** (`revalidate_step` and the routes and readers of its record).
The record and each step's reads and writes are separate, one query each: the tip,
the row at each checkpoint's height, the stored cursor's row, every row of the walk
back from it (`WalkBack`), the rows above. The tree, which rows the rules refuse, and
which stepper holds the lease are constants. A stepper with the lease excludes the
store's writers; the operator's route does not, so a reorg lands between any two of
its reads.

**Couriers** (`src/couriers.rs`, `src/rungs.rs`, migration 0010, and
`insert_with_parent_backfill` as the observation of a tip uses it). The headers in
existence are a tree; each courier follows a tip of it. `AskTip` is the answer to one
question of `chain_info`, whose `observed_at` is the time it was asked (`asked`), `Fetch` a pass that stores a header through the ladder, `Observe` one
rung of `finish_observations`, `Record` the one transaction of `rungs::record` with
the view and the trigger that read it. An answer is a courier's own tip, or odd: a
fault, another header, no hash, a wrong height, nonsense; `MaxOddities` bounds the
odd ones, and a pass that overlaps another costs one, as it takes a failed lease.
`Cut` ends a pass, and is also a database error in `finish_observations`.
`CeilingFalls` and `CeilingRises` stand for Revalidation.

**EdgeCache** (`src/edge.rs`, the header routes of `src/routes.rs`). Of the store
only the version of each height's active row is kept; its writers appear as far as
they change active rows, each with its bound in the code (`max_steps` of
`find_common_ancestor`, `MAX_ACTIVATION`, `LINK_WINDOW`). A request reads tip and
ceiling, then rows, then puts its answer, with anything in between. A purge deletes
the colo's keys, then sends its bodies one by one; that an accepted body reaches
every colo is Cloudflare's promise and external. v1, v2 and `.bin` keys of one kind
are one key, and a failed put is `Leave`. `MaxShorter` bounds how much shorter than
the store a heavier branch may be.

The proofs of a module `X` are in `XProofs`, which EXTENDS it: EventFeed, Announce,
EdgeCache, Revalidation, HeaderStore and Couriers have one; ChainJournal's are in
HeaderStoreProofs, since they rest on the store's invariant. Those of WriterLease
and TipStream, which say together when a writer writes, are in LeaseAndStreamProofs;
for its sake TipStream's specification has names of its own (`StreamInit`,
`StreamNext`, `StreamSpec`). `ProofFacts`
holds the lemmas they share: least and greatest elements of bounded sets, rows that
sort, sets of naturals in order, and recursion along the parent links of a tree.

## 3. Runs

States and times are those of two TLC workers on a small machine. Deadlock is
checked except in the WriterLease and Revalidation runs, whose finite sets of
invocations, and of headers, really run out. Three runs are expected to fail: each
checks a sentence of the repository that the code does not keep (section 6).

| Run | What it shows | Distinct states | Time |
|---|---|---|---|
| WriterLease | three invocations, two of them passes, every second and millisecond, takes that fail or lose their answer: holds never interleave, a holder keeps its term, a refused pass is not stamped, the store is given in turns, a pass that asks gets in | 910 k | 120 s |
| HeaderStore | live inserts, batches, pushes, heals and sweeps over three branches, cut once anywhere outside a bulk write, with the triggers of the journal: one chain is served, it is the tip's between operations, forks are remembered, the journal keeps up; fairness: a heavier branch that a cut left unserved is served in the end, when no orphan is in it | 252 k | 150 s |
| HeaderStoreAbove | an empty store, a checkpoint above a hole, bulk writes cut anywhere, rows above the tip flag, a walk of one row: the heal keeps progress, no work is overstated, every event is whole | 429 k | 60 s |
| HeaderStoreConverges | expected to fail: one cut parent walk, and the store does not settle on the network's chain | 37 k | 15 s |
| Announce | two announcers that cross at one target, or one that asks two targets through two reorgs, one announce cut: one announcer in a claim's window outside a contested height, no fork cleared that a target never had in a body, no record of a lower tip; fairness: every target is told | 506 k | 70 s |
| AnnounceRewritten | expected to fail: two announcers cross at a reorg to a tip of the same height | | |
| EventFeed | two ticks deliver and retain at once, one may be cut; or a client on pages and streams, with rows that age out under it: nothing is passed over, holes are announced, the outbox drains and the client reaches the head | 613 k | 190 s |
| EventFeedHole | expected to fail (section 6) | | |
| TipStream | a tick skips the couriers only when something was heard; fairness: whatever the peer does the store reaches the network's tip, whatever is evicted a session begins again | 604 k | 115 s |
| Revalidation | cron and operator, reorgs between any two reads, a restart and a cut on a store with a refused row, on which headers that pass may stand: it is not served, the cron faults no sound row; fairness of the cron: the pass ends | 321 k | 100 s |
| Couriers | three couriers on two branches, one moves, one may be removed, two passes, one odd answer; fairness of the passes: observations never go back, splits are said and resolved when they are so | 225 k | 110 s |
| EdgeCache | two colos, one key of each kind about the line, two reorgs, activations, restarts or purges, one refused body or cut: a kept answer outlives every reorg, a purge takes what was kept | 336 k | 20 s |

The type invariants of WriterLease, HeaderStore and TipStream are checked by
their runs. Those of the other modules document the state: they hold under the
configurations above too, where `INVARIANT TypeOK` is one more line.

### Bounds, and why they are enough

- *WriterLease.* `Term = 1`, `MsPerS = 2`: with one second of term and two parts
  of a second every order of a take, a fence and a term read around a second's
  boundary occurs. Of three writers one lapses, one overtakes, one comes late.
  The proofs of section 5 remove these bounds from the safety properties.
- *HeaderStore.* `MaxRun`, `Window`, `WalkLimit`, `Backfill`, `MaxActivation` and
  `ChunkSize` stand for limits of 36 to 400 rows and 100 statements; at 1 to 3
  runs of the trees of 5 to 7 headers reach them. `RepairWindow` 2 and `RepairBatch`
  1 for 144 and 100: a window shorter than the chain, and a repair cut between its
  batches. In the main run a bulk write has one or two headers, in batches of one; a
  branch wins by weight without height until the network settles on a third header of
  the first, and there is a branch of a branch.
  HeaderStoreAbove has a `WalkLimit` of 1, at which a withdrawn branch is longer than
  the walk. One cut per behaviour leaves every intermediate state to every later
  operation.
- *Announce.* Announcers meet in the claim's row and targets in the pending fork, so
  `Casts` has one behaviour of each kind: `Crossing`, two announcers, one target, a
  tip of height 1 and one move of the tip, which is enough for a claim to go back and
  forth and for each announcer to be late for the other's; and `Asking`, one
  announcer, two targets, a tip of height 2 and two moves, which put two reorgs, from
  the same height or from two, under one announce, and give a later fork that is
  deeper or shallower. Nothing is excluded: a reorg may come from any height at or
  below the tip and end at any. The theorems of section 5 have no bound on
  announcers, targets, heights or moves. `StuckAfter = 1` counts every failure
  as stuck: no property is about that counter, which only logs.
- *EventFeed.* Three or four rows are more than a page, a budget, a retention or
  a stream's bound of 1 or 2; two ages separate chain rows from `tipAge` rows.
  Clients do not interact, so one stands for any number. Deliverers and clients
  share the journal alone, which either meets in every state: `Casts` has a
  behaviour with one or the other.
- *TipStream.* A unit is half a minute: a heartbeat of 1 for 45 s, the cron's 2
  for one minute. `Quiet` and `Session` (600 s both) shrink to 2 and 1, which
  lets a session, a quiet interval and a tick end in every order. Drops
  saturate where the backoff meets its cap. `SkippedTickWasHeard` also holds with
  `Quiet = 3`, `Session = 2` and more drops (6.9 M states).
- *Revalidation.* One row per step (`Budget`), a walk of two, a chain of three
  whose last row is refused and that a branch overtakes from its first row, headers
  that pass on top of the refused row, which may take the chain back, a restart and
  a cut.
- *Couriers.* `Cap` 1 for 3 faults, `Depth` 2 for `SPLIT_DEPTH`, `Walk` 2 for the
  view's 400 rows, `Backfill` 1 for 36 ancestors: with branches of two and three
  headers a tip is at the depth and short of it, further than the walk, and with
  a parent that no walk brings.
- *EdgeCache.* A line of 2 with a walk of 2 (400 and 400 in the code, whose
  HEADER_EDGE_DEPTH may only be more); two heights to a bucket for 1000, two tags
  to a request for 100, so one run of two heights needs two requests; keys at the
  line, above it and across it. It holds with three writes as well.

### Fairness

- *Lease.* Time passes, and the minute cron asks again. Nothing is asked of a
  holder: it may hang, die or not release.
- *Store.* A transaction of an operation that is not cut happens, cuts are
  finitely many, and the couriers keep offering the network's chain: `run_cron_inner`
  asks every minute, height after height and no further than the first that does not
  land, which is strong fairness of each header in `Offered` because other writers
  may be busy at any given minute.
- *Announce, feed.* A pass announces and delivers every minute, a claim's window
  passes, a client asks again; a target that is asked again and again accepts
  once (strong, as it may refuse in between). Without that no delivery promise
  can be kept by any sender.
- *TipStream.* The runtime's timers and alarms fire and the cron ticks. Of the
  calls that may fail (`/wake`, a courier's answer, a pass's write) not all fail
  for ever. Nothing is assumed of the peer.
- *Couriers.* A pass that began goes on to its record, and a ceiling that fell
  rises again; passes may begin or not. The couriers need not agree:
  `AgreementResolves` speaks of behaviours in which they do.
- *Re-validation.* The cron takes a step every minute and a step that is not cut
  ends; cuts and restarts are finitely many.

## 4. The properties

Each is stated over its definition. They aim at the hazards `PROJECT.json` lists,
each with its line: interleavings without a lease, reads used after another's
write, cuts between transactions, late and repeated deliveries, limits met in the
middle of a run, and what must eventually happen. The type invariants also pin
what the code relies on silently (a linked row is stored, a tip is a stored row,
a session's timer never outlives its deadline).

Three of Couriers say when an answer about a split may be trusted. `SplitIsReal` is
stated over the tree of all headers, not over the store: whatever rows are missing
or unlinked, whatever height a courier claimed, the two tips of a split stand that
deep above the place where the network itself parts. `ResolvedIsOver` is its
converse, and `FarApartIsSaid` its liveness, for tips whose rows are whole.
`OnlyAnActivationOverturns` relates an answer, kept at any time in any colo, to the
store of every later state; it is what makes a day's lifetime sound.

## 5. What is proved

Every theorem below holds for all values of the constants that the module's own
assumption admits (any number of writers, targets, clients, colos or couriers, any
tree, any limit), and of behaviours of any length as far as the constants that
bound them are any number. Where a theorem needs more it says so as a hypothesis,
in the last column, and why is said below or in section 6. TLC checked
every inductive invariant on the module's configuration before it was proved (of
HeaderStore's, with its existential quantifiers over sequences bounded).

| Module | Theorem | Property | Hypothesis |
|---|---|---|---|
| WriterLease | `TypeCorrect` | `TypeOK` | |
| | `HolderKeeps` | `HolderKeepsItsTerm` | |
| | `StampIsHonest` | `StampedPassWasNeverRefused` | |
| | `Serialized` | `HoldsNeverInterleave` | |
| | `ImplementsTurns` | `GivesTurns` (the refinement of StoreTurns) | |
| HeaderStore | `WorkNeverOverstated` | `WorkIsNeverOverstated` | |
| | `StoreTypes` | `TypeOK` | `Unbroken`, `[]RunsStand` |
| | `ActiveRowsAreTheTipsChain` | `ActiveIsTheTipsChain` | `Unbroken`, `[]RunsStand` |
| | `ForksCoverEveryChange` | `ForkCoversEveryChange` | `Unbroken`, `[]RunsStand` |
| | `StoredInactiveAnswersAreTrue` | `StoredInactiveIsInactive` | `Unbroken`, `[]RunsStand` |
| | `TipsKeepTheirWork` | `TipNeverLosesWork` | `Unbroken`, `[]RunsStand` |
| | `ServesOneChainAlways` | `ServesOneChain` (the refinement of ServedChain) | `Unbroken`, `[]RunsStand` |
| | `RunsAlwaysStand` | `RunsStand`, the hypothesis above | `Unbroken`, no checkpoint above the genesis |
| ChainJournal | `JournalNamesTheTip` | `JournalSaysTheTip` | `Unbroken`, `[]RunsStand` |
| | `HeldTipsStayActive` | `HeldTipsAreActive` | `Unbroken`, `[]RunsStand` |
| | `EventsAreWhole` | `EveryEventIsWhole` | |
| | `EventsDecode` | `EveryEventDecodes` | `Unbroken`, `[]RunsStand` |
| EventFeed | `FeedTypeCorrect` | `TypeOK` | |
| | `ReadersMissNothing` | `NoReaderSkips` | |
| | `NoCursorAhead` | `NoCursorIsAhead` | |
| | `CursorsMoveOverAccepted` | `CursorMovesOverAcceptedRows` | |
| Announce | `AnnounceTypes` | `TypeOK` | |
| | `OneAnnouncer` | `OneAnnouncerInFlight` | |
| | `RecordsNeverSink` | `DeliveryNeverSinks` | |
| | `ClearedForksWereCarried` | `ClearedForkWasCarried` | |
| EdgeCache | `OnlyActivationsOverturn` | `OnlyAnActivationOverturns` | `LineHolds` |
| | `PurgesTakeWhatWasKept` | `PurgeTakesWhatWasKept` | |
| Revalidation | `RevalidationTypes` | `TypeOK` | |
| | `NoRefusedRowIsServed` | `RefusedIsNotServed` | |
| | `FaultsAreReal` | `FaultIsReal` | `Stands` |
| TipStream | `StreamTypes` | `StreamTypeOK` | |
| | `SkippedTicksWereHeard` | `SkippedTickWasHeard` | |
| Couriers | `TipsNeverGoBack` | `SnapshotNeverGoesBack` | |
| | `SplitsAreReal` | `SplitIsReal` | |
| | `ResolvedSplitsAreOver` | `ResolvedIsOver` | `Ladders` |

### The lease

From `LeaseAssumption` alone: passes are writers, NULL is no writer, term and
resolution are positive; a take may fail or not.
None of the properties is inductive. A state where the row names `w` again after
another has committed satisfies the first reading of `HoldsNeverInterleave`, and
one more step of `w` breaks it. The inductive invariant `IInv` adds why no such
state is reached:

- `AskersAreNew`: a writer that has yet to ask is in no row and no history. This
  is the fresh random token of `take_lease`; with a token drawn twice the
  theorems are false.
- `TermIsKept`: until its second has passed the row is the writer's own; so a
  take by another means that the clock has moved on, and it does not run back.
- `OvertakenLostTheRow`, `RefusedLostTheFence`: what is lost stays lost, because
  only a take names a writer, and it names a new one.
- `RefusedKnowIt`: between the refusal and its close a pass reads the term; the
  lemma `RefusedMeansSpent` is the arithmetic of seconds against milliseconds,
  `(until + 1) * 1000 - now_ms <= 0` whenever `until < now_s`. This is what makes
  `Fenced::close` see every lapse that the fence saw.
- `StampedAreClosed`, `RefusedWereHolders`: where a stamp and a refusal can stand.

`InitIInv` and `IInvStep` (one step per action) give `LeaseInvariant`, from which
the first four follow; `Serialized` is an action property and needs the invariant
in the state before the step. `ImplementsTurns` takes the invariant too: `TurnsInit`
maps the initial state, `TurnsStep` every action to a step of StoreTurns or a
stutter. Only `Commit` needs more than bookkeeping: a writer that commits owns the
row, so by `OvertakenLostTheRow` nobody has written after it. `MovesOnly` and
`OthersKeepTheirStage` say that a step of one writer moves its stage alone.

### The store

`WorkIsNeverOverstated` speaks of stored rows; `WorkInv` says of every header,
stored or not, that its `work` is at most `TrueWork`, the sum of the weights down
to the genesis (`WorkOfAChain` is that recursion, from the tree being finite and
grounded). It is inductive because every writer of `chain_work` adds a row's own
weight to something that is a lower bound for its parent: the parent's row, or
nothing at all where the parent is not stored (`WorkOnIsHonest`). Two writers carry
a running sum over several rows: a batch, whose sum stands on the row of the parent
of its first header, and `repair_cumulative_work`, which sums along the active rows
of its window from the lowest up and stops at the first that does not descend from
the one before. So every row it writes has all those of the window below it as
ancestors, and the anchor's honest claim plus their weights is at most the work of
its chain (`RepairWrites`), however few of them a batch writes; without that stop (the
mutant `ExpectedUnlinked`) the weights of a rival would count. No hypothesis on cuts or on rows above the tip flag
is used: `CutBulk` and `BackfillAnywhere` may be on.

The properties of the chain hold when an operation's queue is empty, so their
invariant has to say of every queue an operation can leave what the rest of it
will repair. `IInv` is `TypeOK`, a stored tip, `Covered` (the pending fork lies at
or below every changed height) and one of two shapes:

- `Still`: the active rows are the tip and its ancestors, and each step of the queue
  fits (`StepFits`): a reorg stands first and has more work than the tip, what a
  relink names is stored or inserted before it, a canonicalization's run is a chain
  and has nothing to activate. Live inserts, walks, heals, sweeps and cuts keep this
  shape: a reorg is one transaction, and a sweep finds one active row at each height.
- `Bulk`: a run is being written. `Writing` says how far: the active rows are the
  chain of its highest row so far, the tip is among them, the chunks left carry on
  where the last one ended (`Chunked`), and what follows them moves the tip to the
  highest row. `AdmittedStands` is why a run starts so: a run that would stand beside
  an active row is given to the live path (`Competes`), so a run in chunks extends
  the active chain or repeats it.

That a heavier branch's activation keeps the old chain below the fork, that its depth
is within `WalkLimit`, and that the row it withdraws lowest is what the fork marker
carries come from the lemmas on chains (`Descent`, `MeetFacts`, `RowsOfAChain`).
`TipSteps` reads `TipNeverLosesWork` off the same shapes.

`ServesOneChainAlways` maps each transaction to a step of ServedChain. A reorg is a
`Replace` (`ReorgMoves`: the branch it activates and what it leaves below the fork
are the ancestors of the new tip, within the walk, and it writes no work). A live
insert, a relink's tip, a chunk and the move to the highest row are `Grow`: in a
chunk the rows of a run that are served already are left alone, so their claims stand
(`ChunkServes`), which is where a run beside the chain would break it. The rest leaves
rows and tip alone and is `Weigh`, or a stutter. That claims are honest comes from
`WorkInv` and the type invariant.

Its hypotheses: `Unbroken` is the switches of section 6 off (a store that starts at
the genesis, no bulk write cut before its tip, no backfill above the tip); with
either cut or backfill TLC shows the properties to fail. `RunsStand` says that a
run written in chunks begins at the genesis or on a stored row.
`insert_headers_batch` also admits a run with no stored parent when a checkpoint in
it vouches for it; written over a hole it stays apart from the tip's chain (section
6). Where no checkpoint lies above the genesis, as in the run HeaderStore,
`RunsAlwaysStand` proves it; there the six theorems need `Unbroken` alone.

### The journal

`JournalInv` says that the tip last journaled is the tip, and that what a consumer
holds is active, between any two transactions and not between operations alone. Only
`handle_reorg` takes rows off the chain (`RowsStay`), and the two chains part at most
`WalkLimit` below the old tip (`StepsMeet`), which is also how far the trigger's walk
goes. So all that is withdrawn is in `OldBranch` (`WithdrawnIsNamed`), the branch it
reads is unbroken (`NamedRun`), and it has a row, which is what `decode` asks. With
a walk in the trigger shorter than that of `find_common_ancestor`, `StepsMeet` would
still hold and `WithdrawnIsNamed` would not.

Of a store with rows above its tip flag `EventsAreWhole` proves what is left, with no
hypothesis: the branch is a piece of the line of the tip last said (`BranchIsALine`),
so it is linked and ends at its fork height, and a fork's depth and heights follow
from `ForkBelow`. What is lost is the length. The trigger's walk reads 401 rows and
`decode` accepts 400; `EveryEventDecodes` needs the two chains to part within the
walk, and where they do not TLC shows a branch one row too long (section 6).

### The feed

`IInv` of EventFeedProofs has two ideas. The floor parts the chain rows:
`DeletedAreBelow` (every deleted one is at or below it) and `KeptAreAbove` (every
kept one is above it). A retention keeps this because what it picks is a prefix of
the rows above a floor it read earlier (`LowestIsAPrefix`, `RetainFacts`), and
`ReadFloorIsPast` says that such a floor is never ahead. So a client above the floor
has lost nothing, and one below it gets the 410. For targets, `CursorsAreCovered`,
`ReadsAreCovered` and `RowsAreWhole` say that what a delivery holds has no hole
over a row still in the journal, whatever was deleted since it was read; the rows
deleted meanwhile are the hole of section 6. `HeadIsKept` keeps every cursor from
being ahead.

### The announce

No theorem about the announce has a hypothesis: reorgs come in any order, from any
height, to any height. `ClaimInv` is what the compare-and-set on the tip row keeps. The
claim's height never sinks (`ClaimRises`), and no tip being posted, and none recorded,
is above it (`PostedIsClaimed`, `ToldIsClaimed`). So a record that the guard on the
claim lets through is at least as high as the one it replaces: `RecordsNeverSink`, which
is what remains of "never rewrite a newer record" once tips of one height are admitted.
`FreshInTheWindow` keeps the claim's clock young while its announcer is in its window, so
nobody re-claims the tip then; a second announcer of the claimed tip could only come
through `TIP_ANNOUNCE_SQL`, which must first have taken the claim to another tip of the
same height. That is the exception in `OneAnnouncerInFlight` (`contested`).

`ForkInv` follows a fork through the reads that outlive a POST: a fork that a
record, an old read of it, or an accepted POST names is one that this target has had in a
body (`ToldWasHad`, `HeardWasHad`, `AcceptedWasHad`). The marker is cleared when all
targets have the fork carried, and only if it is still that one, so
`ClearedForksWereCarried`. It speaks of heights, as the code does; what this leaves
out when two reorgs fork at one height is in section 6.

### The edge

`EntriesLast` and `RequestsLast`: what is kept, and what a request still under way is
about to keep, lies more than `ReorgBound` below the highest tip there ever was. A
reorg reaches `MaxSteps` down from the higher of two tips, and no tip stands more
than `MaxShorter` below the highest (`TipIsNearThePeak`). `LineHolds` is
`MaxSteps + MaxShorter <= ReorgBound + 1`: the walk and the line are both 400 in the
code, which leaves one block for a heavier branch that is shorter. The
theorem shows that this inequality, and not the equality of the two numbers, is
what the cache rests on.

`PurgeInv` says what a purge under way has still to take: while no body was refused,
every answer that was kept when it began, and speaks of one of its heights, is named
by a body not yet sent (`LeftToTake`). It begins so because each height's thousand
has a tag (`TagsOfAPurge`), each key carries the tag of every thousand it touches,
and the division into bodies drops none (`BodiesCarryTags`, the arithmetic of a
rounded-up quotient). An answer put during the purge is a new one and is not meant.
For the keys deleted in the colo, `KeptByHash` says that an answer by hash holds the
row of that hash, so naming the withdrawn rows names their keys.

### The tip stream

`SkippedTickWasHeard` says of a tick that leaves the couriers unasked that within the
quiet interval a push really advanced the store or a pass really ran. `/wake` answers
from ages that the object keeps and may lose, so the invariant relates those to the
truth: by `AgesAreHonest` the time since anything was heard (`unheard`, history) is at
most the age of the last push, the age of the last poll, and the age of a push that a
session is about to save. Time passes for all of them alike; every action that sets
one of them to zero was heard itself; a copy that comes back after the object was
evicted is as old as what it was made from; and `/polled` starts the timer only for a
pass that ran. Only `WakeAnswered` leaves a tick uncovered by a poll, and it looks at
these ages.

`StreamTypes` carries the ranges of the clocks, of which one takes an argument: the
alarm after a drop is a power of two of the drops. That this is a number at all comes
from a set of n having as many subsets (`PowersAreNaturals`); its minimum with a
minute is then below the watchdog's. Both theorems rest on `StreamAssumption` alone.

### The re-validation

`LowInv` compares heights and nothing else: every cursor, recorded or read by a step,
is lower than every row in `Refused`, and no pass that completed, or is about to,
has a row in it. `Refused` are the active rows that the rules refuse, that
no checkpoint vouches for and that no reorg has brought back; only `Store` changes it, and
only by taking rows away, so a reading once low stays low while reorgs go on around
it. A checkpoint's row is low because the active rows below it are vouched for
(`AnchorIsLower`), the rows a step passes are because they are a chain of rows that
pass (`PassedAreLower`), and a fork point because it is no higher than the row the walk
began at. No hypothesis is made of the checkpoints, or of which headers stand on which.
`FaultInv`: under the lease the chain is the one that the step began with. Its hypothesis
`Stands` says that the root is a checkpoint and that no old row stands beside one:
a step that finds another row at a checkpoint's height faults the chain for that,
whatever the rules say of the rows above.

### The ladder

`SplitIsReal` relates what the trigger derives from a store with holes to the tree
of all headers. `AncestryIsAnUpperPart`: whatever a bounded walk over stored rows
reaches, it reaches all the ancestors above it. Hence `WalksMeetAtTheFork`: where
two walks meet at all, they meet at the true last common ancestor, so a pair of
the view names the true fork and its distance (`PairFacts`), and a hole can only
lose a pair. For `ResolvedIsOver` the trigger compares the number of pairs with
n * (n - 1) / 2. `CountOfPairs` and `EveryPairIsThere` show that this equality
means that every two rows are classified, so no pair is missing. `SnapshotInv` carries
the rest: the snapshot holds observations with a hash, and a pass that finishes has
settled each of its rungs or still has it in its queue. The hypothesis `Ladders`,
two rungs in every configuration, is needed: one row makes no pair, 0 = 0, and an
open split is resolved while the one rung left was never observed (TLC shows it with
`FirstConfig = {1, 2}`, `Configs = {{1, 2}, {3}}`). docs/SPLITS.md lets
the removal of a provider resolve a split, so the code does as it says there; only
the sentence that what is unknown never resolves one (`src/migrations/0010_rung_tips.sql:21`)
does not hold for a single courier.

### Only model-checked

- Liveness (`EveryPassGetsIn`, `HonestBranchIsServed`, `EveryTargetIsTold`, `OutboxDrains`,
  `ReadersCatchUp`, `StoreCatchesUp`, `StreamComesBack`, `PassEnds`,
  `AgreementResolves`, `FarApartIsSaid`): out of this prover's reach.
- The properties of HeaderStore that need `Unbroken` or `RunsStand`, in stores where
  these do not hold: some fail there (section 6), and no run checks the others.
- What section 6 lists, which TLC refutes.

Every safety property of a passing run is a theorem, under the hypothesis of the
table. `EveryEventDecodes` is a theorem that no run lists; it holds under
`HeaderStore.cfg`, where `PROPERTY EveryEventDecodes` is one more line.

## 6. Where the code and its documents disagree

Three runs check a sentence of the repository against the code and find a behaviour
that contradicts it.

- `EventFeedHole`. `src/src/events.rs:764` says of a target's rows
  "its cursor is known to stand inside the journal", but the rows are read after
  the outbox, once per target and after the POSTs of the targets before it; another
  tick's retention between the two reads deletes rows above the cursor, and the
  target is moved past them with nothing logged.
- `AnnounceRewritten`. `src/src/sync.rs:1959` says that a delivery of a tip that is no
  longer the claimed one "can never rewrite a newer record". Between tips of one height,
  "the common reorg shape" (`src/src/sync.rs:1884`), the claim goes back: an announcer
  that read the old tip, and the claim's row after the new tip was claimed, claims the
  old one again, for the row's hash differs from its own. The old tip is then the
  claimed one, and its delivery replaces the newer record. The target is told the new
  tip once more by a later pass (`EveryTargetIsTold` holds).
- `HeaderStoreConverges`. `src/src/sync.rs:1432` has an insert of a stored, unlinked
  or inactive header resume the walk, because without it "the wedge" was "permanent".
  With a served branch of two, the competitor of the same height lands as an orphan,
  its walk stores the parent and is cut before the relink. The network's next header
  stands on the orphan and adds its weight to the orphan's own. Asked for again it is
  walked again, but the walk stops at the first stored row, the orphan, and only the
  header asked for is relinked. Its branch never outworks the tip: what it lacks is the
  work of the whole chain below the orphan. `HonestBranchIsServed` is what does hold: the
  branch is served once no header of it claims too little, so a cut between a
  heavier row's insert and its reorg is made up for.

The modules hold other such properties, which no run of this project lists. Each
is seen to fail by checking the property alone under a listed configuration with
the constants changed as stated (without its SYMMETRY line and, for safety, its fairness):

| Property | Configuration | What happens |
|---|---|---|
| `HeldStoreIsLeftAlone` | WriterLease | a take that faults lets its writer write headers, with no fence, beside a holder in its term (`src/README.md:96`) |
| `StoredInactiveIsInactive` | HeaderStore, `CutBulk = TRUE` | a bulk write cut above the tip flag lets a push land active beside a rival, and be answered `storedInactive` (`src/src/storage.rs:1473`) |
| `ActiveIsTheTipsChain` | HeaderStore, `Checkpoint = {a3}` | a bulk run in which a checkpoint stands is written active with no stored parent, and the tip moves onto it beside the chain it had (`src/src/storage.rs:1103`) |
| `TipNeverLosesTrueWork` | HeaderStore, `UnevenTree` and `UnevenHeaders`, `WalkLimit = 4` | the same cut leaves the orphan with its own weight as its work; what is built on it claims too little, so a chain of less work than the tip's can win against the claim (`src/src/storage.rs:944`) |
| `TipClaimNeverFalls` | HeaderStore, `SteepTree`, `SteepHeaders`, `Steep`, `Best = b1` | a bulk run over rows whose work is understated sums from the parent of its own first row; the relink of a row of it sums from the row before, and takes back what the tip had claimed (`src/src/storage.rs:1222`) |
| `EveryEventDecodes` | HeaderStoreAbove | a reorg among rows above the tip flag leaves an inactive tip; when the tip moves to the highest row, the branch withdrawn since the last event is one row longer than `decode` accepts, because the trigger's walk reads 401 (`src/migrations/0009_chain_events.sql:51`, `src/src/events.rs:226`) |
| `OneIsolateWins` | Announce | the same claims back and forth at one height: the first announcer of the tip is still inside its window when the claim comes back to that tip through another one's, and both post it (`src/src/sync.rs:2062`) |
| `ClearedForkWasHeard` | Announce | a second reorg from the height of one already heard is cleared without a body carrying it, because `reorg_from` is never reset and is taken for the new fork; one announcer alone does it (`src/src/sync.rs:2170`) |
| `BodyCarriesUnheardFork` | Announce | ... and no body after that second reorg carries it (`src/src/sync.rs:2139`) |
| `ForkWaitsForEveryTarget` | Announce | a reorg at or above the fork being announced, between the POST and the clear, is folded into the marker and wiped with it by the compare-and-clear (`src/migrations/0006_announce_deliveries.sql:16`) |
| `OnlyTheOperatorOverturns` | EdgeCache | the cron's link heal activates a run below the settled line and purges nothing, so a kept answer is untrue until its day is over (`src/src/routes.rs:846`) |
| `CompleteStays` | Revalidation, `Valid <- AllPass` | the operator's step, which holds no lease, writes its older cursor over the cron's completion (`src/migrations/0008_sync_state_revalidation.sql:8`) |
| `ServedIsValid` | Revalidation | a reorg takes a refused row off the chain, the pass completes, and headers on top of the row bring it back under a ceiling that is not a height any more; the insert asks whether a header passes, not whether its parent did (`src/src/storage.rs:2016`). `RefusedIsNotServed` leaves out exactly the rows brought back |

## 7. Not modelled, and why

- Formats, parsing, logging, metrics, HTTP, the SSE parser: no state of the system
  depends on them beyond what the modules take as inputs.
- The arithmetic of the difficulty rule on 256-bit targets. In HeaderStore a
  header of the tree meets the rule wherever the ancestry the rule reads is
  there; what is modelled is when that ancestry must be there.
- The hand-over's time budget and the bootstrap's progress row; the writes they
  make are modelled. A hand-over that ends on a store error, or on a header stored
  inactive, returns at `src/src/push.rs:337` without the record that the comment
  above `hand_over` promises of "a run stopped short".
- An answer that a request read before a replacement and puts after its purge: it
  stays in its colo until its day is over, and no property says otherwise.
- In Couriers a rung's tip may be missing from a split that is there: a tip whose
  parent walk failed once and whose child links to the orphan counts as checked
  (`src/src/couriers.rs:598`) and is never walked again. `FarApartIsSaid` asks for
  whole rows. A fork whose split was resolved is said once (docs/SPLITS.md).
- What a checkpoint promises once rows stand active above the tip flag, or in a store
  anchored at a checkpoint whose work is not repaired yet: there the tip may move to
  an ancestor of the checkpoint.
- A push dropped at the lease leaves a hint that the end of the same pass spends
  (`src/src/tip_stream.rs:248`): TipStream models it (`Polled`), and no property of it
  speaks of the hint alone.
- A sweep cut between withdrawing a row and moving the tip, as the journal sees it.
- Feed 1, which has neither floor nor retention.
- A writer without a lease inside HeaderStore, failed puts of the object's
  storage in TipStream.

## 8. Plan

Built, in this order: the lease and its proofs, the store, the announce, the
feed, the journal over the store, the tip stream, the re-validation, the
ladder, the edge, the lease's abstract specification with its refinement
proof, the safety proofs of eight more modules, and the store's abstract specification
with its refinement. Next:

1. Proofs: the store's chain with a checkpoint above a hole, where a run in chunks
   may stand apart from the tip's chain.
2. **HandOver**: the door's asks, waits and sends under one budget, over the
   lease, and the answers of the route.
3. **Bootstrap**: the progress row and file cursor, crash and resume, over
   HeaderStore's batch.
4. **Window**: median time past and the rows the difficulty rule selects, as
   recursive functions against a reference definition.
5. ChainJournal's triggers on a lowered ceiling, composed with Revalidation;
   feed 1 in EventFeed.
6. An abstract specification of the feed: each consumer holds a prefix of one log,
   or has been told of a hole.
