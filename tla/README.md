# Verification of MeteoCore's shared resources

MeteoCore is a meteorological data server in Rust: many crates, most of them
decoders, resamplers and HTTP plugins that are functions from bytes to bytes.
Its own control logic is where those meet: which render may run, which request
may be sent to a host that throttles, who computes what several requests need,
what replaces what in a live feed, and how a running server changes its
configuration. This project models that logic in TLA+, checks it with TLC and
proves what matters most with TLAPS.

`PROJECT.json` maps every definition to the lines it models and lists runs,
mutants, hazards, findings and theorems. Paths below are under `src/crates/`.

## Inventory

| Component | State it keeps | Operations | Module |
|---|---|---|---|
| Render admission, `ds-executor/src/lib.rs`, `budget.rs` | render slots, queue places, the reserved bytes and capacity of the output budget, counters, the slot of the job running on each thread | `acquire_raster*`, `acquire`, `acquire_volume`, `acquire_feature_info`, `run`, `run_query`, `wait_without_slot`, `RenderBudget::resize` | `RenderAdmission` |
| Adaptive limit, `storage/src/throttle/limit.rs` | the limit now, permits owed, quiet time, a FIFO semaphore | `acquire`, `Permit::drop`, `cut`, `limits` | `AdaptiveLimit` |
| Host throttle, `storage/src/throttle.rs` | pause, pace, next turn, times of the last answers, per host | `wait`, `throttled`, `Throttled::call` | `HostThrottle` |
| Shared cell-set builds, `engine-odim/src/cells.rs` | the cell-set cache with its fill claims; each worker's scan of its window | `cell_product`, `fill_cell_set` | `CellBuild` |
| Field jobs, `ds-executor/src/field_jobs.rs` | running jobs, first error | `run_field_jobs` | candidate |
| Source-read budget `ByteBudget`, `budget.rs` | bytes in use, never waits | reserve, resize | left out (compare-and-swap with no wait) |
| Poll loops, `ds-poll` | a fired flag and a notifier | `shutdown`, `wait`, `tick` | `ServerReload` |
| Caches and memory plan, `ds-cache` | byte-bounded shards, claims, planned sizes | lookups with claims, resize, grants | claims only, in `CellBuild` |
| WIS2 feed, `ds-wis2` | seen ids and data ids with their expiry, downloads in flight | `accept`, resolve pipeline | `Wis2Feed` |
| CAP alerts, `engine-cap/src/wis2.rs`, `supersede.rs`, `engine.rs` | alerts in force, their index, tombstones, the snapshot | apply, references, delete, rebuild, seal, flush, take-over, restore | `CapFeed` |
| BUFR store, `engine-bufr/src/wis2.rs`, `store.rs`, `engine.rs` | reports per station and time, the deletion index, the snapshot | ingest, delete, prune, snapshot, shutdown, take-over, restore | `BufrFeed` |
| Registry and reload, `server/src/admin.rs`, `watcher.rs`, `main.rs` | live registries, what was accepted, reload lock, the watcher's channel | `serve_reload`, `do_reload`, `apply_load`, the watch task, `radar_recovery_loop`, stop | `ServerReload` |
| GRIB message cache, `engine-grib/src/message_cache.rs` | claims, read-ahead marks | `get_with`, read-ahead | candidate |
| EDR executor, `api-edr/src/executor.rs` | query permits, admitted queries | `run` | candidate |
| PostGIS health, `engine-postgis/src/health.rs` | two atomics | pings | not modelled (weak memory) |
| Decoders, resamplers, encoders, API plugins, other engines, deployment | none shared, or a catalogue swapped whole | | not modelled: data, not control |

How they interact. An API handler acquires a `RenderJob` (and a memory
reservation), then runs engine code on a pool thread under the job's deadline.
Engine code asks a cache; on a miss it claims the key, computes, and publishes
to the callers waiting for it. A wait for another job's computation goes
through `wait_without_slot`, which gives the render slot up: this is where the
executor and the caches meet (`CellBuild`). Computations read storage; a read
takes a permit of its host store's adaptive limit, then waits for its turn in
the host throttle, and every 429 raises the pace and cuts the limits. The memory
plan resizes budgets and caches while all this runs. Feeds (`ds-wis2`) push
resolved messages to engines over a channel, and what the engines make of them is
written to a snapshot. A reload of the server builds engines, shuts down those they
replace, moves the state of a feed over, spawns the new poll loops and swaps the
registry, all under one lock, while the old engines' loops run on until they see
the shutdown.

Hard behaviours: releases between a waiter's check and its sleep; permits handed
to futures that are dropped; deadlines that race results; a budget resized under
its waiters; jobs that hold one resource and wait for another; claims handed on
by failed builders; debts a cut leaves on permits in use; timers and state read
before a sleep and used after it; deletions and updates that overtake what they
refer to; snapshots older than the feed; a reload in the middle of an ingest. `PROJECT.json` lists each at its line, with the
properties that cover it.

What makes each component correct:

- Render admission: no slot, queue place or byte is lost or given twice on any
  path; the budget is never overcommitted, even while it shrinks; no wake-up is
  lost; an expiry is counted once; running jobs are never shed; every job ends.
- Adaptive limit: permits, limit and debt always balance; never more permits than
  configured; nobody queues for ever; a cut is felt by those who come after it.
- Host throttle: nothing starts in a pause; paced requests start the pace apart;
  a host that has been quiet paces nobody.
- Cell builds: one build per set; no claim held by a waiting tile; no tile that
  waits for nobody; every tile ends with its whole window.
- WIS2 feed: a copy or an older revision of what is remembered is refused.
- CAP alerts: what is in force depends on what was applied, not on the order; nothing
  withdrawn comes back; a flush at shutdown has everything.
- BUFR store: no report is lost or comes back through a reload, a stop or a crash, up to
  the snapshot; a deletion finds the reports of its data_id and no others.
- Reload: loads exclude each other; what is polled is what is registered; a rejected load
  changes nothing; no shutdown is slept through; an edit is applied by an explicit
  reload only, and by one in the end.

## Modules

- `BoundedAdmission`: what the executor promises, in sets of jobs. At most `Slots`
  run, at most `QueueCapacity` wait (running jobs parked by `wait_without_slot`
  included), nobody who has run is shed.
- `RenderAdmission`: the code. A job's `phase` is the point of `acquire_bytes_on`,
  `acquire_on`, `worker` or `wait_without_slot` it has reached. What it holds follows
  from its phase (`SlotPhases`, `PlacePhases`, `MemoryPhases`), as RAII makes it in
  the code; the counters (`slots`, `waiting`, `used`) are kept separately, as the
  semaphores and atomics do, and the invariants say the two agree. An action ends
  at an atomic, a semaphore operation or an await, so that `reserve` is three steps
  (register, check, try) and the drop of a reservation is two (subtract, notify).
  A job with `Bytes` 0 goes the way of `acquire_on`. Tokio's semaphore (FIFO,
  permits handed to the oldest waiter, passed on when its future is dropped) and
  `Notify` (`notify_waiters` wakes what is registered and stores nothing) are
  modelled from how the code relies on them.
- `AdaptiveLimit`: the limit's mutex makes each operation a step. `grow` runs inside
  every operation, as in the code (`Grown`, `Served`). Time is the number of quiet
  intervals growth has not used; the cut window is abstracted to a choice between
  `Cut` and `Ignore429`.
- `HostThrottle`: a clock of ticks; `wait` is split where it sleeps and where it takes
  the lock. Constants are scaled down and keep the order of the real ones (floor <
  cap < quiet interval; cut window below the retry delay). The clock stands while a
  sleeper is due, as under the paused clock of the crate's tests, so what is found is
  not a matter of late timers. `decay`'s loop is `Halved`, what so many halvings leave, and
  `QuietSteps`, how many the quiet time asks for. `paced`, `fresh` and `lastStart` only
  record history for the properties.
- `CellBuild` extends `RenderAdmission`: a running tile scans its window, builds what it
  claims, and waits in `wait_without_slot` for the first set it found claimed. The
  cache's claim goes to one of the key's waiters when it is dropped without a value, as
  `quick_cache` does. Tiles reserve no memory here: the budget is taken before the worker
  runs and is checked in `RenderAdmission`.
- `Wis2Feed`: a subscription's duplicate filter in front of the downloads. The brokers may
  deliver any notification at any time, any number of times. The four collections of `Dedup`
  are a record while one notification goes through `accept`; which records are past the
  window is a choice (`cut`), the cap is not. `heard` records what each expiry record
  stood for.
- `CapFeed` extends it with the engine that consumes it: `Receive` takes a payload, `Apply`
  runs the document under the accumulator's lock, its alerts in order (`AlertsApplied`), `Tick` rebuilds and writes, `Seal` and
  `Flush` are the shutdown, and `TakeOver`, `Restart` and `Crash` begin the next engine.
  `applied` is history: the documents applied since anything was forgotten. `Fault` counts what
  ends the comparison with it: forgetting, a lost write, a crash.
- `BufrFeed`: the BUFR engines of one collection. The loop's branches are split where the
  store's lock is given up for the index's (`Ingest` then `RecordProduced`; `Delete` then
  `RemoveReports`), and a reload (`Build` to `Swap`, in `phase`) takes its steps in
  between, since it runs on another thread. `Keeper` and `Indexer` say whose rows and
  whose index count during a take-over. `held` is what the feed stored and did not
  withdraw; `orphans` the rows no deletion can find any more.
- `ServerReload`: four kinds of actors on the reload lock. A load goes read, build, rotate,
  swap; `rotate_poll_loops` is split between the flag and the wake-up of `Shutdown`, and each
  engine's loop between its looks at the flag and its registration, so that every
  interleaving of a reload with the loops it stops is there. An engine is a collection and
  a slot, the identity that `diff_by_identity` compares. Which builds succeed is a choice.
- `RenderAdmissionProofs`, `RenderAdmissionRefinement`, `AdaptiveLimitProofs`,
  `HostThrottleProofs`, `CellBuildProofs`, `CapFeedProofs`, `BufrFeedProofs`, `ServerReloadProofs`: theorems.
  `MCRenderAdmission`, `MCCellBuild`, `MCCapFeed`, `MCBufrFeed`, `MCServerReload`: values for TLC.

What composes what: `CellBuild` is the executor with the cache, `CapFeed` the
subscription with its consumer. `BufrFeed` takes its notifications in any order and number,
which is what `Wis2Feed` lets through to it and more. `ServerReload` and the two feeds meet in
the rotation: `ServerReload` shows that the engines are shut down, replaced and spawned in
order, the feeds that this order loses nothing.

An operator whose name ends in `Slip` is a plausible mistake in the definition after it
(a dropped guard, a forgotten notification, a swapped order). Nothing uses them; put in
place of that definition, each breaks the property its comment names, which shows that
the property depends on the code being right.

## Runs

| Run | Question | Bounds |
|---|---|---|
| `RenderAdmission` | Is every slot, place, byte, wake-up and expiry accounted for? | jobs of 2, 1 and 0 bytes; one slot, one place, capacity 1 or 2, one resize, one wait per worker: 3.2 M states |
| `RenderAdmissionLive` | Does it implement `BoundedAdmission`; does every job end? | two jobs, two resizes, two waits each: 134 k states |
| `AdaptiveLimit` | Do permits balance, and is everybody served? | four requests on a limit of 3, two unused quiet intervals: 11 k states |
| `AdaptiveLimitNew` | Do new requests see the lower limit? | violated: see below |
| `HostThrottle` | Pause, pace and decay | three requests, floor 1, cap 3, window 1, quiet 3, delay 2, seven ticks: 1.8 M states |
| `HostThrottlePaced` | Do a throttling host's requests start the pace apart? | violated: see below |
| `CellBuild` | Claims, waits and sharing under failures, evictions and deadlines | three tiles, two scans, two slots, one place: 5.1 M states |
| `CellBuildLive` | Does every tile end? | four tiles, one scan, two slots, one place, one failure, no deadline: 108 k states |
| `CellBuildRetry` | The same with no assumption on the hand-over (three tiles, all in slots) | violated: see below |
| `cap_feed` | Is what is in force independent of order, copies and restarts? | a document of two alerts, an update of one, the document's deletion, a re-issue; one remembered, two downloads, two accepted by one filter, two alerts, one fault: 668 k states |
| `server_reload` | Does a running server change its engines one load at a time, and completely? | a radar and a nowcast on it, two engines of each, three configurations and a malformed one, one admin, two edits: 1.2 M states |
| `bufr_feed` | Does the store survive reloads, stops and crashes, with its deletion index? | two engines, three data_ids on one row, two remembered: 4.8 M states (with symmetry) |

Why the bounds are enough. With one slot and one place every job meets a full queue, an
empty one and a job in the way; three jobs are what it takes for one to run, one to wait
and one to be shed or to overtake. Two capacities put a job over, at and under the
budget; one resize in either direction suffices for each hazard of `resize`, and the live
run has two, so that a waiter sees a shrink and a growth. A limit of 3 is cut to 1 with
permits free and owed at once. A cap of three floors makes the pace go 1, 2, 3 and
decay through a halving to off. Three tiles give a failed builder, the waiter
handed its claim, and a third that probes meanwhile; two scans let a tile hold one set's
claim while it wants another's. The live run has a fourth tile, because the circle the
code avoids needs one: a builder that fails, the parked tile its claim goes to, and two
more that take both slots and wait for that claim while the parked tile waits for a slot. Two alerts in one document make the index hold more than one key, a filter of
one entry overflows with the second data_id, and a reissue is the case in which a
withdrawn alert may come back. Two slots are the engine that is replaced and its
successor; an old loop keeps its slot until it ends, so that the build of a third engine fails,
which the sources may make it do anyway. Two edits make a file that changes while
a load reads it. Three data_ids overflow a cap of two on the row they share; a second
row adds no case that the proofs, which hold for any, leave open.
`MaxTime`, `MaxResizes`, `MaxWaits`, `MaxQuiet`, `MaxFailures`, `MaxEvictions`, `MaxAccepted`,
`MaxFaults`, `MaxEdits` and the number of `Slots` and `Engines` are the only bounds, each
in a guard.

`Quiescent`, `TimeIsUp` and `Halted` let a finished behaviour stutter, so deadlock stays checked in
every run: a job stuck for good is found even by the runs without fairness.

### Fairness

- `RenderAdmission!FairSpec`: weak fairness of `NotifyWaiters` (the line after the
  subtraction) and of each job's `Progress`: Tokio polls woken tasks, pool threads
  run what is spawned, and work ends. Deadlines (`Expire`, `QueueTimeout`,
  `RetakeTimeout`), arrivals and disconnects have none: nothing may depend on
  them. Semaphore hand-over needs no strong fairness because the line is FIFO.
  Memory hand-over has none to give: a small job could overtake a large one
  for ever if jobs kept coming, which the code accepts (the render deadline bounds
  the wait); with finitely many requests each is served.
- `AdaptiveLimit!FairSpec`: a woken request polls, a request in flight ends.
- `CellBuild!Fairness`: the same for tiles and the executor. `PatientSpec` also has no
  deadline pass, so a property under it holds without that rescue. `PromptSpec` adds
  that a tile holding a claim it must let go does so before anyone else moves: in the
  code those are adjacent statements (`Vacant(_) => Ok(None)` drops the guard in the
  match), while a probe needs a slot and a scan first; but nothing enforces
  that order, hence the run without it.

- `ServerReload!FairSpec`: tasks that can run are run (the watcher, a load, the rotation, a
  poll loop between ticks). Ticks, requests, edits and the recovery loop's retries have
  none. `EditsAreConsidered` needs the fairness of the lock, which is Tokio's FIFO line, and
  no more: a request that finds the lock held does not wait.
- `CapFeed` and `BufrFeed` have none: the brokers promise nothing, and their properties are
  safety.

### Where the code and its documentation part

1. `AdaptiveLimitNew`. The storage README says of a cut: "requests in flight finish, new ones
   see the lower limit." With a limit cut while permits are taken, the cut owes the
   difference. A permit handed to a queued `acquire` whose caller then gives up goes
   back to the semaphore itself, not through `release`, so the debt is not paid
   by it and a new request is sent above the lower limit. `PermitsBalance`
   still holds: the debt is paid by a later release.
2. `HostThrottlePaced`. "After one the host's requests, from every store on it, start at
   least the pace apart." Turns are given before a later `Retry-After` pushes past
   them; the requests holding them then all start when the pause ends.
   `PacedSinceAnswer` states what does hold: requests that asked after the last 429
   start a pace after it and a pace apart.
3. `CellBuildRetry`. A claim that a waiting tile lets go is handed to the next waiting tile. A
   tile that let go of it and probes again while another holds it waits again and is
   handed it in turn. Under weak fairness alone the tiles can pass the claim round
   with nobody building; in practice the window is short and the deadline ends
   it.

Two more were met while modelling, and are exceptions that a property states:

4. BUFR. `take_deletions` and the comment at `rotate_poll_loops` (admin.rs 7678-7683) say that
   everything the old engine received moves over, so that a deletion still withdraws it.
   `shutdown()` keeps reports from landing after it, but a report that has landed and whose
   `record_produced` comes after `take_deletions` is recorded in the index of the engine that
   is gone: a later deletion finds no row, or, if an older data_id owned the row, removes the
   newer report. Likewise a deletion that has forgotten its data_id when the shutdown comes is
   refused by `remove_reports`, and lost. `OwnedByProducer` exempts exactly these rows
   (`orphans`, `InFlight`). And `Produced.order` keeps the entries of forgotten data_ids, so
   that one produced again can be pushed out early, by its own record even.
5. CAP. The doc of `data_id_index` states an invariant (`IndexExact`) that one document breaks:
   one that carries an alert and, later in itself, the Cancel of it. The alert goes, and the
   index is written after the loop over the document's alerts from what they were.
   `IndexExact` holds for documents without such a pair (`KeepsOwnAlerts`). All that the pair
   leaves behind is an index entry without an alert: what is held stays indexed (`Covered` in
   `CapFeedProofs` is proved with no such assumption), so a deletion finds all it must. The
   order matters for an Update that arrives withdrawn (its references are skipped), for a
   Cancel that names only the latest of several revisions, and for a deletion that arrives
   before a revision of what it deletes; `OrderIndependent` holds for producers that avoid
   these (`Orderly`). Both assumptions are operators of `CapFeed`: hypotheses of the two
   theorems that need them, and an ASSUME of `MCCapFeed`, where TLC evaluates them.

## Proofs

All hold for every value of the constants that satisfies the modules' named assumptions,
which TLC evaluates in the runs: any finite set of jobs, sizes, slots, queue and
capacities; any notifications; any requests, limits and answers of a host; any window of
scans; any engines, data_ids and rows; any collections and configurations.

`RenderAdmissionProofs` proves `TypeOK`, `SlotsAccounted`, `LineAccounted`,
`PlacesAccounted`, `MemoryAccounted`, `NoLostWakeup`, `CountedOnce` and `NeverOvercommits`. The argument:

1. `Typed` is the type invariant without upper bounds on the counts of free permits. It
   is inductive; `slots <= Slots` and `waiting <= QueueCapacity` are not, and follow
   from the balances.
2. `SlotsAccounted` is not inductive: a permit that goes to the head of the line
   is counted once only if that job holds none yet and stands in the line once. That
   is `LineAccounted`; with it `SlotBalance` (free + granted + jobs in a slot phase =
   slots, the two kinds of holders disjoint) is.
3. `PlacesAccounted` needs only `Typed`: each action moves a job across the
   boundary of `PlacePhases` and the counter with it.
4. `MemoryBalance` sums bytes over holders as the cardinality of a set of pairs, so
   that a move of one job adds or removes exactly its own pairs.
5. `NoLostWakeup` needs what lies before the sleep: `WakeInv` also says of a job that
   has passed its capacity check and not yet tried (`try`) that, if it no longer fits, the
   resize that shrank the budget has yet to notify, and will find the job registered.
   This is the reason for `enable()` before the checks.
6. `CountedOnce` needs that a job has no answer before its dispatch (`FirstAnswer`), so that
   an answer given there is counted for a job that was in none of the sums.

`RenderAdmissionRefinement` proves `Spec => BA!Spec`. Its invariant `Sound` joins the
accounting invariants with "a job answered busy is over"; each action is then a move
between the kinds of phase (outside, queued, with a slot, parked, left), and the
accounting turns "a permit was free" into "fewer than `Slots` run".

`CapFeedProofs` proves every invariant of the run. For `CopiesRefused`, of `Wis2Feed` alone and
within `CapFeed`, the invariant is `Tied`: the current record of each data_id is there, and no
other of its records has a higher number or stands for a later pubtime. Popping the oldest
records takes a data_id along only with its current one (`remove_if_current`), which keeps
it; that is the case in which a filter that compared less would forget a live item.
The types, `WithdrawnStaysOut` and `IndexExact` are about one accumulator: `Sound` (types, one
entry per key, nothing withdrawn in force) and `Covered` are kept by each operator on it, the
snapshot on disk included, since a restart brings that back. A document is a recursive
function over its alerts, and that each prefix keeps them is proved by the least prefix that
would not.
`OrderIndependent` needs more than what is in force. `OrderInv` says that, until something is
forgotten, the accumulator reflects `applied` (`Reflects`): what is held stands, of what stands
the key is held in that revision or a later one, and the tombstones are as late as the
withdrawals applied and no later; and that the snapshot of a stopped engine is its accumulator,
which covers restarts. In the middle of a document the same is said of the alerts it has got
to. `Orderly` is used where a notification meets what it withdraws or revises.

`HostThrottleProofs` proves the types and the three action properties of the run.
`RetryAfterHolds` is the guard of the one action that sends, which re-reads the pause after
each sleep; what has to be proved is that no other step starts a request. `PacedSinceAnswer`
needs `TurnsApart`, about turns not yet come: those given since the last 429 lie the pace
apart from each other and from the last start, the first of them the pace after the answer,
all of them before the next turn and past the pause, and the clock waits for each.
A halving keeps this because it only lowers the pace. `QuietHostUnpaced` needs `QuietInv`: the
quiet time restarts a whole number of intervals after the last 429, and the pace is at
most the cap halved that many times; a decay that restarted it from the request that
applies the halving would lose what had passed since the interval's end. The halvings are a recursive function of a bounded
number of rounds; what holds of each round is again proved by the least that breaks it.

`ServerReloadProofs` proves every invariant of the run and `OnlyReviewedEdits`. `OneLoadAtATime`
is `LockInv`: whoever is in a load holds the lock. `RegisteredArePolled` says nothing of a
rotation, and is not inductive; `RotateInv` says it there: of the collections still to be
rotated the live engines may be polled and their successors are not, of the others exactly
the new ones are. `RingInv` ties the one shutdown between flag and wake-up to the one loop that
may be parked with its flag set. `DerivedReadLive` needs it of the engines about to be
registered too (`ReadInv`), `OnlyReviewedEdits` that a load applies what was read (`WantInv`).

`BufrFeedProofs` proves the three invariants of the run, and the types. `NothingLost` needs
`LifeInv` (which engine may exist in which phase) and `RetiredInv`: a loop that runs on after
its engine was shut down finds the flag set before it could change the store, and has
attempted a write too recently to put its rows over a later snapshot. That is what makes
the forced flush and the five minutes between two writes part of the argument.
`OwnedByProducer` needs `IndexAgrees`, which is proved of `forget` and `record` as lemmas about
one index, and `FlightInv`: between the two halves of an ingest the rows hold that report or
have been pruned.

`AdaptiveLimitProofs` proves the three invariants of `AdaptiveLimit`. `PermitsBalance` is not
inductive: it counts a woken request once only if that request stands in the line once and is
not counted already (`Placed`). `ServedGives` says what permits added to the FIFO semaphore do
to that, and most actions are that lemma and one sum (`AfterServing`).

`CellBuildProofs` proves the five invariants of `CellBuild`, for any window and any number of
failures and evictions. `NoHoldAndWait` and `NoOrphanWaiter` need each other: a claim that
is let go goes to a tile blocked for that key, which holds no other claim because it is
blocked, and nobody stays blocked for a key whose claim went to nobody (`Claims`).
`SharedBuilds` needs that a claimed key is not cached. `ServedWhole` needs `RoundsKept`, what
a scan leaves behind it when it has nothing to wait for, and why each wait starts a new round.
The executor's steps enter through what they do to one job's phase and answer (`Moved`).

Only model-checked: liveness (`EveryRequestServed`, `EveryJobEnds`, `EveryTileEnds`,
`EditsAreConsidered`), since fairness and ENABLED are beyond the prover, and what the three
violated runs refute. Every other property of a passing run is stated by a theorem.

## Not modelled, and why

Widths: counters and byte counts are naturals, since `try_reserve` uses `checked_add` and
compares with the capacity before it stores. Memory order: actions are atomic and
sequentially consistent; the AcqRel read-modify-writes of the budget and Tokio's
internal locks justify that for it. The budget's `peak` gauge, logging, tracing and
metrics that nothing reads back. A worker nested in another on one
thread (`RunningScope` would put the outer slot back): a job's work never runs another
job's worker itself, it spawns. `HOSTS`, the weak registry, has one entry per host.
Everything in the inventory without a module: decoders, resamplers and encoders are
data, most of the repository's lines.

In the modelled components. WIS2: the MQTT session with its back-off and status, the download
policy, the parsing of notifications, records learning. CAP: directory and feed sources,
hints, the status filter, warm-up, the catalog, when a write is due. BUFR: the local source,
decoding, warm-up and a long outage, the mapping of columns to a new table; a snapshot is
written whole or not at all. Reload: csv and geojson engines, which have no poll loop and are
always rebuilt; a placeholder that is degraded counts as not ready; the swap of the
registries, which readers see one by one, is one step; a nowcast whose reuse is refused by
its geometry counts as changed; a panic ends a load as a rejection does; what wakes the recovery loop is a choice among
the configured sources; the eviction of render caches after the swap.

## What could follow

1. The swap of the registries with its cache evictions, seen by a request that reads one
   registry before and one after it.
2. `ReadAhead`: mark-before-claim against claim-before-mark in the GRIB message cache, one fetch
   per message. `FieldJobs`: bounded fan-out that drains after an error. The EDR executor's two
   semaphores.
3. Proofs: an abstract feed, the function of what was applied that `Expected` is, refined by
   `CapFeed`; an abstract registry refined by `ServerReload`.
