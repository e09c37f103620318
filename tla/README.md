# OpenClaw Observatory in TLA+

The Observatory collects telemetry of a small fleet: collectors on the fleet's hosts
post events to a FastAPI backend, which stores them in ClickHouse, keeps projections
(missions, host inventory), watches heartbeats and serves a dashboard. This directory
models the parts of it where order, failure and concurrency decide what is stored and
what is shown, checks the models with TLC on small instances and proves the main
invariants with TLAPS for instances of any size. Paths below are relative to the
repository; `app/` stands for `backend/app/`, `oc/` for
`collectors/observatory_collectors/`.

## 1. The system

| Component | State | Operations | Talks to | What is hard | What makes it correct |
|---|---|---|---|---|---|
| Mission lifecycle `app/models/mission.py` | none | `is_valid_transition`, the projection record | pipeline | normal and backfill mode, late entry, jumps | no regression; timestamps match the state |
| Event ingestion `app/api/v1/events.py`, `app/services/pipeline.py` | the row a coroutine is about to write | `ingest_event`: identity check, schema, `validate`, `insert_event`, `apply` | storages | several awaits between the check and the write; two writes without a transaction | a 202 sticks; illegal transitions are not stored; retries complete what is half done |
| ClickHouse storages `app/storage/clickhouse.py` | tables, one connection and one `asyncio.Lock` each | inserts, `FINAL` reads, bootstrap | ClickHouse | a raised insert may be executed later; last-write-wins by wall-clock revision; lock hand-over | older rows never win; locks are handed on; the ledger is honest |
| Storage interface, in-memory storages `app/storage/base.py`, `memory.py` | dictionaries | the same calls, one step each | pipeline, read APIs | - | what the ClickHouse ones must implement |
| Collector client `oc/client.py` | attempt counter | `submit_event` with retries | backend | timeouts that race with the answer | it always returns; a retry is harmless |
| Collector runner `oc/runner.py` | due times, failure counters | `run_pending`, `run_forever` | client | one thread for all tasks, some of them slow | one failing or slow task does not starve the heartbeat |
| Host collector `oc/host_pi/` | last inventory and its time | metrics, docker status, inventory on change or interval | client | remembered before delivered; names, dates and signatures made from partial sources | the inventory arrives eventually, and quietly |
| OpenClaw agent collector `oc/openclaw_agent/` | `_submitted_states` | `produce_mission_updates` | state file, client | remembered before delivered; lost on restart | the backend follows the agent's file, never ahead of it |
| Offline detector, backend heartbeat `app/services/offline.py` | `_known` | `run_once`, `run_forever`, `beat_once` | registry, events | one await per asset; state updated before the event is stored; baseline lost on restart | one event per outage, only for real outages |
| Registry read model, health `app/services/registry.py`, `health.py` | none | connectivity and health of an asset | registry, events | the clock is read before the awaits; missing signals | judges by what was stored; missing is not bad |
| Lifespan, migrations, seeding `app/main.py`, `app/services/seed.py`, `startup_event.py` | migration ledger, registry | startup, bootstrap, create-only seeding | storages | the database down or failing half-way; an older release on a newer schema | a later start completes the rest; operators' edits outlive later starts |
| Authentication, configuration `app/auth.py`, `app/config.py` | key table | bindings, startup checks, key lookup | routes | two collectors with one key | an identity belongs to one key |
| Request middleware `app/middleware.py` | bytes counted | size limit, request ids | routes | streamed and mis-declared bodies | nothing over the limit gets through |
| Read APIs, metrics, monitor page `app/api/`, `app/services/monitor.py` | none | fleet, asset, inventory, docker, missions, events, monitor, health | storages | a dozen awaits per page while telemetry comes in and the database goes away | what is shown was true; an outage is not shown as absence |
| Deployment scripts `deploy/scripts/` | checkout, venv, recorded rollback target | install, upgrade, rollback | git, systemd | any step may fail | a rollback leads to the last good release |
| Frontend `frontend/src/` | query cache, API key | polling, retry rules, event derivation | read APIs | stale data, a changed key | what is shown belongs to the key in use |

`PROJECT.json` lists the same components with their status, and the hazards of the code
one by one, each at its line and with the properties that watch it.

## 2. Modules

| Module | Models | Proofs |
|---|---|---|
| `MissionLifecycle` | `is_valid_transition` and the row `apply` builds, as operators | - |
| `Ingestion` (extends it) | client, route, pipeline and storages together | `IngestionProofs`, and `IngestionOrderProofs` on top of it |
| `MissionForwarding` (extends `MissionLifecycle`) | the agent's file, the agent collector, the projection | `MissionForwardingProofs` |
| `OfflineDetector` | heartbeats, the sweep, transition events | `OfflineDetectorProofs` |
| `Startup` | lifespan, bootstrap with its ledger, seeding, degraded starts, redeployment | `StartupProofs` |
| `LatestValue` | abstract: what a projection store promises | - |
| `VersionedStore` | rows with revisions, lock, late inserts, clock; implements `LatestValue` | `VersionedStoreProofs` |
| `HostInventory` | what `inventory.py` makes of a machine, as operators | - |
| `HostCollector` (extends it) | runner loop and inventory task of the host collector | `HostCollectorProofs` |
| `Access` | key bindings, startup checks, key lookup, as operators | - |
| `FleetView` | connectivity, health, page header, docker payload, as operators | - |
| `ReadApi` (extends it, instantiates `Access`) | a request through size limit, key check and route | `ReadApiProofs` |

`MCx` instantiates module `x` for TLC; its `.cfg` files are the runs of section 3.
Definitions named `Mutant of X` sit in front of `X`. They are broken variants of it,
used to see that the properties notice a bug of that kind; nothing else uses them.

How the modules fit together. `Ingestion` shows that for one collector attempts take
effect in order and nothing moves back; `MissionForwarding` and `HostCollector` rest on
it, in that a submission is one step there. `Ingestion` takes revisions to grow;
`VersionedStore` shows what remains when the clock does not. `OfflineDetector` and
`FleetView` have the same rule of connectivity, the one for the event stream and the
other for the answers of `ReadApi`. `HeartbeatGap` of `HostCollector` bounds the gap the
timeout of both has to exceed.

### Ingestion

A request is one HTTP attempt: `[collector, sub, att]`. `pc` says at which storage call
its coroutine is; `queue[s]` is the FIFO of the `asyncio.Lock` of storage `s`, whose
head is the request whose driver call is running in the worker thread. There is one
action per outcome of each storage call:

- `Arrive`: `ingest_event` up to its first storage call: the identity check (403),
  schema and skew checks (422), the first `await`.
- `Validate` / `ValidateFails`: the read of `validate`; the second is the path where the
  `StorageError` is not caught and the server answers 500.
- `InsertEvent` / `InsertFails`: `insert_event`; a failure is 503 and the insert is in
  doubt: it may `Land` later.
- `Project` / `ProjectFails`: `apply` reads the mission again and takes the revision,
  before it queues for the upsert.
- `Upsert` / `UpsertFails`: the row of the projection.
- `Crash`: the process dies; calls under way are in doubt and clients get no answer.

The client's `Submit`, `GetAnswer`, `TimeOut`, `Abort` and `Lose` follow `submit_event`:
4xx ends it, 5xx and transport errors are retried up to `MaxAttempts`, one submission
after the other; an `http.client` exception on a truncated answer escapes it and ends
the process (`Abort`), as a kill does. A collector reports a mission in order
(`InOrder`), which is what its state file guarantees.

Tables are what `FINAL` reads return: one row per key, replaced by a row with the same
or a higher revision (`Replace`). Events are a set of requests, because every attempt
gets an id of its own. Source timestamps are opaque. Titles, agents, pull requests and
commits are carried along by the code unread and are left out. `LateArrival` says
whether an attempt may reach the backend after its successors.

### MissionForwarding

A submission is one step (`Deliver`, accepted or refused with 409) or is given up
(`GiveUp`, applied or not). `Edit` is the agent runtime, external to the repository,
which rewrites the file; missions move forward, and an operator may set an entry's
backfill flag. `Poll` is `produce_mission_updates`: the dedup (`Due`), the backfill
stamp of a mission first seen in flight (`NeedsBackfill`), and the memory updated before
anything is sent. The runner submits the whole batch before it polls again. The batch is
a set: its order is the file's, and any order is allowed here. `Restart` empties memory
and batch, possibly with one submission applied on the way.

`hurried` is a history variable: the agent skipped a state, or left one before it was
polled. As long as it is false and nothing was lost, no update should ever be refused.

### OfflineDetector

Time is in ticks. `Beat`, `Receive`, `LoseBeat` are heartbeats of the collectors,
`SelfBeat` the backend's own. A sweep is `StartSweep` (reads `now` and the registry),
then per asset `JudgeNext` (the newest heartbeat *by reception*, judged by its source
timestamp; `_known` is updated at once) and, for a change, `Emit`. `SweepFails` is a
`StorageError` anywhere in it, after which `run_forever` starts over at the first asset;
a failed insert may have been executed. `RestartBackend` empties `_known`. The registry
is fixed during a behaviour (seeding creates assets at startup only).

### Startup

`pc` is the storage call the lifespan is about to make: a statement of a migration
(`file`, `stmt`), the read of the ledger, the ledger row, the pings, then per seed entry
the lookup, the lookup of its host and the insert, and last the service_start event.
`Execute`, `ReadLedger`, `Record`, `Ping`, `Lookup`, `LookupHost`, `Insert`, `Announce`
are those calls; `CallFails` is a `StorageError` in any of them, which the lifespan
catches: the process serves `degraded`. `Crash` and `Deploy` may cut any call off.
What was cut off is in `late` and may `Land`. Statements repeat harmlessly (`IF NOT
EXISTS`), may depend on those before them in their file (`Executable`), and the
bootstrap's own two count as file 0. `Deploy` checks out an older or newer release,
which ships the files `1..release`. `Administer` is an operator changing a registry row
through the database, whatever the backend is doing. A row carries its revision, and as
history what wrote it had last seen (`since`): `seen` is the clock when `Lookup` asked
for the entry. So `EditsOutliveStarts` can say which start may undo an edit, the one that
asked before it and inserts after it, and that no other does.

### LatestValue and VersionedStore

`LatestValue` is the promise of `app/storage/base.py` ("insert or replace" and reads
that return the latest) under failures: writes are numbered in the order of the calls,
a write may take effect late or never if it is not acknowledged, and none takes effect
once a *trusted* one that was asked for later has. The in-memory storages do every write
in one step, `Issue` and `Acknowledge` at once.

`VersionedStore` is `app/storage/clickhouse.py`: `Upsert` takes the revision from the
wall clock and queues for the storage's lock; `InsertDone`, `SelectDone`, `CallRaises`
are the outcomes of the call that holds it; `Crash` empties the queue; a call cut off
may `Land`. `Current` is `SELECT ... FINAL`. `ClockShows` lets the clock stand still,
run, or be set back. `Store == INSTANCE LatestValue WITH ...` is the refinement mapping;
a write is trusted when its revision is above those of the key's writes before it. That
is the exact measure of what the wall clock costs: only writes with a stale revision
may be lost.

### HostInventory and HostCollector

A machine is a record of what its sources hold, `None` where a file is missing.
`HostInventory` gives what `inventory.py` makes of it: the fallbacks of model,
manufacturer and revision, base devices, transports and types, logical storage names,
interfaces, the maintenance dates out of rotated apt logs, and the signature of
`stable_signature`. Parsing is left out: a model string is a board and a revision, a
device name a family, a unit and a partition. `BaseDevice` does what the two regular
expressions of `base_block_device` do: a name of letters and digits loses its digits,
so md0 and md1 have one base. The disk a device is on, which the properties speak of
(`WholeDisk`), is not defined by it.

`HostCollector` runs it: `Wake` is a tick of `run_forever`, `Taken` the pass coming to
the next due task (its next run counts from the *beginning* of the pass),
`ProduceHeartbeat`, `ProduceTelemetry`, `ReadIdentity` / `ReadMaintenance` the tasks,
`Delivered` and `GivenUp` the submission that follows each of them, `ProduceFails` a
probe that raises, `Die` a process that ends and is started again, `Change` the machine
changing. Time is what is left until a task is due and what has passed since an event.
Whatever sleeps, runs a command or submits takes between 0 and `Slow`: the metrics (the
CPU sample of `HostTelemetry.produce`), docker, the maintenance section, each
submission, and a probe that raises, which may do so after its timeout. `LongestPass`
adds them up. From the last step of a process that dies to the first of the next takes
between 0 and `RestartDelay`, which stands for `RestartSec` of the unit and the start of
the interpreter; `deaths` is a history variable that counts them since the last
heartbeat.

### Access, FleetView and ReadApi

`ReadApi` follows one request: `Arrive` (declared length), `ReceiveBody` (streamed bytes;
the framework parses them before it looks at the dependencies, so malformed JSON is
answered 422 with or without a key, by the handler at `app/main.py:186`), `Authorize`,
then `ReadNext` for each storage read of the route in the order of the code (`Reads`),
`ReadFails` for a `StorageError`, `Finish`. Between any two of them telemetry is ingested
(`Ingest`), time passes (`Tick`) and the database goes and comes back (`Outage`,
`Recovery`). The stream is in the order of reception; the source timestamp of a heartbeat
is its collector's, of any time, so that heartbeats arrive late, out of order and from
the future. An inventory is stored in two steps: its event (`Ingest`), then the upsert of
its projection (`ProjectInventory`), which may fail and then never happens; the routes
read the projection (`InventoryOf`). `page` keeps what each read found, by its place in
the stream, and for views when they were begun, since `_build_view` reads the clock
before it awaits. The operators below "What the answer shows" compute from it what the
route answers, with `FleetView`. The configuration is any the operator may write; with
problems the server exits (`phase = "exited"`). One request at a time is enough: routes
share no state.

## 3. Runs

| Run | Bounds | Properties | What it shows |
|---|---|---|---|
| `reporter` | 1 collector, 2 submissions of 2 attempts, failures, 1 crash | `AcceptedSticks`, `RetryNeverConflicts`, `MissionNeverRegresses`, `StoredTransitionsLegal`, `InventoryNeverGoesBack`, `ProjectionBacked`, `LifecycleTimestamps` | for a collector that reports in order, retries, late inserts and a crash do no harm |
| `mixed` | 1 collector, 1 submission of 3 attempts, 9 bodies, failures, late arrival, 1 crash, fairness | `TypeOK`, `EveryRequestAnswered`, `EverySubmissionEnds` | every event type and error path; every request ends, and a submission is answered or given up, however its attempts overlap and fail |
| `race` | 2 collectors, 2 submissions | `MissionNeverRegresses` | *violated*, see below |
| `lossy` | 2 missions, 2 losses, 2 restarts | `NeverAhead`, `ResyncAccepted`, `EveryUpdateLegal` | losses and restarts never bring the projection ahead of the file, no re-sync is refused, and an agent that is followed closely is refused nothing |
| `heal` | 1 mission, 2 losses, 2 restarts, fairness | `RestartHeals`, `Tracks` | a restart repairs what losses and skipped states left behind; without them no restart is needed |
| `replays` | 2 assets, 3 instants, replays, 1 failure, 1 restart | `OnlineMeansBeating` | liveness is never faked |
| `sweeps` | 1 asset, 5 instants, no failure, fairness | `TransitionsChain`, `OfflineMeansSilent`, `StreamSettles` | one event per outage, only for outages, and the stream ends in the state that lasts |
| `startup` | 2 files of 1 and 2 statements, 2 releases, a node and a service on it, 3 faults, 1 deployment, 1 edit, fairness | `LedgerHonest`, `ReadyIsComplete`, `HostsRegistered`, `EditsOutliveStarts`, `RestartCompletes` | wherever starts are cut off, the ledger tells the truth, edits are lost only to a start that looked before them, and a later start completes the rest |
| `store` | 2 keys, 3 instants, 3 writes, 1 waiting read, 1 setback of the clock | `Implements`, `AcknowledgedIsKept` | versioned rows implement the latest-value store for fresh revisions |
| `host` | 3 machines, intervals 2, 3 and 5, steps and restarts of 0 or 1, 2 faults, 2 changes, fairness | `HeartbeatGap`, `NamesIdentifyDisks`, `NewestUpgradeReported`, `QuietWhenStable`, `InventoryCatchesUp` | the heartbeat is never late by more than one pass and the restarts; reports are right, quiet, and arrive in the end |
| `reads` | 3 assets, 24 requests on every route, 8 configurations, 3 instants, 2 events, 1 outage, fairness | `OfflineIsSilent`, `AbsenceIsReal`, `HostSectionNotOlder`, `MissingIsNotPenalised`, `RecentNotOlder`, `RecentKeepsNotable`, `BodyWithinLimit`, `KeysNameOneIdentity`, `EveryReadAnswered` | what an answer shows was true of some moment of the request; every request is answered |
| `panel` | as `reads` | `DockerCountsShown` | *violated*, see below |

`CHECK_DEADLOCK FALSE` is set where the bounds let an instance end (submissions, time, an
answered request); the real system idles there. `store` and `host` never stop and are
checked for deadlock.

**Why the bounds suffice.** The races are between two actors, or an actor and time, and
the invariants speak of one mission, asset, key or request at a time. Two attempts are
the least that can overlap or be retried, two submissions the least that can be
overtaken, three attempts allow a retry that is itself retried while the first is still
served; all six mission states are in the forwarding instances. Five instants with a
timeout of one allow online, offline and online again. Three writes allow one that is
overtaken and one that overtakes; one setback makes a revision stale. Two migration
files, the second of two statements, allow every place a bootstrap can stop at, and
three faults allow a start to be cut off, its successor too, and the outage between
them. With intervals of 2, 3 and 5 the tasks of the host collector coincide and come
apart; its three machines have two disks of one type, a disk with two mounts and
an unreadable device tree. `MaxMeanwhile = 2` bounds what happens *during* a request: the ingestion or tick
on both sides of one await; before the request the stream is arbitrary up to
`MaxEvents`. `RecentLimit = 1` and `MaxBytes = 2` are the least that can be exceeded by
one. The theorems of section 4 hold without any of these bounds.

**Fairness.** `Ingestion`: a driver call ends, because the driver has timeouts of its
own, and a client's attempt ends, because of `request_timeout`; nothing obliges an
attempt to arrive. `MissionForwarding`: `run_forever` polls again and `submit_event`
returns (`EverySubmissionEnds`); neither a restart nor an edit is obliged to happen.
`OfflineDetector`: the sweep's loop goes on and time passes; heartbeats owe nothing.
`Startup`: systemd starts a process that is down (`Restart=`), and a call answers or
raises; the database owes nothing, recovery is a premise of `RestartCompletes` in that
faults are over and the database is up. `HostCollector`: the loop goes on, since every
command has a timeout and a submission ends; faults are never obliged, and are finite.
`ReadApi`: a storage call returns or raises. `VersionedStore` has safety properties only.

### Where the code disagrees with its documentation

With a run each:

- `race`: `validate` and `apply` are several awaits apart and `apply` does not look at
  the transition again. Two collectors reporting one mission can move it back, although
  `backend/app/models/mission.py:30` says that regression is rejected. The run lets
  attempts arrive late as well: with late arrival the same happens to a single collector
  whose given-up attempt overtakes its successor, and an illegal transition then enters
  the stream. `reporter` therefore assumes `LateArrival = FALSE`.
- `panel`: the monitor page takes the container counts from `docker["summary"]`
  (`app/services/monitor.py:666`), which no collector sends: the counts are fields of the
  payload itself. The header always says 0 of 0.

Met on the way, stated here and not as runs:

- A retried submission may leave two events (NFR-3, `docs/requirements.md:114`): the
  event's id is given per attempt.
- A storage failure in `validate` is a 500 where the route's docstring promises 503. The
  client retries both. Reads answer 500 on an outage too, except the event list.
- `OfflineDetector._known` is updated before the transition is stored: one failing insert
  loses it for good, although the loop logs "will retry". `sweeps` therefore allows no
  failures.
- An old heartbeat that arrives late makes a beating asset offline until the next one.
  `OfflineMeansSilent` is therefore checked, and proved, without replays. The read routes
  have the same rule: `OfflineIsSilent` names the case, a heartbeat that was received
  later and sent earlier than one in time.
- An inventory whose event is stored and whose upsert failed is in the event list, but
  its route answers 404 "No host inventory reported" until the collector's retry:
  `AbsenceIsReal` therefore speaks of the projection for that route.
- A body that is not JSON is answered 422 before the key is looked at; a caller without
  a key reads nothing, but does not always see 401 (`KeysNameOneIdentity`).
- A backend that starts while the database is down runs neither migrations nor seeding
  until it is restarted (`app/main.py:124`), and `/health` says "ok" as soon as
  the database answers again.
- `seed_registry` awaits the check that an entry is absent (`seed.py:111`) and inserts it
  later, with a revision of its own, so that a row which appears and is edited between
  the two is written over, although `app/services/seed.py:5` says that seeding "never
  overwrites an existing record". A late insert of an earlier start makes the row
  appear; so would a second backend process. `EditsOutliveStarts` is what is left of the
  promise.
- `base_block_device` strips the number of `md0`, `md1` or `loop0` as if it were a
  partition (`oc/host_pi/inventory.py:260`), although its docstring says that whole-disk
  names pass through unchanged, and `assign_logical_names` then gives two arrays one
  name, although names are "per *physical* device". `NamesIdentifyDisks` is the claim for
  machines whose mounts are on disks that can have partitions.
- `history.log.10.gz` is read before `history.log.2.gz` (`oc/host_pi/inventory.py:510`):
  with ten archives the upgrade dates may be old ones. `NewestUpgradeReported` says so in
  its premise.
- Logical names are counted anew in every report: unplugging a disk renames those after
  it.
- If a container vanishes between `docker ps` and `docker inspect`, the report says there
  are no containers at all, until the next one.
- `upgrade.sh:52` records the rollback target after steps that may fail: a second upgrade
  after a failed one may record the failed release as the one to go back to.

## 4. Proofs

Each theorem holds for every value of the constants that satisfies the assumptions the
modules declare, which say that bounds are numbers, sequences are sequences and `None`
is not a value; TLC evaluates them in every run. Some say more. `SeedOrder` (`Startup`)
says that `SEED_ASSETS` lists hosts before the assets on them, which it does;
`Distinguishable` (`HostCollector`) says that machines that differ, differ durably, and
`LogsRotate` that apt appends to its history and logrotate moves it on in order,
and `Framing` (`ReadApi`) that a body is as long as its Content-Length says, as
far as the limit goes, which the HTTP server sees to.

| Theorem | States | Needs |
|---|---|---|
| `IngestionProofs!TypeCorrect`, `ProjectionsAreBacked`, `RowsAreTimestamped` | `TypeOK`, `ProjectionBacked`, `LifecycleTimestamps` | `SentInv` (a request that left "unsent" is of a submission made), `StageInv` (a request past `insert` is stored, and the row it carries is timestamped), `DoubtInv` (the same for rows that may land at any time) |
| `IngestionOrderProofs!AcceptedNeverLost`, `RetriesNeverConflict`, `InventoriesNeverGoBack` | `AcceptedSticks`, `RetryNeverConflicts`, `InventoryNeverGoesBack`, for collectors whose attempts arrive in the order they were sent (`~ LateArrival`); the first two for missions of one reporter each (`OneReporter`) | `OrderInv`, see below |
| `IngestionOrderProofs!MissionsNeverRegress`, `OnlyLegalTransitionsStored` | `MissionNeverRegresses`, `StoredTransitionsLegal`, under the same two conditions | `OrderInv` and `MissionInv`: an update that `validate` let through stays legal until the mission is further |
| `MissionForwardingProofs!TypeCorrect`, `ProjectionNeverAhead`, `ResyncNeverRefused` | `TypeOK`, `NeverAhead`, `ResyncAccepted` | `BatchInv`: every update under way lies between the projection and the file and there is one per mission, so whichever is delivered, lost or half applied, projection <= update <= file remains |
| `MissionForwardingProofs!FollowingNeverRefused` | `EveryUpdateLegal` | `FollowInv`: without losses and hurry, the projection is at most one state behind the file, at what was submitted once the batch is out, and the step to the file is legal |
| `OfflineDetectorProofs!TypeCorrect`, `OnlineIsWitnessed` | `TypeOK`, `OnlineMeansBeating` | an emission of online under way has its witness already; heartbeats are only ever added |
| `OfflineDetectorProofs!ChainHolds` | `TransitionsChain`, assuming `MaxFailures = 0` | the last transition this process recorded ends in the state the next one starts from; a known asset has beaten |
| `OfflineDetectorProofs!OfflineIsSilent` | `OfflineMeansSilent`, assuming `~Replays` | `OrderInv`: without replays, stored heartbeats are ordered by both clocks, and one in flight is the youngest; `SilentInv`: the emission under way is silent already |
| `StartupProofs!TypeCorrect`, `LedgerIsHonest` | `TypeOK`, `LedgerHonest` | `SchemaInv`: what is executed of a file is closed downwards, files before the current one are complete, and a ledger row under way or late is of a complete file |
| `StartupProofs!HostsAreRegistered`, `ReadinessIsComplete` | `HostsRegistered`, `ReadyIsComplete` | `SeedInv`: entries before the current one are registered, and a row to be inserted, now or late, has its host |
| `StartupProofs!EditsOutliveEveryStart` | `EditsOutliveStarts` | `RowInv`: a start that found no row asked before any edit of the row it is about to insert, and so did the one whose insert may land late; no row has a revision above the clock |
| `VersionedStoreProofs!TypeCorrect`, `VersionedRowsImplement` | `TypeOK`, `Implements` | `QueueInv`: first come first served, so that writes wait in the order they were asked for and those past the lock came before. Each step maps to a step of `LatestValue` or a stutter: an insert takes effect if it becomes current and has none otherwise, and the floor moves exactly when the abstract one does |
| `VersionedStoreProofs!AcknowledgedAreKept` | `AcknowledgedIsKept` | the same invariant |
| `HostCollectorProofs!TypeCorrect`, `HeartbeatsInTime` | `TypeOK`, `HeartbeatGap` | `PassInv`: a pass has taken at most `Slow` for each of the seven slow steps behind it; `SilenceInv`: since the last heartbeat no more has passed than the interval and the pass, because the heartbeat comes first and its next run counts from the beginning of the pass; while a new process has not sent its first, no more than that and a restart delay for each death |
| `HostCollectorProofs!StableIsQuiet` | `QuietWhenStable` | a draft was due when it was begun; two readings of one machine have one signature (`SignatureIsDurable`) |
| `HostCollectorProofs!NamesAreDisks` | `NamesIdentifyDisks` | `NamesTellDevices`: ordinals grow with the first mounts of devices of one prefix, so that names, which are pairs of prefix and ordinal, coincide for one base device only; `BaseIsDisk`: that is the disk, for a disk that can have partitions |
| `HostCollectorProofs!NewestUpgradeIsReported` | `NewestUpgradeReported` | `FirstDateFacts`: with one digit the order by name is the order by number, so the first log that has a date has the newest |
| `ReadApiProofs!KeysAreIdentities` | `KeysNameOneIdentity` | a protected route that has read something, or an answer that is not one of the four given before or by the key check, passed it |
| `ReadApiProofs!MissingNeverHurts` | `MissingIsNotPenalised` | none: severity is monotone in the signals over their thresholds |
| `ReadApiProofs!OfflineViewsAreSilent`, `AbsencesAreReal` | `OfflineIsSilent`, `AbsenceIsReal` | `StreamInv` (what is stored are events), `RouteInv` (what is on the page and what is still to read make up the route's reads), `PageInv` (what was found is the latest of its kind at a moment after the request arrived); `InventoryInv` for the second: a row of the projection stays, so that one which was there on arrival is found |
| `ReadApiProofs!HostSectionIsNotOlder` | `HostSectionNotOlder` | `HostInv`: once the host section is read, no view is still to be read; the position of the latest event only grows |
| `ReadApiProofs!RecentEventsAreNotable` | `RecentKeepsNotable` | `RecentInv`: the recent events on the page are the newest notable ones of the stream as it was at a moment of the request; `NewestFacts`: ranking places by how many are newer is one-to-one, so a place that is left out is older than all that are shown |
| `ReadApiProofs!RecentEventsAreNotOlder` | `RecentNotOlder` | `RecentInv` again: that moment comes after those of the views and of the host section; `InventoryInv`: the inventory shown is of an event that was stored |
| `ReadApiProofs!BodiesAreWithinLimit` | `BodyWithinLimit` | `ReceivedFacts`: the bytes received grow with the chunks up to the size of the body |

`TypeOK` of `MissionForwarding`, `OfflineDetector`, `Startup`, `VersionedStore` and
`HostCollector` is proved and no longer a property of a run.

The order of `Ingestion`. The theorems of `IngestionOrderProofs` need that what a
collector sends one after the other takes effect in that order, although every request
is a coroutine of its own. Their invariant has one part for each place where the order
could be lost:

- `SendInv`: what was sent is of the current submission or an earlier one, and no
  attempt later than the current one;
- `LaneInv`, `FlowInv`, `QueueInv`: the requests of one collector and kind are at stages
  of the route in the order they were sent, because they arrive in that order and the
  lock of each storage is handed on first come, first served;
- `RowInv`: a row, in a table, carried by a request or in doubt, was made when all
  earlier attempts had theirs or never will have one;
- `RevInv`: so revisions are in the order of the attempts, and a row that lands late
  loses against those made after it; `TableInv`: rows are in their place;
- `BodiesInv`, `LegalInv` (`MissionInv`): a collector's updates of a mission never go
  back, and one that was let through stays legal until the mission is further.

Neither condition can be spared: run `race` shows a mission of two reporters moving
back, and with late arrival an attempt that was given up may overtake its successors.
What the theorems leave to the collector is exactly that.

All the invariants and action properties of the passing runs are proved. What is only
model-checked is temporal: `EveryRequestAnswered`, `EverySubmissionEnds`, `Tracks`,
`RestartHeals`, `StreamSettles`, `RestartCompletes`, `InventoryCatchesUp`,
`EveryReadAnswered` rest on fairness and ENABLED, which are out of the prover's reach.
Sums over chunks (`Received`, `Size`) are recursive functions; what the proofs need of
them follows from a least counterexample, without an induction over data.

## 5. What is left

1. `Ingestion` restricted to one reporter as an implementation of the one-step
   submissions of `MissionForwarding` and `HostCollector`.
2. `Deploy`: upgrade and rollback failing at any step. Question: is the recorded target
   always a release that was healthy?

Not modelled, and why:

- The frontend renders a query cache kept by a library (TanStack Query) whose behaviour
  the repository does not define; its own logic is derivation for display.
- Probes that parse `/proc`, sysfs and command output (`metrics.py`, the parsers of
  `inventory.py`, the agent's probes): text to values, no state and no order. `None`
  for a missing source is modelled.
- HTML, Prometheus text, static files and version probing change no state.
  `RequestContextMiddleware` adds an id, a log line and metrics and decides nothing.
- Deployment scripts beyond the change of release: steps of git, pip and systemd whose
  failures the scripts leave to the operator.
- Ranges and formats of single configuration fields. Some are looser than they look:
  a float may be `nan` or `inf`, a fractional `MAX_RETRIES` is cut to a whole number.
- Gauges, counters and log lines of every component.
