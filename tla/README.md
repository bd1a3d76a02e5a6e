# A TLA+ development of qui-Transmission

qui-Transmission is a Go server that manages Transmission instances behind a
qBittorrent-compatible API: it deletes orphaned files, searches Torznab
indexers, reannounces stalled torrents, backs up, cross-seeds and automates.
Most of its packages translate formats or serve HTTP. What is hard to get right
is in the background services: goroutines, database rows and in-memory maps
that outlive one another, and file deletion that rests on a view of the
torrents assembled from many reads.

The development models six of these services in depth: the orphan scan, the
search scheduler, the client pool with the reannounce service on top of it, the
backups and their restore, and the runs of the directory scan. TLC checks each of
them on small instances. TLAPS proves their safety properties for every value of
the constants; the exceptions are listed under Theorems. `PROJECT.json` maps
every definition to the lines it translates.

## Inventory

| Component | State | Operations | Who meets there | What makes it correct |
|---|---|---|---|---|
| Orphan-scan runs (`services/orphanscan/service.go`, `models/orphan_scan.go`) | `orphan_scan_runs` rows, `cancelFuncs`, `instanceMu` | TriggerScan, ConfirmDeletion, CancelRun, scheduled check, recovery | scan goroutines, deletion goroutines, API requests, scheduler, startup | one deletion per instance; no run blocks its instance for good; a deletion owns its row |
| Orphan-scan files (`service.go`, `filemap.go`, `walker.go`, `delete.go`) | file map, scan roots, skipped roots, scan paths, preview entries | build the map, walk, save the preview, re-check, delete | several Transmission instances, users, other programs on the disk | a file some torrent uses is not offered and not deleted |
| Search scheduler (`services/jackett/scheduler.go`) | task heap, `jobs`, `inFlight`, `pendingRSS`, `workerPool`, channels, retry timer, rate-limiter states | Submit, loop, dispatch, execute, complete, Stop | submitters, loop, workers, executions, clock | exact accounting, spacing of requests, every search ends |
| Search aggregator (`services/jackett/service.go`, `searchIndexersWithScheduler`) | results under a mutex, wait group | OnComplete, OnJobDone | callback goroutines | the caller gets every result, once |
| Reannounce (`services/reannounce`) | job per torrent, history, settings cache | scan, RequestReannounce, executeJob, finishJob | scan loop, API, a goroutine per job | one job per torrent at a time, cooldown between attempts |
| Client pool (`qbittorrent/pool.go`) | clients, creation locks, failure tracker, refresh loops | GetClient, create, RemoveClient, health check, Close | every service, the instance handlers | a pooled client has the instance's present settings; failed connections are spaced |
| Sync manager, compat layer (`qbittorrent`, `transmissionqbt`) | main data, snapshot caches, optimistic updates, session id | sync, merge, mutate, retry on 409 | every reader | an optimistic update is neither lost nor kept for ever |
| Backups (`internal/backups/service.go`, `models/backups.go`) | runs, items, blobs on disk, job channel, inflight map | queue, worker, retention, delete, import, recovery | scheduler, API, workers | one run per instance, no run stuck, retention keeps the newest, a kept run keeps its blobs |
| Restore (`internal/backups/restore_*.go`, writes of `transmissionqbt/methods.go`) | snapshot, live torrents, plan | plan, remove categories and tags, add, update, delete | the request, whoever else changes torrents | nothing is deleted that the plan and the mode do not cover; the promised state is reached |
| Directory scan (`services/dirscan`, `models/dirscan.go`) | `dir_scan_runs` rows, cancel functions, slots, directory locks, webhook lock | manual, scheduled and webhook scans, cancel, recovery, trimming | requests, schedule, a goroutine per run | a webhook's path is scanned, one follow-up per directory, no run stuck or revived |
| Cross-seed, automations | run rows, matches, rules | scans, injections, rule execution | scheduler, webhooks | mostly decisions on data |
| SSE manager, log stream, notifications, debouncer | subscribers, queues | subscribe, publish, drop | one goroutine each | nobody blocks the publisher |
| Database, configuration, auth, API handlers, proxy, metrics, license, icons, arr, metadata, external programs, web UI | tables, files, caches | requests | — | not coordination problems |

`PROJECT.json` lists all of them, with the reason for those that are not
modelled, and the hazards, each at the line where it bites.

Interactions: API handlers call the services directly; the services share
Transmission clients through the pool, read torrents through the sync manager
and keep their runs in SQL tables. There are no transactions across a service's
steps: a status is read, something is done, a status is written. That gap is
what the models explore.

## Modules

| Module | Contents |
|---|---|
| `OrphanRuns` | the life of orphan-scan runs: rows, goroutines, requests, mutex, restart |
| `OrphanFiles` | one run's file map, preview and deletion in a changing world |
| `SearchScheduler` | scheduler, rate limiter, workers, callbacks, aggregator |
| `SingleFlight` | abstract: work on a key is done by one job at a time |
| `Clock` | the instances and the wall clock that ClientPool and Reannounce share |
| `ClientPool` | clients, creation locks, backoff, health checks, instance edits, Close |
| `Reannounce` | jobs per torrent: scan, request, job goroutine, cooldown |
| `Clients` | Reannounce on top of ClientPool: scan and jobs are callers of GetClient |
| `Backups` | backup runs: queue, workers, retention, deletion, import, recovery |
| `Restore` | one restore: plan and execution in three modes |
| `DirScanRuns` | directory-scan runs: requests, webhooks and their follow-up, slots, cancellation, recovery |
| `MC...` | functions and symmetry sets a `.cfg` cannot write |
| `...Proofs` | the theorems |

Operators commented *Mutant* are plausible wrong versions of the definition that
follows; nothing refers to them. They record, for every property, a bug that
makes TLC report it.

### OrphanRuns

A run is a row (`status`, `inst`, `trig`, `filesFound`). `scanPc[r]` is the
goroutine TriggerScan starts for r, `delPc[s]` the deletion goroutine launched
by s, where s is a request slot or, for auto-cleanup, the run itself. `callPc`
holds the requests in flight. Each store call and each critical section is one
step; what a goroutine does between them, without touching shared state, belongs
to the next one. `Outcomes` says how a store call may end: a call under a canceled context
fails, others may fail when `StoreErrors` is TRUE. That is why markCanceled's
own write, which uses the context that was just canceled, changes nothing.
`cancelFuncs` remembers whose function an entry holds, because the deferred
`delete` of one goroutine can remove the entry of another. A crash clears
everything but the rows; the recovery is two steps that run beside requests, as
in `Start`. Rows are numbered in creation order, so those older than
StuckRunThreshold are some prefix of the rows of earlier processes. Two history
variables name what the properties except: `revived`, the runs a late write
brought back from a finished status, and `unsaved`, those whose last status write
failed.

The preview's files are one number here; what they are is OrphanFiles' subject.

### OrphanFiles

The world is: the instance each torrent is in, whether its file list is
available (`listed`), withheld by a passing state (`transient`) or unexpectedly
absent (`missing`), the ready instances, the disk and the ignore paths. It
changes between any two steps, `MaxChanges` times. The run builds its map in the
order of `buildFileMap`: own torrents, then for every other instance the
overlap test, the second live look when the first saw no overlap, and the merge.
`Under` gives the directories a path lies in, so nested save paths are covered.
The deletion builds the map anew and keeps only the file map. `touched` is a
history variable: the torrents that changed since the scan, or the deletion,
began; a torrent that changes while it is being read has no promise to rely on.

### SearchScheduler

A task is a pair of a search and an indexer. `task[t]` follows it from Submit
(`listed`, `sent`), through the heap (`queued`), a worker (`starting`,
`executing`, `returned`, `releasing`) to `done`, or to `skipped` / `dropped`.
`s.mu` is held by the loop during `dispatchTasks`; other steps that need it wait
(`MuFree`), while the clock and the contexts go on, which is what the lost
wake-up below rests on. Time is discrete and counted down. The execution goroutine
(`exec`) may outlive its worker. Callbacks are goroutines of their own, and the
aggregator's wait group starts at the number of indexers asked for.

### ClientPool, Reannounce, Clients

A caller of GetClient goes through the stages of `createClientWithTimeout`: look
into the pool, get the instance's lock from `creationLocks`, lock it, look again,
check the backoff, read the instance, connect, store, start the refresh loop. An
instance handler writes the instance (`version`, `enabled`) and then removes the
client. A lock is an identity (`Locks`) and an entry of `creationLocks` may be
forgotten while others hold or wait for it, as RemoveClient does; a client or
loop that comes into being beside a forgotten lock is marked `stray`, and the
properties say what holds for all others. Durations are `Width` bits wide and
`Wrap` is the product the code computes, so the backoff really overflows in the
run (at the second failure with `Width = 2`; with 64 bits and the initial 10
seconds at the 31st). A health check remembers the client it began with and
reports when that client may be gone.

Reannounce has an entry per torrent (`requested`, `completed`, `running`) and a
goroutine per job. Which torrents a scan finds is arbitrary: the conditions on
trackers, age and tags are data. `completedAt` and `forgotten` are history
variables for `CooldownKept`. Clients composes both: a job that asks for a client
becomes a caller of the pool and goes on with its answer, so a job may wait for a
creation lock, meet the backoff, or get a client that is being removed.

### Backups

A run is a row (`status`, `rinst`, `rkind`, `at`, `items`, `count`). Processes are
the callers (queue, delete, import), the scheduler and the workers; each store
call is one step and may fail (`MaxErrors`). A crash clears the channel and the
inflight map. `Start` is the recovery: it makes the incomplete rows failed, or
fails after some of them, and the service starts all the same. The blobs of items
are shared between runs; deletion collects the blobs of a run, deletes the row,
counts references and unlinks, in separate steps beside backups that look at the
disk.

The file of a blob is whole (in `blobs`), damaged (in `torn`) or not there. The
calls on it are steps of their own and fail whenever they like: a backup looks
whether the file exists and writes it later (`BackUpTorrent`, `WriteBlob`);
copyTorrentFromTemp truncates the file when it opens it (`ReadManifest`) and
then has copied it, or has failed and removed it (`CopyBlob`), whoever else uses
it or has it open (`Opens`); the background download looks first and writes when
its export is there (`DownloadMissing`, `FetchBlob`). os.WriteFile is one step,
and an archive's file is taken to be the blob its manifest names. `unsaved` are
the rows whose last write failed or was cut off, the recovery's included.
`exposed` are the runs whose blob was unlinked by an overlapping cleanup, damaged
or removed by a failed or interrupted write or copy, taken over damaged, or never
there: the exceptions of the invariants, each tied to one step of the code.

### Restore

The initial states are all snapshots (with and without categories and tags), all
live states, modes and exclusions of the instance. Categories, tags and torrents
are read in three steps, then come removals of categories and tags, additions,
updates and deletions, each first as a batch and after an error one by one.
Transmission has no categories and tags of its own: removing one rewrites the
torrents that carry it (`RemoveCategoriesCtx`, `RemoveTagsCtx`, the latter with
a read and a write apart), and creating one is seen nowhere. Others change one
torrent at any point (`MaxChanges`).

### DirScanRuns

A run is a row (`status`, `dirOf`, `trig`, `root`) and a goroutine (`pc`). A
request is a sequence of store calls (`callPc`): a webhook holds `webhookMu`
from its first to its last and reads the active run, then the queued one, then
joins or creates; CancelScan cancels the context, writes the row and cancels
what is queued, in separate steps. Paths are a tree (`Above`), a merged root is
the nearest common ancestor in the directory. executeScan waits for a slot and
the directory, advances only if the row is still queued, reads the row again and
goes through its phases; steps that touch nothing shared are taken together with
the next one that does. A failing store call and the death of the process are
faults, which `MaxEvents` bounds together with the requests. `owed` are the paths
a run accepted before it read its root, `unheard` the runs a CancelScan found
before their cancel function was there, `unsaved` the rows a failed call left
active.

### SingleFlight

The abstract specification: `busy` holds the jobs at work on each key, a job
begins only on a key without one. Backups implements it with instances as keys
and `busy[i]` the runs whose queuer, channel entry or worker is still there
(`OneBackupPerInstance`); Reannounce with torrents as keys and the workers on
them (`OneJobPerTorrent`). Both are PROPERTYs of runs.

## Runs

| Run | Instance | Shows |
|---|---|---|
| `orphan_runs_safety` | 1 instance, 2 runs, 2 concurrent requests, auto-cleanup on, 1 crash anywhere | `OneDeletionPerInstance`, `OneActiveRun` over all interleavings, the recovery's among them |
| `orphan_runs_errors` | 1 run, 2 requests, scans find up to one file more than the threshold, every store call may fail, 1 crash | `TypeOK`, `NoStrandedRun`, `DeletionOwnsRow`, and under fairness `MutexReleased`, `RunsSettle` |
| `orphan_files_safety` | 3 torrents competing for 2 files, nested roots, 2 instances, 2 changes, cap of 1 file | `PreviewOnlyOrphans`, `OwnFilesSurvive`, `SharedFilesSurvive`, `TypeOK` |
| `scheduler_rss` | 2 RSS searches of 2 indexers, 1 worker, channels of one slot, Stop | `RSSEntriesExact`, `JobDoneOnceAndLast`, `DeliveredComplete` |
| `scheduler_rates` | 2 searches of one indexer, 2 workers, intervals, cooldown levels, wait budgets, 1 download | `WorkersExclusive`, `StartsSpaced` |
| `scheduler_live` | 2 searches, 1 worker, no rate limits, no RSS | `ResultsDelivered` under fairness |
| `backups_safety` | 1 instance, 1 scheduled kind, 2 runs sharing one blob, a caller, the scheduler, a worker, 1 store error (the recovery's included), file calls that may fail at any time, 1 crash | `NoStrandedRun`, `SnapshotsUsable` (`BlobsKept` and `SnapshotComplete`), `RetentionSparesNewest`, `FinishedStays`, refinement `OneBackupPerInstance` |
| `backups_queue` | 2 instances, a channel of one slot, 1 worker, cancellations and deletions | `InflightExact`, and under fairness `InstanceReleased`, `RunsEnd` |
| `client_pool` | 1 instance, 2 callers, 2 edits, 1 health check, a backoff that overflows | `ClientCurrent`, `RefreshHasClient`, `ConnectionsSpaced` |
| `clients` | 1 instance and torrent, 2 jobs and the scan as callers, 1 edit, quick and normal cooldown | `RunningExact`, refinement `OneJobPerTorrent`, `CooldownKept`, `TypeOK`, and under fairness `JobsFinish` |
| `restore` | every restore of 2 torrents, 2 categories, 1 tag, 1 change by others | `Converges`, `RestoreConfined` |
| `dir_scan` | 1 directory with 2 parts, 3 runs of which 2 stay in the history, 1 slot, 2 callers and the schedule, 4 requests and faults together | `WebhookCovered`, `OneFollowUp`, `NoStrandedRun`, `NotRevived`, `TypeOK` |

Two runs of one instance are enough for each pair of a run with a later one; a
third run would meet the same rows. Two requests are needed for a confirmation
to race with a cancel; more would repeat the pair. One instance suffices since
instances share only the maps, keyed by run or instance; the proofs cover any
number. In OrphanFiles two changes allow one between scan and deletion and one
more inside either; the nested root is what makes overlap and coverage differ.
Channels of one slot make "full" happen at once.

Two backup runs are the one being made and the one it, or a request, deletes;
one blob is what they share. With one caller an import meets a backup by the
scheduler; two imports that have the same file open at once exceed what TLC can
do in minutes together with the rest, and are left to the theorem. The queue
needs a second instance, since one instance has one job. Manual runs are in that
run: next to files and faults they would only be runs retention never selects,
and the proofs cover them. In the pool one lock per creation or removal is
enough (`Locks` has as many as the bounds can use up), two callers and two
handlers give the overlap of a creation with both a removal and a creation
beside a forgotten lock. The clock stops at `MaxTime`; a stride larger than the
debounce window makes "older than the window" happen, and a cooldown longer than
the stride makes the two windows differ. Two categories and two torrents let a
removed category be one that another torrent must get back.

Three directory-scan runs are the one at work, its follow-up and the second
follow-up that must not be; with a history of two rows (ten in the code) the
third also pushes the first out, at work or not. Two parts of the directory are
what a merge has to cover together. Four events allow three webhooks and a
cancellation, a webhook that joins a run and two faults, or a crash at any point
of two requests and a failing recovery. The runs of one directory meet at the
rows; other directories share only the slots, which one directory already fills
(`MaxConcurrentRuns` is 1 by default).

No run checks for deadlock: a system with all runs finished, or with no more
searches to submit, really stops.

## Known deviations

While the models were made, TLC found the code to differ from what its comments
or documentation say, or from what one would expect. The properties of the runs
say exactly what remains true beside them. `RefusesCancelMidDelete`,
`OtherInstancesProtected`, `TransientProtected` and `AcceptedJobsFinish` stand in
the modules beside the checked properties: they state the promise, and adding one
of them to a run shows the trace.

* `orphanscan/service.go:388`: the scan goroutine's deferred delete also removes
  the cancel function registered for its auto-cleanup deletion; CancelRun then
  takes the working deletion for a stale one and marks it canceled
  (`RefusesCancelMidDelete`; line 424 says it refuses).
* `orphanscan/service.go:1404`: a torrent without a file list turns its save path
  into a skipped root, the fresh scan roots shrink, and an overlapping instance is
  not merged into the deletion's map (`OtherInstancesProtected`; the feature page
  `orphan-scan.md:26` says overlapping instances are protected).
* `orphanscan/service.go:846`: the deletion ignores the fresh skipped roots, so a
  torrent added since the scan and still checking does not protect its files
  (`TransientProtected`; `delete.go:29`).
* `orphanscan/service.go:379`: a CancelRun between the creation of the row and the
  registration of its cancel function does not stop the scan, which writes over
  "canceled" (`OneActiveRun` excepts such runs).
* `jackett/scheduler.go:1064`: a wait that elapses between classification and
  arming the timer leaves the task without a wake-up (`AcceptedJobsFinish`).
* `jackett/service.go:395`: an indexer dropped by RSS deduplication is still
  counted by the aggregator, which then waits for ever (`ResultsDelivered` is
  checked without RSS searches).
* `qbittorrent/pool.go:355`: RemoveClient forgets the creation lock, so creations
  and removals of one instance can overlap, though the comment at line 335 says
  they are serialised (`stray` in ClientPool).
* `qbittorrent/pool.go:517`: the backoff overflows: with the ordinary initial
  delay it is negative at the 31st failure and zero for good from the 55th.
* `reannounce/service.go:482`: a job that took longer than the debounce window
  removes its entry and with it the cooldown (`forgotten` in Reannounce).
* `backups/service.go:855` and `:1927`: a blob found on disk may be unlinked by a
  deletion under way, and a failed reference count is taken for zero (`exposed`).
* `backups/service.go:591`, `:572`, `:1591`: "success" is written before the
  items, failed final writes and failed imports leave rows "running" (`unsaved`).
* `backups/service.go:301`: a failed recovery is only logged, so the rows of the
  last process stay pending or running until the next start (`unsaved`).
* `backups/service.go:1677`: an import truncates a blob that other runs share and
  removes it when the copy fails; until the copy is done, or for good, those runs
  are without it (`exposed`).
* `backups/service.go:861`, `:1738`: a write that fails on the way leaves part of a
  file, which every later backup and import finds and takes for the blob; the
  download's look at the file and its write are an export apart (`torn`,
  `exposed`).
* A backup without categories keeps the items' category names; a complete restore
  of it removes every category first, and what it then sets depends on the plan
  made before (`Covers` in `Converges`).
* `transmissionqbt/methods.go:2068`: labels are read and written back in two
  calls; labels set by others in between are lost.
* `dirscan/service.go:413`: a webhook that has read a queued run writes the merged
  root although the run may have begun and read its root by then: the webhook is
  answered 202 and its path is not scanned (`dir-scan.md:311` says it is merged
  into a queued run; `owed` counts the paths that came in time). A webhook for an
  idle directory that loses the race with another start is refused with 409.
* `dirscan/service.go:458`: a CancelScan before the cancel function is registered
  is written over by the scan (`unheard`); one during the scan phase ends as
  "failed", and one at the very end as "success", since the last write wins.
* `dirscan/service.go:535`, `:556`: when a run's own read or status change fails,
  its row stays active and takes in webhooks until the next start (`unsaved`).

### Fairness

OrphanRuns: weak fairness of every goroutine and request in progress (the Go
scheduler runs what can run), of the restart and of the recovery. Nobody is
assumed to make requests or to confirm a preview. SearchScheduler: weak fairness
of submitters, loop, workers and callbacks, of the clock, the retry timer and
the deadlines every context carries (`WithSearchTimeout`, and the fresh timeout
of `dispatchTasks`). Nothing is assumed of indexers: a search must end although
none of them answers. Backups: weak fairness of every worker, request and
recovery in progress; strong fairness of a blocked send, since Go queues blocked
senders first in, first out, and each gets its turn. Clients: weak fairness of
creations, removals and jobs (connections and requests have timeouts); strong
fairness of taking an instance lock, since a Go mutex goes over to first in,
first out when a waiter starves. Nobody is assumed to queue, to scan, to edit or
to cancel, and the clock may stop. DirScanRuns is checked for safety only: its
graph is too large for TLC's liveness check with three runs.

## Theorems

All are safety properties and refinements, proved for every number of runs,
requests, torrents, searches, indexers, workers and every value of the bounds,
from the assumptions stated in the specifications, which TLC evaluates in every
run. Most of these only say what kind of thing a constant is and that
identifiers of different kinds differ. Those that say more: the roots of a file
are nested (`OrphanFilesAssumption`); the torrents of an instance are finitely
many (`BackupsAssumption`); "lies below" is transitive and the directories above
a path form a line with a nearest one (`DirScanAssumption`).

The arguments have one shape. A type invariant says which program counters a
process can have and which run it then has; on it rests an inductive invariant,
a conjunction with one part per idea, and each action has one step for each part
it can disturb. Where most actions leave most parts alone, a frame predicate
(`Withdraws`, `CallFrame`, `RunFrame`, `EntryStep`, `Moves`) says so once and a
lemma shows that it keeps the part.

* `OrphanRunsProofs`. `TypeCorrect`, and `DeletionExclusive` (Spec implies
  always `OneDeletionPerInstance`). The latter is not inductive: nothing in it
  speaks of a request that has taken the mutex and not yet launched its
  goroutine. `MutexInv` adds that whoever is between TryLock and Unlock (a
  request or a scan about to register, a deletion goroutine) has its instance
  in `locked`, and that no two such holders share an instance.
  `DeletionsOwnRows` (`DeletionOwnsRow`) needs `LifeInv`, which follows a run from
  its trigger to its deletion: what the row says at each stage of the scan, of a
  confirmation and of a deletion, and that those stages exclude one another; so
  only the write that begins a deletion touches its row (`StaysOff`). `ActiveRunsAlone`
  (`OneActiveRun`) then follows because only creation makes a run block its
  instance (`Blocks`): any other write of an active status finds the row active
  or revives it. `RunsAreAttended` (`NoStrandedRun`) rests on `FuncsInv` (whose
  cancel function an entry holds), `CanceledInv` (a canceled goroutine's row is
  finished, or somebody is about to write it) and `Attended`.
* `OrphanFilesProofs`. `TypeCorrect`, `PreviewIsOrphans`, `OwnSurvive`,
  `SharedSurvive`. `CoverInv` says, for each torrent unchanged since the build
  began, what the part of the map built so far owes it: own torrents are covered
  once the own map is built (their files mapped or their save path skipped), an
  other instance's torrents once it has been looked at are covered or lie apart
  from every scan root; scan roots only shrink, so what was apart stays apart.
  That the roots of a file are nested turns "apart" into "not a candidate". The
  two action properties follow because the deletion removes only what the fresh
  map does not hold.
* `SearchSchedulerProofs`. `RSSExact` and `WorkersExact`: the lemma `Moves`
  reduces each action to the one task it moves, or to none; `RSSInv`, `WorkerInv`
  and `PoolInv` are then kept move by move, the last with the cardinality theorems
  for adding or removing one worker. `SchedulerTypes`; `RequestsSpaced`: the wait
  is checked at the launch and used when the request goes out, and by `WorkerInv`
  no completion at the same indexer falls in between (`LaunchesSpaced`).
  `JobsDoneOnce`: `CountInv` says that a registered job has counted all its tasks
  but the live ones, so the one that completes the count is the last.
  `DeliveryIsLast`: `WaitInv` says that the wait group is the number of indexers
  asked for whose OnComplete has not run.
* `ClientPoolProofs`. `PoolTypes`, `ClientsAreCurrent`, `RefreshesHaveClients`,
  `SpacingHolds`. `MapInv` adds to the first two invariants what a caller between
  its read and its store may rely on: the settings it read are current, or a
  handler that will remove the client is on its way, or its lock was forgotten
  (`FreshRead`); and that a stored client stays until the refresh loop is started
  (`StoredStays`). Spacing is an action property; `SpaceInv` says that whoever
  is past the backoff check came after the retry time (`MayConnect`), that this
  time lies a backoff after the last attempt (`RetryLate`) and that a recorded
  failure had an attempt (`TriedBefore`), wherever the product does not overflow.
* `ClientsProofs`. `RunningIsExact`, `CooldownHolds`, `ServiceTypes`, and
  `OneJobRefines`: the service implements SingleFlight. `JobInv` ties the entries
  to the goroutines: a torrent's entry runs exactly if a worker is on it, no two
  workers are on one torrent, and an entry that was not forgotten remembers the
  last completion. The composition's own invariant, `AnswersMatch`, connects a
  job's stage with its caller's, and `ServiceClientsCurrent` carries the pool's
  invariants over: every step of the composition is a step of the pool, or takes
  an answer.
* `BackupsProofs`. `BackupTypes`, `RunsAreAttended`, `RetentionIsSafe`,
  `FinishedRunsStay`, `InflightIsExact`, `SnapshotsAreUsable`, and
  `OneBackupRefines`: the service implements SingleFlight. `RunInv` says who
  owns a run (its queuer, the channel or a worker, and only one of them:
  `Owned`), which columns and which status its row has at each stage (`Columns`,
  `Stages`). `Entries` ties the inflight map to the owners. For the snapshots,
  `Files` says that the blobs of stored items, and of items a process has
  collected and not yet stored (`Needs`), are safe (`Safe`: whole, or damaged
  only while an import copies them) unless the run is exposed, and that what a
  deletion is about to unlink belongs to nobody but runs stored since its count.
  A step keeps what the others rely on or exposes them (`Aside`). `Counts` says
  that the recorded count is that of the items.
* `DirScanRunsProofs`. `DirScanTypes`, `EndedRunsStay` (`NotRevived`),
  `RunsAreAttended` (`NoStrandedRun`), `FollowUpsAreSingle` (`OneFollowUp`),
  `WebhooksAreCovered` (`WebhookCovered`). `Core` relates a run's row, its
  goroutine, its cancel function and the requests that hold it. On it rest four
  separate invariants: `AttendInv` (a canceled or waiting run has somebody who
  will end it), `SlotInv` (the semaphore counts the goroutines past it and a lock
  has one holder, which is the part of `TypeOK` that is hard), `QueueInv` (a
  webhook about to create a follow-up still finds none: `webhookMu`), and
  `PromiseInv` (what a run was asked to scan lies below the root it has or will
  read; a webhook about to write a merged root covers the earlier promises). The
  existence of a merged root is a well-founded minimum among the common
  ancestors.
* `RestoreProofs`. `RestoreTypes`; `RestoreIsConfined` (`RestoreConfined`) from
  `ConfinedInv`: what a step has still to do is part of the plan (`Planned`), and
  undisturbed the torrents that were looked up are as they were (`Looked`), which
  is why an excluded torrent loses only names the snapshot does not have.
  `RestoreConverges` (`Converges`) from `ConvergeInv`: the tags of a snapshot are
  those of its torrents (`SnapTags`); undisturbed, the three reads of the plan
  show one state (`Viewed`), and each torrent is at every step what the steps so
  far make of the view (`Track`). The crux is in the updates: they set only what
  differed from the view, so the removals before them must have left the rest as
  the snapshot has it (`SnapNames`, which needs `Covers` for categories).

Only model-checked: the liveness properties (`MutexReleased`, `RunsSettle`,
`ResultsDelivered`, `InstanceReleased`, `RunsEnd`, `JobsFinish`), which are
outside this prover. Every other property of the runs is the subject of a
theorem.

## Not modelled, and why

* Orphan scan: disc-layout units, the removal of empty directories, the
  normalisation of paths (NFC, case), symbolic links: path shapes, not
  coordination. The clock of the scheduled check: a scheduled scan may come at
  any time.
* Search: query building, result cache, HTTP, download retries. The scheduler's
  status snapshot only reads.
* Client pool and reannounce: what a connection exchanges, tracker conditions,
  the activity history and the settings cache (its windows are arbitrary in the
  model).
* Backups: manifests and archives, which downloads read and nothing decides on;
  the sizes and counts by category; settings.
* The sync cache: the orphan scan and the restore read torrents from the client's
  main data, about 2 s old at most, older when a sync fails
  (`transmissionqbt/sync.go:169`, errors are ignored; the orphan scan refuses data
  older than MaxSyncAge). In the models a read is the moment of the sync that it
  shows. `PreviewOnlyOrphans`, `OwnFilesSurvive`, `SharedFilesSurvive` and
  `Converges` are to be read that way: a torrent that changed after the first sync
  the scan, the deletion or the plan saw counts as changed during it.
* `content_path` (`orphanscan/service.go:1191`, `:1272`, `:172`): the code also
  takes roots and files from it, but `toQBT` (`transmissionqbt/methods.go:1127`)
  makes it from the save path and the name, so it adds no root and no overlap.
* Restore: the save paths of categories (EditCategory changes nothing that
  Transmission keeps), the contents of torrent files.
* Directory scan: scanning, matching and injection, which are phases that may
  fail; when a directory is due (`last_scan_at`): a scheduled scan may come at any
  time; Stop, which only ends the schedule.
* Cross-seed and automations: most of their code matches names and pieces or
  evaluates rules; their run loops resemble OrphanRuns.
* The components with no module in the inventory: those without coordination for
  good, the others according to the plan.

## Plan

Next: the sync manager's optimistic updates over the compat layer's main data,
the SSE manager's loops, and `Debouncer`.
