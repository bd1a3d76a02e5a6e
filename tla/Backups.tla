------------------------------ MODULE Backups -------------------------------
(***************************************************************************)
(* The backup service: internal/backups/service.go and its store,          *)
(* internal/models/backups.go.                                             *)
(*                                                                         *)
(* A backup run is a row; its items are rows of their own that point to    *)
(* content-addressed .torrent files (blobs) which runs, also of different  *)
(* instances, share.  Requests and the scheduler put jobs into a bounded   *)
(* channel, workers take them out, inflight keeps one job per instance.    *)
(* Retention and the API delete runs and then the blobs nobody refers to   *)
(* any more; imports create runs beside all this.  Nothing spans two store *)
(* calls, so each store call, critical section and file call is a step.    *)
(*                                                                         *)
(* Every run writes its own manifest file, which nothing here reads back;  *)
(* it is left out.  Stop cancels the context of all goroutines and the     *)
(* process ends: to the rows and files that is a Crash.                    *)
(***************************************************************************)
EXTENDS Naturals, Sequences, FiniteSets

CONSTANTS
    Instances,
    Kinds,          \* the scheduled kinds: hourly, daily, weekly, monthly
    Unscheduled,    \* the kinds no schedule and no retention knows: manual
    Keep,           \* [Kinds -> Nat]: the settings' KeepHourly, KeepDaily, ...
    Torrents,       \* torrent hashes
    Blobs,          \* contents of exported .torrent files
    Workers,        \* cfg.WorkerCount goroutines
    JobsCap,        \* capacity of the jobs channel
    Callers,        \* concurrent API requests
    Scheduler,      \* scheduler and checkMissedBackups, a caller of its own
    MaxRuns,        \* bound: rows ever created
    MaxErrors,      \* bound: store calls that fail for no reason of ours
    MaxCrashes,     \* bound: process deaths
    None            \* no entry, no instance, no kind

AllKinds == Kinds \cup Unscheduled

ASSUME BackupsAssumption ==
    /\ Unscheduled \cap Kinds = {} /\ Keep \in [Kinds -> Nat]
    /\ JobsCap \in Nat \ {0} /\ MaxRuns \in Nat
    /\ MaxErrors \in Nat /\ MaxCrashes \in Nat /\ IsFiniteSet(Torrents)
    /\ Scheduler \notin Callers
    /\ Workers \cap (Callers \cup {Scheduler}) = {}
    /\ (Workers \cup Callers \cup {Scheduler}) \cap (0 .. JobsCap) = {}
    /\ None \notin (0 .. MaxRuns) \cup Instances \cup AllKinds

RunIds == 1 .. MaxRuns
Queuers == Callers \cup {Scheduler}
Procs == Workers \cup Queuers
Items == Torrents \X Blobs

VARIABLES
    status,     \* the status column; "none": no row yet, "deleted": no more
    rinst,      \* instance_id
    rkind,      \* kind
    at,         \* requested_at; 0: before everything in the model
    items,      \* the run's item rows
    count,      \* torrent_count
    blobs,      \* the blob files on disk that are whole
    torn,       \* the ones that hold only a part of their contents
    inflight,   \* instance -> run, 0 while its row is being created, or None
    jobs,       \* the jobs channel
    pc,         \* where each process is
    run,        \* the run it works on
    wantI,      \* a queuer's instance ...
    wantK,      \* ... and kind, before there is a run
    todo,       \* torrents a worker, or an import, has still to fetch
    held,       \* items it has collected and not yet stored
    sought,     \* the item whose blob it is about to write
    kinds,      \* kinds a worker's retention has still to look at
    batch,      \* runs a cleanup is removing
    rest,       \* runs DeleteAllRuns has still to delete
    doomed,     \* blobs of the removed items; after the count: to be unlinked
    proc,       \* the process: "up" or "down"
    crashes, errors,
    unsaved,    \* history: runs with a failed or interrupted store write
    late,       \* history: runs stored since a cleanup counted references
    exposed     \* history: runs whose blobs overlapped with a cleanup, were hit
                \*          by a write that failed, or were never all there

rows == <<status, rinst, rkind, at, items, count>>
files == <<blobs, torn, sought>>
local == <<pc, run, wantI, wantK, todo, held, kinds, batch, rest, doomed>>
life == <<proc, crashes, errors>>
history == <<unsaved, late, exposed>>
vars == <<rows, files, inflight, jobs, local, life, history>>

Statuses == {"none", "pending", "running", "success", "failed", "deleted"}
QueuePcs == {"create", "send", "undo"}
WorkPcs == {"mark", "load", "torrents", "write", "success", "items", "retain", "fail", "clear"}
CleanPcs == {"collect", "rows", "count", "unlink"}
ImportPcs == {"import", "copy", "insert", "finish", "download", "fetch", "complete"}
Pcs == {"idle", "next"} \cup QueuePcs \cup WorkPcs \cup CleanPcs \cup ImportPcs

Exists(r) == status[r] \notin {"none", "deleted"}
Rows(i, k) == {r \in RunIds : Exists(r) /\ rinst[r] = i /\ rkind[r] = k}

Init ==
    /\ status = [r \in RunIds |-> "none"]
    /\ rinst = [r \in RunIds |-> None] /\ rkind = [r \in RunIds |-> None]
    /\ at = [r \in RunIds |-> 0]
    /\ items = [r \in RunIds |-> {}] /\ count = [r \in RunIds |-> 0]
    /\ blobs = {} /\ torn = {} /\ sought = [p \in Procs |-> {}]
    /\ inflight = [i \in Instances |-> None] /\ jobs = <<>>
    /\ pc = [p \in Procs |-> "idle"] /\ run = [p \in Procs |-> 0]
    /\ wantI = [p \in Procs |-> None] /\ wantK = [p \in Procs |-> None]
    /\ todo = [p \in Procs |-> {}] /\ held = [p \in Procs |-> {}]
    /\ kinds = [p \in Procs |-> {}] /\ batch = [p \in Procs |-> {}]
    /\ rest = [p \in Procs |-> {}] /\ doomed = [p \in Procs |-> {}]
    /\ proc = "up" /\ crashes = 0 /\ errors = 0
    /\ unsaved = {} /\ late = [p \in Procs |-> {}] /\ exposed = {}

-----------------------------------------------------------------------------
(* Local moves of a process p. *)

Goto(p, l) == pc' = [pc EXCEPT ![p] = l]

(* The process ends its work and forgets it. *)
Return(p) ==
    /\ pc' = [pc EXCEPT ![p] = "idle"]
    /\ run' = [run EXCEPT ![p] = 0]
    /\ wantI' = [wantI EXCEPT ![p] = None] /\ wantK' = [wantK EXCEPT ![p] = None]
    /\ todo' = [todo EXCEPT ![p] = {}] /\ held' = [held EXCEPT ![p] = {}]
    /\ kinds' = [kinds EXCEPT ![p] = {}] /\ batch' = [batch EXCEPT ![p] = {}]
    /\ rest' = [rest EXCEPT ![p] = {}] /\ doomed' = [doomed EXCEPT ![p] = {}]

(* Only pc moves. *)
Step(p, from, to) ==
    /\ pc[p] = from /\ Goto(p, to)
    /\ UNCHANGED <<run, wantI, wantK, todo, held, kinds, batch, rest, doomed>>

(* A store call fails. *)
StoreError == errors < MaxErrors /\ errors' = errors + 1 /\ UNCHANGED <<proc, crashes>>

(* ... and r's row misses a write. *)
Fault(r) == StoreError /\ unsaved' = unsaved \cup {r}

(* Mutant: the row is written back when it is gone. *)
SetStatusUpsert(r, s) == status' = [status EXCEPT ![r] = s]

(* UpdateRunMetadata: nothing happens, but for an ignored error, when the   *)
(* row is gone.                                                             *)
SetStatus(r, s) ==
    status' = IF Exists(r) THEN [status EXCEPT ![r] = s] ELSE status

-----------------------------------------------------------------------------
(* QueueRun, by a request or the scheduler.                                 *)

IsNextId(r) == status[r] = "none" /\ \A q \in RunIds : q < r => status[q] # "none"

(* Mutant: the map is looked at, but the entry is made with the row. *)
MarkInstanceLate(c, i, k) ==
    /\ proc = "up" /\ pc[c] = "idle" /\ inflight[i] = None
    /\ Goto(c, "create")
    /\ wantI' = [wantI EXCEPT ![c] = i] /\ wantK' = [wantK EXCEPT ![c] = k]
    /\ UNCHANGED <<rows, files, inflight, jobs, run, todo, held, kinds, batch, rest,
                   doomed, life, history>>

(* markInstance: a busy instance refuses the request (ErrInstanceBusy). *)
MarkInstance(c, i, k) ==
    /\ proc = "up" /\ pc[c] = "idle" /\ inflight[i] = None
    /\ inflight' = [inflight EXCEPT ![i] = 0]
    /\ Goto(c, "create")
    /\ wantI' = [wantI EXCEPT ![c] = i] /\ wantK' = [wantK EXCEPT ![c] = k]
    /\ UNCHANGED <<rows, files, jobs, run, todo, held, kinds, batch, rest, doomed,
                   life, history>>

(* isBackupMissed: never while the latest run of the kind is pending or    *)
(* running.  Otherwise the cooldown and the interval may have passed.      *)
IsBackupMissed(i, k) ==
    \/ Rows(i, k) = {}
    \/ \E r \in Rows(i, k) : /\ \A q \in Rows(i, k) : at[q] <= at[r]
                             /\ status[r] \notin {"pending", "running"}

ScheduleDueBackup(i, k) == IsBackupMissed(i, k) /\ MarkInstance(Scheduler, i, k)

(* CreateRun, and the entry of inflight gets the run's id. *)
CreateRun(c) ==
    /\ pc[c] = "create"
    /\ \E r \in RunIds :
         /\ IsNextId(r)
         /\ status' = [status EXCEPT ![r] = "pending"]
         /\ rinst' = [rinst EXCEPT ![r] = wantI[c]]
         /\ rkind' = [rkind EXCEPT ![r] = wantK[c]]
         /\ at' = [at EXCEPT ![r] = r]
         /\ inflight' = [inflight EXCEPT ![wantI[c]] = r]
         /\ run' = [run EXCEPT ![c] = r]
    /\ Goto(c, "send")
    /\ wantI' = [wantI EXCEPT ![c] = None] /\ wantK' = [wantK EXCEPT ![c] = None]
    /\ UNCHANGED <<items, count, files, jobs, todo, held, kinds, batch, rest, doomed,
                   life, history>>

(* The row cannot be created: the request's context ends, or a store error. *)
CreateRunFails(c) ==
    /\ pc[c] = "create"
    /\ inflight' = [inflight EXCEPT ![wantI[c]] = IF @ = 0 THEN None ELSE @]
    /\ Return(c)
    /\ UNCHANGED <<rows, files, jobs, life, history>>

(* The send blocks while the channel is full ... *)
SendJob(c) ==
    /\ pc[c] = "send" /\ Len(jobs) < JobsCap
    /\ jobs' = Append(jobs, run[c])
    /\ Return(c)
    /\ UNCHANGED <<rows, files, inflight, life, history>>

(* ... and gives up when the request is canceled, whether or not there is   *)
(* room by then; the entry goes first, then the row.                        *)
CancelSend(c) ==
    LET i == rinst[run[c]] IN
    /\ c \in Callers /\ Step(c, "send", "undo")
    /\ inflight' = [inflight EXCEPT ![i] = IF @ = run[c] THEN None ELSE @]
    /\ UNCHANGED <<rows, files, jobs, life, history>>

DeleteCanceledRow(c) ==
    /\ pc[c] = "undo"
    /\ \/ SetStatus(run[c], "deleted") /\ UNCHANGED <<life, unsaved>>
       \/ UNCHANGED status /\ Fault(run[c])
    /\ Return(c)
    /\ UNCHANGED <<rinst, rkind, at, items, count, files, inflight, jobs, late, exposed>>

-----------------------------------------------------------------------------
(* worker and handleJob. *)

TakeJob(w) ==
    /\ proc = "up" /\ pc[w] = "idle" /\ jobs # <<>>
    /\ jobs' = Tail(jobs)
    /\ run' = [run EXCEPT ![w] = Head(jobs)]
    /\ Goto(w, "mark")
    /\ UNCHANGED <<rows, files, inflight, wantI, wantK, todo, held, kinds, batch,
                   rest, doomed, life, history>>

(* Mutant: a job whose row is gone is dropped without its clean-up. *)
MarkRunningReturns(w) ==
    /\ pc[w] = "mark"
    /\ \/ Exists(run[w]) /\ Step(w, "mark", "load") /\ SetStatus(run[w], "running")
       \/ ~Exists(run[w]) /\ Return(w) /\ UNCHANGED status
    /\ UNCHANGED <<rinst, rkind, at, items, count, files, inflight, jobs, life, history>>

(* "running"; if the row is gone, or the write fails, the job is over. *)
MarkRunning(w) ==
    /\ pc[w] = "mark"
    /\ \/ /\ Exists(run[w]) /\ Step(w, "mark", "load") /\ SetStatus(run[w], "running")
          /\ UNCHANGED <<life, unsaved>>
       \/ /\ ~Exists(run[w]) /\ Step(w, "mark", "clear")
          /\ UNCHANGED <<status, life, unsaved>>
       \/ Step(w, "mark", "clear") /\ Fault(run[w]) /\ UNCHANGED status
    /\ UNCHANGED <<rinst, rkind, at, items, count, files, inflight, jobs, late, exposed>>

(* executeBackup: settings, the instance's torrents, categories and tags. *)
LoadTorrents(w) ==
    /\ pc[w] = "load" /\ Goto(w, "torrents")
    /\ \E T \in SUBSET Torrents : todo' = [todo EXCEPT ![w] = T]
    /\ UNCHANGED <<rows, files, inflight, jobs, run, wantI, wantK, held, kinds, batch,
                   rest, doomed, life, history>>

(* loadCachedTorrent: the stored items of the instance for torrent t. The   *)
(* newest one decides; which one that is, is left open.                     *)
Cached(i, t) == {b \in Blobs : \E q \in RunIds : rinst[q] = i /\ <<t, b>> \in items[q]}

(* The blob an import has open for its copy. *)
Opens(p) == {b \in Blobs : pc[p] = "copy" /\ \E t \in Torrents : <<t, b>> \in sought[p]}

Copying == UNION {Opens(p) : p \in Procs}

(* The blobs of the items p has collected and not yet stored. *)
Relies(p) ==
    {b \in Blobs : /\ pc[p] \in {"torrents", "write", "success", "items",
                                 "import", "copy", "insert"}
                   /\ \E t \in Torrents : <<t, b>> \in held[p]}
    \cup Opens(p)

(* The runs that b serves. *)
Users(b) ==
    {r \in RunIds : \E t \in Torrents : <<t, b>> \in items[r]}
    \cup {run[q] : q \in {q \in Procs : b \in Relies(q)}}

(* os.WriteFile, which truncates a file that is there: it succeeds, ...     *)
FileWritten(b) ==
    blobs' = blobs \cup {b} /\ torn' = torn \ {b} /\ UNCHANGED exposed

(* ... or leaves what it has written so far. *)
FileCut(b) ==
    blobs' = blobs \ {b} /\ torn' = torn \cup {b} /\ exposed' = exposed \cup Users(b)

(* One torrent: the file of its cached blob, or the one named after its     *)
(* export or its patched data, exists and is taken as it is; or that file   *)
(* is missing; or there is nothing to export yet.                           *)
BackUpTorrent(w) ==
    /\ pc[w] = "torrents"
    /\ \E t \in todo[w] :
         /\ todo' = [todo EXCEPT ![w] = @ \ {t}]
         /\ \/ \E b \in blobs \cup torn :
                 /\ held' = [held EXCEPT ![w] = @ \cup {<<t, b>>}]
                 /\ exposed' = IF b \in torn THEN exposed \cup {run[w]} ELSE exposed
                 /\ UNCHANGED <<pc, sought>>
            \/ \E b \in Blobs \ (blobs \cup torn) :
                 /\ Goto(w, "write") /\ sought' = [sought EXCEPT ![w] = {<<t, b>>}]
                 /\ UNCHANGED <<held, exposed>>
            \/ /\ LET C == Cached(rinst[run[w]], t)
                  IN  C = {} \/ ~(C \subseteq blobs \cup torn)
               /\ UNCHANGED <<held, pc, sought, exposed>>
    /\ UNCHANGED <<rows, blobs, torn, inflight, jobs, run, wantI, wantK, kinds, batch,
                   rest, doomed, life, unsaved, late>>

(* The missing file is written, which fails the run when it fails. *)
WriteBlob(w) ==
    /\ pc[w] = "write" /\ sought' = [sought EXCEPT ![w] = {}]
    /\ \E t \in Torrents, b \in Blobs :
         /\ sought[w] = {<<t, b>>}
         /\ \/ /\ FileWritten(b) /\ Goto(w, "torrents")
               /\ held' = [held EXCEPT ![w] = @ \cup {<<t, b>>}]
            \/ /\ FileCut(b) \/ UNCHANGED <<blobs, torn, exposed>>
               /\ Goto(w, "fail") /\ UNCHANGED held
    /\ UNCHANGED <<rows, inflight, jobs, run, wantI, wantK, todo, kinds, batch, rest,
                   doomed, life, unsaved, late>>

TorrentsDone(w) ==
    /\ todo[w] = {} /\ Step(w, "torrents", "success")
    /\ UNCHANGED <<rows, files, inflight, jobs, life, history>>

(* Any stage of executeBackup may fail; blobs written so far stay. *)
ExecuteFails(w) ==
    /\ pc[w] \in {"load", "torrents"} /\ Step(w, pc[w], "fail")
    /\ UNCHANGED <<rows, files, inflight, jobs, life, history>>

(* Mutant: a failed backup is not written down. *)
MarkFailedSilent(w) ==
    /\ Step(w, "fail", "clear")
    /\ UNCHANGED <<rows, files, inflight, jobs, life, history>>

MarkFailed(w) ==
    /\ Step(w, "fail", "clear")
    /\ \/ SetStatus(run[w], "failed") /\ UNCHANGED <<life, unsaved>>
       \/ UNCHANGED status /\ Fault(run[w])
    /\ UNCHANGED <<rinst, rkind, at, items, count, files, inflight, jobs, late, exposed>>

(* "success" and torrent_count, one transaction; its error is ignored. *)
MarkSuccess(w) ==
    /\ Step(w, "success", "items")
    /\ \/ /\ SetStatus(run[w], "success")
          /\ count' = IF Exists(run[w])
                      THEN [count EXCEPT ![run[w]] = Cardinality(held[w])] ELSE count
          /\ UNCHANGED <<life, unsaved>>
       \/ UNCHANGED <<status, count>> /\ Fault(run[w])
    /\ UNCHANGED <<rinst, rkind, at, items, files, inflight, jobs, late, exposed>>

(* Every cleanup between its count and its unlink misses these items. *)
Store(r, its) ==
    /\ items' = IF Exists(r) THEN [items EXCEPT ![r] = its] ELSE items
    /\ late' = [p \in Procs |-> IF pc[p] = "unlink" THEN late[p] \cup {r} ELSE late[p]]

(* InsertItems: the foreign key refuses the items of a deleted run. *)
InsertItems(w) ==
    /\ pc[w] = "items" /\ Goto(w, "retain")
    /\ \/ Store(run[w], held[w]) /\ UNCHANGED <<life, unsaved>>
       \/ UNCHANGED <<items, late>> /\ held[w] # {} /\ Fault(run[w])
    /\ held' = [held EXCEPT ![w] = {}]
    /\ kinds' = [kinds EXCEPT ![w] = Kinds]
    /\ UNCHANGED <<status, rinst, rkind, at, count, files, inflight, jobs, run, wantI,
                   wantK, todo, batch, rest, doomed, exposed>>

-----------------------------------------------------------------------------
(* applyRetention: kind after kind, the runs after the Keep newest ones,    *)
(* whatever their status.  Equal times come in any order.                   *)

(* Mutant: the list is read in the wrong order. *)
SurplusNewest(i, k, S) ==
    /\ S \subseteq Rows(i, k)
    /\ Cardinality(S) = IF Cardinality(Rows(i, k)) > Keep[k]
                        THEN Cardinality(Rows(i, k)) - Keep[k] ELSE 0
    /\ \A r \in S, q \in Rows(i, k) \ S : at[r] >= at[q]

Surplus(i, k, S) ==
    /\ S \subseteq Rows(i, k)
    /\ Cardinality(S) = IF Cardinality(Rows(i, k)) > Keep[k]
                        THEN Cardinality(Rows(i, k)) - Keep[k] ELSE 0
    /\ \A r \in S, q \in Rows(i, k) \ S : at[r] <= at[q]

SelectSurplus(w) ==
    /\ pc[w] = "retain"
    /\ \E k \in kinds[w] :
         /\ kinds' = [kinds EXCEPT ![w] = @ \ {k}]
         /\ \E S \in SUBSET Rows(rinst[run[w]], k) :
              /\ Surplus(rinst[run[w]], k, S)
              /\ batch' = [batch EXCEPT ![w] = S]
              /\ Goto(w, IF S = {} THEN "retain" ELSE "collect")
    /\ UNCHANGED <<rows, files, inflight, jobs, run, wantI, wantK, todo, held, rest,
                   doomed, life, history>>

(* All kinds are done, or one could not be selected, which ends it. *)
RetentionDone(w) ==
    /\ Step(w, "retain", "clear")
    /\ \/ kinds[w] = {} /\ UNCHANGED life
       \/ kinds[w] # {} /\ StoreError
    /\ UNCHANGED <<rows, files, inflight, jobs, history>>

(* Mutant: whatever run the instance has, its entry goes. *)
ClearInstanceAny(w) ==
    /\ pc[w] = "clear"
    /\ inflight' = [i \in Instances |-> None]
    /\ Return(w)
    /\ UNCHANGED <<rows, files, jobs, life, history>>

ClearInstance(w) ==
    LET i == rinst[run[w]] IN
    /\ pc[w] = "clear"
    /\ inflight' = [inflight EXCEPT ![i] = IF @ = run[w] THEN None ELSE @]
    /\ Return(w)
    /\ UNCHANGED <<rows, files, jobs, life, history>>

-----------------------------------------------------------------------------
(* cleanupRunFiles, for retention, and DeleteRun, for a request.            *)

DeleteRuns(c, R) ==
    /\ proc = "up" /\ pc[c] = "idle"
    /\ rest' = [rest EXCEPT ![c] = R]
    /\ Goto(c, "next")
    /\ UNCHANGED <<rows, files, inflight, jobs, run, wantI, wantK, todo, held, kinds,
                   batch, doomed, life, history>>

DeleteRun(c, r) == Exists(r) /\ DeleteRuns(c, {r})

DeleteAllRuns(c, i) == DeleteRuns(c, {r \in RunIds : Exists(r) /\ rinst[r] = i})

(* DeleteRun's first read; a run that is gone by then is skipped. *)
DeleteNext(c) ==
    /\ pc[c] = "next"
    /\ \E r \in rest[c] :
         /\ rest' = [rest EXCEPT ![c] = @ \ {r}]
         /\ batch' = [batch EXCEPT ![c] = IF Exists(r) THEN {r} ELSE {}]
         /\ Goto(c, IF Exists(r) THEN "collect" ELSE "next")
    /\ UNCHANGED <<rows, files, inflight, jobs, run, wantI, wantK, todo, held, kinds,
                   doomed, life, history>>

(* A request that has nothing left to delete, or is canceled: its context   *)
(* makes the store calls fail and keeps files from being removed.           *)
EndDelete(c) ==
    /\ c \in Callers
    /\ pc[c] \in CleanPcs \cup {"next"}
    /\ Return(c)
    /\ UNCHANGED <<rows, files, inflight, jobs, life, history>>

(* The items that go with the runs name the blobs to look at; when they     *)
(* cannot be listed, the blobs are left where they are.  Retention passes   *)
(* over runs it cannot load.                                                *)
CollectItems(p) ==
    /\ pc[p] = "collect"
    /\ \/ /\ Goto(p, "rows") /\ UNCHANGED <<batch, life>>
          /\ doomed' = [doomed EXCEPT ![p] =
               {b \in Blobs : \E r \in batch[p], t \in Torrents : <<t, b>> \in items[r]}]
       \/ Goto(p, "rows") /\ UNCHANGED <<batch, doomed>> /\ StoreError
       \/ /\ p \in Workers /\ Goto(p, "retain") /\ UNCHANGED doomed /\ StoreError
          /\ batch' = [batch EXCEPT ![p] = {}]
    /\ UNCHANGED <<rows, files, inflight, jobs, run, wantI, wantK, todo, held, kinds,
                   rest, history>>

(* CleanupRuns: items and runs, one transaction.  Retention goes on when it *)
(* fails; a request ends (EndDelete).                                       *)
CleanupRuns(p) ==
    /\ Step(p, "rows", "count")
    /\ \/ /\ status' = [r \in RunIds |-> IF r \in batch[p] THEN "deleted" ELSE status[r]]
          /\ items' = [r \in RunIds |-> IF r \in batch[p] THEN {} ELSE items[r]]
          /\ UNCHANGED life
       \/ p \in Workers /\ StoreError /\ UNCHANGED <<status, items>>
    /\ UNCHANGED <<rinst, rkind, at, count, files, inflight, jobs, history>>

Referenced == {b \in Blobs : \E r \in RunIds, t \in Torrents : <<t, b>> \in items[r]}

(* Mutant: the blobs of the deleted items go without a look at the others. *)
CountReferencesBlind(p) ==
    /\ pc[p] = "count" /\ Goto(p, "unlink")
    /\ late' = [late EXCEPT ![p] = {}]
    /\ UNCHANGED <<rows, files, inflight, jobs, run, wantI, wantK, todo, held, kinds,
                   batch, rest, doomed, life, unsaved, exposed>>

(* CountBlobReferencesBatch.  When it and the single counts fail, the blobs  *)
(* count as unreferenced.                                                    *)
CountReferences(p) ==
    /\ pc[p] = "count" /\ Goto(p, "unlink")
    /\ \/ /\ doomed' = [doomed EXCEPT ![p] = @ \ Referenced]
          /\ late' = [late EXCEPT ![p] = {}]
          /\ UNCHANGED life
       \/ /\ UNCHANGED doomed /\ StoreError
          /\ late' = [late EXCEPT ![p] = RunIds]
    /\ UNCHANGED <<rows, files, inflight, jobs, run, wantI, wantK, todo, held, kinds,
                   batch, rest, unsaved, exposed>>

UnlinkBlobs(p) ==
    /\ pc[p] = "unlink" /\ Goto(p, IF p \in Workers THEN "retain" ELSE "next")
    /\ blobs' = blobs \ doomed[p] /\ torn' = torn \ doomed[p]
    /\ exposed' = exposed
         \cup {r \in late[p] : \E t \in Torrents, b \in doomed[p] : <<t, b>> \in items[r]}
         \cup {run[q] : q \in {q \in Procs : Relies(q) \cap doomed[p] # {}}}
    /\ late' = [late EXCEPT ![p] = {}]
    /\ batch' = [batch EXCEPT ![p] = {}] /\ doomed' = [doomed EXCEPT ![p] = {}]
    /\ UNCHANGED <<rows, sought, inflight, jobs, run, wantI, wantK, todo, held, kinds,
                   rest, life, unsaved>>

-----------------------------------------------------------------------------
(* ImportManifestFromDir: a run that no job and no inflight entry stands    *)
(* for, with the manifest's own time.                                       *)

ImportManifest(c, i, k) ==
    /\ proc = "up" /\ pc[c] = "idle"
    /\ \E r \in RunIds, a \in 0 .. MaxRuns :
         /\ IsNextId(r) /\ a \in {0, r}
         /\ status' = [status EXCEPT ![r] = "running"]
         /\ rinst' = [rinst EXCEPT ![r] = i] /\ rkind' = [rkind EXCEPT ![r] = k]
         /\ at' = [at EXCEPT ![r] = a]
         /\ run' = [run EXCEPT ![c] = r]
    /\ Goto(c, "import")
    /\ UNCHANGED <<items, count, files, inflight, jobs, wantI, wantK, todo, held, kinds,
                   batch, rest, doomed, life, history>>

(* An item of the manifest: copyTorrentFromTemp opens its blob for the file *)
(* that came along, which truncates one that other runs share; or no file,  *)
(* or none that looks like a torrent, came along (todo).                    *)
ReadManifest(c) ==
    /\ pc[c] = "import"
    /\ \E t \in Torrents, b \in Blobs :
         /\ \A a \in Blobs : <<t, a>> \notin held[c]
         /\ \/ /\ blobs' = blobs \ {b} /\ torn' = torn \cup {b}
               /\ sought' = [sought EXCEPT ![c] = {<<t, b>>}]
               /\ Goto(c, "copy") /\ UNCHANGED <<held, todo>>
            \/ /\ held' = [held EXCEPT ![c] = @ \cup {<<t, b>>}]
               /\ todo' = [todo EXCEPT ![c] = @ \cup {t}]
               /\ UNCHANGED <<files, pc>>
    /\ UNCHANGED <<rows, inflight, jobs, run, wantI, wantK, kinds, batch, rest, doomed,
                   life, history>>

(* The copy is done, and the file whole when no other copy of it is open;   *)
(* or the name, or what was written, was lost on the way to somebody else;  *)
(* or the copy fails and the name is removed, whoever relies on it, or      *)
(* cannot be removed.                                                       *)
CopyBlob(c) ==
    /\ pc[c] = "copy" /\ Goto(c, "import") /\ sought' = [sought EXCEPT ![c] = {}]
    /\ \E t \in Torrents, b \in Blobs :
         LET shared == \E q \in Procs \ {c} : b \in Opens(q) IN
         /\ sought[c] = {<<t, b>>}
         /\ held' = [held EXCEPT ![c] = @ \cup {<<t, b>>}]
         /\ \/ b \in torn /\ ~shared /\ FileWritten(b) /\ UNCHANGED todo
            \/ /\ b \in blobs \/ (b \in torn /\ shared)
               /\ UNCHANGED <<blobs, torn, exposed, todo>>
            \/ /\ run[c] \in exposed /\ b \notin blobs /\ exposed' = exposed \cup Users(b)
               /\ UNCHANGED <<blobs, torn, todo>>
            \/ /\ todo' = [todo EXCEPT ![c] = @ \cup {t}]
               /\ \/ blobs' = blobs \ {b} /\ torn' = torn \ {b}
                  \/ UNCHANGED <<blobs, torn>>
               /\ exposed' = IF b \in blobs' THEN exposed ELSE exposed \cup Users(b)
    /\ UNCHANGED <<rows, inflight, jobs, run, wantI, wantK, kinds, batch, rest, doomed,
                   life, unsaved, late>>

ManifestDone(c) ==
    /\ Step(c, "import", "insert")
    /\ UNCHANGED <<rows, files, inflight, jobs, life, history>>

(* No valid item, or the request was canceled or the run deleted before the *)
(* items or the success could be stored: the row is left as it is.          *)
ImportFails(c) ==
    /\ pc[c] \in {"insert", "finish"} \/ (pc[c] = "import" /\ held[c] = {})
    /\ unsaved' = unsaved \cup {run[c]}
    /\ Return(c)
    /\ UNCHANGED <<rows, files, inflight, jobs, life, late, exposed>>

(* InsertItems, and torrent_count, which the request writes last and nobody *)
(* reads before.                                                            *)
ImportItems(c) ==
    /\ pc[c] = "insert" /\ Exists(run[c])
    /\ Goto(c, IF todo[c] = {} THEN "finish" ELSE "download")
    /\ Store(run[c], held[c])
    /\ count' = [count EXCEPT ![run[c]] = Cardinality(held[c])]
    /\ exposed' = IF todo[c] = {} THEN exposed ELSE exposed \cup {run[c]}
    /\ UNCHANGED <<status, rinst, rkind, at, files, inflight, jobs, run, wantI, wantK,
                   todo, held, kinds, batch, rest, doomed, life, unsaved>>

(* downloadMissingTorrents: a file that exists is taken as it is, an export *)
(* that fails leaves the item without its blob; the export takes its time.  *)
DownloadMissing(c) ==
    /\ pc[c] = "download"
    /\ \E t \in todo[c], b \in Blobs :
         /\ <<t, b>> \in held[c]
         /\ todo' = [todo EXCEPT ![c] = @ \ {t}]
         /\ \/ /\ Goto(c, IF todo'[c] = {} THEN "complete" ELSE "download")
               /\ UNCHANGED sought
            \/ /\ b \notin blobs \cup torn /\ Goto(c, "fetch")
               /\ sought' = [sought EXCEPT ![c] = {<<t, b>>}]
    /\ UNCHANGED <<rows, blobs, torn, inflight, jobs, run, wantI, wantK, held, kinds,
                   batch, rest, doomed, life, history>>

(* The export is written, to a file that may have come up by now. *)
FetchBlob(c) ==
    /\ pc[c] = "fetch" /\ sought' = [sought EXCEPT ![c] = {}]
    /\ Goto(c, IF todo[c] = {} THEN "complete" ELSE "download")
    /\ \E t \in Torrents, b \in Blobs :
         /\ sought[c] = {<<t, b>>}
         /\ FileWritten(b) \/ FileCut(b) \/ UNCHANGED <<blobs, torn, exposed>>
    /\ UNCHANGED <<rows, inflight, jobs, run, wantI, wantK, todo, held, kinds, batch, rest,
                   doomed, life, unsaved, late>>

(* "success", by the request or by markImportComplete in the background. *)
CompleteImport(c) ==
    /\ pc[c] \in {"finish", "complete"}
    /\ \/ SetStatus(run[c], "success") /\ UNCHANGED <<life, unsaved>>
       \/ UNCHANGED status /\ Fault(run[c])
    /\ Return(c)
    /\ UNCHANGED <<rinst, rkind, at, items, count, files, inflight, jobs, late, exposed>>

-----------------------------------------------------------------------------
(* The process. *)

(* Runs whose success is written and whose items are not. *)
Halfway == {run[w] : w \in {w \in Workers : pc[w] = "items" /\ held[w] # {}}}

Crash ==
    /\ proc = "up" /\ crashes < MaxCrashes
    /\ proc' = "down" /\ crashes' = crashes + 1
    /\ inflight' = [i \in Instances |-> None] /\ jobs' = <<>>
    /\ pc' = [p \in Procs |-> "idle"] /\ run' = [p \in Procs |-> 0]
    /\ wantI' = [p \in Procs |-> None] /\ wantK' = [p \in Procs |-> None]
    /\ todo' = [p \in Procs |-> {}] /\ held' = [p \in Procs |-> {}]
    /\ kinds' = [p \in Procs |-> {}] /\ batch' = [p \in Procs |-> {}]
    /\ rest' = [p \in Procs |-> {}] /\ doomed' = [p \in Procs |-> {}]
    /\ late' = [p \in Procs |-> {}]
    /\ unsaved' = unsaved \cup Halfway
    /\ sought' = [p \in Procs |-> {}]
    /\ exposed' = exposed \cup UNION {Users(b) : b \in torn \cap Copying}
    /\ UNCHANGED <<rows, blobs, torn, errors>>

(* The incomplete rows S become failed, the others are let be. *)
Recover(S) == status' = [r \in RunIds |-> IF r \in S THEN "failed" ELSE status[r]]

(* Mutant: only running rows are recovered. *)
StartRunningOnly ==
    /\ proc = "down" /\ proc' = "up"
    /\ Recover({r \in RunIds : status[r] = "running"})
    /\ UNCHANGED <<rinst, rkind, at, items, count, files, inflight, jobs, local,
                   crashes, errors, history>>

(* Start: recoverIncompleteRuns comes before the workers, the scheduler and  *)
(* the HTTP server.  It updates the rows in chunks, oldest first; when the   *)
(* rows cannot be read or a chunk not be written, the service starts anyhow. *)
Start ==
    LET incomplete == {r \in RunIds : status[r] \in {"pending", "running"}} IN
    /\ proc = "down" /\ proc' = "up"
    /\ \/ Recover(incomplete) /\ UNCHANGED <<errors, unsaved>>
       \/ \E S \in SUBSET incomplete :
            /\ S # incomplete /\ \A r \in S, q \in incomplete \ S : at[r] <= at[q]
            /\ Recover(S)
            /\ errors < MaxErrors /\ errors' = errors + 1
            /\ unsaved' = unsaved \cup (incomplete \ S)
    /\ UNCHANGED <<rinst, rkind, at, items, count, files, inflight, jobs, local,
                   crashes, late, exposed>>

-----------------------------------------------------------------------------
QueueStep(c) ==
    CreateRun(c) \/ CreateRunFails(c) \/ SendJob(c) \/ CancelSend(c) \/ DeleteCanceledRow(c)

CleanStep(p) ==
    CollectItems(p) \/ CleanupRuns(p) \/ CountReferences(p) \/ UnlinkBlobs(p)

ImportStep(c) ==
    \/ ReadManifest(c) \/ CopyBlob(c) \/ ManifestDone(c) \/ ImportItems(c)
    \/ ImportFails(c) \/ DownloadMissing(c) \/ FetchBlob(c) \/ CompleteImport(c)

WorkStep(w) ==
    \/ TakeJob(w) \/ MarkRunning(w) \/ LoadTorrents(w) \/ BackUpTorrent(w)
    \/ WriteBlob(w) \/ TorrentsDone(w) \/ ExecuteFails(w) \/ MarkFailed(w) \/ MarkSuccess(w)
    \/ InsertItems(w) \/ SelectSurplus(w) \/ RetentionDone(w) \/ ClearInstance(w)

CallStep(c) == QueueStep(c) \/ DeleteNext(c) \/ EndDelete(c) \/ ImportStep(c)

Request(c) ==
    \/ \E i \in Instances :
         \/ \E k \in AllKinds : MarkInstance(c, i, k) \/ ImportManifest(c, i, k)
         \/ DeleteAllRuns(c, i)
    \/ \E r \in RunIds : DeleteRun(c, r)

Next ==
    \/ \E w \in Workers : WorkStep(w) \/ CleanStep(w)
    \/ \E c \in Callers : CallStep(c) \/ CleanStep(c) \/ Request(c)
    \/ QueueStep(Scheduler) \/ \E i \in Instances, k \in Kinds : ScheduleDueBackup(i, k)
    \/ Crash \/ Start

Spec == Init /\ [][Next]_vars

(* The Go scheduler runs every goroutine that can take a step, a blocked    *)
(* send gets its turn, and a process that died is started again.  Nobody is *)
(* assumed to make requests, nor to cancel them.                            *)
Fairness ==
    /\ \A w \in Workers : WF_vars(WorkStep(w) \/ CleanStep(w))
    /\ \A c \in Queuers :
         /\ WF_vars(\/ CreateRun(c) \/ CreateRunFails(c) \/ DeleteCanceledRow(c)
                    \/ DeleteNext(c) \/ CleanStep(c) \/ ImportStep(c))
         /\ SF_vars(SendJob(c))
    /\ WF_vars(Start)

FairSpec == Spec /\ Fairness

-----------------------------------------------------------------------------
(* Type invariant: rows, files, channel and processes have their types, and *)
(* a process beyond its first step names a run.                             *)
TypeOK ==
    /\ status \in [RunIds -> Statuses]
    /\ rinst \in [RunIds -> Instances \cup {None}]
    /\ rkind \in [RunIds -> AllKinds \cup {None}]
    /\ at \in [RunIds -> 0 .. MaxRuns]
    /\ items \in [RunIds -> SUBSET Items] /\ count \in [RunIds -> Nat]
    /\ blobs \subseteq Blobs /\ torn \subseteq Blobs /\ sought \in [Procs -> SUBSET Items]
    /\ inflight \in [Instances -> (0 .. MaxRuns) \cup {None}]
    /\ jobs \in Seq(RunIds) /\ Len(jobs) <= JobsCap
    /\ pc \in [Procs -> Pcs] /\ run \in [Procs -> 0 .. MaxRuns]
    /\ wantI \in [Procs -> Instances \cup {None}]
    /\ wantK \in [Procs -> AllKinds \cup {None}]
    /\ todo \in [Procs -> SUBSET Torrents] /\ held \in [Procs -> SUBSET Items]
    /\ kinds \in [Procs -> SUBSET Kinds]
    /\ batch \in [Procs -> SUBSET RunIds] /\ rest \in [Procs -> SUBSET RunIds]
    /\ doomed \in [Procs -> SUBSET Blobs]
    /\ proc \in {"up", "down"} /\ crashes \in Nat /\ errors \in Nat
    /\ unsaved \subseteq RunIds /\ exposed \subseteq RunIds
    /\ late \in [Procs -> SUBSET RunIds]

(* Who stands for instance i: a queuer between markInstance and its send,   *)
(* a job in the channel, a worker.                                          *)
Holders(i) ==
    {c \in Queuers : pc[c] = "create" /\ wantI[c] = i}
    \cup {p \in Queuers : pc[p] = "send" /\ rinst[run[p]] = i}
    \cup {n \in DOMAIN jobs : rinst[jobs[n]] = i}
    \cup {w \in Workers : pc[w] # "idle" /\ rinst[run[w]] = i}

(* inflight is exact: an instance has an entry exactly while one request,   *)
(* queued job or worker stands for it, never two, whatever cancellations,   *)
(* full channel, deletions of the row and failed writes come between.       *)
InflightExact ==
    \A i \in Instances :
       Cardinality(Holders(i)) = IF inflight[i] = None THEN 0 ELSE 1

(* A pending or running row always has someone who will move it on, so it   *)
(* blocks the schedule of its kind (isBackupMissed) only for a while; but   *)
(* for rows whose write failed, imports that gave up and rows the recovery  *)
(* at the start could not write.                                            *)
NoStrandedRun ==
    \A r \in RunIds :
       status[r] \in {"pending", "running"} /\ proc = "up" =>
          \/ r \in unsaved
          \/ \E p \in Procs : run[p] = r /\ pc[p] # "clear"
          \/ \E n \in DOMAIN jobs : jobs[n] = r

(* A stored item's blob is on disk and whole, but for runs that are         *)
(* exposed: a cleanup overlapped with the backup between its look at the    *)
(* blob and the insertion of its items, or between that cleanup's count and *)
(* its unlink, or that count failed; a write or copy of the same blob       *)
(* failed or was cut off; the blob was torn when the backup took it, or     *)
(* never there (import).  And but for the moment an import rewrites it.     *)
(* Deleting runs one after the other, and imports and backups whose writes  *)
(* succeed, never take a shared blob from a run that stays.                 *)
BlobsKept ==
    \A r \in RunIds \ exposed :
       \A t \in Torrents, b \in Blobs :
          <<t, b>> \in items[r] => b \in blobs \cup (torn \cap Copying)

(* A successful run has as many items as its torrent_count claims, once the *)
(* worker is past InsertItems, unless that write failed or was cut off.     *)
SnapshotComplete ==
    \A r \in RunIds \ unsaved :
       status[r] = "success" =>
          \/ Cardinality(items[r]) >= count[r]
          \/ \E w \in Workers : pc[w] = "items" /\ run[w] = r

(* What a restore relies on: the items of a successful run are all there,   *)
(* and so are the blobs they name, through retention, deletions of other    *)
(* runs, imports and crashes, with the exceptions the two parts name.       *)
SnapshotsUsable == BlobsKept /\ SnapshotComplete

(* A finished run stays as it is until it is deleted, and a deleted one     *)
(* stays deleted: no late write of a worker, an import or the recovery      *)
(* revives it.                                                              *)
FinishedStays ==
    [][\A r \in RunIds :
         /\ status[r] \in {"success", "failed"} => status'[r] \in {status[r], "deleted"}
         /\ status[r] = "deleted" => status'[r] = "deleted" /\ items'[r] = {}]_vars

(* Retention removes a run only when Keep runs of its kind and instance     *)
(* were requested at the same time or later.                                *)
RetentionSparesNewest ==
    \A w \in Workers : \A r \in batch[w] :
       Cardinality({q \in RunIds \ {r} : /\ rinst[q] = rinst[r] /\ rkind[q] = rkind[r]
                                         /\ at[q] >= at[r]}) >= Keep[rkind[r]]

(* The runs whose queuer, job or worker is still there. *)
Attended ==
    {run[c] : c \in {c \in Queuers : pc[c] = "send"}}
    \cup {jobs[n] : n \in DOMAIN jobs}
    \cup {run[w] : w \in {w \in Workers : pc[w] # "idle"}}

(* Those of an instance, as SingleFlight sees them. *)
AtWork(i) == {r \in Attended : rinst[r] = i}

Exclusion == INSTANCE SingleFlight
    WITH Keys <- Instances, Jobs <- RunIds, busy <- [i \in Instances |-> AtWork(i)]

(* The service implements SingleFlight: a run of an instance is queued only *)
(* when no other run of it is queued or at work, however requests, the      *)
(* schedule, cancellations, deletions and restarts interleave.              *)
OneBackupPerInstance == Exclusion!Spec

(* An instance does not stay busy: the request, job or worker that stands   *)
(* for it lets it go, also when the row is deleted under it.                *)
InstanceReleased == \A i \in Instances : inflight[i] # None ~> inflight[i] = None

(* A run does not stay pending or running: its job, or the job's failure,    *)
(* writes a final status, or the row is deleted.                             *)
RunsEnd ==
    \A r \in RunIds :
       status[r] \in {"pending", "running"} ~>
          (status[r] \notin {"pending", "running"} \/ r \in unsaved)
=============================================================================
