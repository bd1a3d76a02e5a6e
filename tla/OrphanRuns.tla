----------------------------- MODULE OrphanRuns -----------------------------
(***************************************************************************)
(* The life of an orphan-scan run: internal/services/orphanscan/service.go *)
(* and its store, internal/models/orphan_scan.go.                          *)
(*                                                                         *)
(* A run is a database row that several goroutines write without looking   *)
(* at what it holds: the scan goroutine TriggerScan launches, the deletion *)
(* goroutine ConfirmDeletion launches (for a user, or for the scan itself  *)
(* when auto-cleanup is on), the API request of CancelRun, and the         *)
(* recovery at startup.  They meet in three places: the row's status, the  *)
(* in-memory map cancelFuncs, and the per-instance mutex.  Every store     *)
(* call and every critical section is one step, so that each window        *)
(* between a read and the write that relies on it is explored.             *)
(*                                                                         *)
(* What a scan finds and what a deletion removes is OrphanFiles' subject;  *)
(* here a scan only has a number of files.                                 *)
(***************************************************************************)
EXTENDS Naturals

CONSTANTS
    Instances,      \* the configured Transmission instances
    MaxRuns,        \* bound: run rows ever created
    Slots,          \* concurrent API requests or scheduler goroutines
    MaxFound,       \* bound: files one scan can find
    AutoCleanup,    \* settings.AutoCleanupEnabled
    AutoMax,        \* settings.AutoCleanupMaxFiles
    StoreErrors,    \* whether a store call may fail
    MaxCrashes,     \* bound: process deaths
    NoFunc,         \* cancelFuncs has no entry
    ScanFunc        \* the entry cancels the run's scan goroutine

ASSUME OrphanRunsAssumption ==
    /\ MaxRuns \in Nat /\ MaxFound \in Nat /\ AutoMax \in Nat \ {0}
    /\ MaxCrashes \in Nat
    /\ AutoCleanup \in BOOLEAN /\ StoreErrors \in BOOLEAN
    /\ Slots \cap (1 .. MaxRuns) = {}
    /\ NoFunc # ScanFunc
    /\ {NoFunc, ScanFunc} \cap (Slots \cup (1 .. MaxRuns)) = {}

RunIds == 1 .. MaxRuns

(* A deletion goroutine is named by whoever launched it: a request, or the *)
(* scan goroutine of a run (auto-cleanup).                                 *)
Spawners == Slots \cup RunIds

VARIABLES
    status,       \* the status column of each row; "none": no row yet
    inst,         \* its instance_id
    trig,         \* its triggered_by
    filesFound,   \* its files_found
    scanPc,       \* the scan goroutine of each run
    scanFound,    \* the files it found: len(allOrphans)
    scanCanceled, \* the scan goroutines whose context is canceled
    delPc,        \* the deletion goroutines
    delRun,       \* the run each one works on
    delCanceled,  \* the deletion goroutines whose context is canceled
    callPc,       \* the requests in progress
    callRun,      \* the run each one is about
    cancelFuncs,  \* run -> whose cancel function is registered
    locked,       \* instanceMu: the instances whose mutex is locked
    proc,         \* the process: "down", "recover1", "recover2", "up"
    prior,        \* the rows that are older than this process: 1 .. prior
    crashes,      \* process deaths so far
    revived,      \* history: the runs a write brought back from a finished status
    unsaved       \* history: the runs whose last status write failed

rows == <<status, inst, trig, filesFound, revived, unsaved>>
scans == <<scanPc, scanFound, scanCanceled>>
dels == <<delPc, delRun, delCanceled>>
calls == <<callPc, callRun>>
process == <<proc, prior, crashes>>
vars == <<rows, scans, dels, calls, cancelFuncs, locked, process>>

Statuses == {"none", "pending", "scanning", "preview_ready", "deleting",
             "completed", "failed", "canceled"}
ScanPcs == {"idle", "start", "work", "stats", "finish", "auto", "lock", "register", "exit"}
DelPcs == {"idle", "start", "work", "exit", "unlock"}
CallPcs == {"idle", "trigger", "lock", "register", "interrupt", "stale",
            "write"}

Init ==
    /\ status = [r \in RunIds |-> "none"]
    /\ inst \in [RunIds -> Instances]
    /\ trig = [r \in RunIds |-> "manual"]
    /\ filesFound = [r \in RunIds |-> 0]
    /\ scanPc = [r \in RunIds |-> "idle"]
    /\ scanFound = [r \in RunIds |-> 0]
    /\ delPc = [s \in Spawners |-> "idle"]
    /\ delRun = [s \in Spawners |-> 0]
    /\ callPc = [c \in Slots |-> "idle"]
    /\ callRun = [c \in Slots |-> 0]
    /\ scanCanceled = {} /\ delCanceled = {} /\ locked = {}
    /\ cancelFuncs = [r \in RunIds |-> NoFunc]
    /\ proc = "recover1"
    /\ prior = 0 /\ crashes = 0
    /\ revived = {} /\ unsaved = {}

-----------------------------------------------------------------------------
(* Store calls.  A call made under a canceled context fails; any other may *)
(* fail when StoreErrors says so.                                          *)

Outcomes(canceled) ==
    IF canceled THEN {"error"} ELSE IF StoreErrors THEN {"ok", "error"} ELSE {"ok"}

(* The active runs of CreateRunIfNoActive's query. *)
Active(r) ==
    \/ status[r] \in {"pending", "scanning", "deleting"}
    \/ status[r] = "preview_ready" /\ filesFound[r] > 0

Finished == {"completed", "failed", "canceled"}

(* UpdateRunStatus, UpdateRunCompleted, UpdateRunFailed: no condition on the *)
(* status the row has.                                                       *)
SetStatus(r, s) ==
    /\ status' = [status EXCEPT ![r] = s]
    /\ revived' = IF status[r] \in Finished /\ s \notin Finished
                  THEN revived \cup {r} ELSE revived
    /\ unsaved' = unsaved \ {r}
    /\ UNCHANGED <<inst, trig, filesFound>>

(* The same, failed: the row stays as it was. *)
NotSaved(r, canceled) ==
    /\ unsaved' = IF canceled THEN unsaved ELSE unsaved \cup {r}
    /\ UNCHANGED <<status, inst, trig, filesFound, revived>>

-----------------------------------------------------------------------------
(* TriggerScan.  The row is created by one INSERT ... WHERE NOT EXISTS; the *)
(* cancel function is registered, and the goroutine started, afterwards.   *)

IsNextId(r) == status[r] = "none" /\ \A q \in RunIds : q < r => status[q] # "none"

(* Mutant: the request forgets which run it is about. *)
TakeNoRun(c, r, pc) ==
    /\ callPc[c] = "idle" /\ delPc[c] = "idle"
    /\ callPc' = [callPc EXCEPT ![c] = pc]
    /\ UNCHANGED callRun

(* A request takes a free slot; a slot whose request launched a deletion   *)
(* stays taken until that goroutine is gone.                               *)
Take(c, r, pc) ==
    /\ callPc[c] = "idle" /\ delPc[c] = "idle"
    /\ callPc' = [callPc EXCEPT ![c] = pc]
    /\ callRun' = [callRun EXCEPT ![c] = r]

CallTo(c, pc) == callPc' = [callPc EXCEPT ![c] = pc] /\ UNCHANGED callRun

Return(c) ==
    callPc' = [callPc EXCEPT ![c] = "idle"] /\ callRun' = [callRun EXCEPT ![c] = 0]

(* Mutant: a preview that awaits its deletion does not block a new scan. *)
CreateRunOverPreview(c, r, by) ==
    /\ IF by = "scheduled" THEN proc = "up" ELSE proc # "down"
    /\ IsNextId(r)
    /\ \A q \in RunIds :
         inst[q] = inst[r] => status[q] \notin {"pending", "scanning", "deleting"}
    /\ status' = [status EXCEPT ![r] = "pending"]
    /\ trig' = [trig EXCEPT ![r] = by]
    /\ Take(c, r, "trigger")
    /\ UNCHANGED <<inst, filesFound, revived, unsaved, scans, dels, cancelFuncs, locked,
                   process>>

CreateRunIfNoActive(c, r, by) ==
    /\ IF by = "scheduled" THEN proc = "up" ELSE proc # "down"
    /\ IsNextId(r)
    /\ \A q \in RunIds : inst[q] = inst[r] => ~Active(q)
    /\ status' = [status EXCEPT ![r] = "pending"]
    /\ trig' = [trig EXCEPT ![r] = by]
    /\ Take(c, r, "trigger")
    /\ UNCHANGED <<inst, filesFound, revived, unsaved, scans, dels, cancelFuncs, locked,
                   process>>

TriggerScan(c) ==
    /\ callPc[c] = "trigger"
    /\ cancelFuncs' = [cancelFuncs EXCEPT ![callRun[c]] = ScanFunc]
    /\ scanPc' = [scanPc EXCEPT ![callRun[c]] = "start"]
    /\ Return(c)
    /\ UNCHANGED <<rows, scanFound, scanCanceled, dels, locked, process>>

-----------------------------------------------------------------------------
(* executeScan: the scan goroutine of run r. *)

ScanTo(r, pc) ==
    scanPc' = [scanPc EXCEPT ![r] = pc] /\ UNCHANGED <<scanFound, scanCanceled>>

(* UpdateRunStatus "scanning": on any error the goroutine just returns. *)
ScanStart(r) ==
    /\ scanPc[r] = "start"
    /\ \/ "ok" \in Outcomes(r \in scanCanceled) /\ SetStatus(r, "scanning") /\ ScanTo(r, "work")
       \/ "error" \in Outcomes(r \in scanCanceled) /\ NotSaved(r, r \in scanCanceled) /\ ScanTo(r, "exit")
    /\ UNCHANGED <<dels, calls, cancelFuncs, locked, process>>

(* Settings, file map, walk, sort, cap, InsertFiles: n files are found and  *)
(* saved.                                                                   *)
ScanWork(r) ==
    /\ scanPc[r] = "work" /\ r \notin scanCanceled
    /\ \E n \in 0 .. MaxFound : scanFound' = [scanFound EXCEPT ![r] = n]
    /\ scanPc' = [scanPc EXCEPT ![r] = "stats"]
    /\ UNCHANGED <<rows, scanCanceled, dels, calls, cancelFuncs, locked, process>>

(* ... or one of these stages fails, or sees the canceled context.  failRun  *)
(* writes "failed" unless the context was canceled, in which case nothing is *)
(* written (markCanceled's own write needs the canceled context and fails).  *)
ScanFail(r) ==
    /\ scanPc[r] = "work"
    /\ \/ "ok" \in Outcomes(r \in scanCanceled) /\ SetStatus(r, "failed")
       \/ "error" \in Outcomes(r \in scanCanceled) /\ NotSaved(r, r \in scanCanceled)
    /\ ScanTo(r, "exit")
    /\ UNCHANGED <<dels, calls, cancelFuncs, locked, process>>

(* Mutant: the stages before are retried without end. *)
ScanStatsRetry(r) ==
    /\ scanPc[r] = "stats"
    /\ ScanTo(r, "work")
    /\ UNCHANGED <<rows, dels, calls, cancelFuncs, locked, process>>

(* UpdateRunFoundStats: an error is logged and the scan goes on. *)
ScanStats(r) ==
    /\ scanPc[r] = "stats"
    /\ \/ /\ "ok" \in Outcomes(r \in scanCanceled)
          /\ filesFound' = [filesFound EXCEPT ![r] = scanFound[r]]
       \/ "error" \in Outcomes(r \in scanCanceled) /\ UNCHANGED filesFound
    /\ ScanTo(r, "finish")
    /\ UNCHANGED <<status, inst, trig, revived, unsaved, dels, calls, cancelFuncs, locked,
                   process>>

(* UpdateRunCompleted when nothing was found, else preview_ready. *)
ScanFinish(r) ==
    /\ scanPc[r] = "finish"
    /\ \/ /\ "ok" \in Outcomes(r \in scanCanceled)
          /\ \/ scanFound[r] = 0 /\ SetStatus(r, "completed") /\ ScanTo(r, "exit")
             \/ scanFound[r] > 0 /\ SetStatus(r, "preview_ready") /\ ScanTo(r, "auto")
       \/ "error" \in Outcomes(r \in scanCanceled) /\ NotSaved(r, r \in scanCanceled) /\ ScanTo(r, "exit")
    /\ UNCHANGED <<dels, calls, cancelFuncs, locked, process>>

(* maybeAutoCleanup: only a scheduled run, with the setting on, at or below *)
(* the threshold, goes on to ConfirmDeletion.                               *)
MayAutoClean(r) ==
    trig[r] = "scheduled" /\ AutoCleanup /\ scanFound[r] <= AutoMax

(* ConfirmDeletion reads the status under the scan's own context. *)
MaybeAutoCleanup(r) ==
    LET confirms == MayAutoClean(r) /\ status[r] = "preview_ready" IN
    /\ scanPc[r] = "auto"
    /\ \/ "ok" \in Outcomes(r \in scanCanceled) /\ confirms /\ ScanTo(r, "lock")
       \/ "ok" \in Outcomes(r \in scanCanceled) /\ ~confirms /\ ScanTo(r, "exit")
       \/ "error" \in Outcomes(r \in scanCanceled) /\ ScanTo(r, "exit")
    /\ UNCHANGED <<rows, dels, calls, cancelFuncs, locked, process>>

(* The goroutine's deferred delete(cancelFuncs, runID), whoever's function *)
(* the entry holds by then.                                                *)
ScanExit(r) ==
    /\ scanPc[r] = "exit"
    /\ cancelFuncs' = [cancelFuncs EXCEPT ![r] = NoFunc]
    /\ scanPc' = [scanPc EXCEPT ![r] = "idle"]
    /\ scanFound' = [scanFound EXCEPT ![r] = 0]
    /\ scanCanceled' = scanCanceled \ {r}
    /\ UNCHANGED <<rows, dels, calls, locked, process>>

-----------------------------------------------------------------------------
(* ConfirmDeletion, by a request (slot c) ... *)

ConfirmRead(c, r) ==
    /\ proc # "down"
    /\ status[r] = "preview_ready"
    /\ Take(c, r, "lock")
    /\ UNCHANGED <<rows, scans, dels, cancelFuncs, locked, process>>

(* Mutant: a failed TryLock does not end the request. *)
ConfirmLockBlind(c) ==
    /\ callPc[c] = "lock"
    /\ CallTo(c, "register") /\ locked' = locked \cup {inst[callRun[c]]}
    /\ UNCHANGED <<rows, scans, dels, cancelFuncs, process>>

ConfirmLock(c) ==
    LET i == inst[callRun[c]] IN
    /\ callPc[c] = "lock"
    /\ \/ i \in locked /\ Return(c) /\ UNCHANGED locked  \* ErrScanInProgress
       \/ i \notin locked /\ CallTo(c, "register") /\ locked' = locked \cup {i}
    /\ UNCHANGED <<rows, scans, dels, cancelFuncs, process>>

LaunchDeletion(s, r) ==
    /\ cancelFuncs' = [cancelFuncs EXCEPT ![r] = s]
    /\ delPc' = [delPc EXCEPT ![s] = "start"]
    /\ delRun' = [delRun EXCEPT ![s] = r]
    /\ UNCHANGED delCanceled

ConfirmRegister(c) ==
    /\ callPc[c] = "register"
    /\ LaunchDeletion(c, callRun[c])
    /\ Return(c)
    /\ UNCHANGED <<rows, scans, locked, process>>

(* ... and by the scan goroutine itself. *)

AutoConfirmLock(r) ==
    /\ scanPc[r] = "lock"
    /\ \/ inst[r] \in locked /\ ScanTo(r, "exit") /\ UNCHANGED locked
       \/ inst[r] \notin locked /\ ScanTo(r, "register") /\ locked' = locked \cup {inst[r]}
    /\ UNCHANGED <<rows, dels, calls, cancelFuncs, process>>

AutoConfirmRegister(r) ==
    /\ scanPc[r] = "register"
    /\ LaunchDeletion(r, r)
    /\ ScanTo(r, "exit")
    /\ UNCHANGED <<rows, calls, locked, process>>

-----------------------------------------------------------------------------
(* executeDeletion: the deletion goroutine launched by s. *)

DelTo(s, pc) ==
    delPc' = [delPc EXCEPT ![s] = pc] /\ UNCHANGED <<delRun, delCanceled>>

(* Mutant: the early return comes before the unlock is deferred. *)
DeletionStartNoDefer(s) ==
    /\ delPc[s] = "start"
    /\ \/ /\ "ok" \in Outcomes(s \in delCanceled)
          /\ SetStatus(delRun[s], "deleting") /\ DelTo(s, "work")
       \/ "error" \in Outcomes(s \in delCanceled) /\ UNCHANGED rows /\ DelTo(s, "idle")
    /\ UNCHANGED <<scans, calls, cancelFuncs, locked, process>>

(* Mutant: an error of the status write does not end the deletion. *)
DeletionStartAnyway(s) ==
    /\ delPc[s] = "start"
    /\ \/ "ok" \in Outcomes(s \in delCanceled) /\ SetStatus(delRun[s], "deleting")
       \/ "error" \in Outcomes(s \in delCanceled) /\ UNCHANGED rows
    /\ DelTo(s, "work")
    /\ UNCHANGED <<scans, calls, cancelFuncs, locked, process>>

(* UpdateRunStatus(deleting) comes first; when it fails nothing is deleted. *)
DeletionStart(s) ==
    /\ delPc[s] = "start"
    /\ \/ /\ "ok" \in Outcomes(s \in delCanceled)
          /\ SetStatus(delRun[s], "deleting") /\ DelTo(s, "work")
       \/ "error" \in Outcomes(s \in delCanceled) /\ UNCHANGED rows /\ DelTo(s, "exit")
    /\ UNCHANGED <<scans, calls, cancelFuncs, locked, process>>

(* Run details, fresh file map, settings and the files to delete are read;  *)
(* when one of them is not to be had, failRun.                              *)
DeletionFail(s) ==
    /\ delPc[s] = "work"
    /\ \/ "ok" \in Outcomes(s \in delCanceled) /\ SetStatus(delRun[s], "failed")
       \/ "error" \in Outcomes(s \in delCanceled) /\ NotSaved(delRun[s], s \in delCanceled)
    /\ DelTo(s, "exit")
    /\ UNCHANGED <<scans, calls, cancelFuncs, locked, process>>

(* Otherwise the loops over the files and the empty directories, which a    *)
(* canceled context ends early; "failed" when every attempted deletion      *)
(* failed.                                                                  *)
DeletionFinish(s) ==
    /\ delPc[s] = "work"
    /\ \/ /\ "ok" \in Outcomes(s \in delCanceled)
          /\ \E result \in {"completed", "failed"} : SetStatus(delRun[s], result)
       \/ "error" \in Outcomes(s \in delCanceled) /\ NotSaved(delRun[s], s \in delCanceled)
    /\ DelTo(s, "exit")
    /\ UNCHANGED <<scans, calls, cancelFuncs, locked, process>>

(* The two deferred calls, innermost first. *)
DeletionExit(s) ==
    /\ delPc[s] = "exit"
    /\ cancelFuncs' = [cancelFuncs EXCEPT ![delRun[s]] = NoFunc]
    /\ DelTo(s, "unlock")
    /\ UNCHANGED <<rows, scans, calls, locked, process>>

DeletionUnlock(s) ==
    /\ delPc[s] = "unlock"
    /\ locked' = locked \ {inst[delRun[s]]}
    /\ delPc' = [delPc EXCEPT ![s] = "idle"]
    /\ delRun' = [delRun EXCEPT ![s] = 0]
    /\ delCanceled' = delCanceled \ {s}
    /\ UNCHANGED <<rows, scans, calls, cancelFuncs, process>>

-----------------------------------------------------------------------------
(* CancelRun: read the status, act on cancelFuncs, write "canceled".  The  *)
(* write does not look at the status again.                                *)

CancelRead(c, r) ==
    /\ proc # "down"
    /\ \/ /\ status[r] \in {"pending", "scanning", "preview_ready"}
          /\ Take(c, r, "interrupt")
       \/ status[r] = "deleting" /\ Take(c, r, "stale")
    /\ UNCHANGED <<rows, scans, dels, cancelFuncs, locked, process>>

CancelInterrupt(c) ==
    LET f == cancelFuncs[callRun[c]] IN
    /\ callPc[c] = "interrupt"
    /\ scanCanceled' = IF f = ScanFunc THEN scanCanceled \cup {callRun[c]} ELSE scanCanceled
    /\ delCanceled' = IF f \in Spawners THEN delCanceled \cup {f} ELSE delCanceled
    /\ CallTo(c, "write")
    /\ UNCHANGED <<rows, scanPc, scanFound, delPc, delRun, cancelFuncs, locked,
                   process>>

(* A "deleting" run with a registered function is refused; one without is  *)
(* taken to be left over from an earlier process.                          *)
CancelStale(c) ==
    /\ callPc[c] = "stale"
    /\ \/ cancelFuncs[callRun[c]] # NoFunc /\ Return(c)
       \/ cancelFuncs[callRun[c]] = NoFunc /\ CallTo(c, "write")
    /\ UNCHANGED <<rows, scans, dels, cancelFuncs, locked, process>>

CancelWrite(c) ==
    /\ callPc[c] = "write"
    /\ \/ "ok" \in Outcomes(FALSE) /\ SetStatus(callRun[c], "canceled")
       \/ "error" \in Outcomes(FALSE) /\ NotSaved(callRun[c], FALSE)
    /\ Return(c)
    /\ UNCHANGED <<scans, dels, cancelFuncs, locked, process>>

-----------------------------------------------------------------------------
(* The process.  Whatever is in memory dies with it; the rows stay. *)

Crash ==
    /\ proc # "down" /\ crashes < MaxCrashes
    /\ proc' = "down" /\ crashes' = crashes + 1
    /\ scanPc' = [r \in RunIds |-> "idle"]
    /\ delPc' = [s \in Spawners |-> "idle"]
    /\ callPc' = [c \in Slots |-> "idle"]
    /\ cancelFuncs' = [r \in RunIds |-> NoFunc]
    /\ scanFound' = [r \in RunIds |-> 0]
    /\ delRun' = [s \in Spawners |-> 0]
    /\ callRun' = [c \in Slots |-> 0]
    /\ locked' = {} /\ scanCanceled' = {} /\ delCanceled' = {}
    /\ UNCHANGED <<rows, prior>>

Start ==
    /\ proc = "down"
    /\ proc' = "recover1"
    /\ \E n \in 0 .. MaxRuns :
         /\ \A r \in RunIds : status[r] # "none" <=> r <= n
         /\ prior' = n
    /\ UNCHANGED <<rows, scans, dels, calls, cancelFuncs, locked, crashes>>

(* Mutant: the recovery forgets the deletions a crash interrupted. *)
MarkNoDeletingRuns ==
    /\ proc = "recover1" /\ proc' = "recover2"
    /\ UNCHANGED <<rows, scans, dels, calls, cancelFuncs, locked, prior, crashes>>

(* recoverStuckRuns runs in the service's own goroutine, while requests are *)
(* already served.  First every "deleting" row becomes "failed" ...         *)
MarkDeletingRunsFailed ==
    /\ proc = "recover1"
    /\ \/ /\ "ok" \in Outcomes(FALSE)
          /\ status' = [r \in RunIds |->
                          IF status[r] = "deleting" THEN "failed" ELSE status[r]]
          /\ proc' = "recover2" /\ UNCHANGED unsaved
       \/ /\ "error" \in Outcomes(FALSE) /\ UNCHANGED status /\ proc' = "up"
          /\ unsaved' = unsaved \cup {r \in RunIds : status[r] = "deleting"}
    /\ UNCHANGED <<inst, trig, filesFound, revived, scans, dels, calls,
                   cancelFuncs, locked, prior, crashes>>

(* ... then the pending and scanning rows older than StuckRunThreshold: rows *)
(* are numbered in the order of started_at, so the old ones are a prefix.    *)
MarkStuckRunsFailed ==
    /\ proc = "recover2"
    /\ \/ /\ "ok" \in Outcomes(FALSE)
          /\ \E cutoff \in 0 .. prior :
               status' = [r \in RunIds |->
                            IF r <= cutoff /\ status[r] \in {"pending", "scanning"}
                            THEN "failed" ELSE status[r]]
       \/ "error" \in Outcomes(FALSE) /\ UNCHANGED status
    /\ proc' = "up"
    /\ UNCHANGED <<inst, trig, filesFound, revived, unsaved, scans, dels, calls,
                   cancelFuncs, locked, prior, crashes>>

-----------------------------------------------------------------------------
ScanStep(r) ==
    \/ ScanStart(r) \/ ScanWork(r) \/ ScanFail(r) \/ ScanStats(r)
    \/ ScanFinish(r) \/ MaybeAutoCleanup(r) \/ AutoConfirmLock(r)
    \/ AutoConfirmRegister(r) \/ ScanExit(r)

DeletionStep(s) ==
    \/ DeletionStart(s) \/ DeletionFail(s) \/ DeletionFinish(s)
    \/ DeletionExit(s) \/ DeletionUnlock(s)

CallStep(c) ==
    \/ TriggerScan(c) \/ ConfirmLock(c) \/ ConfirmRegister(c)
    \/ CancelInterrupt(c) \/ CancelStale(c) \/ CancelWrite(c)

Request(c) ==
    \E r \in RunIds :
       \/ \E by \in {"manual", "scheduled"} : CreateRunIfNoActive(c, r, by)
       \/ ConfirmRead(c, r)
       \/ CancelRead(c, r)

Recover == MarkDeletingRunsFailed \/ MarkStuckRunsFailed

Next ==
    \/ \E r \in RunIds : ScanStep(r)
    \/ \E s \in Spawners : DeletionStep(s)
    \/ \E c \in Slots : CallStep(c) \/ Request(c)
    \/ Crash \/ Start \/ Recover

Spec == Init /\ [][Next]_vars

(* The Go scheduler runs every goroutine and request that can take a step, *)
(* and a process that died is started again.  Requests need not come.      *)
Fairness ==
    /\ \A r \in RunIds : WF_vars(ScanStep(r))
    /\ \A s \in Spawners : WF_vars(DeletionStep(s))
    /\ \A c \in Slots : WF_vars(CallStep(c))
    /\ WF_vars(Start) /\ WF_vars(Recover)

FairSpec == Spec /\ Fairness

-----------------------------------------------------------------------------
(* Type invariant: every row, goroutine and request has one of its states. *)
TypeOK ==
    /\ status \in [RunIds -> Statuses]
    /\ inst \in [RunIds -> Instances]
    /\ trig \in [RunIds -> {"manual", "scheduled"}]
    /\ filesFound \in [RunIds -> 0 .. MaxFound]
    /\ scanPc \in [RunIds -> ScanPcs]
    /\ scanFound \in [RunIds -> 0 .. MaxFound]
    /\ delPc \in [Spawners -> DelPcs]
    /\ delRun \in [Spawners -> RunIds \cup {0}]
    /\ callPc \in [Slots -> CallPcs]
    /\ callRun \in [Slots -> RunIds \cup {0}]
    /\ scanCanceled \subseteq RunIds /\ delCanceled \subseteq Spawners
    /\ locked \subseteq Instances
    /\ cancelFuncs \in [RunIds -> Spawners \cup {NoFunc, ScanFunc}]
    /\ proc \in {"down", "recover1", "recover2", "up"}
    /\ prior \in 0 .. MaxRuns /\ crashes \in 0 .. MaxCrashes
    /\ revived \subseteq RunIds /\ unsaved \subseteq RunIds
    /\ \A s \in Spawners : delPc[s] # "idle" => delRun[s] \in RunIds
    /\ \A c \in Slots : callPc[c] # "idle" => callRun[c] \in RunIds

(* Two deletion goroutines never work on the same instance at the same     *)
(* time, whoever confirmed them and whichever runs they belong to: the     *)
(* instance mutex that ConfirmDeletion takes with TryLock is released only *)
(* by the goroutine it was taken for.                                      *)
OneDeletionPerInstance ==
    \A s, t \in Spawners :
       /\ delPc[s] # "idle" /\ delPc[t] # "idle"
       /\ inst[delRun[s]] = inst[delRun[t]]
       => s = t

(* The request or goroutine that works on run r. *)
WorkedOn(r) ==
    \/ \E c \in Slots : callRun[c] = r /\ callPc[c] = "trigger"
    \/ scanPc[r] \in {"start", "work", "stats", "finish"}
    \/ \E s \in Spawners : delRun[s] = r /\ delPc[s] = "work"

(* A run that blocks new scans always has someone who will move it on: the  *)
(* request or goroutine that works on it, a CancelRun about to write, or    *)
(* the recovery of a restart.  Excepted are rows whose last write failed,   *)
(* and rows an earlier process left pending or scanning, which may be too   *)
(* young for StuckRunThreshold.                                             *)
NoStrandedRun ==
    \A r \in RunIds \ unsaved :
       /\ status[r] \in {"pending", "scanning", "deleting"}
       /\ proc \in {"recover2", "up"}
       /\ r <= prior => status[r] = "deleting"
       => WorkedOn(r) \/ \E c \in Slots : callRun[c] = r /\ callPc[c] = "write"

(* While a deletion works on the files of a run, the row says so, or a      *)
(* stale cancellation or recovery has finished it: it is never back at (or  *)
(* still at) preview_ready, where the user is offered the preview and a     *)
(* second confirmation gets through, and the scan that made the preview     *)
(* writes no more to the row.                                               *)
DeletionOwnsRow ==
    \A s \in Spawners :
       delPc[s] = "work" =>
          /\ status[delRun[s]] \in {"deleting"} \cup Finished
          /\ scanPc[delRun[s]] \notin {"start", "work", "stats", "finish"}

(* The deletion of a preview whose statistics could not be written.         *)
Uncounted(r) == status[r] = "deleting" /\ filesFound[r] = 0

(* An instance has at most one active run, except through a run that a late *)
(* status write revived after it had finished, or whose preview did not     *)
(* count as active for want of its statistics: CreateRunIfNoActive's atomic *)
(* check is undone by nothing else.                                         *)
OneActiveRun ==
    \A q, r \in RunIds :
       q # r /\ inst[q] = inst[r] /\ Active(q) /\ Active(r)
       => \E x \in {q, r} : x \in revived \/ (StoreErrors /\ Uncounted(x))

(* Every lock of an instance's mutex is followed by its release, however    *)
(* the deletion ends.                                                       *)
MutexReleased == \A i \in Instances : i \in locked ~> i \notin locked

(* A run of this process leaves pending and scanning, and a deleting run    *)
(* deleting, also when the process dies under it, unless the write that     *)
(* should have moved it failed.                                             *)
RunsSettle ==
    \A r \in RunIds :
       /\ status[r] \in {"pending", "scanning"}
             ~> status[r] \notin {"pending", "scanning"} \/ r <= prior \/ r \in unsaved
       /\ status[r] = "deleting" ~> status[r] # "deleting" \/ r \in unsaved

-----------------------------------------------------------------------------
(* What a comment of the code says and the code does not do. *)

(* CancelRun's comment: "If deletion is truly in progress (in-memory cancel *)
(* func exists), refuse to cancel mid-delete."  So the branch that declares *)
(* a deleting run stale is never taken while its goroutine deletes files.   *)
RefusesCancelMidDelete ==
    [][\A c \in Slots :
          callPc[c] = "stale" /\ callPc'[c] = "write" =>
             ~\E s \in Spawners : /\ delRun[s] = callRun[c]
                                  /\ delPc[s] = "work"]_vars
=============================================================================
