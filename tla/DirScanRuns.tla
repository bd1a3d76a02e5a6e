---------------------------- MODULE DirScanRuns -----------------------------
(***************************************************************************)
(* The runs of the directory scan: internal/services/dirscan/service.go    *)
(* and webhook_queue.go over the dir_scan_runs table of                    *)
(* internal/models/dirscan.go.                                             *)
(*                                                                         *)
(* A run is requested by hand, by the schedule or by a webhook, which asks *)
(* for a part of the directory (a scan root).  A webhook that finds a run  *)
(* of its directory at work keeps one follow-up run in the queue, and      *)
(* widens its root for every webhook that comes after it.  A goroutine per *)
(* run waits for a slot and for the directory, and works as long as its    *)
(* row lets it.  What a scan finds and injects is not modelled.            *)
(***************************************************************************)
EXTENDS Integers, FiniteSets

CONSTANTS
    Directories,
    Paths,
    Above,              \* the paths a path lies in, itself among them
    DirPath,            \* the path of a directory
    Callers,            \* API requests in flight
    Triggers,           \* goroutines of the schedule
    MaxConcurrentRuns,
    HistoryLimit,       \* dirScanRunHistoryLimit
    MaxRuns,            \* bound: rows ever created
    MaxEvents,          \* bound: requests, scheduled scans, store calls that fail
                        \*        and deaths of the process, taken together
    None                \* no path, no directory, no request

ASSUME DirScanAssumption ==
    /\ Above \in [Paths -> SUBSET Paths] /\ \A p \in Paths : p \in Above[p]
    /\ \A p \in Paths : \A q \in Above[p] : Above[q] \subseteq Above[p]
    \* the prefixes of a path are finitely many and in a line
    /\ \A p \in Paths : \A S \in SUBSET Above[p] : S # {} => \E q \in S : S \subseteq Above[q]
    /\ DirPath \in [Directories -> Paths]
    /\ MaxConcurrentRuns \in Nat \ {0} /\ HistoryLimit \in Nat \ {0}
    /\ MaxRuns \in Nat /\ MaxEvents \in Nat
    /\ None \notin Paths \cup Directories \cup Callers \cup Triggers
    /\ Callers \cap Triggers = {}

RunIds == 1 .. MaxRuns
Procs == Callers \cup Triggers
Within(base, target) == base \in Above[target]

VARIABLES
    \* the table
    status, dirOf, trig, root,
    \* the goroutine of each run: its step, and the root it scans
    pc, used,
    cancelFuncs, canceled,      \* runs with a cancel function; canceled ones
    runSem, directoryMu,        \* slots taken; the run that holds a directory
    \* requests: step, directory, webhook path, run, and the root to write
    callPc, callDir, callRoot, callRun, callMerged,
    webhookMu,
    requests, proc, faults,
    \* history
    owed,       \* webhook roots accepted into a run that had not begun
    unsaved,    \* runs left active by a failed store call
    unheard     \* runs a CancelScan found without a cancel function

rows == <<status, dirOf, trig, root>>
work == <<pc, used, cancelFuncs, canceled, runSem, directoryMu>>
calls == <<callPc, callDir, callRoot, callRun, callMerged, webhookMu>>
life == <<requests, proc>>
history == <<owed, unsaved, unheard>>
vars == <<rows, work, calls, life, faults, history>>

Active == {"queued", "scanning", "searching", "injecting"}
Ended == {"success", "failed", "canceled"}

Init ==
    /\ status = [r \in RunIds |-> "none"]
    /\ dirOf = [r \in RunIds |-> None] /\ trig = [r \in RunIds |-> "none"]
    /\ root = [r \in RunIds |-> None]
    /\ used = [r \in RunIds |-> None]
    /\ pc = [r \in RunIds |-> "none"]
    /\ cancelFuncs = {} /\ canceled = {}
    /\ runSem = 0 /\ directoryMu = [d \in Directories |-> 0]
    /\ callPc = [p \in Procs |-> "idle"] /\ callDir = [p \in Procs |-> None]
    /\ callRoot = [p \in Procs |-> None]
    /\ callRun = [p \in Procs |-> 0] /\ callMerged = [p \in Procs |-> None]
    /\ webhookMu = None
    /\ requests = 0 /\ proc = "down" /\ faults = 0
    /\ owed = [r \in RunIds |-> {}] /\ unsaved = {} /\ unheard = {}

-----------------------------------------------------------------------------
(* The store.  A call fails when the run's context is canceled, and may     *)
(* fail otherwise.                                                          *)

MoreEvents == requests + faults < MaxEvents
StoreError == MoreEvents /\ faults' = faults + 1
StoreOk == UNCHANGED faults
RunOk(r) == r \notin canceled /\ StoreOk
RunError(r) ==
    /\ IF r \in canceled THEN StoreOk ELSE StoreError
    /\ unsaved' = IF r \in canceled THEN unsaved ELSE unsaved \cup {r}

(* UPDATE ... WHERE id = r. *)
SetStatus(r, s) ==
    status' = IF status[r] = "deleted" THEN status ELSE [status EXCEPT ![r] = s]

(* A final status, written with a context that is never canceled. *)
Settle(r, s) ==
    /\ \/ SetStatus(r, s) /\ StoreOk /\ UNCHANGED unsaved
       \/ UNCHANGED status /\ StoreError /\ unsaved' = unsaved \cup {r}
    /\ UNCHANGED <<dirOf, trig, root, owed, unheard>>

ActiveRuns(d) == {r \in RunIds : dirOf[r] = d /\ status[r] \in Active}

(* The run at work comes before the queued ones, the latest one first. *)
Rank == [scanning |-> 0, searching |-> 1, injecting |-> 2, queued |-> 3]
Before(q, r) ==
    \/ Rank[status[q]] < Rank[status[r]]
    \/ Rank[status[q]] = Rank[status[r]] /\ q >= r
First(runs) == IF runs = {} THEN 0 ELSE CHOOSE q \in runs : \A r \in runs : Before(q, r)
GetActiveRun(d) == First(ActiveRuns(d))
GetQueuedRun(d) == First({r \in ActiveRuns(d) : status[r] = "queued"})

Rows(d) == {r \in RunIds : dirOf[r] = d /\ status[r] \notin {"none", "deleted"}}

(* The rows of a directory that the trimming of its history deletes.        *)
Surplus(ids) == {r \in ids : Cardinality({q \in ids : q > r}) >= HistoryLimit}

(* INSERT of the next row, and the trimming, whose failure is only logged.  *)
CreateRun(p, d, t, path) ==
    \E r \in RunIds :
       /\ status[r] = "none" /\ \A q \in RunIds : q < r => status[q] # "none"
       /\ \/ /\ status' = [q \in RunIds |-> IF q \in Surplus(Rows(d) \cup {r}) THEN "deleted"
                                            ELSE IF q = r THEN "queued" ELSE status[q]]
             /\ StoreOk
          \/ status' = [status EXCEPT ![r] = "queued"] /\ StoreError
       /\ dirOf' = [dirOf EXCEPT ![r] = d] /\ trig' = [trig EXCEPT ![r] = t]
       /\ root' = [root EXCEPT ![r] = path]
       /\ owed' = [owed EXCEPT ![r] = IF path = None THEN {} ELSE {path}]
       /\ callRun' = [callRun EXCEPT ![p] = r]
       /\ UNCHANGED <<unsaved, unheard>>

CreateRunIfNoActive(p, d, t, path) ==
    ActiveRuns(d) = {} /\ CreateRun(p, d, t, path)

-----------------------------------------------------------------------------
(* Requests: startScan, StartManualScan, StartWebhookScan, CancelScan.      *)

CallTo(p, step) == callPc' = [callPc EXCEPT ![p] = step]

(* A request comes in, or the schedule finds a directory due. *)
Arrive(c) ==
    /\ callPc[c] = "idle" /\ MoreEvents /\ requests' = requests + 1
    /\ UNCHANGED proc

(* The request is over; a webhook's deferred Unlock runs. *)
Return(p) ==
    /\ CallTo(p, "idle")
    /\ callDir' = [callDir EXCEPT ![p] = None] /\ callRoot' = [callRoot EXCEPT ![p] = None]
    /\ callRun' = [callRun EXCEPT ![p] = 0] /\ callMerged' = [callMerged EXCEPT ![p] = None]
    /\ webhookMu' = IF webhookMu = p THEN None ELSE webhookMu

StartManualScan(c, d) ==
    /\ Arrive(c)
    /\ CreateRunIfNoActive(c, d, "manual", None)
    /\ CallTo(c, "start")
    /\ UNCHANGED <<work, callDir, callRoot, callMerged, webhookMu>>

(* startRun: the cancel function is registered and the goroutine started.   *)
StartRun(p) ==
    /\ callPc[p] = "start"
    /\ cancelFuncs' = cancelFuncs \cup {callRun[p]}
    /\ pc' = [pc EXCEPT ![callRun[p]] = "check"]
    /\ Return(p)
    /\ UNCHANGED <<rows, used, canceled, runSem, directoryMu, life, faults, history>>

(* Mutant: webhooks are not serialised. *)
LockWebhookNot(c, d, path) ==
    /\ Arrive(c) /\ CallTo(c, "active")
    /\ callDir' = [callDir EXCEPT ![c] = d] /\ callRoot' = [callRoot EXCEPT ![c] = path]
    /\ UNCHANGED <<rows, work, callRun, callMerged, webhookMu, faults, history>>

(* A webhook for a path in directory d. *)
LockWebhook(c, d, path) ==
    /\ Arrive(c) /\ webhookMu = None
    /\ webhookMu' = c /\ CallTo(c, "active")
    /\ callDir' = [callDir EXCEPT ![c] = d] /\ callRoot' = [callRoot EXCEPT ![c] = path]
    /\ UNCHANGED <<rows, work, callRun, callMerged, faults, history>>

(* Mutant: the latest webhook wins. *)
MergeLatest(d, existing, next) == next

(* mergeWebhookScanRoots: the nearest path in the directory that holds both *)
(* roots; no root stands for the whole directory.                           *)
MergeWebhookScanRoots(d, existing, next) ==
    LET current == IF existing = None THEN DirPath[d] ELSE existing
        both == {p \in Above[current] \cap Above[next] : Within(DirPath[d], p)}
    IN  IF both = {} THEN DirPath[d] ELSE CHOOSE p \in both : both \subseteq Above[p]

(* The webhook joins queued run r, whose root it has read: either the root  *)
(* already holds its path, or it has to be written.                         *)
JoinRun(c, r) ==
    LET merged == MergeWebhookScanRoots(callDir[c], root[r], callRoot[c]) IN
    \/ /\ merged = root[r] /\ Return(c)
       /\ owed' = [owed EXCEPT ![r] = @ \cup {callRoot[c]}]
    \/ /\ merged # root[r] /\ CallTo(c, "merge")
       /\ callRun' = [callRun EXCEPT ![c] = r]
       /\ callMerged' = [callMerged EXCEPT ![c] = merged]
       /\ UNCHANGED <<callDir, callRoot, webhookMu, owed>>

WebhookActive(c) ==
    LET r == GetActiveRun(callDir[c]) IN
    /\ callPc[c] = "active"
    /\ \/ /\ r = 0 /\ CallTo(c, "create idle") /\ StoreOk
          /\ UNCHANGED <<callDir, callRoot, callRun, callMerged, webhookMu, owed>>
       \/ r # 0 /\ status[r] = "queued" /\ JoinRun(c, r) /\ StoreOk
       \/ /\ r # 0 /\ status[r] # "queued" /\ CallTo(c, "queued") /\ StoreOk
          /\ UNCHANGED <<callDir, callRoot, callRun, callMerged, webhookMu, owed>>
       \/ Return(c) /\ StoreError /\ UNCHANGED owed
    /\ UNCHANGED <<rows, work, life, unsaved, unheard>>

WebhookQueued(c) ==
    LET r == GetQueuedRun(callDir[c]) IN
    /\ callPc[c] = "queued"
    /\ \/ /\ r = 0 /\ CallTo(c, "create next") /\ StoreOk
          /\ UNCHANGED <<callDir, callRoot, callRun, callMerged, webhookMu, owed>>
       \/ r # 0 /\ JoinRun(c, r) /\ StoreOk
       \/ Return(c) /\ StoreError /\ UNCHANGED owed
    /\ UNCHANGED <<rows, work, life, unsaved, unheard>>

(* UpdateRunScanRoot.  A run that has begun meanwhile does not see it.      *)
WebhookMerge(c) ==
    LET r == callRun[c] IN
    /\ callPc[c] = "merge"
    /\ \/ /\ root' = [root EXCEPT ![r] = callMerged[c]] /\ StoreOk
          /\ owed' = [owed EXCEPT ![r] = IF used[r] = None THEN @ \cup {callRoot[c]} ELSE @]
       \/ UNCHANGED <<root, owed>> /\ StoreError
    /\ Return(c)
    /\ UNCHANGED <<status, dirOf, trig, work, life, unsaved, unheard>>

(* The idle directory's webhook creates its run if there is still none, the *)
(* other one creates a follow-up in any case.                               *)
WebhookCreate(c) ==
    /\ \/ /\ callPc[c] = "create idle"
          /\ CreateRunIfNoActive(c, callDir[c], "webhook", callRoot[c])
       \/ callPc[c] = "create next" /\ CreateRun(c, callDir[c], "webhook", callRoot[c])
    /\ CallTo(c, "start")
    /\ UNCHANGED <<work, callDir, callRoot, callMerged, webhookMu, life>>

WebhookRefused(c) ==
    /\ \/ callPc[c] = "create idle" /\ ActiveRuns(callDir[c]) # {} /\ StoreOk
       \/ callPc[c] \in {"create idle", "create next"} /\ StoreError
       \/ /\ callPc[c] \in {"create idle", "create next"}
          /\ \A r \in RunIds : status[r] # "none"       \* bound MaxRuns
          /\ StoreOk
    /\ Return(c)
    /\ UNCHANGED <<rows, work, life, history>>

(* CancelScan: look at the active run, cancel its context, write the row,   *)
(* then cancel what is queued.                                              *)
CancelScan(c, d) ==
    /\ Arrive(c) /\ GetActiveRun(d) # 0
    /\ callRun' = [callRun EXCEPT ![c] = GetActiveRun(d)]
    /\ callDir' = [callDir EXCEPT ![c] = d] /\ CallTo(c, "cancel")
    /\ UNCHANGED <<rows, work, callRoot, callMerged, webhookMu, faults, history>>

CancelContext(c) ==
    LET r == callRun[c] IN
    /\ callPc[c] = "cancel" /\ CallTo(c, "write")
    /\ \/ r \in cancelFuncs /\ canceled' = canceled \cup {r} /\ UNCHANGED unheard
       \/ r \notin cancelFuncs /\ unheard' = unheard \cup {r} /\ UNCHANGED canceled
    /\ UNCHANGED <<rows, pc, used, cancelFuncs, runSem, directoryMu, callDir, callRoot,
                   callRun, callMerged, webhookMu, life, faults, owed, unsaved>>

CancelWrite(c) ==
    /\ callPc[c] = "write"
    /\ Settle(callRun[c], "canceled")
    /\ IF faults' = faults
       THEN CallTo(c, "cancel queued")
            /\ UNCHANGED <<callDir, callRoot, callRun, callMerged, webhookMu>>
       ELSE Return(c)
    /\ UNCHANGED <<work, life>>

CancelQueuedRuns(c) ==
    /\ callPc[c] = "cancel queued"
    /\ \/ /\ status' = [r \in RunIds |-> IF dirOf[r] = callDir[c] /\ status[r] = "queued"
                                         THEN "canceled" ELSE status[r]]
          /\ StoreOk
       \/ UNCHANGED status /\ StoreError
    /\ Return(c)
    /\ UNCHANGED <<dirOf, trig, root, work, life, history>>

-----------------------------------------------------------------------------
(* The schedule: triggerScheduledScan, started for a directory that is due. *)
(* Which ones are due, and for how long the jitter waits, is left open.     *)

TriggerScheduledScan(t, d) ==
    /\ Arrive(t)
    /\ CreateRunIfNoActive(t, d, "scheduled", None)
    /\ CallTo(t, "jitter")
    /\ UNCHANGED <<work, callDir, callRoot, callMerged, webhookMu>>

JitterOver(t) ==
    LET r == callRun[t] IN
    /\ callPc[t] = "jitter"
    /\ \/ /\ status[r] = "queued" /\ CallTo(t, "start") /\ StoreOk
          /\ UNCHANGED <<callDir, callRoot, callRun, callMerged, webhookMu, unsaved>>
       \/ status[r] # "queued" /\ Return(t) /\ StoreOk /\ UNCHANGED unsaved
       \/ Return(t) /\ StoreError /\ unsaved' = unsaved \cup {r}
    /\ UNCHANGED <<rows, work, life, owed, unheard>>

-----------------------------------------------------------------------------
(* executeScan, the goroutine of run r. *)

RunTo(r, step) == pc' = [pc EXCEPT ![r] = step]
RunTouches == <<calls, life, cancelFuncs, canceled>>

(* The first look at the row. *)
CheckRun(r) ==
    /\ pc[r] = "check"
    /\ \/ /\ RunOk(r) /\ UNCHANGED unsaved
          /\ RunTo(r, IF status[r] = "queued" THEN "slot" ELSE "exit")
       \/ RunError(r) /\ RunTo(r, "exit")
    /\ UNCHANGED <<rows, used, runSem, directoryMu, RunTouches, owed, unheard>>

AcquireRunSlot(r) ==
    /\ pc[r] = "slot" /\ runSem < MaxConcurrentRuns
    /\ runSem' = runSem + 1 /\ RunTo(r, "advance")
    /\ UNCHANGED <<rows, used, directoryMu, RunTouches, faults, history>>

SlotCanceled(r) ==
    /\ pc[r] = "slot" /\ r \in canceled
    /\ Settle(r, "canceled") /\ RunTo(r, "exit")
    /\ UNCHANGED <<used, runSem, directoryMu, RunTouches>>

(* Mutant: a run that may not advance keeps its slot. *)
AdvanceKeepsSlot(r) ==
    /\ pc[r] = "advance" /\ directoryMu[dirOf[r]] = 0
    /\ \/ /\ status[r] = "queued" /\ SetStatus(r, "scanning") /\ RunTo(r, "reload")
          /\ directoryMu' = [directoryMu EXCEPT ![dirOf[r]] = r]
       \/ status[r] # "queued" /\ UNCHANGED <<status, directoryMu>> /\ RunTo(r, "exit")
    /\ RunOk(r) /\ UNCHANGED <<dirOf, trig, root, used, runSem, RunTouches, history>>

(* Mutant: the row is not asked whether it is still queued. *)
AdvanceAnyway(r) ==
    /\ pc[r] = "advance" /\ directoryMu[dirOf[r]] = 0
    /\ directoryMu' = [directoryMu EXCEPT ![dirOf[r]] = r]
    /\ SetStatus(r, "scanning") /\ RunTo(r, "reload")
    /\ RunOk(r) /\ UNCHANGED <<dirOf, trig, root, used, runSem, RunTouches, history>>

(* The directory is locked, and then UpdateRunStatusIfCurrent lets only a   *)
(* run advance that is still queued.                                        *)
Advance(r) ==
    /\ pc[r] = "advance" /\ directoryMu[dirOf[r]] = 0
    /\ directoryMu' = [directoryMu EXCEPT ![dirOf[r]] = r]
    /\ \/ /\ RunOk(r) /\ UNCHANGED unsaved
          /\ \/ status[r] = "queued" /\ SetStatus(r, "scanning") /\ RunTo(r, "reload")
             \/ status[r] # "queued" /\ UNCHANGED status /\ RunTo(r, "leave")
       \/ RunError(r) /\ UNCHANGED status /\ RunTo(r, "leave")
    /\ UNCHANGED <<dirOf, trig, root, used, runSem, RunTouches, owed, unheard>>

(* The row is read again: its root is what is scanned. *)
Reload(r) ==
    /\ pc[r] = "reload"
    /\ \/ /\ RunOk(r) /\ UNCHANGED unsaved
          /\ \/ status[r] = "deleted" /\ RunTo(r, "leave") /\ UNCHANGED used
             \/ /\ status[r] # "deleted" /\ RunTo(r, "scan")
                /\ used' = [used EXCEPT ![r] = IF root[r] = None THEN DirPath[dirOf[r]]
                                               ELSE root[r]]
       \/ RunError(r) /\ RunTo(r, "leave") /\ UNCHANGED used
    /\ UNCHANGED <<rows, runSem, directoryMu, RunTouches, owed, unheard>>

(* handleCancellation before the scan and before the search, and the end of *)
(* finalizeRun for a canceled run.                                          *)
HandleCancellation(r) ==
    /\ pc[r] \in {"scan", "search"} /\ r \in canceled
    /\ Settle(r, "canceled") /\ RunTo(r, "leave")
    /\ UNCHANGED <<used, runSem, directoryMu, RunTouches>>

(* validateDirectory, loadSettingsAndMatcher, runScanPhase and              *)
(* refreshTrackedFilesFromScan.  A run that is canceled meanwhile fails, as *)
(* does one that meets an error; otherwise the search begins, and the write *)
(* of its status may fail without consequences.                             *)
ScanPhase(r) ==
    /\ pc[r] = "scan"
    /\ \/ RunOk(r) /\ SetStatus(r, "searching") /\ RunTo(r, "search")
       \/ r \notin canceled /\ StoreError /\ UNCHANGED status /\ RunTo(r, "search")
       \/ StoreOk /\ UNCHANGED status /\ RunTo(r, "fail")
    /\ UNCHANGED <<dirOf, trig, root, used, runSem, directoryMu, RunTouches, history>>

MarkRunFailed(r) ==
    /\ pc[r] = "fail" /\ Settle(r, "failed") /\ RunTo(r, "leave")
    /\ UNCHANGED <<used, runSem, directoryMu, RunTouches>>

(* tryMatchAndInject, for any number of matches. *)
Inject(r) ==
    /\ pc[r] = "search" /\ RunOk(r) /\ SetStatus(r, "injecting")
    /\ UNCHANGED <<dirOf, trig, root, pc, used, runSem, directoryMu, RunTouches, history>>

(* The search is over, and finalizeRun sees no cancellation. *)
SearchOver(r) ==
    /\ pc[r] = "search" /\ r \notin canceled /\ RunTo(r, "complete")
    /\ UNCHANGED <<rows, used, runSem, directoryMu, RunTouches, faults, history>>

(* The end of finalizeRun. *)
UpdateRunCompleted(r) ==
    /\ pc[r] = "complete" /\ Settle(r, "success") /\ RunTo(r, "leave")
    /\ UNCHANGED <<used, runSem, directoryMu, RunTouches>>

(* The deferred Unlock and releaseRunSlot, then startRun's own defer; with  *)
(* the goroutine its context and its history end.                           *)
LeaveScan(r) ==
    /\ pc[r] = "leave"
    /\ directoryMu' = [directoryMu EXCEPT ![dirOf[r]] = 0] /\ runSem' = runSem - 1

ExitRun(r) ==
    /\ \/ LeaveScan(r)
       \/ pc[r] = "exit" /\ UNCHANGED <<directoryMu, runSem>>
    /\ RunTo(r, "none")
    /\ cancelFuncs' = cancelFuncs \ {r} /\ canceled' = canceled \ {r}
    /\ used' = [used EXCEPT ![r] = None] /\ owed' = [owed EXCEPT ![r] = {}]
    /\ unheard' = unheard \ {r}
    /\ UNCHANGED <<rows, calls, life, faults, unsaved>>

-----------------------------------------------------------------------------
(* The process dies, at any point. *)
Crash ==
    /\ proc = "up" /\ MoreEvents /\ faults' = faults + 1
    /\ proc' = "down"
    /\ pc' = [r \in RunIds |-> "none"] /\ used' = [r \in RunIds |-> None]
    /\ cancelFuncs' = {} /\ canceled' = {}
    /\ runSem' = 0 /\ directoryMu' = [d \in Directories |-> 0]
    /\ callPc' = [p \in Procs |-> "idle"] /\ callDir' = [p \in Procs |-> None]
    /\ callRoot' = [p \in Procs |-> None]
    /\ callRun' = [p \in Procs |-> 0] /\ callMerged' = [p \in Procs |-> None]
    /\ webhookMu' = None
    /\ owed' = [r \in RunIds |-> {}] /\ unheard' = {}
    /\ UNCHANGED <<rows, requests, unsaved>>

(* Mutant: queued runs are not recovered. *)
StartWorkingOnly ==
    /\ proc = "down" /\ proc' = "up"
    /\ status' = [r \in RunIds |-> IF status[r] \in Active \ {"queued"} THEN "failed"
                                   ELSE status[r]]
    /\ UNCHANGED <<dirOf, trig, root, work, calls, requests, faults, history>>

(* Start, before any request is served: MarkActiveRunsFailed and            *)
(* PruneRunHistory, each of which may fail without stopping the start.      *)
Start ==
    /\ proc = "down" /\ proc' = "up"
    /\ \E failed \in SUBSET {"recover", "prune"} :
         /\ faults' = faults + Cardinality(failed) /\ (failed = {} \/ requests + faults' <= MaxEvents)
         /\ status' = [r \in RunIds |->
                         IF "prune" \notin failed /\ r \in Surplus(Rows(dirOf[r])) THEN "deleted"
                         ELSE IF "recover" \notin failed /\ status[r] \in Active THEN "failed"
                         ELSE status[r]]
         /\ unsaved' = unsaved \cup {r \in RunIds : "recover" \in failed /\ status[r] \in Active}
    /\ UNCHANGED <<dirOf, trig, root, work, calls, requests, owed, unheard>>

CallStep(c) ==
    \/ StartRun(c) \/ WebhookActive(c) \/ WebhookQueued(c) \/ WebhookMerge(c)
    \/ WebhookCreate(c) \/ WebhookRefused(c)
    \/ CancelContext(c) \/ CancelWrite(c) \/ CancelQueuedRuns(c)

Request(c) ==
    \E d \in Directories :
       \/ StartManualScan(c, d) \/ CancelScan(c, d)
       \/ \E p \in Paths : Within(DirPath[d], p) /\ LockWebhook(c, d, p)

RunStep(r) ==
    \/ CheckRun(r) \/ SlotCanceled(r) \/ Reload(r) \/ HandleCancellation(r)
    \/ ScanPhase(r) \/ MarkRunFailed(r) \/ SearchOver(r) \/ UpdateRunCompleted(r)
    \/ ExitRun(r)

Serve ==
    \/ \E c \in Callers : Request(c) \/ CallStep(c)
    \/ \E t \in Triggers : \/ \E d \in Directories : TriggerScheduledScan(t, d)
                            \/ JitterOver(t) \/ StartRun(t)
    \/ \E r \in RunIds : RunStep(r) \/ Inject(r) \/ AcquireRunSlot(r) \/ Advance(r)

Next == (proc = "up" /\ Serve) \/ Crash \/ Start

Spec == Init /\ [][Next]_vars

-----------------------------------------------------------------------------
(* Type invariant; a run beyond its slot holds one, and beyond the lock the *)
(* directory.                                                               *)
TypeOK ==
    /\ status \in [RunIds -> Active \cup Ended \cup {"none", "deleted"}]
    /\ dirOf \in [RunIds -> Directories \cup {None}]
    /\ trig \in [RunIds -> {"none", "manual", "scheduled", "webhook"}]
    /\ root \in [RunIds -> Paths \cup {None}] /\ used \in [RunIds -> Paths \cup {None}]
    /\ cancelFuncs \subseteq RunIds /\ canceled \subseteq RunIds
    /\ runSem = Cardinality({r \in RunIds : pc[r] \notin {"none", "check", "slot", "exit"}})
    /\ runSem <= MaxConcurrentRuns
    /\ \A r \in RunIds :
         pc[r] \notin {"none", "check", "slot", "advance", "exit"} <=>
            dirOf[r] # None /\ directoryMu[dirOf[r]] = r
    /\ callRun \in [Procs -> 0 .. MaxRuns] /\ callDir \in [Procs -> Directories \cup {None}]
    /\ callRoot \in [Procs -> Paths \cup {None}] /\ callMerged \in [Procs -> Paths \cup {None}]
    /\ webhookMu \in Callers \cup {None}
    /\ requests \in 0 .. MaxEvents /\ faults \in 0 .. MaxEvents
    /\ proc \in {"up", "down"}

(* A run scans every path that a webhook was promised it would: whatever    *)
(* the order of webhooks, merges and the run's own progress, the root it    *)
(* reads when it begins holds all paths accepted before that.               *)
WebhookCovered ==
    \A r \in RunIds : used[r] # None => \A p \in owed[r] : Within(used[r], p)

(* The queue of a directory holds at most one run made by a webhook: later  *)
(* ones join it.  So a burst of webhooks costs one follow-up scan.          *)
OneFollowUp ==
    \A q, r \in RunIds :
       /\ dirOf[q] = dirOf[r] /\ trig[q] = "webhook" /\ trig[r] = "webhook"
       /\ status[q] = "queued" /\ status[r] = "queued"
       => q = r

(* An active row, which keeps new runs of the directory away or takes in    *)
(* its webhooks, has a goroutine that works on it, a request that is about  *)
(* to start or to cancel it, or was left behind by a failed store call.     *)
NoStrandedRun ==
    \A r \in RunIds \ unsaved :
       status[r] \in Active /\ proc = "up" =>
          \/ pc[r] \notin {"none", "leave", "exit"}
          \/ \E p \in Procs : /\ callRun[p] = r
                              /\ callPc[p] \in {"start", "jitter", "cancel", "write"}

(* A run that has ended, and a row that history trimming removed, stays     *)
(* that way, however late a cancellation comes; only a CancelScan that      *)
(* found no cancel function yet may be written over.                        *)
NotRevived ==
    [][\A r \in RunIds \ unheard :
         status[r] \in Ended \cup {"deleted"} => status'[r] \notin Active]_vars
=============================================================================
