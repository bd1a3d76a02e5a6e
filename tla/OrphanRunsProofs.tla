-------------------------- MODULE OrphanRunsProofs --------------------------
(***************************************************************************)
(* OrphanRuns for every number of instances, runs, requests and crashes:   *)
(* the type invariant, that an instance never has two deletion goroutines  *)
(* at work, that every deletion is sanctioned, that an instance has one    *)
(* active run, and that no run is stranded.                                *)
(*                                                                         *)
(* The mutex of an instance is taken by TryLock in a request or in a scan  *)
(* goroutine, handed to the deletion goroutine it launches, and released   *)
(* by that goroutine.  The inductive invariant MutexInv therefore speaks   *)
(* of all three kinds of holder: whoever holds an instance finds its flag  *)
(* set, and no two of them, of the same kind or not, hold the same         *)
(* instance.                                                               *)
(***************************************************************************)
EXTENDS OrphanRuns, TLAPS

CallHolds(c) == callPc[c] = "register"
ScanHolds(r) == scanPc[r] = "register"
DelHolds(s) == delPc[s] # "idle"

HoldersHold ==
    /\ \A c \in Slots : CallHolds(c) => inst[callRun[c]] \in locked
    /\ \A r \in RunIds : ScanHolds(r) => inst[r] \in locked
    /\ \A s \in Spawners : DelHolds(s) => inst[delRun[s]] \in locked

CallsApart ==
    \A c, d \in Slots :
       CallHolds(c) /\ CallHolds(d) /\ inst[callRun[c]] = inst[callRun[d]] => c = d

ScansApart ==
    \A q, r \in RunIds : ScanHolds(q) /\ ScanHolds(r) /\ inst[q] = inst[r] => q = r

KindsApart ==
    /\ \A c \in Slots, r \in RunIds :
          CallHolds(c) /\ ScanHolds(r) => inst[callRun[c]] # inst[r]
    /\ \A c \in Slots, s \in Spawners :
          CallHolds(c) /\ DelHolds(s) => inst[callRun[c]] # inst[delRun[s]]
    /\ \A r \in RunIds, s \in Spawners :
          ScanHolds(r) /\ DelHolds(s) => inst[r] # inst[delRun[s]]

MutexInv ==
    /\ HoldersHold /\ CallsApart /\ ScansApart /\ KindsApart
    /\ OneDeletionPerInstance

-----------------------------------------------------------------------------
(* Requests and runs both name deletion goroutines. *)
LEMMA IdFacts == Slots \subseteq Spawners /\ RunIds \subseteq Spawners /\ RunIds \subseteq Nat
  BY DEF RunIds, Spawners

(* Every step keeps every row, goroutine and request in one of its states. *)
LEMMA TypeStep == TypeOK /\ [Next]_vars => TypeOK'
<1> SUFFICES ASSUME TypeOK, [Next]_vars PROVE TypeOK'
  OBVIOUS
<1> USE OrphanRunsAssumption, IdFacts DEF TypeOK, ScanPcs, DelPcs, CallPcs,
        Statuses, rows, scans, dels, calls, process
<1>1. ASSUME NEW r \in RunIds, ScanStep(r) PROVE TypeOK'
  <2>1. CASE ScanStart(r) BY <2>1 DEF ScanStart, SetStatus, NotSaved, ScanTo
  <2>2. CASE ScanWork(r) BY <2>2 DEF ScanWork
  <2>3. CASE ScanFail(r) BY <2>3 DEF ScanFail, SetStatus, NotSaved, ScanTo
  <2>4. CASE ScanStats(r) BY <2>4 DEF ScanStats, ScanTo
  <2>5. CASE ScanFinish(r)
    <3>1. ASSUME NEW to \in {"completed", "preview_ready"}, SetStatus(r, to),
                 NEW pc \in {"exit", "auto"}, ScanTo(r, pc)
          PROVE TypeOK'
      BY <2>5, <3>1 DEF ScanFinish, SetStatus, ScanTo
    <3>2. CASE NotSaved(r, r \in scanCanceled) /\ ScanTo(r, "exit")
      BY <2>5, <3>2 DEF ScanFinish, NotSaved, ScanTo
    <3> QED BY <2>5, <3>1, <3>2 DEF ScanFinish
  <2>6. CASE MaybeAutoCleanup(r) BY <2>6 DEF MaybeAutoCleanup, ScanTo
  <2>8. CASE AutoConfirmLock(r)
    <3>1. inst[r] \in Instances OBVIOUS
    <3>2. CASE ScanTo(r, "exit") /\ UNCHANGED locked BY <2>8, <3>2 DEF AutoConfirmLock, ScanTo
    <3>3. CASE ScanTo(r, "register") /\ locked' = locked \cup {inst[r]}
      BY <2>8, <3>1, <3>3 DEF AutoConfirmLock, ScanTo
    <3> QED BY <2>8, <3>2, <3>3 DEF AutoConfirmLock
  <2>9. CASE AutoConfirmRegister(r) BY <2>9 DEF AutoConfirmRegister, LaunchDeletion, ScanTo
  <2>10. CASE ScanExit(r) BY <2>10 DEF ScanExit
  <2> QED BY <1>1, <2>1, <2>2, <2>3, <2>4, <2>5, <2>6, <2>8, <2>9, <2>10 DEF ScanStep
<1>2. ASSUME NEW s \in Spawners, DeletionStep(s) PROVE TypeOK'
  <2>1. CASE DeletionStart(s)
    <3>1. delRun[s] \in RunIds BY <2>1 DEF DeletionStart
    <3>2. CASE SetStatus(delRun[s], "deleting") /\ DelTo(s, "work")
      BY <2>1, <3>1, <3>2 DEF DeletionStart, SetStatus, DelTo
    <3>3. CASE UNCHANGED rows /\ DelTo(s, "exit") BY <2>1, <3>3 DEF DeletionStart, DelTo
    <3> QED BY <2>1, <3>2, <3>3 DEF DeletionStart
  <2>3. CASE DeletionFail(s)
    <3>1. delRun[s] \in RunIds BY <2>3 DEF DeletionFail
    <3>2. CASE SetStatus(delRun[s], "failed")
      BY <2>3, <3>1, <3>2 DEF DeletionFail, SetStatus, DelTo
    <3>3. CASE NotSaved(delRun[s], s \in delCanceled)
      BY <2>3, <3>1, <3>3 DEF DeletionFail, NotSaved, DelTo
    <3> QED BY <2>3, <3>2, <3>3 DEF DeletionFail
  <2>5. CASE DeletionFinish(s)
    <3>1. delRun[s] \in RunIds BY <2>5 DEF DeletionFinish
    <3>2. ASSUME NEW result \in {"completed", "failed"}, SetStatus(delRun[s], result)
          PROVE TypeOK'
      BY <2>5, <3>1, <3>2 DEF DeletionFinish, SetStatus, DelTo
    <3>3. CASE NotSaved(delRun[s], s \in delCanceled)
      BY <2>5, <3>1, <3>3 DEF DeletionFinish, NotSaved, DelTo
    <3> QED BY <2>5, <3>2, <3>3 DEF DeletionFinish
  <2>6. CASE DeletionExit(s) BY <2>6 DEF DeletionExit, DelTo
  <2>7. CASE DeletionUnlock(s) BY <2>7 DEF DeletionUnlock
  <2> QED BY <1>2, <2>1, <2>3, <2>5, <2>6, <2>7 DEF DeletionStep
<1>3. ASSUME NEW c \in Slots, CallStep(c) PROVE TypeOK'
  <2>1. CASE TriggerScan(c) BY <2>1 DEF TriggerScan, Return
  <2>2. CASE ConfirmLock(c)
    <3>1. callRun[c] \in RunIds /\ inst[callRun[c]] \in Instances BY <2>2 DEF ConfirmLock
    <3>2. CASE Return(c) /\ UNCHANGED locked BY <2>2, <3>2 DEF ConfirmLock, Return
    <3>3. CASE CallTo(c, "register") /\ locked' = locked \cup {inst[callRun[c]]}
      BY <2>2, <3>1, <3>3 DEF ConfirmLock, CallTo
    <3> QED BY <2>2, <3>2, <3>3 DEF ConfirmLock
  <2>3. CASE ConfirmRegister(c) BY <2>3 DEF ConfirmRegister, LaunchDeletion, Return
  <2>4. CASE CancelInterrupt(c) BY <2>4 DEF CancelInterrupt, CallTo
  <2>5. CASE CancelStale(c) BY <2>5 DEF CancelStale, Return, CallTo
  <2>6. CASE CancelWrite(c) BY <2>6 DEF CancelWrite, SetStatus, NotSaved, Return
  <2> QED BY <1>3, <2>1, <2>2, <2>3, <2>4, <2>5, <2>6 DEF CallStep
<1>4. ASSUME NEW c \in Slots, Request(c) PROVE TypeOK'
  <2> PICK r \in RunIds : \/ \E by \in {"manual", "scheduled"} : CreateRunIfNoActive(c, r, by)
                          \/ ConfirmRead(c, r) \/ CancelRead(c, r)
    BY <1>4 DEF Request
  <2>1. CASE \E by \in {"manual", "scheduled"} : CreateRunIfNoActive(c, r, by)
    BY <2>1 DEF CreateRunIfNoActive, Take
  <2>2. CASE ConfirmRead(c, r) BY <2>2 DEF ConfirmRead, Take
  <2>3. CASE CancelRead(c, r) BY <2>3 DEF CancelRead, Take
  <2> QED BY <2>1, <2>2, <2>3
<1>5. CASE Crash BY <1>5 DEF Crash
<1>6. CASE Start BY <1>6 DEF Start
<1>7. CASE MarkDeletingRunsFailed
  <2>1. status' \in [RunIds -> Statuses]
    <3>1. CASE UNCHANGED status BY <3>1
    <3>2. CASE status' = [r \in RunIds |->
                            IF status[r] = "deleting" THEN "failed" ELSE status[r]]
      BY <3>2
    <3> QED BY <1>7, <3>1, <3>2 DEF MarkDeletingRunsFailed
  <2>2. proc' \in {"recover2", "up"} BY <1>7 DEF MarkDeletingRunsFailed
  <2>3. UNCHANGED <<inst, trig, filesFound, revived, scans, dels, calls, cancelFuncs,
                    locked, prior, crashes>>
    BY <1>7 DEF MarkDeletingRunsFailed
  <2>4. unsaved' \subseteq RunIds
    <3>1. CASE UNCHANGED unsaved BY <3>1
    <3>2. CASE unsaved' = unsaved \cup {r \in RunIds : status[r] = "deleting"} BY <3>2
    <3> QED BY <1>7, <3>1, <3>2 DEF MarkDeletingRunsFailed
  <2> QED BY <2>1, <2>2, <2>3, <2>4
<1>8. CASE MarkStuckRunsFailed
  <2>1. status' \in [RunIds -> Statuses]
    <3>1. CASE UNCHANGED status BY <3>1
    <3>2. CASE \E cutoff \in 0 .. prior :
               status' = [r \in RunIds |->
                            IF r <= cutoff /\ status[r] \in {"pending", "scanning"}
                            THEN "failed" ELSE status[r]]
      BY <3>2
    <3> QED BY <1>8, <3>1, <3>2 DEF MarkStuckRunsFailed
  <2> QED BY <1>8, <2>1 DEF MarkStuckRunsFailed
<1>9. CASE UNCHANGED vars BY <1>9 DEF vars
<1> QED BY <1>1, <1>2, <1>3, <1>4, <1>5, <1>6, <1>7, <1>8, <1>9 DEF Next, Recover

(* The type invariant of the run life cycle, for all constants. *)
THEOREM TypeCorrect == Spec => []TypeOK
<1>1. Init => TypeOK
  BY OrphanRunsAssumption DEF Init, TypeOK, RunIds, Spawners, ScanPcs, DelPcs,
     CallPcs, Statuses
<1> QED BY <1>1, TypeStep, PTL DEF Spec

-----------------------------------------------------------------------------
(* Taking, handing over and releasing the instance mutex. *)
LEMMA MutexStep == TypeOK /\ MutexInv /\ [Next]_vars => MutexInv'
<1> SUFFICES ASSUME TypeOK, MutexInv, [Next]_vars PROVE MutexInv'
  OBVIOUS
<1> USE IdFacts DEF TypeOK, MutexInv, HoldersHold, CallsApart, ScansApart,
        KindsApart, OneDeletionPerInstance, CallHolds, ScanHolds, DelHolds,
        rows, scans, dels, calls, process
<1>1. ASSUME NEW r \in RunIds, ScanStep(r) PROVE MutexInv'
  <2>1. CASE ScanStart(r) BY <2>1 DEF ScanStart, SetStatus, NotSaved, ScanTo
  <2>2. CASE ScanWork(r) BY <2>2 DEF ScanWork
  <2>3. CASE ScanFail(r) BY <2>3 DEF ScanFail, SetStatus, NotSaved, ScanTo
  <2>4. CASE ScanStats(r) BY <2>4 DEF ScanStats, ScanTo
  <2>5. CASE ScanFinish(r) BY <2>5 DEF ScanFinish, SetStatus, NotSaved, ScanTo
  <2>6. CASE MaybeAutoCleanup(r) BY <2>6 DEF MaybeAutoCleanup, ScanTo
  <2>8. CASE AutoConfirmLock(r) BY <2>8 DEF AutoConfirmLock, ScanTo
  <2>9. CASE AutoConfirmRegister(r) BY <2>9 DEF AutoConfirmRegister, LaunchDeletion, ScanTo
  <2>10. CASE ScanExit(r) BY <2>10 DEF ScanExit
  <2> QED BY <1>1, <2>1, <2>2, <2>3, <2>4, <2>5, <2>6, <2>8, <2>9, <2>10 DEF ScanStep
<1>2. ASSUME NEW s \in Spawners, DeletionStep(s) PROVE MutexInv'
  <2>1. CASE DeletionStart(s) BY <2>1 DEF DeletionStart, SetStatus, DelTo
  <2>3. CASE DeletionFail(s) BY <2>3 DEF DeletionFail, SetStatus, NotSaved, DelTo
  <2>5. CASE DeletionFinish(s) BY <2>5 DEF DeletionFinish, SetStatus, NotSaved, DelTo
  <2>6. CASE DeletionExit(s) BY <2>6 DEF DeletionExit, DelTo
  <2>7. CASE DeletionUnlock(s) BY <2>7 DEF DeletionUnlock
  <2> QED BY <1>2, <2>1, <2>3, <2>5, <2>6, <2>7 DEF DeletionStep
<1>3. ASSUME NEW c \in Slots, CallStep(c) PROVE MutexInv'
  <2>1. CASE TriggerScan(c) BY <2>1 DEF TriggerScan, Return
  <2>2. CASE ConfirmLock(c) BY <2>2 DEF ConfirmLock, Return, CallTo
  <2>3. CASE ConfirmRegister(c) BY <2>3 DEF ConfirmRegister, LaunchDeletion, Return
  <2>4. CASE CancelInterrupt(c) BY <2>4 DEF CancelInterrupt, CallTo
  <2>5. CASE CancelStale(c) BY <2>5 DEF CancelStale, Return, CallTo
  <2>6. CASE CancelWrite(c)
    <3>1. UNCHANGED <<inst, scanPc, delPc, delRun, locked>>
      BY <2>6 DEF CancelWrite, SetStatus, NotSaved
    <3>2. \A d \in Slots : CallHolds(d)' => CallHolds(d) /\ callRun'[d] = callRun[d]
      BY <2>6 DEF CancelWrite, Return
    <3> QED BY <3>1, <3>2
  <2> QED BY <1>3, <2>1, <2>2, <2>3, <2>4, <2>5, <2>6 DEF CallStep
<1>4. ASSUME NEW c \in Slots, Request(c) PROVE MutexInv'
  <2> PICK r \in RunIds : \/ \E by \in {"manual", "scheduled"} : CreateRunIfNoActive(c, r, by)
                          \/ ConfirmRead(c, r) \/ CancelRead(c, r)
    BY <1>4 DEF Request
  <2>1. CASE \E by \in {"manual", "scheduled"} : CreateRunIfNoActive(c, r, by)
    BY <2>1 DEF CreateRunIfNoActive, Take
  <2>2. CASE ConfirmRead(c, r) BY <2>2 DEF ConfirmRead, Take
  <2>3. CASE CancelRead(c, r) BY <2>3 DEF CancelRead, Take
  <2> QED BY <2>1, <2>2, <2>3
<1>5. CASE Crash BY <1>5 DEF Crash
<1>6. CASE Start BY <1>6 DEF Start
<1>7. CASE MarkDeletingRunsFailed BY <1>7 DEF MarkDeletingRunsFailed
<1>8. CASE MarkStuckRunsFailed BY <1>8 DEF MarkStuckRunsFailed
<1>9. CASE UNCHANGED vars BY <1>9 DEF vars
<1> QED BY <1>1, <1>2, <1>3, <1>4, <1>5, <1>6, <1>7, <1>8, <1>9 DEF Next, Recover

(* No instance ever has two deletion goroutines at work, for any number of *)
(* instances, runs, concurrent requests, store errors and restarts.        *)
THEOREM DeletionExclusive == Spec => []OneDeletionPerInstance
<1>1. Init => MutexInv
  BY OrphanRunsAssumption DEF Init, MutexInv, HoldersHold, CallsApart, ScansApart,
     KindsApart, OneDeletionPerInstance, CallHolds, ScanHolds, DelHolds, RunIds, Spawners
<1>2. MutexInv => OneDeletionPerInstance
  BY DEF MutexInv
<1> QED BY <1>1, <1>2, MutexStep, TypeCorrect, PTL DEF Spec

-----------------------------------------------------------------------------
(* The life of a run.  It passes through stages that never overlap: its    *)
(* row is missing; a request is about to start its scan; the scan is at    *)
(* work; its preview was saved.  LifeInv says for every actor which stage  *)
(* it implies, so that nobody counts the files of a run again once         *)
(* somebody may delete them.                                               *)

Counted(r) == filesFound[r] > 0 \/ StoreErrors
Sanctioned(r) == AutoCleanup /\ trig[r] = "scheduled" /\ scanFound[r] <= AutoMax

AtWork(r) == scanPc[r] \in {"start", "work", "stats", "finish"}
Previews == {"preview_ready", "deleting"} \cup Finished

(* Nobody works on a run that has no row. *)
Unborn ==
    \A r \in RunIds : status[r] = "none" =>
       /\ scanPc[r] = "idle"
       /\ \A c \in Slots : callPc[c] # "idle" => callRun[c] # r
       /\ \A s \in Spawners : delPc[s] # "idle" => delRun[s] # r

(* The request that created a run is alone with it. *)
Triggered ==
    \A c \in Slots, r \in RunIds : callPc[c] = "trigger" /\ callRun[c] = r =>
       /\ status[r] \in {"pending"} \cup Finished
       /\ scanPc[r] = "idle"
       /\ \A d \in Slots : callPc[d] = "trigger" /\ callRun[d] = r => d = c
       /\ \A d \in Slots : callPc[d] \in {"lock", "register"} => callRun[d] # r
       /\ \A s \in Spawners : delPc[s] # "idle" => delRun[s] # r

(* What the row holds at each stage of the scan: that, or a finished status *)
(* that a cancellation or the recovery wrote.                               *)
Scanned ==
    \A r \in RunIds :
       /\ scanPc[r] = "start" => status[r] \in {"pending"} \cup Finished
       /\ scanPc[r] \in {"work", "stats", "finish"} => status[r] \in {"scanning"} \cup Finished
       /\ scanPc[r] \in {"auto", "lock", "register"} => status[r] \in Previews /\ Counted(r)
       /\ scanPc[r] \in {"lock", "register"} => Sanctioned(r)

Confirmed ==
    \A c \in Slots, r \in RunIds : callPc[c] \in {"lock", "register"} /\ callRun[c] = r =>
       status[r] \in Previews /\ Counted(r) /\ ~AtWork(r)

Deleting ==
    \A s \in Spawners, r \in RunIds : delPc[s] # "idle" /\ delRun[s] = r =>
       /\ status[r] \in Previews /\ Counted(r) /\ ~AtWork(r)
       /\ s \in RunIds => r = s /\ Sanctioned(s) /\ scanPc[s] \in {"exit", "idle"}

Previewed ==
    \A r \in RunIds :
       /\ status[r] = "preview_ready" => Counted(r)
       /\ scanPc[r] = "finish" =>
             filesFound[r] = scanFound[r] \/ StoreErrors \/ r \in scanCanceled

LifeInv == Unborn /\ Triggered /\ Scanned /\ Confirmed /\ Deleting /\ Previewed

(* Most steps only withdraw: rows are finished, scans leave, requests and   *)
(* deletions go on with their run or end.                                   *)
Withdraws ==
    /\ UNCHANGED <<filesFound, trig>>
    /\ \A r \in RunIds : \/ status'[r] = status[r]
                         \/ status[r] # "none" /\ status'[r] \in Finished
    /\ \A r \in RunIds :
          \/ /\ scanPc'[r] = scanPc[r] /\ scanFound'[r] = scanFound[r]
             /\ r \in scanCanceled => r \in scanCanceled'
          \/ scanPc'[r] = "exit" /\ scanPc[r] # "idle" /\ scanFound'[r] = scanFound[r]
          \/ scanPc'[r] = "idle" /\ scanFound'[r] = 0
    /\ \A c \in Slots :
          \/ callPc'[c] = callPc[c] /\ callRun'[c] = callRun[c]
          \/ callPc'[c] = "idle"
          \/ callPc'[c] = "write" /\ callPc[c] # "idle" /\ callRun'[c] = callRun[c]
          \/ callPc'[c] = "register" /\ callPc[c] = "lock" /\ callRun'[c] = callRun[c]
    /\ \A s \in Spawners :
          delPc'[s] # "idle" => delPc[s] # "idle" /\ delRun'[s] = delRun[s]

LEMMA WithdrawsKeeps == TypeOK /\ LifeInv /\ Withdraws /\ TypeOK' => LifeInv'
<1> SUFFICES ASSUME TypeOK, LifeInv, Withdraws, TypeOK' PROVE LifeInv'
  OBVIOUS
<1> USE OrphanRunsAssumption, IdFacts
<1>1. /\ \A r \in RunIds : Counted(r)' <=> Counted(r)
      /\ \A r \in RunIds : status[r] \in Previews => status'[r] \in Previews
      /\ \A r \in RunIds : AtWork(r)' => AtWork(r)
      /\ \A r \in RunIds : Sanctioned(r) => Sanctioned(r)'
  BY DEF Withdraws, TypeOK, Counted, Previews, Finished, AtWork, Sanctioned
<1>2. Unborn' BY DEF LifeInv, Unborn, Withdraws, TypeOK, Finished
<1>3. Triggered' BY DEF LifeInv, Triggered, Withdraws, TypeOK
<1>4. Scanned' BY <1>1 DEF LifeInv, Scanned, Withdraws, TypeOK
<1>5. Confirmed' BY <1>1 DEF LifeInv, Confirmed, Withdraws, TypeOK
<1>6. Deleting' BY <1>1 DEF LifeInv, Deleting, Withdraws, TypeOK
<1>7. Previewed' BY <1>1 DEF LifeInv, Previewed, Withdraws, TypeOK, Finished
<1> QED BY <1>2, <1>3, <1>4, <1>5, <1>6, <1>7 DEF LifeInv

(* The steps of a scan goroutine. *)
LEMMA LifeScan ==
    ASSUME TypeOK, LifeInv, TypeOK', NEW r \in RunIds, ScanStep(r) PROVE LifeInv'
<1> USE OrphanRunsAssumption, IdFacts
<1>0. ASSUME Withdraws PROVE LifeInv' BY <1>0, WithdrawsKeeps
<1>1. ASSUME SetStatus(r, "scanning"), ScanTo(r, "work"), scanPc[r] = "start",
             UNCHANGED <<dels, calls>>
      PROVE LifeInv'
  <2> USE <1>1 DEF TypeOK, SetStatus, ScanTo, dels, calls
  <2>1. \A q \in RunIds : /\ Counted(q)' <=> Counted(q)
                          /\ AtWork(q)' <=> AtWork(q)
                          /\ Sanctioned(q)' <=> Sanctioned(q)
    BY DEF Counted, AtWork, Sanctioned
  <2>2. status[r] # "none" /\ AtWork(r)
    BY DEF LifeInv, Scanned, Finished, AtWork
  <2>3. Unborn' BY <2>2 DEF LifeInv, Unborn
  <2>4. Triggered' BY DEF LifeInv, Triggered
  <2>5. Scanned' BY <2>1 DEF LifeInv, Scanned
  <2>6. Confirmed' BY <2>1, <2>2 DEF LifeInv, Confirmed
  <2>7. Deleting' BY <2>1, <2>2 DEF LifeInv, Deleting
  <2>8. Previewed' BY <2>1 DEF LifeInv, Previewed
  <2> QED BY <2>3, <2>4, <2>5, <2>6, <2>7, <2>8 DEF LifeInv
<1>2. ASSUME SetStatus(r, "preview_ready"), ScanTo(r, "auto"), scanPc[r] = "finish",
             Counted(r), UNCHANGED <<dels, calls>>
      PROVE LifeInv'
  <2> USE <1>2 DEF TypeOK, SetStatus, ScanTo, dels, calls
  <2>1. \A q \in RunIds : /\ Counted(q)' <=> Counted(q)
                          /\ AtWork(q)' => AtWork(q)
                          /\ Sanctioned(q)' <=> Sanctioned(q)
    BY DEF Counted, AtWork, Sanctioned
  <2>2. status[r] # "none" /\ AtWork(r)
    BY DEF LifeInv, Scanned, Finished, AtWork
  <2>3. Unborn' BY <2>2 DEF LifeInv, Unborn
  <2>4. Triggered' BY DEF LifeInv, Triggered
  <2>5. Scanned' BY <2>1 DEF LifeInv, Scanned, Previews
  <2>6. Confirmed' BY <2>1, <2>2 DEF LifeInv, Confirmed
  <2>7. Deleting' BY <2>1, <2>2 DEF LifeInv, Deleting
  <2>8. Previewed' BY <2>1 DEF LifeInv, Previewed, Counted
  <2> QED BY <2>3, <2>4, <2>5, <2>6, <2>7, <2>8 DEF LifeInv
<1>3. CASE ScanStart(r)
  <2>1. CASE SetStatus(r, "scanning") /\ ScanTo(r, "work")
    BY <1>1, <1>3, <2>1 DEF ScanStart
  <2>2. CASE NotSaved(r, r \in scanCanceled) /\ ScanTo(r, "exit")
    BY <1>0, <1>3, <2>2 DEF ScanStart, NotSaved, ScanTo, TypeOK, Withdraws, dels, calls
  <2> QED BY <1>3, <2>1, <2>2 DEF ScanStart
<1>4. CASE ScanWork(r)
  <2> USE <1>4 DEF ScanWork, TypeOK, rows, dels, calls
  <2>1. AtWork(r) BY DEF AtWork
  <2>2. \A q \in RunIds : /\ Counted(q)' <=> Counted(q)
                          /\ AtWork(q)' <=> AtWork(q)
                          /\ q # r => (Sanctioned(q)' <=> Sanctioned(q))
    BY DEF Counted, AtWork, Sanctioned
  <2>3. Unborn' BY DEF LifeInv, Unborn
  <2>4. Triggered' BY DEF LifeInv, Triggered
  <2>5. Scanned' BY <2>2 DEF LifeInv, Scanned
  <2>6. Confirmed' BY <2>2 DEF LifeInv, Confirmed
  <2>7. Deleting' BY <2>1, <2>2 DEF LifeInv, Deleting
  <2>8. Previewed' BY <2>2 DEF LifeInv, Previewed
  <2> QED BY <2>3, <2>4, <2>5, <2>6, <2>7, <2>8 DEF LifeInv
<1>5. CASE ScanFail(r)
  <2>1. status[r] # "none" BY <1>5 DEF ScanFail, LifeInv, Scanned, Finished
  <2>2. CASE SetStatus(r, "failed")
    BY <1>0, <1>5, <2>1, <2>2 DEF ScanFail, SetStatus, ScanTo, TypeOK, Withdraws, Finished,
       dels, calls
  <2>3. CASE NotSaved(r, r \in scanCanceled)
    BY <1>0, <1>5, <2>3 DEF ScanFail, NotSaved, ScanTo, TypeOK, Withdraws, dels, calls
  <2> QED BY <1>5, <2>2, <2>3 DEF ScanFail
<1>6. CASE ScanStats(r)
  <2> USE <1>6 DEF ScanStats, ScanTo, TypeOK, dels, calls
  <2>1. AtWork(r) BY DEF AtWork
  <2>2. \A q \in RunIds : /\ q # r => (Counted(q)' <=> Counted(q))
                          /\ AtWork(q)' <=> AtWork(q)
                          /\ Sanctioned(q)' <=> Sanctioned(q)
    BY DEF Counted, AtWork, Sanctioned
  <2>3. Unborn' BY DEF LifeInv, Unborn
  <2>4. Triggered' BY DEF LifeInv, Triggered
  <2>5. Scanned' BY <2>2 DEF LifeInv, Scanned
  <2>6. Confirmed' BY <2>1, <2>2 DEF LifeInv, Confirmed
  <2>7. Deleting' BY <2>1, <2>2 DEF LifeInv, Deleting
  <2>8. status[r] # "preview_ready" BY DEF LifeInv, Scanned, Finished
  <2>9. filesFound'[r] = scanFound[r] \/ StoreErrors \/ r \in scanCanceled
    BY DEF Outcomes
  <2>10. Previewed' BY <2>2, <2>8, <2>9 DEF LifeInv, Previewed
  <2> QED BY <2>3, <2>4, <2>5, <2>6, <2>7, <2>10 DEF LifeInv
<1>7. CASE ScanFinish(r)
  <2>1. status[r] # "none" BY <1>7 DEF ScanFinish, LifeInv, Scanned, Finished
  <2>2. CASE SetStatus(r, "completed") /\ ScanTo(r, "exit")
    BY <1>0, <1>7, <2>1, <2>2 DEF ScanFinish, SetStatus, ScanTo, TypeOK, Withdraws, Finished,
       dels, calls
  <2>3. CASE /\ "ok" \in Outcomes(r \in scanCanceled)
             /\ scanFound[r] > 0 /\ SetStatus(r, "preview_ready") /\ ScanTo(r, "auto")
    <3>1. Counted(r) BY <1>7, <2>3 DEF ScanFinish, LifeInv, Previewed, Outcomes, Counted
    <3> QED BY <1>2, <1>7, <2>3, <3>1 DEF ScanFinish
  <2>4. CASE NotSaved(r, r \in scanCanceled) /\ ScanTo(r, "exit")
    BY <1>0, <1>7, <2>4 DEF ScanFinish, NotSaved, ScanTo, TypeOK, Withdraws, dels, calls
  <2> QED BY <1>7, <2>2, <2>3, <2>4 DEF ScanFinish
<1>8. ASSUME NEW to \in {"lock", "register"}, ScanTo(r, to), UNCHANGED <<rows, dels, calls>>,
             scanPc[r] \in {"auto", "lock"}, Sanctioned(r)
      PROVE LifeInv'
  <2> USE <1>8 DEF ScanTo, TypeOK, rows, dels, calls
  <2>1. \A q \in RunIds : /\ Counted(q)' <=> Counted(q)
                          /\ AtWork(q)' <=> AtWork(q)
                          /\ Sanctioned(q)' <=> Sanctioned(q)
    BY DEF Counted, AtWork, Sanctioned
  <2>2. Unborn' BY DEF LifeInv, Unborn
  <2>3. Triggered' BY DEF LifeInv, Triggered
  <2>4. Scanned'
    <3>1. status'[r] \in Previews /\ Counted(r)' /\ Sanctioned(r)'
      BY <2>1 DEF LifeInv, Scanned
    <3> QED BY <2>1, <3>1 DEF LifeInv, Scanned
  <2>5. Confirmed' BY <2>1 DEF LifeInv, Confirmed
  <2>6. Deleting' BY <2>1 DEF LifeInv, Deleting
  <2>7. Previewed' BY <2>1 DEF LifeInv, Previewed
  <2> QED BY <2>2, <2>3, <2>4, <2>5, <2>6, <2>7 DEF LifeInv
<1>9. ASSUME ScanTo(r, "exit"), UNCHANGED <<rows, dels, calls>>, scanPc[r] # "idle" PROVE LifeInv'
  BY <1>0, <1>9 DEF ScanTo, TypeOK, Withdraws, rows, dels, calls
<1>10. CASE MaybeAutoCleanup(r)
  BY <1>8, <1>9, <1>10 DEF MaybeAutoCleanup, MayAutoClean, Sanctioned
<1>11. CASE AutoConfirmLock(r)
  <2>1. Sanctioned(r) BY <1>11 DEF AutoConfirmLock, LifeInv, Scanned
  <2> QED BY <1>8, <1>9, <1>11, <2>1 DEF AutoConfirmLock
<1>12. CASE AutoConfirmRegister(r)
  <2> USE <1>12 DEF AutoConfirmRegister, LaunchDeletion, ScanTo, TypeOK, rows, calls
  <2>1. status[r] \in Previews /\ Counted(r) /\ Sanctioned(r) /\ ~AtWork(r)'
    BY DEF LifeInv, Scanned, AtWork
  <2>2. \A q \in RunIds : /\ Counted(q)' <=> Counted(q)
                          /\ AtWork(q)' => AtWork(q)
                          /\ Sanctioned(q)' <=> Sanctioned(q)
    BY DEF Counted, AtWork, Sanctioned
  <2>3. Unborn' BY <2>1 DEF LifeInv, Unborn, Previews, Finished
  <2>4. Triggered' BY DEF LifeInv, Triggered
  <2>5. Scanned' BY <2>2 DEF LifeInv, Scanned
  <2>6. Confirmed' BY <2>2 DEF LifeInv, Confirmed
  <2>7. Deleting' BY <2>1, <2>2 DEF LifeInv, Deleting
  <2>8. Previewed' BY <2>2 DEF LifeInv, Previewed
  <2> QED BY <2>3, <2>4, <2>5, <2>6, <2>7, <2>8 DEF LifeInv
<1>13. CASE ScanExit(r)
  BY <1>0, <1>13 DEF ScanExit, TypeOK, Withdraws, rows, dels, calls
<1> QED BY <1>3, <1>4, <1>5, <1>6, <1>7, <1>10, <1>11, <1>12, <1>13 DEF ScanStep

(* The steps of a deletion goroutine only withdraw, but for its first write, *)
(* which may bring the row of a preview to "deleting".                       *)
LEMMA LifeDeletion ==
    ASSUME TypeOK, LifeInv, TypeOK', NEW s \in Spawners, DeletionStep(s) PROVE LifeInv'
<1> USE OrphanRunsAssumption, IdFacts
<1>0. ASSUME Withdraws PROVE LifeInv' BY <1>0, WithdrawsKeeps
<1> DEFINE r == delRun[s]
<1>1. r \in RunIds /\ status[r] \in Previews /\ Counted(r) /\ ~AtWork(r)
  <2>1. delPc[s] # "idle"
    BY DEF DeletionStep, DeletionStart, DeletionFail, DeletionFinish, DeletionExit, DeletionUnlock
  <2> QED BY <2>1 DEF TypeOK, LifeInv, Deleting
<1>2. CASE DeletionStart(s)
  <2>1. CASE SetStatus(r, "deleting") /\ DelTo(s, "work")
    <3> HIDE DEF r
    <3>0. \A q \in RunIds : status'[q] = IF q = r THEN "deleting" ELSE status[q]
      BY <1>1, <2>1 DEF SetStatus, TypeOK
    <3>1. \A t \in Spawners : delPc'[t] # "idle" => delPc[t] # "idle" /\ delRun'[t] = delRun[t]
      BY <1>2, <2>1 DEF DeletionStart, DelTo, TypeOK
    <3>2. UNCHANGED <<filesFound, trig, scanPc, scanFound, scanCanceled, callPc, callRun>>
      BY <1>2, <2>1 DEF DeletionStart, SetStatus, scans, calls
    <3>3. \A q \in RunIds : /\ Counted(q)' <=> Counted(q)
                            /\ AtWork(q)' <=> AtWork(q)
                            /\ Sanctioned(q)' <=> Sanctioned(q)
      BY <3>2 DEF Counted, AtWork, Sanctioned
    <3>4. \A q \in RunIds : status[q] \in Previews => status'[q] \in Previews
      BY <3>0 DEF Previews
    <3>5. status[r] # "none" BY <1>1 DEF Previews, Finished
    <3>6. Unborn' BY <3>0, <3>1, <3>2, <3>5 DEF LifeInv, Unborn
    <3>7. Triggered'
      <4>1. delPc[s] # "idle" /\ delRun[s] = r BY <1>2 DEF DeletionStart, r
      <4> QED BY <3>0, <3>1, <3>2, <4>1 DEF LifeInv, Triggered
    <3>8. Scanned' BY <1>1, <3>0, <3>2, <3>3, <3>4 DEF LifeInv, Scanned, AtWork
    <3>9. Confirmed' BY <3>2, <3>3, <3>4 DEF LifeInv, Confirmed
    <3>10. Deleting' BY <3>1, <3>2, <3>3, <3>4 DEF LifeInv, Deleting
    <3>11. Previewed' BY <3>0, <3>2, <3>3 DEF LifeInv, Previewed
    <3> QED BY <3>6, <3>7, <3>8, <3>9, <3>10, <3>11 DEF LifeInv
  <2>2. CASE UNCHANGED rows /\ DelTo(s, "exit")
    BY <1>0, <1>2, <2>2 DEF DeletionStart, DelTo, Withdraws, TypeOK, rows, scans, calls
  <2> QED BY <1>2, <2>1, <2>2 DEF DeletionStart
<1>3. ASSUME SetStatus(r, "failed") \/ SetStatus(r, "completed") \/ NotSaved(r, s \in delCanceled),
             DelTo(s, "exit"), delPc[s] # "idle", UNCHANGED <<scans, calls>>
      PROVE LifeInv'
  <2>1. \A q \in RunIds : \/ status'[q] = status[q]
                          \/ status[q] # "none" /\ status'[q] \in Finished
    BY <1>1, <1>3 DEF SetStatus, NotSaved, TypeOK, Previews, Finished
  <2>2. UNCHANGED <<filesFound, trig>> BY <1>3 DEF SetStatus, NotSaved
  <2> QED BY <1>0, <1>3, <2>1, <2>2 DEF DelTo, Withdraws, TypeOK, scans, calls
<1>4. CASE DeletionFail(s) BY <1>3, <1>4 DEF DeletionFail
<1>5. CASE DeletionFinish(s) BY <1>3, <1>5 DEF DeletionFinish
<1>6. CASE DeletionExit(s)
  BY <1>0, <1>6 DEF DeletionExit, DelTo, Withdraws, TypeOK, rows, scans, calls
<1>7. CASE DeletionUnlock(s)
  BY <1>0, <1>7 DEF DeletionUnlock, Withdraws, TypeOK, rows, scans, calls
<1> QED BY <1>2, <1>4, <1>5, <1>6, <1>7 DEF DeletionStep

(* The steps of a request. *)
LEMMA LifeCall ==
    ASSUME TypeOK, LifeInv, TypeOK', NEW c \in Slots, CallStep(c) PROVE LifeInv'
<1> USE OrphanRunsAssumption, IdFacts
<1>0. ASSUME Withdraws PROVE LifeInv' BY <1>0, WithdrawsKeeps
<1> DEFINE r == callRun[c]
<1>1. callPc[c] # "idle" /\ r \in RunIds /\ status[r] # "none"
  <2>1. callPc[c] # "idle"
    BY DEF CallStep, TriggerScan, ConfirmLock, ConfirmRegister, CancelInterrupt, CancelStale,
           CancelWrite
  <2> QED BY <2>1 DEF TypeOK, LifeInv, Unborn
<1>2. CASE TriggerScan(c)
  <2> HIDE DEF r
  <2>1. /\ scanPc' = [scanPc EXCEPT ![r] = "start"]
        /\ \A d \in Slots : callPc'[d] # "idle" => callPc'[d] = callPc[d] /\ callRun'[d] = callRun[d] /\ d # c
        /\ UNCHANGED <<status, trig, filesFound, scanFound, scanCanceled, delPc, delRun>>
        /\ callPc[c] = "trigger" /\ callRun[c] = r
    BY <1>2 DEF TriggerScan, Return, rows, dels, TypeOK, r
  <2>2. /\ status[r] \in {"pending"} \cup Finished
        /\ \A d \in Slots : callPc[d] \in {"trigger", "lock", "register"} => callRun[d] # r \/ d = c
        /\ \A s \in Spawners : delPc[s] # "idle" => delRun[s] # r
    BY <1>1, <2>1 DEF LifeInv, Triggered
  <2>3. \A q \in RunIds : /\ Counted(q)' <=> Counted(q)
                          /\ q # r => (AtWork(q)' <=> AtWork(q))
                          /\ Sanctioned(q)' <=> Sanctioned(q)
    BY <1>1, <2>1 DEF Counted, AtWork, Sanctioned, TypeOK
  <2>4. \A q \in RunIds : scanPc'[q] = IF q = r THEN "start" ELSE scanPc[q]
    BY <1>1, <2>1 DEF TypeOK
  <2>5. Unborn' BY <1>1, <2>1, <2>4 DEF LifeInv, Unborn
  <2>6. Triggered' BY <2>1, <2>2, <2>4 DEF LifeInv, Triggered
  <2>7. Scanned' BY <2>1, <2>2, <2>3, <2>4 DEF LifeInv, Scanned
  <2>8. Confirmed' BY <2>1, <2>2, <2>3 DEF LifeInv, Confirmed
  <2>9. Deleting' BY <2>1, <2>2, <2>3, <2>4 DEF LifeInv, Deleting
  <2>10. Previewed' BY <2>1, <2>3, <2>4 DEF LifeInv, Previewed, Counted
  <2> QED BY <2>5, <2>6, <2>7, <2>8, <2>9, <2>10 DEF LifeInv
<1>3. CASE ConfirmLock(c)
  BY <1>0, <1>3 DEF ConfirmLock, Return, CallTo, Withdraws, TypeOK, rows, scans, dels
<1>4. CASE ConfirmRegister(c)
  <2>1. /\ \A d \in Slots : callPc'[d] # "idle" => callPc'[d] = callPc[d] /\ callRun'[d] = callRun[d]
        /\ \A s \in Spawners : /\ s # c => delPc'[s] = delPc[s] /\ delRun'[s] = delRun[s]
                               /\ s = c => delRun'[s] = r
        /\ UNCHANGED <<status, trig, filesFound, scanPc, scanFound, scanCanceled>>
        /\ callPc[c] = "register" /\ callRun[c] = r
    BY <1>4 DEF ConfirmRegister, LaunchDeletion, Return, rows, scans, TypeOK
  <2> HIDE DEF r
  <2>2. status[r] \in Previews /\ Counted(r) /\ ~AtWork(r)
    BY <1>1, <2>1 DEF LifeInv, Confirmed
  <2>3. \A q \in RunIds : /\ Counted(q)' <=> Counted(q)
                          /\ AtWork(q)' <=> AtWork(q)
                          /\ Sanctioned(q)' <=> Sanctioned(q)
    BY <2>1 DEF Counted, AtWork, Sanctioned
  <2>4. c \notin RunIds BY DEF RunIds
  <2>5. Unborn' BY <1>1, <2>1 DEF LifeInv, Unborn
  <2>6. Triggered' BY <1>1, <2>1 DEF LifeInv, Triggered
  <2>7. Scanned' BY <2>1, <2>3 DEF LifeInv, Scanned
  <2>8. Confirmed' BY <2>1, <2>3 DEF LifeInv, Confirmed
  <2>9. Deleting' BY <2>1, <2>2, <2>3, <2>4 DEF LifeInv, Deleting
  <2>10. Previewed' BY <2>1, <2>3 DEF LifeInv, Previewed
  <2> QED BY <2>5, <2>6, <2>7, <2>8, <2>9, <2>10 DEF LifeInv
<1>5. CASE CancelInterrupt(c)
  <2>1. scanCanceled \subseteq scanCanceled' BY <1>5 DEF CancelInterrupt
  <2> QED BY <1>0, <1>5, <2>1 DEF CancelInterrupt, CallTo, Withdraws, TypeOK, rows
<1>6. CASE CancelStale(c)
  BY <1>0, <1>6 DEF CancelStale, Return, CallTo, Withdraws, TypeOK, rows, scans, dels
<1>7. CASE CancelWrite(c)
  <2>1. \A q \in RunIds : \/ status'[q] = status[q]
                          \/ status[q] # "none" /\ status'[q] \in Finished
    BY <1>1, <1>7 DEF CancelWrite, SetStatus, NotSaved, TypeOK, Finished
  <2>2. UNCHANGED <<filesFound, trig>> BY <1>7 DEF CancelWrite, SetStatus, NotSaved
  <2> QED BY <1>0, <1>7, <2>1, <2>2 DEF CancelWrite, Return, Withdraws, TypeOK, scans, dels
<1> QED BY <1>2, <1>3, <1>4, <1>5, <1>6, <1>7 DEF CallStep

(* A request comes in: for a new run, or for one whose status it has read. *)
LEMMA LifeRequest ==
    ASSUME TypeOK, LifeInv, TypeOK', NEW c \in Slots, NEW r \in RunIds,
           \/ \E by \in {"manual", "scheduled"} : CreateRunIfNoActive(c, r, by)
           \/ ConfirmRead(c, r) \/ CancelRead(c, r)
    PROVE  LifeInv'
<1> USE OrphanRunsAssumption, IdFacts
<1>1. CASE \E by \in {"manual", "scheduled"} : CreateRunIfNoActive(c, r, by)
  <2>1. /\ status[r] = "none"
        /\ \A q \in RunIds : /\ q = r => status'[q] = "pending"
                             /\ q # r => status'[q] = status[q] /\ trig'[q] = trig[q]
        /\ \A d \in Slots : /\ d = c => callPc'[d] = "trigger" /\ callRun'[d] = r
                            /\ d # c => callPc'[d] = callPc[d] /\ callRun'[d] = callRun[d]
        /\ UNCHANGED <<filesFound, scanPc, scanFound, scanCanceled, delPc, delRun>>
    BY <1>1 DEF CreateRunIfNoActive, IsNextId, Take, TypeOK, scans, dels
  <2>2. /\ scanPc[r] = "idle"
        /\ \A d \in Slots : callPc[d] # "idle" => callRun[d] # r
        /\ \A s \in Spawners : delPc[s] # "idle" => delRun[s] # r
    BY <2>1 DEF LifeInv, Unborn
  <2>3. \A q \in RunIds : /\ Counted(q)' <=> Counted(q)
                          /\ AtWork(q)' <=> AtWork(q)
                          /\ q # r => (Sanctioned(q)' <=> Sanctioned(q))
    BY <2>1 DEF Counted, AtWork, Sanctioned
  <2>4. Unborn' BY <2>1, <2>2 DEF LifeInv, Unborn
  <2>5. Triggered'
    <3>1. \A d \in Slots : callPc'[d] = "trigger" =>
             d = c \/ (callPc[d] = "trigger" /\ callRun'[d] = callRun[d] /\ callRun[d] # r)
      BY <2>1, <2>2
    <3>2. \A d \in Slots : callPc'[d] \in {"lock", "register"} =>
             callPc[d] \in {"lock", "register"} /\ callRun'[d] = callRun[d] /\ callRun[d] # r
      BY <2>1, <2>2
    <3> QED BY <2>1, <2>2, <3>1, <3>2 DEF LifeInv, Triggered
  <2>6. Scanned' BY <2>1, <2>2, <2>3 DEF LifeInv, Scanned
  <2>7. Confirmed' BY <2>1, <2>2, <2>3 DEF LifeInv, Confirmed
  <2>8. Deleting'
    <3>1. ASSUME NEW s \in Spawners, NEW q \in RunIds, delPc'[s] # "idle", delRun'[s] = q
          PROVE  /\ status'[q] \in Previews /\ Counted(q)' /\ ~AtWork(q)'
                 /\ s \in RunIds => q = s /\ Sanctioned(s)' /\ scanPc'[s] \in {"exit", "idle"}
      <4>1. delPc[s] # "idle" /\ delRun[s] = q BY <2>1, <3>1
      <4>2. q # r BY <2>2, <4>1
      <4>3. /\ status[q] \in Previews /\ Counted(q) /\ ~AtWork(q)
            /\ s \in RunIds => q = s /\ Sanctioned(s) /\ scanPc[s] \in {"exit", "idle"}
        BY <4>1 DEF LifeInv, Deleting
      <4>4. status'[q] = status[q] /\ scanPc' = scanPc BY <2>1, <4>2
      <4> QED BY <2>3, <4>2, <4>3, <4>4
    <3> QED BY <3>1 DEF Deleting
  <2>9. Previewed' BY <2>1, <2>2, <2>3 DEF LifeInv, Previewed
  <2> QED BY <2>4, <2>5, <2>6, <2>7, <2>8, <2>9 DEF LifeInv
<1>2. ASSUME NEW pc \in {"lock", "interrupt", "stale"}, Take(c, r, pc),
             UNCHANGED <<rows, scans, dels>>, status[r] # "none",
             pc = "lock" => status[r] = "preview_ready"
      PROVE LifeInv'
  <2>1. /\ \A d \in Slots : /\ d = c => callPc'[d] = pc /\ callRun'[d] = r
                            /\ d # c => callPc'[d] = callPc[d] /\ callRun'[d] = callRun[d]
        /\ UNCHANGED <<status, trig, filesFound, scanPc, scanFound, scanCanceled, delPc, delRun>>
    BY <1>2 DEF Take, TypeOK, rows, scans, dels
  <2>2. \A q \in RunIds : /\ Counted(q)' <=> Counted(q)
                          /\ AtWork(q)' <=> AtWork(q)
                          /\ Sanctioned(q)' <=> Sanctioned(q)
    BY <2>1 DEF Counted, AtWork, Sanctioned
  <2>3. pc = "lock" => status[r] \in Previews /\ Counted(r) /\ ~AtWork(r)
    BY <1>2 DEF LifeInv, Previewed, Scanned, AtWork, Previews, Finished
  <2>4. Unborn' BY <1>2, <2>1 DEF LifeInv, Unborn
  <2>5. Triggered' BY <1>2, <2>1 DEF LifeInv, Triggered, Finished
  <2>6. Scanned' BY <2>1, <2>2 DEF LifeInv, Scanned
  <2>7. Confirmed' BY <1>2, <2>1, <2>2, <2>3 DEF LifeInv, Confirmed
  <2>8. Deleting' BY <2>1, <2>2 DEF LifeInv, Deleting
  <2>9. Previewed' BY <2>1, <2>2 DEF LifeInv, Previewed
  <2> QED BY <2>4, <2>5, <2>6, <2>7, <2>8, <2>9 DEF LifeInv
<1>3. CASE ConfirmRead(c, r) BY <1>2, <1>3 DEF ConfirmRead
<1>4. CASE CancelRead(c, r) BY <1>2, <1>4 DEF CancelRead
<1> QED BY <1>1, <1>3, <1>4

(* Every step keeps the stages of every run apart. *)
LEMMA LifeStep == TypeOK /\ LifeInv /\ [Next]_vars => LifeInv'
<1> SUFFICES ASSUME TypeOK, LifeInv, [Next]_vars PROVE LifeInv'
  OBVIOUS
<1> USE OrphanRunsAssumption, IdFacts
<1>0. TypeOK' BY TypeStep
<1>1. ASSUME Withdraws PROVE LifeInv' BY <1>0, <1>1, WithdrawsKeeps
<1>2. CASE \E r \in RunIds : ScanStep(r) BY <1>0, <1>2, LifeScan
<1>3. CASE \E s \in Spawners : DeletionStep(s) BY <1>0, <1>3, LifeDeletion
<1>4. CASE \E c \in Slots : CallStep(c) \/ Request(c)
  BY <1>0, <1>4, LifeCall, LifeRequest DEF Request
<1>5. CASE Crash BY <1>1, <1>5 DEF Crash, Withdraws, TypeOK, rows
<1>6. CASE Start BY <1>1, <1>6 DEF Start, Withdraws, TypeOK, rows, scans, dels, calls
<1>7. CASE MarkDeletingRunsFailed
  <2>1. \A r \in RunIds : \/ status'[r] = status[r]
                          \/ status[r] # "none" /\ status'[r] \in Finished
    BY <1>7 DEF MarkDeletingRunsFailed, Finished
  <2> QED BY <1>1, <1>7, <2>1 DEF MarkDeletingRunsFailed, Withdraws, scans, dels, calls
<1>8. CASE MarkStuckRunsFailed
  <2>1. \A r \in RunIds : \/ status'[r] = status[r]
                          \/ status[r] # "none" /\ status'[r] \in Finished
    BY <1>8 DEF MarkStuckRunsFailed, Finished
  <2> QED BY <1>1, <1>8, <2>1 DEF MarkStuckRunsFailed, Withdraws, scans, dels, calls
<1>9. CASE UNCHANGED vars
  BY <1>1, <1>9 DEF vars, Withdraws, rows, scans, dels, calls
<1> QED BY <1>2, <1>3, <1>4, <1>5, <1>6, <1>7, <1>8, <1>9 DEF Next, Recover

LEMMA LifeInit == Init => LifeInv
  BY OrphanRunsAssumption, IdFacts DEF Init, LifeInv, Unborn, Triggered, Scanned, Confirmed,
     Deleting, Previewed, Finished

-----------------------------------------------------------------------------
(* A deletion at work owns its row.  Apart from the write that begins it,   *)
(* a step brings a row to another status than "deleting" or a finished one  *)
(* only for a run whose scan is at work, or that it creates; by LifeInv no  *)
(* deletion is for such a run.                                              *)

Shown(r) == status[r] \in {"deleting"} \cup Finished

AllShown ==
    \A s \in Spawners, r \in RunIds : delPc[s] = "work" /\ delRun[s] = r => Shown(r)

StaysOff ==
    /\ \A s \in Spawners : delPc'[s] = "work" => delPc[s] = "work" /\ delRun'[s] = delRun[s]
    /\ \A r \in RunIds : status'[r] = status[r] \/ Shown(r)' \/ AtWork(r) \/ status[r] = "none"

LEMMA StaysOffKeeps == LifeInv /\ AllShown /\ StaysOff => AllShown'
<1> SUFFICES ASSUME LifeInv, AllShown, StaysOff,
                    NEW s \in Spawners, NEW r \in RunIds, delPc'[s] = "work", delRun'[s] = r
             PROVE  Shown(r)'
  BY DEF AllShown
<1>1. delPc[s] = "work" /\ delRun[s] = r BY DEF StaysOff
<1>2. Shown(r) BY <1>1 DEF AllShown
<1>3. ~AtWork(r) BY <1>1 DEF LifeInv, Deleting
<1> QED BY <1>2, <1>3 DEF StaysOff, Shown, Finished

LEMMA ShownStep == TypeOK /\ LifeInv /\ AllShown /\ [Next]_vars => AllShown'
<1> SUFFICES ASSUME TypeOK, LifeInv, AllShown, [Next]_vars PROVE AllShown'
  OBVIOUS
<1> USE IdFacts DEF TypeOK, Shown, Finished
<1>0. ASSUME StaysOff PROVE AllShown' BY <1>0, StaysOffKeeps
<1>1. ASSUME NEW r \in RunIds, ScanStep(r) PROVE AllShown'
  <2>1. CASE AtWork(r) /\ UNCHANGED dels /\ \A q \in RunIds : q # r => status'[q] = status[q]
    BY <1>0, <2>1 DEF StaysOff, dels
  <2>2. CASE UNCHANGED <<rows, dels>> BY <1>0, <2>2 DEF StaysOff, rows, dels
  <2>3. CASE ScanStart(r) \/ ScanFail(r) \/ ScanStats(r) \/ ScanFinish(r)
    <3>1. AtWork(r) BY <2>3 DEF ScanStart, ScanFail, ScanStats, ScanFinish, AtWork
    <3>2. UNCHANGED dels BY <2>3 DEF ScanStart, ScanFail, ScanStats, ScanFinish
    <3>3. \A q \in RunIds : q # r => status'[q] = status[q]
      BY <2>3 DEF ScanStart, ScanFail, ScanStats, ScanFinish, SetStatus, NotSaved
    <3> QED BY <2>1, <3>1, <3>2, <3>3
  <2>4. CASE AutoConfirmRegister(r)
    BY <1>0, <2>4 DEF AutoConfirmRegister, LaunchDeletion, StaysOff, rows
  <2> QED BY <1>1, <2>2, <2>3, <2>4 DEF ScanStep, ScanWork, MaybeAutoCleanup, AutoConfirmLock, ScanExit
<1>2. ASSUME NEW s \in Spawners, DeletionStep(s) PROVE AllShown'
  <2>1. delRun[s] \in RunIds
    BY <1>2 DEF DeletionStep, DeletionStart, DeletionFail, DeletionFinish, DeletionExit, DeletionUnlock
  <2>2. CASE DeletionStart(s)
    <3>1. CASE SetStatus(delRun[s], "deleting") /\ DelTo(s, "work")
      <4>1. \A q \in RunIds : status'[q] = IF q = delRun[s] THEN "deleting" ELSE status[q]
        BY <2>1, <3>1 DEF SetStatus
      <4>2. \A t \in Spawners : delPc'[t] = "work" => t = s \/ delPc[t] = "work"
        BY <3>1 DEF DelTo
      <4>3. delRun' = delRun BY <3>1 DEF DelTo
      <4> QED BY <4>1, <4>2, <4>3 DEF AllShown
    <3>2. CASE UNCHANGED rows /\ DelTo(s, "exit")
      BY <1>0, <3>2 DEF StaysOff, DelTo, rows
    <3> QED BY <2>2, <3>1, <3>2 DEF DeletionStart
  <2>3. CASE DeletionFail(s) \/ DeletionFinish(s)
    <3>1. \A q \in RunIds : status'[q] = status[q] \/ Shown(q)'
      BY <2>1, <2>3 DEF DeletionFail, DeletionFinish, SetStatus, NotSaved
    <3>2. DelTo(s, "exit") BY <2>3 DEF DeletionFail, DeletionFinish
    <3> QED BY <1>0, <3>1, <3>2 DEF StaysOff, DelTo
  <2>4. CASE DeletionExit(s) BY <1>0, <2>4 DEF DeletionExit, DelTo, StaysOff, rows
  <2>5. CASE DeletionUnlock(s) BY <1>0, <2>5 DEF DeletionUnlock, StaysOff, rows
  <2> QED BY <1>2, <2>2, <2>3, <2>4, <2>5 DEF DeletionStep
<1>3. ASSUME NEW c \in Slots, CallStep(c) PROVE AllShown'
  <2>1. CASE CancelWrite(c)
    <3>1. callRun[c] \in RunIds BY <2>1 DEF CancelWrite
    <3>2. \A q \in RunIds : status'[q] = status[q] \/ Shown(q)'
      BY <2>1, <3>1 DEF CancelWrite, SetStatus, NotSaved
    <3> QED BY <1>0, <2>1, <3>2 DEF CancelWrite, StaysOff, dels
  <2>2. CASE ConfirmRegister(c)
    BY <1>0, <2>2 DEF ConfirmRegister, LaunchDeletion, StaysOff, rows
  <2>3. CASE UNCHANGED <<status, delPc, delRun>> BY <1>0, <2>3 DEF StaysOff
  <2> QED BY <1>3, <2>1, <2>2, <2>3 DEF CallStep, TriggerScan, ConfirmLock, CancelInterrupt,
             CancelStale, rows, dels
<1>4. ASSUME NEW c \in Slots, Request(c) PROVE AllShown'
  <2>1. PICK r \in RunIds : \/ \E by \in {"manual", "scheduled"} : CreateRunIfNoActive(c, r, by)
                            \/ ConfirmRead(c, r) \/ CancelRead(c, r)
    BY <1>4 DEF Request
  <2>2. \A q \in RunIds : status'[q] = status[q] \/ status[q] = "none"
    BY <2>1 DEF CreateRunIfNoActive, IsNextId, ConfirmRead, CancelRead, rows
  <2>3. UNCHANGED dels BY <2>1 DEF CreateRunIfNoActive, ConfirmRead, CancelRead
  <2> QED BY <1>0, <2>2, <2>3 DEF StaysOff, dels
<1>5. CASE Crash BY <1>0, <1>5 DEF Crash, StaysOff, rows
<1>6. CASE Start BY <1>0, <1>6 DEF Start, StaysOff, rows, dels
<1>7. CASE MarkDeletingRunsFailed BY <1>0, <1>7 DEF MarkDeletingRunsFailed, StaysOff, dels
<1>8. CASE MarkStuckRunsFailed BY <1>0, <1>8 DEF MarkStuckRunsFailed, StaysOff, dels
<1>9. CASE UNCHANGED vars BY <1>0, <1>9 DEF vars, StaysOff, rows, dels
<1> QED BY <1>1, <1>2, <1>3, <1>4, <1>5, <1>6, <1>7, <1>8, <1>9 DEF Next, Recover

(* While executeDeletion removes files, the row of the run says "deleting"  *)
(* or was finished over it, and no scan writes to it any more: for any      *)
(* number of runs, requests, crashes and failing status writes.             *)
THEOREM DeletionsOwnRows == Spec => []DeletionOwnsRow
<1>1. Init => AllShown BY DEF Init, AllShown
<1>2. TypeOK /\ LifeInv /\ AllShown => DeletionOwnsRow
  <2> SUFFICES ASSUME TypeOK, LifeInv, AllShown, NEW s \in Spawners, delPc[s] = "work"
               PROVE  Shown(delRun[s]) /\ ~AtWork(delRun[s])
    BY DEF DeletionOwnsRow, Shown, AtWork
  <2>1. delRun[s] \in RunIds BY DEF TypeOK
  <2> QED BY <2>1 DEF AllShown, LifeInv, Deleting
<1> QED BY <1>1, <1>2, LifeInit, LifeStep, ShownStep, TypeCorrect, PTL DEF Spec

-----------------------------------------------------------------------------
(* One active run per instance.  Blocks(r) says that run r counts in        *)
(* OneActiveRun: it is active and nothing excuses it.  No step but its      *)
(* creation makes a run block, and that one happens only when no run of the *)
(* instance is active: every other write of an active status finds the row  *)
(* active already or, by LifeInv, finished, and then it revives the run.    *)

Blocks(r) == Active(r) /\ r \notin revived /\ ~(StoreErrors /\ Uncounted(r))

LEMMA BlocksAlone ==
    OneActiveRun <=> \A q, r \in RunIds : q # r /\ inst[q] = inst[r] => ~(Blocks(q) /\ Blocks(r))
  BY DEF OneActiveRun, Blocks

NoneBlocks == UNCHANGED inst /\ \A r \in RunIds : Blocks(r)' => Blocks(r)

(* Rows that keep their status, or get a finished one, do not begin to block. *)
LEMMA QuietBlocksNone ==
    ASSUME TypeOK, UNCHANGED <<inst, filesFound>>, revived \subseteq revived',
           \A r \in RunIds : status'[r] = status[r] \/ status'[r] \in Finished
    PROVE  NoneBlocks
  BY DEF NoneBlocks, Blocks, Active, Uncounted, Finished

LEMMA ScanBlocksNone ==
    ASSUME TypeOK, LifeInv, NEW r \in RunIds, ScanStep(r) PROVE NoneBlocks
<1>1. CASE ScanStart(r)
  <2>1. CASE SetStatus(r, "scanning")
    <3>1. status[r] \in {"pending"} \cup Finished BY <1>1 DEF ScanStart, LifeInv, Scanned
    <3>2. \A q \in RunIds : status'[q] = IF q = r THEN "scanning" ELSE status[q]
      BY <2>1 DEF SetStatus, TypeOK
    <3>3. UNCHANGED <<inst, filesFound>> BY <2>1 DEF SetStatus
    <3>4. revived \subseteq revived' /\ (status[r] \in Finished => r \in revived')
      BY <2>1 DEF SetStatus, Finished
    <3> QED BY <3>1, <3>2, <3>3, <3>4 DEF NoneBlocks, Blocks, Active, Uncounted
  <2>2. CASE NotSaved(r, r \in scanCanceled) BY <2>2, QuietBlocksNone DEF NotSaved
  <2> QED BY <1>1, <2>1, <2>2 DEF ScanStart
<1>2. CASE ScanWork(r) BY <1>2, QuietBlocksNone DEF ScanWork, rows
<1>3. ASSUME NEW s \in Finished, SetStatus(r, s) PROVE NoneBlocks
  BY <1>3, QuietBlocksNone DEF SetStatus, TypeOK
<1>4. CASE ScanFail(r)
  <2>1. CASE SetStatus(r, "failed") BY <1>3, <2>1 DEF Finished
  <2>2. CASE NotSaved(r, r \in scanCanceled) BY <2>2, QuietBlocksNone DEF NotSaved
  <2> QED BY <1>4, <2>1, <2>2 DEF ScanFail
<1>5. CASE ScanStats(r)
  <2>1. status[r] \in {"scanning"} \cup Finished BY <1>5 DEF ScanStats, LifeInv, Scanned
  <2> QED BY <1>5, <2>1 DEF ScanStats, NoneBlocks, Blocks, Active, Uncounted, Finished, TypeOK
<1>6. CASE ScanFinish(r)
  <2>1. CASE SetStatus(r, "completed") BY <1>3, <2>1 DEF Finished
  <2>2. CASE SetStatus(r, "preview_ready")
    <3>1. status[r] \in {"scanning"} \cup Finished BY <1>6 DEF ScanFinish, LifeInv, Scanned
    <3>2. \A q \in RunIds : status'[q] = IF q = r THEN "preview_ready" ELSE status[q]
      BY <2>2 DEF SetStatus, TypeOK
    <3>3. UNCHANGED <<inst, filesFound>> BY <2>2 DEF SetStatus
    <3>4. revived \subseteq revived' /\ (status[r] \in Finished => r \in revived')
      BY <2>2 DEF SetStatus, Finished
    <3> QED BY <3>1, <3>2, <3>3, <3>4 DEF NoneBlocks, Blocks, Active, Uncounted
  <2>3. CASE NotSaved(r, r \in scanCanceled) BY <2>3, QuietBlocksNone DEF NotSaved
  <2> QED BY <1>6, <2>1, <2>2, <2>3 DEF ScanFinish
<1>7. CASE MaybeAutoCleanup(r) BY <1>7, QuietBlocksNone DEF MaybeAutoCleanup, rows
<1>8. CASE AutoConfirmLock(r) BY <1>8, QuietBlocksNone DEF AutoConfirmLock, rows
<1>9. CASE AutoConfirmRegister(r) BY <1>9, QuietBlocksNone DEF AutoConfirmRegister, rows
<1>10. CASE ScanExit(r) BY <1>10, QuietBlocksNone DEF ScanExit, rows
<1> QED BY <1>1, <1>2, <1>4, <1>5, <1>6, <1>7, <1>8, <1>9, <1>10 DEF ScanStep

LEMMA DeletionBlocksNone ==
    ASSUME TypeOK, LifeInv, NEW s \in Spawners, DeletionStep(s) PROVE NoneBlocks
<1> DEFINE r == delRun[s]
<1>1. r \in RunIds /\ status[r] \in Previews /\ Counted(r)
  <2>1. delPc[s] # "idle"
    BY DEF DeletionStep, DeletionStart, DeletionFail, DeletionFinish, DeletionExit, DeletionUnlock
  <2> QED BY <2>1 DEF TypeOK, LifeInv, Deleting
<1>2. ASSUME NEW t \in Finished, SetStatus(r, t) PROVE NoneBlocks
  BY <1>1, <1>2, QuietBlocksNone DEF SetStatus, TypeOK
<1>3. CASE DeletionStart(s)
  <2>1. CASE SetStatus(r, "deleting")
    <3> HIDE DEF r
    <3>1. status' = [status EXCEPT ![r] = "deleting"] /\ UNCHANGED <<inst, filesFound>>
      BY <2>1 DEF SetStatus
    <3>2. revived \subseteq revived' /\ (status[r] \in Finished => r \in revived')
      BY <2>1 DEF SetStatus, Finished
    <3>3. ASSUME NEW q \in RunIds, Blocks(q)' PROVE Blocks(q)
      <4>1. CASE q # r
        BY <3>1, <3>2, <3>3, <4>1 DEF Blocks, Active, Uncounted, TypeOK
      <4>2. CASE q = r
        <5>1. status'[r] = "deleting" BY <1>1, <3>1 DEF TypeOK
        <5>2. r \notin revived' /\ ~(StoreErrors /\ filesFound[r] = 0)
          BY <3>1, <3>3, <4>2, <5>1 DEF Blocks, Uncounted
        <5>3. filesFound[r] > 0
          BY <1>1, <5>2 DEF Counted, TypeOK
        <5>4. status[r] \in {"preview_ready", "deleting"} /\ r \notin revived
          BY <1>1, <3>2, <5>2 DEF Previews
        <5> QED BY <4>2, <5>3, <5>4 DEF Blocks, Active, Uncounted
      <4> QED BY <4>1, <4>2
    <3> QED BY <3>1, <3>3 DEF NoneBlocks
  <2>2. CASE UNCHANGED rows BY <2>2, QuietBlocksNone DEF rows
  <2> QED BY <1>3, <2>1, <2>2 DEF DeletionStart
<1>4. CASE DeletionFail(s)
  <2>1. CASE SetStatus(r, "failed") BY <1>2, <2>1 DEF Finished
  <2>2. CASE NotSaved(r, s \in delCanceled) BY <2>2, QuietBlocksNone DEF NotSaved
  <2> QED BY <1>4, <2>1, <2>2 DEF DeletionFail
<1>5. CASE DeletionFinish(s)
  <2>1. ASSUME NEW t \in {"completed", "failed"}, SetStatus(r, t) PROVE NoneBlocks
    BY <1>2, <2>1 DEF Finished
  <2>2. CASE NotSaved(r, s \in delCanceled) BY <2>2, QuietBlocksNone DEF NotSaved
  <2> QED BY <1>5, <2>1, <2>2 DEF DeletionFinish
<1>6. CASE DeletionExit(s) BY <1>6, QuietBlocksNone DEF DeletionExit, rows
<1>7. CASE DeletionUnlock(s) BY <1>7, QuietBlocksNone DEF DeletionUnlock, rows
<1> QED BY <1>3, <1>4, <1>5, <1>6, <1>7 DEF DeletionStep

LEMMA ActiveStep == TypeOK /\ LifeInv /\ OneActiveRun /\ [Next]_vars => OneActiveRun'
<1> SUFFICES ASSUME TypeOK, LifeInv, OneActiveRun, [Next]_vars PROVE OneActiveRun'
  OBVIOUS
<1>0. OneActiveRun' <=>
        \A q, r \in RunIds : q # r /\ inst'[q] = inst'[r] => ~(Blocks(q)' /\ Blocks(r)')
  BY DEF OneActiveRun, Blocks
<1>1. ASSUME NoneBlocks PROVE OneActiveRun'
  BY <1>0, <1>1, BlocksAlone DEF NoneBlocks
<1>2. CASE \E r \in RunIds : ScanStep(r) BY <1>1, <1>2, ScanBlocksNone
<1>3. CASE \E s \in Spawners : DeletionStep(s) BY <1>1, <1>3, DeletionBlocksNone
<1>4. ASSUME NEW c \in Slots, CallStep(c) PROVE NoneBlocks
  <2>1. CASE CancelWrite(c)
    <3>1. CASE SetStatus(callRun[c], "canceled")
      <4>1. callRun[c] \in RunIds BY <2>1 DEF CancelWrite, TypeOK
      <4> QED BY <3>1, <4>1, QuietBlocksNone DEF SetStatus, TypeOK, Finished
    <3>2. CASE NotSaved(callRun[c], FALSE) BY <3>2, QuietBlocksNone DEF NotSaved
    <3> QED BY <2>1, <3>1, <3>2 DEF CancelWrite
  <2>2. CASE UNCHANGED rows BY <2>2, QuietBlocksNone DEF rows
  <2> QED BY <1>4, <2>1, <2>2 DEF CallStep, TriggerScan, ConfirmLock, ConfirmRegister,
             CancelInterrupt, CancelStale
<1>5. ASSUME NEW c \in Slots, NEW r \in RunIds, NEW by \in {"manual", "scheduled"},
             CreateRunIfNoActive(c, r, by)
      PROVE OneActiveRun'
  <2>1. /\ UNCHANGED <<inst, filesFound, revived>>
        /\ \A q \in RunIds : q # r => status'[q] = status[q]
        /\ \A q \in RunIds : inst[q] = inst[r] => ~Active(q)
    BY <1>5 DEF CreateRunIfNoActive, TypeOK
  <2>2. \A q \in RunIds : q # r => (Blocks(q)' <=> Blocks(q))
    BY <2>1 DEF Blocks, Active, Uncounted
  <2>3. \A q \in RunIds : inst[q] = inst[r] => ~Blocks(q) BY <2>1 DEF Blocks
  <2> QED BY <1>0, <2>1, <2>2, <2>3, BlocksAlone
<1>6. ASSUME NEW c \in Slots, Request(c) PROVE OneActiveRun'
  <2>1. CASE UNCHANGED rows BY <1>1, <2>1, QuietBlocksNone DEF rows
  <2> QED BY <1>5, <1>6, <2>1 DEF Request, ConfirmRead, CancelRead
<1>7. CASE Crash BY <1>1, <1>7, QuietBlocksNone DEF Crash, rows
<1>8. CASE Start BY <1>1, <1>8, QuietBlocksNone DEF Start, rows
<1>9. CASE MarkDeletingRunsFailed
  BY <1>1, <1>9, QuietBlocksNone DEF MarkDeletingRunsFailed, Finished
<1>10. CASE MarkStuckRunsFailed
  BY <1>1, <1>10, QuietBlocksNone DEF MarkStuckRunsFailed, Finished
<1>11. CASE UNCHANGED vars BY <1>1, <1>11, QuietBlocksNone DEF vars, rows
<1> QED BY <1>1, <1>2, <1>3, <1>4, <1>6, <1>7, <1>8, <1>9, <1>10, <1>11 DEF Next, Recover

(* CreateRunIfNoActive's check holds for the life of the run: an instance   *)
(* never has two active runs but through one that a late status write       *)
(* revived or whose preview is deleted without having been counted.         *)
THEOREM ActiveRunsAlone == Spec => []OneActiveRun
<1>1. Init => OneActiveRun BY DEF Init, OneActiveRun, Active
<1> QED BY <1>1, LifeInit, LifeStep, ActiveStep, TypeCorrect, PTL DEF Spec

-----------------------------------------------------------------------------
(* No run is stranded.  An active row is moved on by whoever works on it,   *)
(* unless its context is canceled: then the write is CancelRun's, which     *)
(* follows the cancellation.  FuncsInv ties the registered cancel functions *)
(* and the canceled contexts to goroutines that are alive and work on that  *)
(* run; CanceledInv says that who was canceled left its row to somebody.    *)

ScanFuncs ==
    \A r \in RunIds : /\ cancelFuncs[r] = ScanFunc => scanPc[r] # "idle"
                      /\ r \in scanCanceled => scanPc[r] # "idle"

DelFuncs ==
    \A r \in RunIds, s \in Spawners : cancelFuncs[r] = s =>
       delPc[s] \in {"start", "work", "exit"} /\ delRun[s] = r

FuncsInv ==
    /\ ScanFuncs /\ DelFuncs
    /\ \A s \in delCanceled : delPc[s] # "idle"
    /\ \A c \in Slots : callPc[c] # "idle" => delPc[c] = "idle"

LEMMA FuncsStep == TypeOK /\ LifeInv /\ FuncsInv /\ [Next]_vars => FuncsInv'
<1> SUFFICES ASSUME TypeOK, LifeInv, FuncsInv, [Next]_vars PROVE FuncsInv'
  OBVIOUS
<1>0. ScanFunc \notin Spawners /\ NoFunc \notin Spawners /\ NoFunc # ScanFunc
      /\ Slots \cap RunIds = {}
  BY OrphanRunsAssumption DEF Spawners, RunIds
<1> USE IdFacts, <1>0 DEF TypeOK, FuncsInv, ScanFuncs, DelFuncs
<1>1. ASSUME NEW r \in RunIds, ScanStep(r) PROVE FuncsInv'
  <2>1. CASE ScanStart(r) BY <2>1 DEF ScanStart, ScanTo, dels, calls
  <2>2. CASE ScanWork(r) BY <2>2 DEF ScanWork, dels, calls
  <2>3. CASE ScanFail(r) BY <2>3 DEF ScanFail, ScanTo, dels, calls
  <2>4. CASE ScanStats(r) BY <2>4 DEF ScanStats, ScanTo, dels, calls
  <2>5. CASE ScanFinish(r) BY <2>5 DEF ScanFinish, ScanTo, dels, calls
  <2>6. CASE MaybeAutoCleanup(r) BY <2>6 DEF MaybeAutoCleanup, ScanTo, dels, calls
  <2>7. CASE AutoConfirmLock(r) BY <2>7 DEF AutoConfirmLock, ScanTo, dels, calls
  <2>8. CASE AutoConfirmRegister(r)
    <3>1. delPc[r] = "idle"
      <4>1. scanPc[r] = "register" BY <2>8 DEF AutoConfirmRegister
      <4> QED BY <4>1 DEF LifeInv, Deleting
    <3> QED BY <2>8, <3>1 DEF AutoConfirmRegister, LaunchDeletion, ScanTo, calls
  <2>9. CASE ScanExit(r) BY <2>9 DEF ScanExit, dels, calls
  <2> QED BY <1>1, <2>1, <2>2, <2>3, <2>4, <2>5, <2>6, <2>7, <2>8, <2>9 DEF ScanStep
<1>2. ASSUME NEW s \in Spawners, DeletionStep(s) PROVE FuncsInv'
  <2>1. CASE DeletionStart(s)
    <3>1. delPc[s] = "start" /\ UNCHANGED <<scans, calls, cancelFuncs, delRun, delCanceled>>
      BY <2>1 DEF DeletionStart, DelTo
    <3>2. PICK pc \in {"work", "exit"} : delPc' = [delPc EXCEPT ![s] = pc]
      BY <2>1 DEF DeletionStart, DelTo
    <3> QED BY <3>1, <3>2 DEF scans, calls
  <2>2. CASE DeletionFail(s) BY <2>2 DEF DeletionFail, DelTo, scans, calls
  <2>3. CASE DeletionFinish(s) BY <2>3 DEF DeletionFinish, DelTo, scans, calls
  <2>4. CASE DeletionExit(s) BY <2>4 DEF DeletionExit, DelTo, scans, calls
  <2>5. CASE DeletionUnlock(s) BY <2>5 DEF DeletionUnlock, scans, calls
  <2> QED BY <1>2, <2>1, <2>2, <2>3, <2>4, <2>5 DEF DeletionStep
<1>3. ASSUME NEW c \in Slots, CallStep(c) PROVE FuncsInv'
  <2>1. CASE TriggerScan(c)
    <3>1. callRun[c] \in RunIds BY <2>1 DEF TriggerScan
    <3> QED BY <2>1, <3>1 DEF TriggerScan, Return, dels
  <2>2. CASE ConfirmLock(c) BY <2>2 DEF ConfirmLock, Return, CallTo, scans, dels
  <2>3. CASE ConfirmRegister(c) BY <2>3 DEF ConfirmRegister, LaunchDeletion, Return, scans
  <2>4. CASE CancelInterrupt(c)
    <3>1. callRun[c] \in RunIds BY <2>4 DEF CancelInterrupt
    <3>2. \A r \in RunIds : r \in scanCanceled' => r \in scanCanceled \/ cancelFuncs[r] = ScanFunc
      BY <2>4, <3>1 DEF CancelInterrupt
    <3>3. \A s \in delCanceled' :
             s \in delCanceled \/ (s \in Spawners /\ s = cancelFuncs[callRun[c]])
      BY <2>4 DEF CancelInterrupt
    <3>4. \A s \in delCanceled' : delPc[s] # "idle" BY <3>1, <3>3
    <3> QED BY <2>4, <3>2, <3>4 DEF CancelInterrupt, CallTo
  <2>5. CASE CancelStale(c) BY <2>5 DEF CancelStale, Return, CallTo, scans, dels
  <2>6. CASE CancelWrite(c) BY <2>6 DEF CancelWrite, Return, scans, dels
  <2> QED BY <1>3, <2>1, <2>2, <2>3, <2>4, <2>5, <2>6 DEF CallStep
<1>4. ASSUME NEW c \in Slots, Request(c) PROVE FuncsInv'
  <2>1. PICK r \in RunIds, pc \in CallPcs : Take(c, r, pc) /\ UNCHANGED <<scans, dels, cancelFuncs>>
    BY <1>4 DEF Request, CreateRunIfNoActive, ConfirmRead, CancelRead, CallPcs
  <2> QED BY <2>1 DEF Take, scans, dels
<1>5. CASE Crash BY <1>5 DEF Crash
<1>6. CASE UNCHANGED <<scans, dels, calls, cancelFuncs>> BY <1>6 DEF scans, dels, calls
<1> QED BY <1>1, <1>2, <1>3, <1>4, <1>5, <1>6
    DEF Next, Recover, Start, MarkDeletingRunsFailed, MarkStuckRunsFailed, vars

Writing(r) == \E c \in Slots : callRun[c] = r /\ callPc[c] = "write"
Accounted(r) == r \in unsaved \/ status[r] \in Finished \/ Writing(r)

(* Nobody who works on run r is canceled. *)
Free(r) ==
    /\ r \in scanCanceled => ~AtWork(r)
    /\ \A s \in Spawners : s \in delCanceled /\ delRun[s] = r => delPc[s] \notin {"start", "work"}

CanceledInv == \A r \in RunIds : Free(r) \/ Accounted(r)

(* The rows NoStrandedRun speaks of, and those that the recovery of the     *)
(* deletions is about to leave to it.                                       *)
Needs(r) ==
    /\ r \notin unsaved
    /\ \/ proc # "down" /\ r > prior /\ status[r] \in {"pending", "scanning"}
       \/ proc \in {"recover2", "up"} /\ status[r] = "deleting"

Attended == \A r \in RunIds : Needs(r) => WorkedOn(r) \/ Writing(r)

(* What a step may do to a run: leave its row to a request or to nobody,   *)
(* move it on with an actor that is not canceled, or leave it alone.       *)
LeftAlone(r) ==
    /\ Needs(r)' => Needs(r)
    /\ (Free(r) => Free(r)') /\ (Accounted(r) => Accounted(r)')
    /\ (WorkedOn(r) => WorkedOn(r)') /\ (Writing(r) => Writing(r)')

Handled(r) ==
    \/ Accounted(r)'
    \/ Free(r)' /\ (Needs(r)' => WorkedOn(r)')
    \/ LeftAlone(r)

LEMMA HandledKeeps ==
    ASSUME CanceledInv, Attended, \A r \in RunIds : Handled(r) PROVE (CanceledInv /\ Attended)'
<1>1. ASSUME NEW r \in RunIds, Accounted(r)' PROVE Needs(r)' => Writing(r)'
  BY <1>1 DEF Accounted, Needs, Finished
<1>2. CanceledInv' BY DEF CanceledInv, Handled, LeftAlone
<1>3. Attended' BY <1>1 DEF Attended, Handled, LeftAlone
<1> QED BY <1>2, <1>3

(* The goroutines and requests of a run go on, or end where they are not    *)
(* needed, and its row stays.                                               *)
Undisturbed(r) ==
    /\ status'[r] = status[r] /\ (r \in unsaved <=> r \in unsaved')
    /\ AtWork(r) => AtWork(r)'
    /\ r \in scanCanceled' /\ AtWork(r)' => r \in scanCanceled /\ AtWork(r)
    /\ \A c \in Slots : callRun[c] = r /\ callPc[c] \in {"trigger", "write"} =>
                           callRun'[c] = r /\ callPc'[c] = callPc[c]
    /\ \A s \in Spawners :
          /\ delRun[s] = r /\ delPc[s] = "work" => delRun'[s] = r /\ delPc'[s] = "work"
          /\ s \in delCanceled' /\ delRun'[s] = r /\ delPc'[s] \in {"start", "work"} =>
                s \in delCanceled /\ delRun[s] = r /\ delPc[s] \in {"start", "work"}

LEMMA UndisturbedLeftAlone ==
    ASSUME NEW r \in RunIds, Undisturbed(r), UNCHANGED <<proc, prior>> PROVE Handled(r)
<1>1. Writing(r) => Writing(r)' BY DEF Undisturbed, Writing
<1>2. WorkedOn(r) => WorkedOn(r)' BY DEF Undisturbed, WorkedOn, AtWork
<1>3. Needs(r)' => Needs(r) BY DEF Undisturbed, Needs
<1>4. Free(r) => Free(r)' BY DEF Undisturbed, Free
<1>5. Accounted(r) => Accounted(r)' BY <1>1 DEF Undisturbed, Accounted
<1> QED BY <1>1, <1>2, <1>3, <1>4, <1>5 DEF Handled, LeftAlone

(* A write of the status that fails: a run that was canceled was left to    *)
(* somebody before.                                                         *)
LEMMA NotSavedHandled ==
    ASSUME TypeOK, CanceledInv, NEW r \in RunIds, UNCHANGED <<status, calls>>,
           r \in unsaved' \/ (~Free(r) /\ unsaved' = unsaved)
    PROVE  Accounted(r)'
<1>1. CASE r \in unsaved' BY <1>1 DEF Accounted
<1>2. CASE ~Free(r) /\ unsaved' = unsaved
  <2>1. Accounted(r) BY <1>2 DEF CanceledInv
  <2> QED BY <1>2, <2>1 DEF Accounted, Writing, calls
<1> QED BY <1>1, <1>2

LEMMA ScanHandled ==
    ASSUME TypeOK, LifeInv, FuncsInv, CanceledInv, TypeOK', NEW r \in RunIds, ScanStep(r),
           NEW q \in RunIds
    PROVE  Handled(q)
<1> USE IdFacts
<1>1. UNCHANGED <<proc, prior, callPc, callRun>>
  BY DEF ScanStep, ScanStart, ScanWork, ScanFail, ScanStats, ScanFinish, MaybeAutoCleanup,
         AutoConfirmLock, AutoConfirmRegister, ScanExit, process, calls
<1>2. ASSUME q # r, ~ AutoConfirmRegister(r) PROVE Handled(q)
  <2>1. status'[q] = status[q] /\ (q \in unsaved <=> q \in unsaved')
    BY <1>2 DEF ScanStep, ScanStart, ScanWork, ScanFail, ScanStats, ScanFinish, MaybeAutoCleanup,
         AutoConfirmLock, ScanExit, SetStatus, NotSaved, rows, TypeOK
  <2>2. scanPc'[q] = scanPc[q] /\ (q \in scanCanceled <=> q \in scanCanceled')
    BY <1>2 DEF ScanStep, ScanStart, ScanWork, ScanFail, ScanStats, ScanFinish, MaybeAutoCleanup,
         AutoConfirmLock, ScanExit, ScanTo, TypeOK
  <2>3. UNCHANGED <<delPc, delRun, delCanceled>>
    BY <1>2 DEF ScanStep, ScanStart, ScanWork, ScanFail, ScanStats, ScanFinish, MaybeAutoCleanup,
         AutoConfirmLock, ScanExit, dels
  <2> QED BY <1>1, <2>1, <2>2, <2>3, UndisturbedLeftAlone DEF Undisturbed, AtWork
<1>3. CASE AutoConfirmRegister(r)
  <2>1. r \notin delCanceled /\ delPc[r] = "idle"
    <3>1. delPc[r] = "idle"
      <4>1. scanPc[r] = "register" BY <1>3 DEF AutoConfirmRegister
      <4> QED BY <4>1 DEF LifeInv, Deleting, TypeOK
    <3> QED BY <3>1 DEF FuncsInv
  <2>2. Undisturbed(q)
    BY <1>1, <1>3, <2>1 DEF AutoConfirmRegister, LaunchDeletion, ScanTo, Undisturbed, AtWork, rows,
       TypeOK
  <2> QED BY <1>1, <2>2, UndisturbedLeftAlone
<1>4. ASSUME AtWork(r), NotSaved(r, r \in scanCanceled) PROVE Handled(r)
  <2>1. UNCHANGED <<status, calls>> BY <1>1, <1>4 DEF NotSaved, calls
  <2>2. r \in unsaved' \/ (~Free(r) /\ unsaved' = unsaved) BY <1>4 DEF NotSaved, Free
  <2> QED BY <2>1, <2>2, NotSavedHandled DEF Handled
<1>5. ASSUME NEW s \in Finished, SetStatus(r, s) PROVE Handled(r)
  BY <1>5 DEF SetStatus, Handled, Accounted, TypeOK
<1>6. ASSUME UNCHANGED <<rows, dels>>, scanPc[r] \notin {"start", "work", "stats", "finish"},
             ~AtWork(r)'
      PROVE Handled(r)
  BY <1>1, <1>6, UndisturbedLeftAlone DEF Undisturbed, AtWork, rows, dels
<1>7. CASE ScanStart(r) /\ q = r
  <2>1. CASE "ok" \in Outcomes(r \in scanCanceled) /\ SetStatus(r, "scanning") /\ ScanTo(r, "work")
    <3>1. r \notin scanCanceled BY <2>1 DEF Outcomes
    <3>2. \A s \in Spawners : delPc[s] # "idle" => delRun[s] # r
      BY <1>7 DEF ScanStart, LifeInv, Deleting, AtWork
    <3>3. Free(r)' BY <1>7, <2>1, <3>1, <3>2 DEF ScanStart, ScanTo, Free, dels
    <3>4. WorkedOn(r)' BY <2>1 DEF ScanTo, WorkedOn, TypeOK
    <3> QED BY <1>7, <3>3, <3>4 DEF Handled
  <2>2. CASE NotSaved(r, r \in scanCanceled)
    BY <1>4, <1>7, <2>2 DEF ScanStart, AtWork
  <2> QED BY <1>7, <2>1, <2>2 DEF ScanStart
<1>8. CASE ScanWork(r) /\ q = r
  <2>1. Undisturbed(r) BY <1>1, <1>8 DEF ScanWork, Undisturbed, AtWork, rows, dels, TypeOK
  <2> QED BY <1>1, <1>8, <2>1, UndisturbedLeftAlone
<1>9. CASE ScanFail(r) /\ q = r
  <2>1. CASE SetStatus(r, "failed") BY <1>5, <1>9, <2>1 DEF Finished
  <2>2. CASE NotSaved(r, r \in scanCanceled) BY <1>4, <1>9, <2>2 DEF ScanFail, AtWork
  <2> QED BY <1>9, <2>1, <2>2 DEF ScanFail
<1>10. CASE ScanStats(r) /\ q = r
  <2>1. Undisturbed(r) BY <1>1, <1>10 DEF ScanStats, ScanTo, Undisturbed, AtWork, dels, TypeOK
  <2> QED BY <1>1, <1>10, <2>1, UndisturbedLeftAlone
<1>11. CASE ScanFinish(r) /\ q = r
  <2>1. CASE SetStatus(r, "completed") BY <1>5, <1>11, <2>1 DEF Finished
  <2>2. CASE SetStatus(r, "preview_ready") /\ ScanTo(r, "auto")
    <3>1. \A s \in Spawners : delPc[s] # "idle" => delRun[s] # r
      BY <1>11 DEF ScanFinish, LifeInv, Deleting, AtWork
    <3>2. Free(r)' BY <1>11, <2>2, <3>1 DEF ScanFinish, ScanTo, Free, AtWork, dels, TypeOK
    <3>3. ~Needs(r)' BY <2>2 DEF SetStatus, Needs, TypeOK
    <3> QED BY <1>11, <3>2, <3>3 DEF Handled
  <2>3. CASE NotSaved(r, r \in scanCanceled) BY <1>4, <1>11, <2>3 DEF ScanFinish, AtWork
  <2> QED BY <1>11, <2>1, <2>2, <2>3 DEF ScanFinish
<1>12. CASE MaybeAutoCleanup(r) /\ q = r
  BY <1>6, <1>12 DEF MaybeAutoCleanup, ScanTo, AtWork, TypeOK
<1>13. CASE AutoConfirmLock(r) /\ q = r
  BY <1>6, <1>13 DEF AutoConfirmLock, ScanTo, AtWork, TypeOK
<1>14. CASE ScanExit(r) /\ q = r
  BY <1>6, <1>14 DEF ScanExit, AtWork, TypeOK
<1> QED BY <1>2, <1>3, <1>7, <1>8, <1>9, <1>10, <1>11, <1>12, <1>13, <1>14 DEF ScanStep

LEMMA DeletionHandled ==
    ASSUME TypeOK, LifeInv, MutexInv, FuncsInv, CanceledInv, TypeOK', NEW s \in Spawners,
           DeletionStep(s), NEW q \in RunIds
    PROVE  Handled(q)
<1> USE IdFacts
<1> DEFINE r == delRun[s]
<1>0. r \in RunIds /\ delPc[s] # "idle" /\ ~AtWork(r)
  <2>1. delPc[s] # "idle"
    BY DEF DeletionStep, DeletionStart, DeletionFail, DeletionFinish, DeletionExit, DeletionUnlock
  <2> QED BY <2>1 DEF TypeOK, LifeInv, Deleting
<1>1. UNCHANGED <<proc, prior, callPc, callRun, scanPc, scanCanceled>>
  BY DEF DeletionStep, DeletionStart, DeletionFail, DeletionFinish, DeletionExit, DeletionUnlock,
         process, calls, scans
<1>2. /\ \A t \in Spawners \ {s} : delPc'[t] = delPc[t] /\ delRun'[t] = delRun[t]
      /\ delCanceled' \subseteq delCanceled
      /\ delPc'[s] = "idle" \/ delRun'[s] = r
  BY DEF DeletionStep, DeletionStart, DeletionFail, DeletionFinish, DeletionExit, DeletionUnlock,
         DelTo, TypeOK
<1>3. ASSUME status'[q] = status[q], q \in unsaved <=> q \in unsaved',
             q # r \/ (delPc[s] # "work" /\ delPc'[s] \notin {"start", "work"})
      PROVE Handled(q)
  <2> HIDE DEF r
  <2>1. delRun[s] = r BY DEF r
  <2>2. Undisturbed(q)
    BY <1>1, <1>2, <1>3, <2>1 DEF Undisturbed, AtWork
  <2> QED BY <1>1, <2>2, UndisturbedLeftAlone
<1>4. ASSUME NEW to \in Statuses, SetStatus(r, to), q # r PROVE Handled(q)
  BY <1>0, <1>3, <1>4 DEF SetStatus, TypeOK
<1>5. ASSUME NEW to \in Finished, SetStatus(r, to) PROVE Handled(q)
  <2>1. CASE q = r BY <1>0, <1>5, <2>1 DEF SetStatus, Handled, Accounted, TypeOK
  <2>2. CASE q # r BY <1>4, <1>5, <2>2 DEF Finished, Statuses
  <2> QED BY <2>1, <2>2
<1>6. ASSUME delPc[s] = "work", NotSaved(r, s \in delCanceled) PROVE Handled(q)
  <2>1. CASE q = r
    <3>1. UNCHANGED <<status, calls>> BY <1>1, <1>6 DEF NotSaved, calls
    <3>2. r \in unsaved' \/ (~Free(r) /\ unsaved' = unsaved) BY <1>6 DEF NotSaved, Free
    <3> QED BY <1>0, <2>1, <3>1, <3>2, NotSavedHandled DEF Handled
  <2>2. CASE q # r BY <1>3, <1>6, <2>2 DEF NotSaved
  <2> QED BY <2>1, <2>2
<1>7. CASE DeletionStart(s)
  <2>1. CASE "ok" \in Outcomes(s \in delCanceled) /\ SetStatus(r, "deleting") /\ DelTo(s, "work")
    <3>1. CASE q = r
      <4>1. s \notin delCanceled BY <2>1 DEF Outcomes
      <4>2. \A t \in Spawners \ {s} : delPc[t] # "idle" => delRun[t] # r
        BY <1>0 DEF MutexInv, OneDeletionPerInstance
      <4>3. Free(q)'
        <5> HIDE DEF r
        <5>1. ~AtWork(q)' BY <1>0, <1>1, <3>1 DEF AtWork
        <5>2. ASSUME NEW t \in Spawners, t \in delCanceled', delRun'[t] = q
              PROVE delPc'[t] \notin {"start", "work"}
          BY <1>2, <3>1, <4>1, <4>2, <5>2
        <5> QED BY <5>1, <5>2 DEF Free
      <4>4. delPc'[s] = "work" /\ delRun'[s] = delRun[s] BY <2>1 DEF DelTo, TypeOK
      <4>5. WorkedOn(q)' BY <3>1, <4>4 DEF WorkedOn
      <4> QED BY <3>1, <4>3, <4>5 DEF Handled
    <3>2. CASE q # r BY <1>4, <2>1, <3>2 DEF Statuses
    <3> QED BY <3>1, <3>2
  <2>2. CASE UNCHANGED rows /\ DelTo(s, "exit")
    BY <1>3, <1>7, <2>2 DEF DeletionStart, DelTo, rows, TypeOK
  <2> QED BY <1>7, <2>1, <2>2 DEF DeletionStart
<1>8. CASE DeletionFail(s)
  <2>1. CASE SetStatus(r, "failed") BY <1>5, <2>1 DEF Finished
  <2>2. CASE NotSaved(r, s \in delCanceled) BY <1>6, <1>8, <2>2 DEF DeletionFail
  <2> QED BY <1>8, <2>1, <2>2 DEF DeletionFail
<1>9. CASE DeletionFinish(s)
  <2>1. ASSUME NEW t \in {"completed", "failed"}, SetStatus(r, t) PROVE Handled(q)
    BY <1>5, <2>1 DEF Finished
  <2>2. CASE NotSaved(r, s \in delCanceled) BY <1>6, <1>9, <2>2 DEF DeletionFinish
  <2> QED BY <1>9, <2>1, <2>2 DEF DeletionFinish
<1>10. CASE DeletionExit(s)
  BY <1>3, <1>10 DEF DeletionExit, DelTo, rows, TypeOK
<1>11. CASE DeletionUnlock(s)
  BY <1>3, <1>11 DEF DeletionUnlock, rows, TypeOK
<1> QED BY <1>7, <1>8, <1>9, <1>10, <1>11 DEF DeletionStep

LEMMA CallHandled ==
    ASSUME TypeOK, LifeInv, FuncsInv, CanceledInv, TypeOK', NEW c \in Slots,
           CallStep(c), NEW q \in RunIds
    PROVE  Handled(q)
<1> USE IdFacts
<1> DEFINE r == callRun[c]
<1>0. callPc[c] # "idle" /\ r \in RunIds
  <2>1. callPc[c] # "idle"
    BY DEF CallStep, TriggerScan, ConfirmLock, ConfirmRegister, CancelInterrupt, CancelStale,
           CancelWrite
  <2> QED BY <2>1 DEF TypeOK
<1>1. /\ UNCHANGED <<proc, prior>>
      /\ \A d \in Slots \ {c} : callPc'[d] = callPc[d] /\ callRun'[d] = callRun[d]
  BY DEF CallStep, TriggerScan, ConfirmLock, ConfirmRegister, CancelInterrupt, CancelStale,
         CancelWrite, CallTo, Return, process, TypeOK
<1>2. ASSUME UNCHANGED <<rows, scans, dels>>, callPc[c] \notin {"trigger", "write"} PROVE Handled(q)
  <2>1. Undisturbed(q) BY <1>1, <1>2 DEF Undisturbed, AtWork, rows, scans, dels
  <2> QED BY <1>1, <2>1, UndisturbedLeftAlone
<1>3. CASE TriggerScan(c)
  <2> HIDE DEF r
  <2>0. callRun[c] = r /\ callPc[c] = "trigger" BY <1>3 DEF TriggerScan, r
  <2>1. /\ \A x \in RunIds : scanPc'[x] = IF x = r THEN "start" ELSE scanPc[x]
        /\ UNCHANGED <<status, unsaved, scanCanceled, delPc, delRun, delCanceled>>
    BY <1>0, <1>3 DEF TriggerScan, rows, dels, TypeOK, r
  <2>2. CASE q = r
    <3>1. scanPc[r] = "idle" /\ \A s \in Spawners : delPc[s] # "idle" => delRun[s] # r
      BY <1>0, <2>0 DEF LifeInv, Triggered
    <3>2. Free(q)'
      BY <1>0, <2>1, <2>2, <3>1 DEF Free, FuncsInv, ScanFuncs
    <3>3. WorkedOn(q)' BY <1>0, <2>1, <2>2 DEF WorkedOn
    <3> QED BY <2>2, <3>2, <3>3 DEF Handled
  <2>3. CASE q # r
    <3>1. Undisturbed(q) BY <1>1, <2>0, <2>1, <2>3 DEF Undisturbed, AtWork
    <3> QED BY <1>1, <3>1, UndisturbedLeftAlone
  <2> QED BY <2>2, <2>3
<1>4. CASE ConfirmLock(c) BY <1>2, <1>4 DEF ConfirmLock
<1>5. CASE ConfirmRegister(c)
  <2>1. /\ delPc[c] = "idle" /\ c \notin delCanceled /\ callPc[c] = "register"
        /\ \A s \in Spawners \ {c} : delPc'[s] = delPc[s] /\ delRun'[s] = delRun[s]
        /\ UNCHANGED <<status, unsaved, scanPc, scanCanceled, delCanceled>>
    BY <1>0, <1>5 DEF ConfirmRegister, LaunchDeletion, rows, scans, TypeOK, FuncsInv
  <2>2. Undisturbed(q) BY <1>1, <2>1 DEF Undisturbed, AtWork
  <2> QED BY <1>1, <2>2, UndisturbedLeftAlone
<1>6. CASE CancelInterrupt(c)
  <2> HIDE DEF r
  <2>0. callRun[c] = r /\ callPc[c] = "interrupt" BY <1>6 DEF CancelInterrupt, r
  <2>1. /\ UNCHANGED <<status, unsaved, scanPc, delPc, delRun>>
        /\ callPc'[c] = "write" /\ callRun'[c] = r
    BY <1>6, <2>0 DEF CancelInterrupt, CallTo, rows, TypeOK
  <2>2. CASE q = r
    BY <2>1, <2>2 DEF Handled, Accounted, Writing
  <2>3. CASE q # r
    <3>1. q \in scanCanceled' => q \in scanCanceled BY <1>6, <2>0, <2>3 DEF CancelInterrupt
    <3>2. ASSUME NEW s \in Spawners, s \in delCanceled', delRun[s] = q PROVE s \in delCanceled
      <4>1. cancelFuncs[r] # s BY <1>0, <2>3, <3>2 DEF FuncsInv, DelFuncs
      <4> QED BY <1>6, <2>0, <3>2, <4>1 DEF CancelInterrupt
    <3>3. Undisturbed(q) BY <1>1, <2>0, <2>1, <3>1, <3>2 DEF Undisturbed, AtWork
    <3> QED BY <1>1, <3>3, UndisturbedLeftAlone
  <2> QED BY <2>2, <2>3
<1>7. CASE CancelStale(c) BY <1>2, <1>7 DEF CancelStale
<1>8. CASE CancelWrite(c)
  <2> HIDE DEF r
  <2>0. callRun[c] = r BY DEF r
  <2>1. UNCHANGED <<scanPc, scanCanceled, delPc, delRun, delCanceled>>
    BY <1>8 DEF CancelWrite, scans, dels
  <2>2. CASE q = r
    <3>1. CASE SetStatus(r, "canceled")
      BY <1>0, <2>2, <3>1 DEF SetStatus, Handled, Accounted, Finished, TypeOK
    <3>2. CASE NotSaved(r, FALSE) BY <2>2, <3>2 DEF NotSaved, Handled, Accounted
    <3> QED BY <1>8, <2>0, <3>1, <3>2 DEF CancelWrite
  <2>3. CASE q # r
    <3>1. status'[q] = status[q] /\ (q \in unsaved <=> q \in unsaved')
      BY <1>0, <1>8, <2>0, <2>3 DEF CancelWrite, SetStatus, NotSaved, TypeOK
    <3>2. Undisturbed(q) BY <1>1, <2>0, <2>1, <2>3, <3>1 DEF Undisturbed, AtWork
    <3> QED BY <1>1, <3>2, UndisturbedLeftAlone
  <2> QED BY <2>2, <2>3
<1> QED BY <1>3, <1>4, <1>5, <1>6, <1>7, <1>8 DEF CallStep

LEMMA RequestHandled ==
    ASSUME TypeOK, LifeInv, TypeOK', NEW c \in Slots, NEW r \in RunIds, NEW q \in RunIds,
           \/ \E by \in {"manual", "scheduled"} : CreateRunIfNoActive(c, r, by)
           \/ ConfirmRead(c, r) \/ CancelRead(c, r)
    PROVE  Handled(q)
<1> USE IdFacts
<1>1. /\ UNCHANGED <<proc, prior, scanPc, scanCanceled, delPc, delRun, delCanceled, unsaved>>
      /\ callPc[c] = "idle" /\ callRun'[c] = r
      /\ \A d \in Slots \ {c} : callPc'[d] = callPc[d] /\ callRun'[d] = callRun[d]
      /\ q # r => status'[q] = status[q]
  BY DEF CreateRunIfNoActive, ConfirmRead, CancelRead, Take, rows, scans, dels, process, TypeOK
<1>2. ASSUME status'[q] = status[q] PROVE Handled(q)
  <2>1. Undisturbed(q) BY <1>1, <1>2 DEF Undisturbed, AtWork
  <2> QED BY <1>1, <2>1, UndisturbedLeftAlone
<1>3. CASE q = r /\ \E by \in {"manual", "scheduled"} : CreateRunIfNoActive(c, r, by)
  <2>1. status[r] = "none" /\ callPc'[c] = "trigger"
    BY <1>3 DEF CreateRunIfNoActive, IsNextId, Take, TypeOK
  <2>2. scanPc[r] = "idle" /\ \A s \in Spawners : delPc[s] # "idle" => delRun[s] # r
    BY <2>1 DEF LifeInv, Unborn
  <2>3. Free(r)' BY <1>1, <2>2 DEF Free, AtWork
  <2>4. WorkedOn(r)' BY <1>1, <2>1 DEF WorkedOn
  <2> QED BY <1>3, <2>3, <2>4 DEF Handled
<1> QED BY <1>1, <1>2, <1>3 DEF ConfirmRead, CancelRead, rows

LEMMA AttendStep ==
    TypeOK /\ LifeInv /\ MutexInv /\ FuncsInv /\ CanceledInv /\ Attended /\ [Next]_vars
    => (CanceledInv /\ Attended)'
<1> SUFFICES ASSUME TypeOK, LifeInv, MutexInv, FuncsInv, CanceledInv, Attended, [Next]_vars
             PROVE  (CanceledInv /\ Attended)'
  OBVIOUS
<1>0. TypeOK' BY TypeStep
<1>1. ASSUME \A q \in RunIds : Handled(q) PROVE (CanceledInv /\ Attended)'
  BY <1>1, HandledKeeps
<1>2. CASE \E r \in RunIds : ScanStep(r) BY <1>0, <1>1, <1>2, ScanHandled
<1>3. CASE \E s \in Spawners : DeletionStep(s) BY <1>0, <1>1, <1>3, DeletionHandled
<1>4. CASE \E c \in Slots : CallStep(c) \/ Request(c)
  BY <1>0, <1>1, <1>4, CallHandled, RequestHandled DEF Request
<1>5. CASE Crash
  <2>1. CanceledInv' BY <1>5, IdFacts DEF Crash, CanceledInv, Free
  <2>2. Attended' BY <1>5 DEF Crash, Attended, Needs
  <2> QED BY <2>1, <2>2
<1>6. ASSUME UNCHANGED <<scans, dels, calls>>, NEW q \in RunIds, Needs(q)' => Needs(q),
             Accounted(q) => Accounted(q)'
      PROVE Handled(q)
  <2>1. UNCHANGED <<scanPc, scanCanceled, delPc, delRun, delCanceled, callPc, callRun>>
    BY <1>6 DEF scans, dels, calls
  <2>2. /\ Free(q) => Free(q)'
        /\ WorkedOn(q) => WorkedOn(q)'
        /\ Writing(q) => Writing(q)'
    BY <2>1 DEF Free, WorkedOn, Writing, AtWork
  <2> QED BY <1>6, <2>2 DEF Handled, LeftAlone
<1>7. CASE Start
  <2>1. ASSUME NEW q \in RunIds PROVE ~Needs(q)'
    <3>1. PICK n \in 0 .. MaxRuns : (\A r \in RunIds : status[r] # "none" <=> r <= n) /\ prior' = n
      BY <1>7 DEF Start
    <3>2. status' = status /\ proc' = "recover1" BY <1>7 DEF Start, rows
    <3> QED BY <3>1, <3>2, IdFacts DEF Needs
  <2>2. ASSUME NEW q \in RunIds PROVE Accounted(q) => Accounted(q)'
    BY <1>7 DEF Start, Accounted, Writing, rows, calls
  <2> QED BY <1>1, <1>6, <1>7, <2>1, <2>2 DEF Start
<1>8. CASE MarkDeletingRunsFailed
  <2>1. UNCHANGED <<scans, dels, calls, prior>> BY <1>8 DEF MarkDeletingRunsFailed
  <2>2. ASSUME NEW q \in RunIds PROVE Handled(q)
    <3>1. Accounted(q) => Accounted(q)'
      BY <1>8 DEF MarkDeletingRunsFailed, Accounted, Writing, Finished, calls
    <3>2. CASE status[q] = "deleting"
      BY <1>8, <3>2 DEF MarkDeletingRunsFailed, Handled, Accounted, Finished
    <3>3. CASE status[q] # "deleting"
      <4>1. status'[q] = status[q] /\ (q \in unsaved' <=> q \in unsaved)
        BY <1>8, <3>3 DEF MarkDeletingRunsFailed
      <4>2. Needs(q)' => Needs(q)
        BY <1>8, <2>1, <3>3, <4>1 DEF MarkDeletingRunsFailed, Needs
      <4> QED BY <1>6, <2>1, <3>1, <4>2
    <3> QED BY <3>2, <3>3
  <2> QED BY <1>1, <2>2
<1>9. CASE MarkStuckRunsFailed
  <2>1. UNCHANGED <<scans, dels, calls, prior, unsaved>> BY <1>9 DEF MarkStuckRunsFailed
  <2>2. ASSUME NEW q \in RunIds PROVE Handled(q)
    <3>1. status'[q] = status[q] \/ status'[q] = "failed" BY <1>9 DEF MarkStuckRunsFailed
    <3>2. CASE status'[q] = "failed" BY <3>2 DEF Handled, Accounted, Finished
    <3>3. CASE status'[q] = status[q]
      <4>1. Accounted(q) => Accounted(q)' BY <2>1, <3>3 DEF Accounted, Writing, calls
      <4>2. Needs(q)' => Needs(q)
        BY <1>9, <2>1, <3>3 DEF MarkStuckRunsFailed, Needs
      <4> QED BY <1>6, <2>1, <4>1, <4>2
    <3> QED BY <3>1, <3>2, <3>3
  <2> QED BY <1>1, <2>2
<1>10. CASE UNCHANGED vars
  <2>1. ASSUME NEW q \in RunIds PROVE (Needs(q)' => Needs(q)) /\ (Accounted(q) => Accounted(q)')
    BY <1>10 DEF vars, rows, calls, process, Needs, Accounted, Writing
  <2> QED BY <1>1, <1>6, <1>10, <2>1 DEF vars
<1> QED BY <1>2, <1>3, <1>4, <1>5, <1>7, <1>8, <1>9, <1>10 DEF Next, Recover

(* A run that keeps new scans away has somebody who will move it on, for    *)
(* any number of runs, requests, cancellations, crashes and store errors;   *)
(* excepted are only rows whose last write failed and rows an earlier       *)
(* process left behind too young for the recovery.                          *)
THEOREM RunsAreAttended == Spec => []NoStrandedRun
<1>1. Init => MutexInv
  BY OrphanRunsAssumption DEF Init, MutexInv, HoldersHold, CallsApart, ScansApart,
     KindsApart, OneDeletionPerInstance, CallHolds, ScanHolds, DelHolds, RunIds, Spawners
<1>2. Init => FuncsInv
  BY OrphanRunsAssumption, IdFacts DEF Init, FuncsInv, ScanFuncs, DelFuncs, Spawners, RunIds
<1>3. Init => CanceledInv /\ Attended
  BY DEF Init, CanceledInv, Free, Attended, Needs
<1>4. TypeOK /\ Attended => NoStrandedRun
  BY IdFacts DEF TypeOK, Attended, Needs, NoStrandedRun, Writing
<1> QED BY <1>1, <1>2, <1>3, <1>4, TypeCorrect, LifeInit, LifeStep, MutexStep, FuncsStep,
           AttendStep, PTL DEF Spec
=============================================================================
