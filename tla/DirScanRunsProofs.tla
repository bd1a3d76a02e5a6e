------------------------- MODULE DirScanRunsProofs --------------------------
(***************************************************************************)
(* DirScanRuns for every number of directories, runs, requests and         *)
(* scheduled scans, every concurrency limit and every hierarchy of paths:  *)
(* its types, that an ended run is not revived, that no run is stranded,   *)
(* that slots and directory locks are exact, that a directory has one      *)
(* follow-up, and that a run scans the paths of the webhooks it took in.   *)
(***************************************************************************)
EXTENDS DirScanRuns, FiniteSetTheorems, WellFoundedInduction, TLAPS

RunPcs == {"none", "check", "slot", "advance", "reload", "scan", "search", "fail",
           "complete", "leave", "exit"}
CallPcs == {"idle", "start", "jitter", "active", "queued", "merge", "create idle",
            "create next", "cancel", "write", "cancel queued"}
Webhooks == {"active", "queued", "merge", "create idle", "create next"}

(* The types of the variables; TypeOK says less of some and, of the slots   *)
(* and locks, more.                                                         *)
RowTypes ==
    /\ status \in [RunIds -> Active \cup Ended \cup {"none", "deleted"}]
    /\ dirOf \in [RunIds -> Directories \cup {None}]
    /\ trig \in [RunIds -> {"none", "manual", "scheduled", "webhook"}]
    /\ root \in [RunIds -> Paths \cup {None}]
    /\ unsaved \subseteq RunIds

WorkTypes ==
    /\ pc \in [RunIds -> RunPcs] /\ used \in [RunIds -> Paths \cup {None}]
    /\ cancelFuncs \subseteq RunIds /\ canceled \subseteq RunIds
    /\ runSem \in Int /\ directoryMu \in [Directories -> 0 .. MaxRuns]
    /\ owed \in [RunIds -> SUBSET Paths] /\ unheard \subseteq RunIds

CallTypes ==
    /\ callPc \in [Procs -> CallPcs] /\ callRun \in [Procs -> 0 .. MaxRuns]
    /\ callDir \in [Procs -> Directories \cup {None}]
    /\ callRoot \in [Procs -> Paths \cup {None}] /\ callMerged \in [Procs -> Paths \cup {None}]
    /\ webhookMu \in Callers \cup {None}

LifeTypes ==
    requests \in 0 .. MaxEvents /\ faults \in 0 .. MaxEvents /\ proc \in {"up", "down"}

(* A request that is about a run names one, and a webhook its path. *)
CallArgs ==
    \A p \in Procs :
       /\ callPc[p] \in {"start", "jitter", "merge", "cancel", "write", "cancel queued"} =>
             callRun[p] \in RunIds
       /\ callPc[p] \in {"idle", "active", "queued", "create idle", "create next"} =>
             callRun[p] = 0
       /\ callPc[p] \in Webhooks =>
             /\ webhookMu = p /\ callDir[p] \in Directories /\ callRoot[p] \in Paths
             /\ Within(DirPath[callDir[p]], callRoot[p])
       /\ callPc[p] \in {"cancel", "write", "cancel queued"} => callDir[p] \in Directories

(* The part of the directory that a run is to scan. *)
Base(r) == IF root[r] = None THEN DirPath[dirOf[r]] ELSE root[r]

(* A row has a directory, and a root in it, before anybody works on it. *)
Born ==
    \A r \in RunIds :
       /\ status[r] # "none" => /\ dirOf[r] \in Directories
                                /\ Within(DirPath[dirOf[r]], Base(r))
       /\ status[r] = "none" => /\ pc[r] = "none" /\ owed[r] = {} /\ trig[r] = "none"
                                /\ \A p \in Procs : callRun[p] # r

(* The root a webhook is about to write holds its path and all that the     *)
(* root held that it has read: nobody has changed that one since.           *)
Merging ==
    \A p \in Procs, r \in RunIds : callPc[p] = "merge" /\ callRun[p] = r =>
       /\ dirOf[r] = callDir[p] /\ callMerged[p] \in Paths
       /\ Within(DirPath[callDir[p]], callMerged[p])
       /\ Within(callMerged[p], callRoot[p]) /\ Within(callMerged[p], Base(r))

Shape ==
    RowTypes /\ WorkTypes /\ CallTypes /\ LifeTypes /\ CallArgs /\ Born /\ Merging

-----------------------------------------------------------------------------
LEMMA IdFacts ==
    /\ RunIds \subseteq Nat /\ 0 \notin RunIds /\ RunIds \subseteq 0 .. MaxRuns
    /\ IsFiniteSet(RunIds)
    /\ Callers \subseteq Procs /\ Triggers \subseteq Procs /\ None \notin Procs
    /\ None \notin Paths /\ None \notin Directories
<1>1. IsFiniteSet(1 .. MaxRuns) BY FS_Interval, DirScanAssumption
<1> QED BY <1>1, DirScanAssumption DEF RunIds, Procs

(* A set of runs that is not empty has a latest one. *)
LEMMA LatestExists ==
    ASSUME NEW runs \in SUBSET RunIds, runs # {}
    PROVE  \E q \in runs : \A r \in runs : q >= r
<1> DEFINE T == {n \in Nat : \E r \in runs : n = MaxRuns - r}
<1>1. T # {} /\ T \subseteq Nat
  <2>1. PICK r \in runs : TRUE OBVIOUS
  <2>2. MaxRuns - r \in Nat BY DirScanAssumption DEF RunIds
  <2> QED BY <2>2
<1> DEFINE R == {ss \in Nat \X Nat : ss[1] < ss[2]}
<1>2. OpToRel(<, Nat) = R BY Zenon DEF OpToRel
<1>3. PICK n \in T : \A m \in T : ~(m < n)
  <2>1. IsWellFoundedOn(R, Nat) BY <1>2, NatLessThanWellFounded, Zenon
  <2> HIDE DEF R, T
  <2>2. PICK n \in T : \A m \in T : ~(<<m, n>> \in R) BY ONLY <1>1, <2>1, WFMin
  <2> USE DEF R
  <2>3. \A m \in T : ~(m < n) BY <1>1, <2>2
  <2> QED BY <2>3
<1>4. PICK q \in runs : n = MaxRuns - q BY DEF T
<1>5. ASSUME NEW r \in runs PROVE q >= r
  <2>1. MaxRuns - r \in T BY DirScanAssumption DEF RunIds
  <2> HIDE DEF T
  <2> QED BY <1>3, <1>4, <2>1, DirScanAssumption DEF RunIds
<1> QED BY <1>5

(* The query for the active run returns one of them, if there is one. *)
LEMMA FirstFacts ==
    ASSUME NEW runs \in SUBSET {r \in RunIds : status[r] \in Active}
    PROVE  (runs = {} /\ First(runs) = 0) \/ (runs # {} /\ First(runs) \in runs)
<1>1. CASE runs = {} BY <1>1 DEF First
<1>2. CASE runs # {}
  <2>1. \A r \in runs : Rank[status[r]] \in 0 .. 3
    BY DEF Rank, Active
  <2> DEFINE Of(k) == {r \in runs : Rank[status[r]] = k}
  <2>2. ASSUME NEW k \in 0 .. 3, Of(k) # {}, \A j \in 0 .. 3 : j < k => Of(j) = {}
        PROVE \E q \in runs : \A r \in runs : Before(q, r)
    <3>1. Of(k) \in SUBSET RunIds OBVIOUS
    <3>2. PICK q \in Of(k) : \A r \in Of(k) : q >= r
      <4> HIDE DEF Of
      <4> QED BY <2>2, <3>1, LatestExists
    <3>3. \A r \in runs : Rank[status[r]] >= k
      BY <2>1, <2>2
    <3> QED BY <2>1, <3>2, <3>3 DEF Before
  <2>3. \E q \in runs : \A r \in runs : Before(q, r)
    <3>1. Of(0) # {} \/ Of(1) # {} \/ Of(2) # {} \/ Of(3) # {} BY <1>2, <2>1
    <3> HIDE DEF Of
    <3>2. CASE Of(0) # {} BY <2>2, <3>2
    <3>3. CASE Of(0) = {} /\ Of(1) # {} BY <2>2, <3>3
    <3>4. CASE Of(0) = {} /\ Of(1) = {} /\ Of(2) # {} BY <2>2, <3>4
    <3>5. CASE Of(0) = {} /\ Of(1) = {} /\ Of(2) = {} /\ Of(3) # {} BY <2>2, <3>5
    <3> QED BY <3>1, <3>2, <3>3, <3>4, <3>5
  <2> QED BY <1>2, <2>3 DEF First
<1> QED BY <1>1, <1>2

LEMMA ActiveRunFacts ==
    ASSUME NEW d
    PROVE  /\ \/ GetActiveRun(d) = 0 /\ ActiveRuns(d) = {}
              \/ GetActiveRun(d) \in ActiveRuns(d)
           /\ \/ GetQueuedRun(d) = 0 /\ \A r \in ActiveRuns(d) : status[r] # "queued"
              \/ GetQueuedRun(d) \in ActiveRuns(d) /\ status[GetQueuedRun(d)] = "queued"
<1>1. ActiveRuns(d) \in SUBSET {r \in RunIds : status[r] \in Active} BY DEF ActiveRuns
<1>2. {r \in ActiveRuns(d) : status[r] = "queued"}
        \in SUBSET {r \in RunIds : status[r] \in Active} BY DEF ActiveRuns
<1> QED BY <1>1, <1>2, FirstFacts DEF GetActiveRun, GetQueuedRun

-----------------------------------------------------------------------------
(* A row is inserted for directory d: what CreateRun does, whether its      *)
(* trimming of the history succeeds or not.                                 *)
Inserts(p, d, t, path, r) ==
    /\ r \in RunIds /\ status[r] = "none"
    /\ \A q \in RunIds : \/ status'[q] = "deleted" /\ (q = r \/ status[q] # "none")
                         \/ q = r /\ status'[q] = "queued"
                         \/ q # r /\ status'[q] = status[q]
    /\ status' \in [RunIds -> Active \cup Ended \cup {"none", "deleted"}]
    /\ dirOf' = [dirOf EXCEPT ![r] = d] /\ trig' = [trig EXCEPT ![r] = t]
    /\ root' = [root EXCEPT ![r] = path]
    /\ owed' = [owed EXCEPT ![r] = IF path = None THEN {} ELSE {path}]
    /\ callRun' = [callRun EXCEPT ![p] = r]
    /\ faults' \in 0 .. MaxEvents
    /\ UNCHANGED <<unsaved, unheard>>

LEMMA FaultsBounded ==
    ASSUME LifeTypes, StoreOk \/ StoreError PROVE faults' \in 0 .. MaxEvents
  BY DirScanAssumption DEF LifeTypes, StoreOk, StoreError, MoreEvents

LEMMA CreateRunInserts ==
    ASSUME RowTypes, LifeTypes, NEW p, NEW d, NEW t, NEW path, CreateRun(p, d, t, path)
    PROVE  \E r \in RunIds : Inserts(p, d, t, path, r)
<1>1. PICK r \in RunIds :
        /\ status[r] = "none" /\ \A q \in RunIds : q < r => status[q] # "none"
        /\ \/ /\ status' = [q \in RunIds |-> IF q \in Surplus(Rows(d) \cup {r}) THEN "deleted"
                                            ELSE IF q = r THEN "queued" ELSE status[q]]
              /\ StoreOk
           \/ status' = [status EXCEPT ![r] = "queued"] /\ StoreError
        /\ dirOf' = [dirOf EXCEPT ![r] = d] /\ trig' = [trig EXCEPT ![r] = t]
        /\ root' = [root EXCEPT ![r] = path]
        /\ owed' = [owed EXCEPT ![r] = IF path = None THEN {} ELSE {path}]
        /\ callRun' = [callRun EXCEPT ![p] = r]
        /\ UNCHANGED <<unsaved, unheard>>
  BY DEF CreateRun
<1>2. faults' \in 0 .. MaxEvents
  BY <1>1, FaultsBounded
<1>3. \A q \in Surplus(Rows(d) \cup {r}) : q = r \/ status[q] # "none"
  BY DEF Surplus, Rows
<1>4. /\ \A q \in RunIds : \/ status'[q] = "deleted" /\ (q = r \/ status[q] # "none")
                           \/ q = r /\ status'[q] = "queued"
                           \/ q # r /\ status'[q] = status[q]
      /\ status' \in [RunIds -> Active \cup Ended \cup {"none", "deleted"}]
  <2>1. CASE status' = [status EXCEPT ![r] = "queued"]
    BY <2>1 DEF RowTypes, Active
  <2>2. CASE status' = [q \in RunIds |-> IF q \in Surplus(Rows(d) \cup {r}) THEN "deleted"
                                            ELSE IF q = r THEN "queued" ELSE status[q]]
    BY <1>3, <2>2 DEF RowTypes, Active
  <2> QED BY <1>1, <2>1, <2>2
<1> QED BY <1>1, <1>2, <1>4 DEF Inserts

(* What SetStatus and Settle do to the row. *)
LEMMA SettleFacts ==
    ASSUME RowTypes, LifeTypes, NEW r \in RunIds, NEW s \in Ended, Settle(r, s)
    PROVE  /\ status' \in [RunIds -> Active \cup Ended \cup {"none", "deleted"}]
           /\ \A q \in RunIds : q # r => status'[q] = status[q] /\ (q \in unsaved' <=> q \in unsaved)
           /\ status[r] = "deleted" => status'[r] = "deleted"
           /\ \/ status'[r] \in Ended \cup {"deleted"} /\ unsaved' = unsaved /\ faults' = faults
              \/ status' = status /\ unsaved' = unsaved \cup {r} /\ faults' = faults + 1
           /\ faults' \in 0 .. MaxEvents
           /\ UNCHANGED <<dirOf, trig, root, owed, unheard>>
<1>1. CASE SetStatus(r, s) /\ StoreOk /\ UNCHANGED unsaved
  <2>1. CASE status[r] = "deleted" BY <1>1, <2>1 DEF Settle, SetStatus, StoreOk, RowTypes, LifeTypes
  <2>2. CASE status[r] # "deleted"
    <3>1. status' = [status EXCEPT ![r] = s] BY <1>1, <2>2 DEF SetStatus
    <3>2. UNCHANGED <<faults, unsaved, dirOf, trig, root, owed, unheard>>
      BY <1>1 DEF Settle, StoreOk
    <3> QED BY <2>2, <3>1, <3>2 DEF RowTypes, LifeTypes
  <2> QED BY <2>1, <2>2
<1>2. CASE UNCHANGED status /\ StoreError /\ unsaved' = unsaved \cup {r}
  BY <1>2, FaultsBounded DEF Settle, StoreError, RowTypes
<1> QED BY <1>1, <1>2 DEF Settle

(* Lemmas about requests: one that goes on, one that is over. *)
SameCall(q) ==
    /\ callPc'[q] = callPc[q] /\ callRun'[q] = callRun[q] /\ callDir'[q] = callDir[q]
    /\ callRoot'[q] = callRoot[q] /\ callMerged'[q] = callMerged[q]
    /\ webhookMu = q => webhookMu' = q

LEMMA ReturnFacts ==
    ASSUME CallTypes, CallArgs, NEW p \in Procs, Return(p)
    PROVE  /\ CallTypes' /\ CallArgs'
           /\ callPc'[p] = "idle" /\ callRun'[p] = 0
           /\ \A q \in Procs : q # p => SameCall(q)
<1>0. 0 \in 0 .. MaxRuns BY DirScanAssumption
<1>1. CallTypes'
  <2>1. callPc' \in [Procs -> CallPcs] BY DEF CallTypes, Return, CallTo, CallPcs
  <2>2. callRun' \in [Procs -> 0 .. MaxRuns] BY <1>0 DEF CallTypes, Return
  <2> QED BY <2>1, <2>2 DEF CallTypes, Return
<1>2. \A q \in Procs : q # p => SameCall(q)
  BY DEF CallTypes, Return, CallTo, SameCall
<1>3. callPc'[p] = "idle" /\ callRun'[p] = 0 BY DEF CallTypes, Return, CallTo
<1>4. CallArgs' BY <1>2, <1>3 DEF CallArgs, Webhooks, SameCall
<1> QED BY <1>1, <1>2, <1>3, <1>4

(* The steps of a goroutine leave the requests alone. *)
LEMMA ShapeOfRun ==
    ASSUME Shape, NEW r \in RunIds, RunStep(r) \/ Inject(r) \/ AcquireRunSlot(r) \/ Advance(r)
    PROVE  Shape'
<1> USE DirScanAssumption, IdFacts
<1>1. UNCHANGED <<calls, life, dirOf, trig, root>>
  BY DEF RunStep, CheckRun, SlotCanceled, Reload, HandleCancellation, ScanPhase, MarkRunFailed,
         SearchOver, UpdateRunCompleted, ExitRun, Inject, AcquireRunSlot, Advance, RunTouches,
         Settle, rows
<1>2. pc[r] # "none" /\ status[r] # "none" /\ dirOf[r] \in Directories /\ DirPath[dirOf[r]] \in Paths
  <2>1. pc[r] # "none"
    BY DEF RunStep, CheckRun, SlotCanceled, Reload, HandleCancellation, ScanPhase, MarkRunFailed,
         SearchOver, UpdateRunCompleted, ExitRun, LeaveScan, Inject, AcquireRunSlot, Advance
  <2> QED BY <2>1 DEF Shape, Born
<1>3. faults' \in 0 .. MaxEvents
  <2>1. CASE StoreOk \/ StoreError BY <2>1, FaultsBounded DEF Shape
  <2> QED BY <2>1 DEF RunStep, CheckRun, SlotCanceled, Reload, HandleCancellation, ScanPhase,
         MarkRunFailed, SearchOver, UpdateRunCompleted, ExitRun, Inject, AcquireRunSlot, Advance,
         Settle, RunOk, RunError, StoreOk, history
<1>4. /\ status' \in [RunIds -> Active \cup Ended \cup {"none", "deleted"}]
      /\ \A q \in RunIds : status'[q] = "none" <=> status[q] = "none"
      /\ unsaved' \subseteq RunIds
  <2>1. ASSUME NEW s \in Ended, Settle(r, s) PROVE <1>4!:
    <3>1. /\ status' \in [RunIds -> Active \cup Ended \cup {"none", "deleted"}]
          /\ \A q \in RunIds : q # r => status'[q] = status[q]
          /\ status'[r] \in Ended \cup {"deleted"} \/ status'[r] = status[r]
          /\ unsaved' \subseteq unsaved \cup {r}
      BY <2>1, SettleFacts DEF Shape
    <3> QED BY <1>2, <3>1 DEF Shape, Ended, RowTypes
  <2>2. ASSUME NEW s \in Active, SetStatus(r, s), unsaved' = unsaved PROVE <1>4!:
    BY <1>2, <2>2 DEF SetStatus, Shape, RowTypes, Active
  <2>3. ASSUME UNCHANGED status, unsaved' = unsaved \/ unsaved' = unsaved \cup {r} PROVE <1>4!:
    BY <2>3 DEF Shape, RowTypes
  <2>4. CASE CheckRun(r) BY <2>3, <2>4 DEF CheckRun, RunError, rows
  <2>5. CASE SlotCanceled(r) BY <2>1, <2>5 DEF SlotCanceled, Ended
  <2>6. CASE Reload(r) BY <2>3, <2>6 DEF Reload, RunError, rows
  <2>7. CASE HandleCancellation(r) BY <2>1, <2>7 DEF HandleCancellation, Ended
  <2>8. CASE ScanPhase(r) BY <2>2, <2>3, <2>8 DEF ScanPhase, Active, history
  <2>9. CASE MarkRunFailed(r) BY <2>1, <2>9 DEF MarkRunFailed, Ended
  <2>10. CASE SearchOver(r) BY <2>3, <2>10 DEF SearchOver, rows, history
  <2>11. CASE UpdateRunCompleted(r) BY <2>1, <2>11 DEF UpdateRunCompleted, Ended
  <2>12. CASE ExitRun(r) BY <2>3, <2>12 DEF ExitRun, rows
  <2>13. CASE Inject(r) BY <2>2, <2>13 DEF Inject, Active, history
  <2>14. CASE AcquireRunSlot(r) BY <2>3, <2>14 DEF AcquireRunSlot, rows, history
  <2>15. CASE Advance(r)
    BY <2>2, <2>3, <2>15 DEF Advance, RunError, Active
  <2> QED BY <2>4, <2>5, <2>6, <2>7, <2>8, <2>9, <2>10, <2>11, <2>12, <2>13, <2>14, <2>15
          DEF RunStep
<1>5. WorkTypes' /\ \A q \in RunIds : q # r => pc'[q] = pc[q] /\ owed'[q] = owed[q]
  <2> USE DEF Shape, WorkTypes, RunTo, RunPcs
  <2>4. CASE CheckRun(r) BY <2>4 DEF CheckRun, RunTouches
  <2>5. CASE SlotCanceled(r) BY <2>5 DEF SlotCanceled, RunTouches, Settle
  <2>6. CASE Reload(r)
    <3>1. (IF root[r] = None THEN DirPath[dirOf[r]] ELSE root[r]) \in Paths
      BY <1>2 DEF RowTypes
    <3>2. used' \in [RunIds -> Paths \cup {None}]
      <4>1. CASE UNCHANGED used BY <4>1
      <4>2. CASE used' = [used EXCEPT ![r] = IF root[r] = None THEN DirPath[dirOf[r]] ELSE root[r]]
        BY <3>1, <4>2
      <4> QED BY <2>6, <4>1, <4>2 DEF Reload
    <3>3. pc' \in [RunIds -> RunPcs] /\ \A q \in RunIds : q # r => pc'[q] = pc[q]
      <4>1. pc' = [pc EXCEPT ![r] = "leave"] \/ pc' = [pc EXCEPT ![r] = "scan"]
        BY <2>6 DEF Reload
      <4>2. CASE pc' = [pc EXCEPT ![r] = "leave"] BY <4>2
      <4>3. CASE pc' = [pc EXCEPT ![r] = "scan"] BY <4>3
      <4> QED BY <4>1, <4>2, <4>3
    <3> QED BY <2>6, <3>2, <3>3 DEF Reload, RunTouches
  <2>7. CASE HandleCancellation(r) BY <2>7 DEF HandleCancellation, RunTouches, Settle
  <2>8. CASE ScanPhase(r)
    <3>1. /\ pc' = [pc EXCEPT ![r] = "search"] \/ pc' = [pc EXCEPT ![r] = "fail"]
          /\ UNCHANGED <<used, runSem, directoryMu, cancelFuncs, canceled, history>>
      BY <2>8 DEF ScanPhase, RunTouches
    <3>2. CASE pc' = [pc EXCEPT ![r] = "search"] BY <3>1, <3>2 DEF history
    <3>3. CASE pc' = [pc EXCEPT ![r] = "fail"] BY <3>1, <3>3 DEF history
    <3> QED BY <3>1, <3>2, <3>3
  <2>9. CASE MarkRunFailed(r) BY <2>9 DEF MarkRunFailed, RunTouches, Settle
  <2>10. CASE SearchOver(r) BY <2>10 DEF SearchOver, RunTouches, history
  <2>11. CASE UpdateRunCompleted(r) BY <2>11 DEF UpdateRunCompleted, RunTouches, Settle
  <2>12. CASE ExitRun(r)
    <3>1. runSem' \in Int /\ directoryMu' \in [Directories -> 0 .. MaxRuns]
      <4>1. CASE LeaveScan(r)
        <5>1. directoryMu' = [directoryMu EXCEPT ![dirOf[r]] = 0] /\ runSem' = runSem - 1
          BY <4>1 DEF LeaveScan
        <5>2. 0 \in 0 .. MaxRuns OBVIOUS
        <5> QED BY <1>2, <5>1, <5>2
      <4> QED BY <2>12, <4>1 DEF ExitRun
    <3> QED BY <2>12, <3>1 DEF ExitRun
  <2>13. CASE Inject(r) BY <2>13 DEF Inject, RunTouches, history
  <2>14. CASE AcquireRunSlot(r) BY <2>14 DEF AcquireRunSlot, RunTouches, history
  <2>15. CASE Advance(r)
    <3>1. directoryMu' \in [Directories -> 0 .. MaxRuns] BY <1>2, <2>15 DEF Advance
    <3>2. pc' = [pc EXCEPT ![r] = "leave"] \/ pc' = [pc EXCEPT ![r] = "reload"]
      BY <2>15 DEF Advance
    <3>3. CASE pc' = [pc EXCEPT ![r] = "leave"] BY <2>15, <3>1, <3>3 DEF Advance, RunTouches
    <3>4. CASE pc' = [pc EXCEPT ![r] = "reload"] BY <2>15, <3>1, <3>4 DEF Advance, RunTouches
    <3> QED BY <3>2, <3>3, <3>4
  <2> QED BY <2>4, <2>5, <2>6, <2>7, <2>8, <2>9, <2>10, <2>11, <2>12, <2>13, <2>14, <2>15
          DEF RunStep
<1>6. RowTypes' BY <1>1, <1>4 DEF Shape, RowTypes
<1>7. CallTypes' /\ CallArgs'
  BY <1>1 DEF Shape, CallTypes, CallArgs, calls, Webhooks, Within
<1>8. LifeTypes' BY <1>1, <1>3 DEF Shape, LifeTypes, life
<1>9. Born'
  <2>1. \A q \in RunIds : Base(q)' = Base(q) /\ dirOf'[q] = dirOf[q] /\ trig'[q] = trig[q]
    BY <1>1 DEF Base
  <2>2. \A q \in RunIds : status[q] = "none" => pc'[q] = "none" /\ owed'[q] = {}
    BY <1>2, <1>5 DEF Shape, Born
  <2>3. callRun' = callRun BY <1>1 DEF calls
  <2> QED BY <1>4, <2>1, <2>2, <2>3 DEF Shape, Born, Within
<1>10. Merging' BY <1>1 DEF Shape, Merging, Base, Within, calls
<1> QED BY <1>5, <1>6, <1>7, <1>8, <1>9, <1>10 DEF Shape

(* Paths: a path lies in itself, and in what a path it lies in lies in. *)
LEMMA WithinFacts ==
    /\ \A p \in Paths : Within(p, p) /\ Above[p] \subseteq Paths
    /\ \A p, q, r \in Paths : Within(p, q) /\ Within(q, r) => Within(p, r)
  BY DirScanAssumption DEF Within

(* mergeWebhookScanRoots returns a path of the directory that holds both    *)
(* roots.                                                                   *)
LEMMA MergeFacts ==
    ASSUME NEW d \in Directories, NEW existing \in Paths \cup {None}, NEW next \in Paths,
           Within(DirPath[d], next),
           Within(DirPath[d], IF existing = None THEN DirPath[d] ELSE existing)
    PROVE  LET merged == MergeWebhookScanRoots(d, existing, next) IN
           /\ merged \in Paths /\ Within(DirPath[d], merged) /\ Within(merged, next)
           /\ Within(merged, IF existing = None THEN DirPath[d] ELSE existing)
<1> DEFINE current == IF existing = None THEN DirPath[d] ELSE existing
           both == {p \in Above[current] \cap Above[next] : Within(DirPath[d], p)}
           merged == MergeWebhookScanRoots(d, existing, next)
<1>1. DirPath[d] \in Paths /\ current \in Paths BY DirScanAssumption
<1>2. DirPath[d] \in both BY <1>1, WithinFacts DEF Within
<1>3. both \in SUBSET Above[current] OBVIOUS
<1>4. \E p \in both : both \subseteq Above[p]
  <2> HIDE DEF both, current
  <2> QED BY <1>1, <1>2, <1>3, DirScanAssumption
<1>5. merged = CHOOSE p \in both : both \subseteq Above[p]
  BY <1>2 DEF MergeWebhookScanRoots
<1>6. merged \in both
  <2> HIDE DEF both, merged
  <2> QED BY <1>4, <1>5
<1>7. merged \in Above[current] /\ merged \in Above[next] /\ Within(DirPath[d], merged)
  <2> HIDE DEF merged
  <2> QED BY <1>6
<1> QED BY <1>1, <1>7, WithinFacts DEF Within

(* A request that reads the rows and goes on, or returns. *)
LEMMA ShapeOfReader ==
    ASSUME Shape, NEW p \in Procs, UNCHANGED <<rows, pc, used, cancelFuncs, runSem, directoryMu>>,
           CallTypes', CallArgs', LifeTypes', \A q \in Procs : q # p => SameCall(q),
           \A r \in RunIds : callRun'[p] = r => status[r] # "none",
           canceled' \subseteq RunIds, unheard' \subseteq RunIds, unsaved' \subseteq RunIds,
           owed' \in [RunIds -> SUBSET Paths],
           \A r \in RunIds : owed'[r] = owed[r] \/ status[r] # "none",
           \A r \in RunIds : callPc'[p] = "merge" /\ callRun'[p] = r =>
              /\ dirOf[r] = callDir'[p] /\ callMerged'[p] \in Paths
              /\ Within(DirPath[callDir'[p]], callMerged'[p])
              /\ Within(callMerged'[p], callRoot'[p]) /\ Within(callMerged'[p], Base(r))
    PROVE  Shape'
<1>1. RowTypes' /\ WorkTypes' BY DEF Shape, RowTypes, WorkTypes, rows
<1>2. \A r \in RunIds : /\ status'[r] = status[r] /\ dirOf'[r] = dirOf[r] /\ trig'[r] = trig[r]
                        /\ Base(r)' = Base(r)
  BY DEF rows, Base
<1>3. Born'
  <2>1. ASSUME NEW r \in RunIds, status[r] = "none" PROVE \A q \in Procs : callRun'[q] # r
    BY <2>1 DEF SameCall, Shape, Born
  <2> QED BY <1>2, <2>1 DEF Shape, Born, Within
<1>4. Merging' BY <1>2 DEF Shape, Merging, Within, SameCall
<1> QED BY <1>1, <1>3, <1>4 DEF Shape

LEMMA ShapeOfReturn ==
    ASSUME Shape, NEW p \in Procs, Return(p), LifeTypes', unsaved' \subseteq RunIds,
           UNCHANGED <<rows, work, owed, unheard>>
    PROVE  Shape'
<1>1. /\ CallTypes' /\ CallArgs' /\ callPc'[p] = "idle" /\ callRun'[p] = 0
      /\ \A q \in Procs : q # p => SameCall(q)
  BY ReturnFacts DEF Shape
<1> QED BY <1>1, ShapeOfReader, IdFacts DEF Shape, WorkTypes, work

(* A request goes to its next step and keeps the rest. *)
LEMMA ToFacts ==
    ASSUME CallTypes, NEW p \in Procs, NEW step \in CallPcs, CallTo(p, step)
    PROVE  /\ callPc' \in [Procs -> CallPcs] /\ callPc'[p] = step
           /\ \A q \in Procs : q # p => callPc'[q] = callPc[q]
  BY DEF CallTypes, CallTo

LEMMA JoinShape ==
    ASSUME Shape, NEW c \in Procs, callPc[c] \in {"active", "queued"},
           NEW r \in ActiveRuns(callDir[c]), status[r] = "queued", JoinRun(c, r), LifeTypes',
           UNCHANGED <<rows, work, unsaved, unheard>>
    PROVE  Shape'
<1> DEFINE merged == MergeWebhookScanRoots(callDir[c], root[r], callRoot[c])
<1>1. /\ r \in RunIds /\ dirOf[r] = callDir[c] /\ status[r] # "none"
      /\ callDir[c] \in Directories /\ callRoot[c] \in Paths /\ webhookMu = c
      /\ Within(DirPath[callDir[c]], callRoot[c]) /\ callRun[c] = 0
  BY DEF ActiveRuns, Shape, CallArgs, Webhooks
<1>2. owed' \in [RunIds -> SUBSET Paths] /\ \A q \in RunIds : owed'[q] = owed[q] \/ q = r
  <2>1. owed \in [RunIds -> SUBSET Paths] BY DEF Shape, WorkTypes
  <2> QED BY <1>1, <2>1 DEF JoinRun
<1>3. /\ merged \in Paths /\ Within(DirPath[callDir[c]], merged) /\ Within(merged, callRoot[c])
      /\ Within(merged, Base(r))
  <2>1. root[r] \in Paths \cup {None} BY <1>1 DEF Shape, RowTypes
  <2>2. Within(DirPath[callDir[c]], IF root[r] = None THEN DirPath[callDir[c]] ELSE root[r])
    BY <1>1 DEF Shape, Born, Base
  <2> HIDE DEF merged
  <2>3. /\ merged \in Paths /\ Within(DirPath[callDir[c]], merged) /\ Within(merged, callRoot[c])
        /\ Within(merged, IF root[r] = None THEN DirPath[callDir[c]] ELSE root[r])
    BY <1>1, <2>1, <2>2, MergeFacts DEF merged
  <2> QED BY <1>1, <2>3 DEF Base
<1> HIDE DEF merged
<1>4. CASE Return(c)
  <2>1. /\ CallTypes' /\ CallArgs' /\ callPc'[c] = "idle" /\ callRun'[c] = 0
        /\ \A q \in Procs : q # c => SameCall(q)
    BY <1>4, ReturnFacts DEF Shape
  <2> QED BY <1>1, <1>2, <2>1, ShapeOfReader, IdFacts DEF Shape, WorkTypes, RowTypes, work
<1>5. CASE ~Return(c)
  <2>1. /\ CallTo(c, "merge") /\ callRun' = [callRun EXCEPT ![c] = r]
        /\ callMerged' = [callMerged EXCEPT ![c] = merged]
        /\ UNCHANGED <<callDir, callRoot, webhookMu, owed>>
    BY <1>5 DEF JoinRun, merged
  <2>2. /\ callPc' \in [Procs -> CallPcs] /\ callPc'[c] = "merge"
        /\ \A q \in Procs : q # c => callPc'[q] = callPc[q]
    BY <2>1, ToFacts DEF Shape, CallPcs
  <2>3. /\ callRun' \in [Procs -> 0 .. MaxRuns] /\ callRun'[c] = r
        /\ callMerged' \in [Procs -> Paths \cup {None}] /\ callMerged'[c] = merged
        /\ \A q \in Procs : q # c => callRun'[q] = callRun[q] /\ callMerged'[q] = callMerged[q]
    BY <1>1, <1>3, <2>1, IdFacts DEF Shape, CallTypes
  <2>4. CallTypes' BY <2>1, <2>2, <2>3 DEF Shape, CallTypes
  <2>5. \A q \in Procs : q # c => SameCall(q) BY <2>1, <2>2, <2>3 DEF SameCall
  <2>6. CallArgs' BY <1>1, <2>1, <2>2, <2>3 DEF Shape, CallArgs, Webhooks
  <2>7. \A q \in RunIds : callPc'[c] = "merge" /\ callRun'[c] = q =>
          /\ dirOf[q] = callDir'[c] /\ callMerged'[c] \in Paths
          /\ Within(DirPath[callDir'[c]], callMerged'[c])
          /\ Within(callMerged'[c], callRoot'[c]) /\ Within(callMerged'[c], Base(q))
    BY <1>1, <1>3, <2>1, <2>3
  <2> QED BY <1>1, <1>2, <2>3, <2>4, <2>5, <2>6, <2>7, ShapeOfReader
          DEF Shape, WorkTypes, RowTypes, work
<1> QED BY <1>4, <1>5

(* A request inserts a row, and is then about that run. *)
LEMMA ShapeOfInsert ==
    ASSUME Shape, NEW p \in Procs, NEW d \in Directories,
           NEW t \in {"manual", "scheduled", "webhook"}, NEW path \in Paths \cup {None},
           Within(DirPath[d], IF path = None THEN DirPath[d] ELSE path),
           NEW r \in RunIds, Inserts(p, d, t, path, r),
           NEW step \in {"start", "jitter"}, CallTo(p, step), LifeTypes',
           UNCHANGED <<work, callDir, callRoot, callMerged, webhookMu>>
    PROVE  Shape'
<1>1. /\ callPc' \in [Procs -> CallPcs] /\ callPc'[p] = step
      /\ \A q \in Procs : q # p => callPc'[q] = callPc[q]
  BY ToFacts DEF Shape, CallPcs
<1>2. /\ callRun' \in [Procs -> 0 .. MaxRuns] /\ callRun'[p] = r
      /\ \A q \in Procs : q # p => callRun'[q] = callRun[q]
  BY IdFacts DEF Inserts, Shape, CallTypes
<1>3. CallTypes' BY <1>1, <1>2 DEF Shape, CallTypes
<1>4. CallArgs' BY <1>1, <1>2 DEF Shape, CallArgs, Webhooks
<1>5. RowTypes' BY DEF Inserts, Shape, RowTypes
<1>6. /\ owed' \in [RunIds -> SUBSET Paths]
      /\ \A q \in RunIds : q # r => owed'[q] = owed[q]
  BY DEF Inserts, Shape, WorkTypes
<1>7. WorkTypes' BY <1>6 DEF Inserts, Shape, WorkTypes, work
<1>8. /\ dirOf'[r] = d /\ Base(r)' = IF path = None THEN DirPath[d] ELSE path
      /\ \A q \in RunIds : q # r => /\ dirOf'[q] = dirOf[q] /\ trig'[q] = trig[q]
                                    /\ Base(q)' = Base(q)
  BY DEF Inserts, Shape, RowTypes, Base
<1>9. Born'
  <2>1. \A q \in RunIds : status'[q] = "none" => q # r /\ status[q] = "none"
    BY DEF Inserts
  <2>2. \A q \in RunIds : q # r /\ status'[q] # "none" => status[q] # "none"
    BY DEF Inserts
  <2>3. \A q \in RunIds : status'[q] = "none" => \A c \in Procs : callRun'[c] # q
    BY <1>2, <2>1 DEF Shape, Born
  <2>4. \A q \in RunIds : status'[q] # "none" =>
           dirOf'[q] \in Directories /\ Within(DirPath[dirOf'[q]], Base(q)')
    BY <1>8, <2>2 DEF Shape, Born
  <2>5. \A q \in RunIds : status'[q] = "none" =>
           pc'[q] = "none" /\ owed'[q] = {} /\ trig'[q] = "none"
    BY <1>6, <1>8, <2>1 DEF Shape, Born, work
  <2> QED BY <2>3, <2>4, <2>5 DEF Born, Within
<1>10. Merging'
  <2>1. ASSUME NEW c \in Procs, NEW q \in RunIds, callPc'[c] = "merge", callRun'[c] = q
        PROVE  c # p /\ q # r /\ callPc[c] = "merge" /\ callRun[c] = q
    BY <1>1, <1>2, <2>1 DEF Shape, Born, Inserts
  <2> QED BY <1>8, <2>1 DEF Shape, Merging, Within
<1> QED BY <1>3, <1>4, <1>5, <1>7, <1>9, <1>10 DEF Shape

LEMMA ArriveFacts ==
    ASSUME LifeTypes, NEW c, Arrive(c)
    PROVE  requests' \in 0 .. MaxEvents /\ proc' = proc /\ callPc[c] = "idle"
  BY DirScanAssumption DEF LifeTypes, Arrive, MoreEvents

LEMMA DirPathFacts ==
    ASSUME NEW d \in Directories PROVE DirPath[d] \in Paths /\ Within(DirPath[d], DirPath[d])
  BY DirScanAssumption DEF Within

LEMMA ShapeOfRequest ==
    ASSUME Shape, NEW c \in Callers, Request(c)
    PROVE  Shape'
<1>0. c \in Procs BY IdFacts
<1>1. ASSUME NEW d \in Directories, StartManualScan(c, d) PROVE Shape'
  <2>1. PICK r \in RunIds : Inserts(c, d, "manual", None, r)
    BY <1>1, CreateRunInserts DEF StartManualScan, CreateRunIfNoActive, Shape
  <2>2. LifeTypes'
    BY <1>1, <2>1, ArriveFacts DEF StartManualScan, Shape, Inserts, LifeTypes
  <2> QED BY <1>0, <1>1, <2>1, <2>2, ShapeOfInsert, DirPathFacts, IdFacts DEF StartManualScan
<1>2. ASSUME NEW d \in Directories, CancelScan(c, d) PROVE Shape'
  <2>1. /\ GetActiveRun(d) \in RunIds /\ status[GetActiveRun(d)] \in Active
    BY <1>2, ActiveRunFacts DEF CancelScan, ActiveRuns
  <2> DEFINE r == GetActiveRun(d)
  <2>2. /\ callRun' = [callRun EXCEPT ![c] = r] /\ callDir' = [callDir EXCEPT ![c] = d]
        /\ CallTo(c, "cancel") /\ Arrive(c)
        /\ UNCHANGED <<rows, work, callRoot, callMerged, webhookMu, faults, history>>
    BY <1>2 DEF CancelScan
  <2> HIDE DEF r
  <2>3. r \in RunIds /\ status[r] # "none" BY <2>1 DEF r, Active
  <2>4. /\ callPc' \in [Procs -> CallPcs] /\ callPc'[c] = "cancel"
        /\ \A q \in Procs : q # c => callPc'[q] = callPc[q]
    BY <1>0, <2>2, ToFacts DEF Shape, CallPcs
  <2>5. /\ callRun' \in [Procs -> 0 .. MaxRuns] /\ callRun'[c] = r
        /\ callDir' \in [Procs -> Directories \cup {None}] /\ callDir'[c] = d
        /\ \A q \in Procs : q # c => callRun'[q] = callRun[q] /\ callDir'[q] = callDir[q]
    BY <1>0, <2>2, <2>3, IdFacts DEF Shape, CallTypes
  <2>6. CallTypes' BY <2>2, <2>4, <2>5 DEF Shape, CallTypes
  <2>7. \A q \in Procs : q # c => SameCall(q) BY <2>2, <2>4, <2>5 DEF SameCall
  <2>8. CallArgs' BY <2>3, <2>4, <2>5, <2>7 DEF Shape, CallArgs, Webhooks, SameCall
  <2>9. LifeTypes' BY <2>2, ArriveFacts DEF Shape, LifeTypes
  <2>10. callPc'[c] # "merge" /\ \A q \in RunIds : callRun'[c] = q => status[q] # "none"
    BY <2>3, <2>4, <2>5
  <2> QED BY <1>0, <2>2, <2>6, <2>7, <2>8, <2>9, <2>10, ShapeOfReader
          DEF Shape, WorkTypes, RowTypes, work, history
<1>3. ASSUME NEW d \in Directories, NEW p \in Paths, Within(DirPath[d], p), LockWebhook(c, d, p)
      PROVE  Shape'
  <2>2. /\ webhookMu = None /\ webhookMu' = c /\ CallTo(c, "active") /\ Arrive(c)
        /\ callDir' = [callDir EXCEPT ![c] = d] /\ callRoot' = [callRoot EXCEPT ![c] = p]
        /\ UNCHANGED <<rows, work, callRun, callMerged, faults, history>>
    BY <1>3 DEF LockWebhook
  <2>4. /\ callPc' \in [Procs -> CallPcs] /\ callPc'[c] = "active"
        /\ \A q \in Procs : q # c => callPc'[q] = callPc[q]
    BY <1>0, <2>2, ToFacts DEF Shape, CallPcs
  <2>5. /\ callRoot' \in [Procs -> Paths \cup {None}] /\ callRoot'[c] = p
        /\ callDir' \in [Procs -> Directories \cup {None}] /\ callDir'[c] = d
        /\ \A q \in Procs : q # c => callRoot'[q] = callRoot[q] /\ callDir'[q] = callDir[q]
    BY <1>0, <2>2 DEF Shape, CallTypes
  <2>6. CallTypes' BY <2>2, <2>4, <2>5 DEF Shape, CallTypes
  <2>11. callRun'[c] = 0 BY <1>0, <2>2, ArriveFacts DEF Shape, CallArgs
  <2>12. \A q \in Procs : webhookMu # q BY <2>2, IdFacts
  <2>7. \A q \in Procs : q # c => SameCall(q) BY <2>2, <2>4, <2>5, <2>12 DEF SameCall
  <2>8. CallArgs'
    BY <1>3, <2>2, <2>4, <2>5, <2>7, <2>11 DEF Shape, CallArgs, Webhooks, SameCall, Within
  <2>9. LifeTypes' BY <2>2, ArriveFacts DEF Shape, LifeTypes
  <2>10. callPc'[c] # "merge" /\ \A q \in RunIds : callRun'[c] # q
    BY <2>4, <2>11, IdFacts
  <2> QED BY <1>0, <2>2, <2>6, <2>7, <2>8, <2>9, <2>10, ShapeOfReader
          DEF Shape, WorkTypes, RowTypes, work, history
<1> QED BY <1>1, <1>2, <1>3 DEF Request

LEMMA StartRunShape ==
    ASSUME Shape, NEW p \in Procs, StartRun(p) PROVE Shape'
<1> DEFINE r == callRun[p]
<1>1. /\ callPc[p] = "start" /\ cancelFuncs' = cancelFuncs \cup {r}
      /\ pc' = [pc EXCEPT ![r] = "check"] /\ Return(p)
      /\ UNCHANGED <<rows, used, canceled, runSem, directoryMu, life, faults, history>>
  BY DEF StartRun
<1>2. r \in RunIds /\ status[r] # "none" BY <1>1 DEF Shape, CallArgs, Born
<1> HIDE DEF r
<1>3. /\ CallTypes' /\ CallArgs' /\ callPc'[p] = "idle" /\ callRun'[p] = 0
      /\ \A q \in Procs : q # p => SameCall(q)
  BY <1>1, ReturnFacts DEF Shape
<1>4. RowTypes' BY <1>1 DEF Shape, RowTypes, rows, history
<1>5. WorkTypes' BY <1>1, <1>2 DEF Shape, WorkTypes, RunPcs, history
<1>6. LifeTypes' BY <1>1 DEF Shape, LifeTypes, life
<1>7. \A q \in RunIds : /\ status'[q] = status[q] /\ dirOf'[q] = dirOf[q] /\ trig'[q] = trig[q]
                        /\ Base(q)' = Base(q) /\ owed'[q] = owed[q]
  BY <1>1 DEF rows, Base, history
<1>8. Born'
  <2>1. ASSUME NEW q \in RunIds, status[q] = "none"
        PROVE  pc'[q] = "none" /\ \A c \in Procs : callRun'[c] # q
    BY <1>1, <1>2, <1>3, <2>1, IdFacts DEF SameCall, Shape, Born, WorkTypes
  <2> QED BY <1>7, <2>1 DEF Shape, Born, Within
<1>9. Merging' BY <1>3, <1>7 DEF Shape, Merging, Within, SameCall
<1> QED BY <1>3, <1>4, <1>5, <1>6, <1>8, <1>9 DEF Shape

(* A webhook goes from one step to the next without touching a row. *)
LEMMA WebhookGoesOn ==
    ASSUME Shape, NEW c \in Procs, callPc[c] \in {"active", "queued"},
           NEW step \in {"queued", "create idle", "create next"}, CallTo(c, step), LifeTypes',
           UNCHANGED <<callDir, callRoot, callRun, callMerged, webhookMu, rows, work, history>>
    PROVE  Shape'
<1>1. /\ callPc' \in [Procs -> CallPcs] /\ callPc'[c] = step
      /\ \A q \in Procs : q # c => callPc'[q] = callPc[q]
  BY ToFacts DEF Shape, CallPcs
<1>2. CallTypes' BY <1>1 DEF Shape, CallTypes
<1>3. \A q \in Procs : q # c => SameCall(q) BY <1>1 DEF SameCall
<1>4. CallArgs' BY <1>1 DEF Shape, CallArgs, Webhooks
<1>5. callPc'[c] # "merge" /\ \A q \in RunIds : callRun'[c] # q
  BY <1>1, <1>4, IdFacts DEF CallArgs
<1> QED BY <1>2, <1>3, <1>4, <1>5, ShapeOfReader DEF Shape, WorkTypes, RowTypes, work, history

LEMMA WebhookActiveShape ==
    ASSUME Shape, NEW c \in Procs, WebhookActive(c) PROVE Shape'
<1> DEFINE r == GetActiveRun(callDir[c])
<1>1. /\ callPc[c] = "active" /\ UNCHANGED <<rows, work, life, unsaved, unheard>>
      /\ StoreOk \/ StoreError
  BY DEF WebhookActive
<1>2. LifeTypes' BY <1>1, FaultsBounded DEF Shape, LifeTypes, life
<1>3. CASE r # 0 /\ status[r] = "queued" /\ JoinRun(c, r)
  <2>1. r \in ActiveRuns(callDir[c]) BY <1>3, ActiveRunFacts
  <2> HIDE DEF r
  <2> QED BY <1>1, <1>2, <1>3, <2>1, JoinShape
<1>4. CASE Return(c) /\ UNCHANGED owed
  BY <1>1, <1>2, <1>4, ShapeOfReturn DEF Shape, RowTypes
<1>5. CASE /\ CallTo(c, "create idle") \/ CallTo(c, "queued")
           /\ UNCHANGED <<callDir, callRoot, callRun, callMerged, webhookMu, owed>>
  BY <1>1, <1>2, <1>5, WebhookGoesOn DEF history
<1> QED BY <1>3, <1>4, <1>5 DEF WebhookActive

LEMMA WebhookQueuedShape ==
    ASSUME Shape, NEW c \in Procs, WebhookQueued(c) PROVE Shape'
<1> DEFINE r == GetQueuedRun(callDir[c])
<1>1. /\ callPc[c] = "queued" /\ UNCHANGED <<rows, work, life, unsaved, unheard>>
      /\ StoreOk \/ StoreError
  BY DEF WebhookQueued
<1>2. LifeTypes' BY <1>1, FaultsBounded DEF Shape, LifeTypes, life
<1>3. CASE r # 0 /\ JoinRun(c, r)
  <2>1. r \in ActiveRuns(callDir[c]) /\ status[r] = "queued" BY <1>3, ActiveRunFacts
  <2> HIDE DEF r
  <2> QED BY <1>1, <1>2, <1>3, <2>1, JoinShape
<1>4. CASE Return(c) /\ UNCHANGED owed
  BY <1>1, <1>2, <1>4, ShapeOfReturn DEF Shape, RowTypes
<1>5. CASE /\ CallTo(c, "create next")
           /\ UNCHANGED <<callDir, callRoot, callRun, callMerged, webhookMu, owed>>
  BY <1>1, <1>2, <1>5, WebhookGoesOn DEF history
<1> QED BY <1>3, <1>4, <1>5 DEF WebhookQueued

(* Only one webhook is at work, so the root it widens is nobody else's. *)
LEMMA WebhookMergeShape ==
    ASSUME Shape, NEW c \in Procs, WebhookMerge(c)
    PROVE  /\ Shape'
           /\ \A r \in RunIds : Within(Base(r)', Base(r)) \/ status[r] = "none"
<1>0. callPc[c] = "merge" BY DEF WebhookMerge
<1>10. PICK r \in RunIds : callRun[c] = r BY <1>0 DEF Shape, CallArgs
<1>1. /\ callPc[c] = "merge" /\ Return(c) /\ (StoreOk \/ StoreError)
      /\ UNCHANGED <<status, dirOf, trig, work, life, unsaved, unheard>>
      /\ \/ /\ root' = [root EXCEPT ![r] = callMerged[c]]
            /\ owed' = [owed EXCEPT ![r] = IF used[r] = None THEN @ \cup {callRoot[c]} ELSE @]
         \/ UNCHANGED <<root, owed>>
  BY <1>10 DEF WebhookMerge
<1>2. status[r] # "none" /\ callRoot[c] \in Paths
  BY <1>1, <1>10 DEF Shape, CallArgs, Born, Webhooks
<1>3. /\ dirOf[r] = callDir[c] /\ callMerged[c] \in Paths
      /\ Within(DirPath[callDir[c]], callMerged[c]) /\ Within(callMerged[c], Base(r))
  BY <1>1, <1>10 DEF Shape, Merging
<1>4. /\ CallTypes' /\ CallArgs' /\ callPc'[c] = "idle" /\ callRun'[c] = 0
      /\ \A q \in Procs : q # c => SameCall(q)
  BY <1>1, ReturnFacts DEF Shape
<1>5. LifeTypes' BY <1>1, FaultsBounded DEF Shape, LifeTypes, life
<1>6. RowTypes' BY <1>1, <1>2, <1>3 DEF Shape, RowTypes
<1>7. /\ owed' \in [RunIds -> SUBSET Paths]
      /\ \A q \in RunIds : q # r => owed'[q] = owed[q]
  <2>1. owed \in [RunIds -> SUBSET Paths] BY DEF Shape, WorkTypes
  <2>2. CASE owed' = [owed EXCEPT ![r] = IF used[r] = None THEN @ \cup {callRoot[c]} ELSE @]
    BY <1>2, <2>1, <2>2
  <2> QED BY <1>1, <2>1, <2>2
<1>8. WorkTypes' BY <1>1, <1>7 DEF Shape, WorkTypes, work
<1>9. /\ \A q \in RunIds : q # r => Base(q)' = Base(q)
      /\ Base(r)' = Base(r) \/ Base(r)' = callMerged[c]
  BY <1>1, <1>2, <1>3, IdFacts DEF Base, Shape, RowTypes
<1>11. \A q \in RunIds : status[q] # "none" => DirPath[dirOf[q]] \in Paths /\ Base(q) \in Paths
  BY DirPathFacts DEF Base, Shape, RowTypes, Born
<1>12. \A q \in RunIds : status[q] = "none" => \A p \in Procs : callRun'[p] # q
  BY <1>4, IdFacts DEF Shape, Born, SameCall
<1>13. Born'
  <2>1. \A q \in RunIds : status[q] # "none" => Within(DirPath[dirOf[q]], Base(q)')
    BY <1>3, <1>9 DEF Shape, Born
  <2>2. \A q \in RunIds : status[q] = "none" =>
           pc'[q] = "none" /\ owed'[q] = {} /\ trig'[q] = "none"
    BY <1>1, <1>2, <1>7 DEF Shape, Born, work
  <2> QED BY <1>1, <1>12, <2>1, <2>2 DEF Shape, Born, Within
<1>14. Merging'
  <2>1. \A p \in Procs : callPc'[p] # "merge"
    BY <1>1, <1>4 DEF Shape, CallArgs, Webhooks, SameCall
  <2> QED BY <2>1 DEF Merging
<1>15. \A q \in RunIds : Within(Base(q)', Base(q)) \/ status[q] = "none"
  BY <1>3, <1>9, <1>11, WithinFacts
<1> QED BY <1>4, <1>5, <1>6, <1>8, <1>13, <1>14, <1>15 DEF Shape

LEMMA WebhookCreateShape ==
    ASSUME Shape, NEW c \in Procs, WebhookCreate(c)
    PROVE  Shape' /\ \E r \in RunIds : Inserts(c, callDir[c], "webhook", callRoot[c], r)
<1>1. /\ CreateRun(c, callDir[c], "webhook", callRoot[c])
      /\ callPc[c] \in Webhooks /\ CallTo(c, "start")
      /\ UNCHANGED <<work, callDir, callRoot, callMerged, webhookMu, life>>
  BY DEF WebhookCreate, CreateRunIfNoActive, Webhooks
<1>2. callDir[c] \in Directories /\ callRoot[c] \in Paths /\ Within(DirPath[callDir[c]], callRoot[c])
  BY <1>1 DEF Shape, CallArgs
<1>3. PICK r \in RunIds : Inserts(c, callDir[c], "webhook", callRoot[c], r)
  BY <1>1, CreateRunInserts DEF Shape
<1>4. LifeTypes' BY <1>1, <1>3 DEF Inserts, Shape, LifeTypes, life
<1>5. callRoot[c] # None BY <1>2, IdFacts
<1>6. Shape' BY <1>1, <1>2, <1>3, <1>4, <1>5, ShapeOfInsert
<1> QED BY <1>3, <1>6

(* A request writes the status of rows that exist. *)
LEMMA ShapeOfWriter ==
    ASSUME Shape, NEW p \in Procs, UNCHANGED <<dirOf, trig, root, work, owed, unheard>>,
           RowTypes', CallTypes', CallArgs', LifeTypes', \A q \in Procs : q # p => SameCall(q),
           callPc'[p] # "merge", callRun'[p] \in {0, callRun[p]},
           \A r \in RunIds : status'[r] = "none" <=> status[r] = "none"
    PROVE  Shape'
<1>1. WorkTypes' BY DEF Shape, WorkTypes, work
<1>2. \A r \in RunIds : Base(r)' = Base(r) BY DEF Base
<1>3. Born'
  <2>1. \A r \in RunIds : status[r] = "none" => \A q \in Procs : callRun'[q] # r
    BY IdFacts DEF Shape, Born, SameCall
  <2> QED BY <1>2, <2>1 DEF Shape, Born, Within, work
<1>4. Merging' BY <1>2 DEF Shape, Merging, Within, SameCall
<1> QED BY <1>1, <1>3, <1>4 DEF Shape

LEMMA CancelWriteShape ==
    ASSUME Shape, NEW c \in Procs, CancelWrite(c)
    PROVE  Shape'
<1>0. callPc[c] = "write" BY DEF CancelWrite
<1>1. PICK r \in RunIds : callRun[c] = r BY <1>0 DEF Shape, CallArgs
<1>2. Settle(r, "canceled") /\ UNCHANGED <<work, life>> BY <1>1 DEF CancelWrite
<1>3. /\ status' \in [RunIds -> Active \cup Ended \cup {"none", "deleted"}]
      /\ \A q \in RunIds : q # r => status'[q] = status[q]
      /\ status'[r] \in Ended \cup {"deleted"} \/ status'[r] = status[r]
      /\ unsaved' \subseteq unsaved \cup {r} /\ faults' \in 0 .. MaxEvents
      /\ UNCHANGED <<dirOf, trig, root, owed, unheard>>
  BY <1>2, SettleFacts DEF Shape, Ended
<1>4. \A q \in RunIds : status'[q] = "none" <=> status[q] = "none"
  BY <1>1, <1>3 DEF Shape, Born, Ended
<1>5. RowTypes' BY <1>3 DEF Shape, RowTypes
<1>6. LifeTypes' BY <1>2, <1>3 DEF Shape, LifeTypes, life
<1>7. CASE Return(c)
  <2>1. /\ CallTypes' /\ CallArgs' /\ callPc'[c] = "idle" /\ callRun'[c] = 0
        /\ \A q \in Procs : q # c => SameCall(q)
    BY <1>7, ReturnFacts DEF Shape
  <2> QED BY <1>2, <1>3, <1>4, <1>5, <1>6, <2>1, ShapeOfWriter
<1>8. CASE /\ CallTo(c, "cancel queued")
           /\ UNCHANGED <<callDir, callRoot, callRun, callMerged, webhookMu>>
  <2>1. /\ callPc' \in [Procs -> CallPcs] /\ callPc'[c] = "cancel queued"
        /\ \A q \in Procs : q # c => callPc'[q] = callPc[q]
    BY <1>8, ToFacts DEF Shape, CallPcs
  <2>2. CallTypes' BY <1>8, <2>1 DEF Shape, CallTypes
  <2>3. \A q \in Procs : q # c => SameCall(q) BY <1>8, <2>1 DEF SameCall
  <2>4. CallArgs' BY <1>0, <1>8, <2>1 DEF Shape, CallArgs, Webhooks
  <2> QED BY <1>2, <1>3, <1>4, <1>5, <1>6, <1>8, <2>1, <2>2, <2>3, <2>4, ShapeOfWriter
<1> QED BY <1>7, <1>8 DEF CancelWrite

LEMMA CancelContextShape ==
    ASSUME Shape, NEW c \in Procs, CancelContext(c)
    PROVE  Shape'
<1>0. callPc[c] = "cancel" BY DEF CancelContext
<1>1. PICK r \in RunIds : callRun[c] = r BY <1>0 DEF Shape, CallArgs
<1>2. /\ CallTo(c, "write")
      /\ canceled' \subseteq canceled \cup {r} /\ unheard' \subseteq unheard \cup {r}
      /\ UNCHANGED <<rows, pc, used, cancelFuncs, runSem, directoryMu, callDir, callRoot,
                     callRun, callMerged, webhookMu, life, faults, owed, unsaved>>
  BY <1>1 DEF CancelContext
<1>3. /\ callPc' \in [Procs -> CallPcs] /\ callPc'[c] = "write"
      /\ \A q \in Procs : q # c => callPc'[q] = callPc[q]
  BY <1>2, ToFacts DEF Shape, CallPcs
<1>4. CallTypes' BY <1>2, <1>3 DEF Shape, CallTypes
<1>5. \A q \in Procs : q # c => SameCall(q) BY <1>2, <1>3 DEF SameCall
<1>6. CallArgs' BY <1>0, <1>2, <1>3 DEF Shape, CallArgs, Webhooks
<1>7. LifeTypes' BY <1>2 DEF Shape, LifeTypes, life
<1>8. \A q \in RunIds : callRun'[c] = q => status[q] # "none" BY <1>2 DEF Shape, Born
<1> QED BY <1>2, <1>3, <1>4, <1>5, <1>6, <1>7, <1>8, ShapeOfReader DEF Shape, WorkTypes, RowTypes

LEMMA CancelQueuedRunsShape ==
    ASSUME Shape, NEW c \in Procs, CancelQueuedRuns(c)
    PROVE  Shape'
<1>1. /\ \/ status' = [r \in RunIds |-> IF dirOf[r] = callDir[c] /\ status[r] = "queued"
                                        THEN "canceled" ELSE status[r]]
         \/ UNCHANGED status
      /\ StoreOk \/ StoreError
      /\ Return(c) /\ UNCHANGED <<dirOf, trig, root, work, life, history>>
  BY DEF CancelQueuedRuns
<1>2. /\ CallTypes' /\ CallArgs' /\ callPc'[c] = "idle" /\ callRun'[c] = 0
      /\ \A q \in Procs : q # c => SameCall(q)
  BY <1>1, ReturnFacts DEF Shape
<1>3. LifeTypes' BY <1>1, FaultsBounded DEF Shape, LifeTypes, life
<1>4. RowTypes' BY <1>1 DEF Shape, RowTypes, history, Ended
<1>5. \A r \in RunIds : status'[r] = "none" <=> status[r] = "none" BY <1>1
<1> QED BY <1>1, <1>2, <1>3, <1>4, <1>5, ShapeOfWriter DEF history

LEMMA ShapeOfCall ==
    ASSUME Shape, NEW c \in Procs, CallStep(c)
    PROVE  Shape'
<1>1. CASE WebhookRefused(c)
  <2>1. /\ StoreOk \/ StoreError
        /\ Return(c) /\ UNCHANGED <<rows, work, life, history>>
    BY <1>1 DEF WebhookRefused
  <2>2. LifeTypes' BY <2>1, FaultsBounded DEF Shape, LifeTypes, life
  <2> QED BY <2>1, <2>2, ShapeOfReturn DEF Shape, RowTypes, history
<1> QED BY <1>1, StartRunShape, WebhookActiveShape, WebhookQueuedShape, WebhookMergeShape,
        WebhookCreateShape, CancelContextShape, CancelWriteShape, CancelQueuedRunsShape DEF CallStep

LEMMA ShapeOfTrigger ==
    ASSUME Shape, NEW t \in Triggers,
           \/ \E d \in Directories : TriggerScheduledScan(t, d)
           \/ JitterOver(t)
    PROVE  Shape'
<1>0. t \in Procs BY IdFacts
<1>1. ASSUME NEW d \in Directories, TriggerScheduledScan(t, d) PROVE Shape'
  <2>1. PICK r \in RunIds : Inserts(t, d, "scheduled", None, r)
    BY <1>1, CreateRunInserts DEF TriggerScheduledScan, CreateRunIfNoActive, Shape
  <2>2. LifeTypes'
    BY <1>1, <2>1, ArriveFacts DEF TriggerScheduledScan, Shape, Inserts, LifeTypes
  <2> QED BY <1>0, <1>1, <2>1, <2>2, ShapeOfInsert, DirPathFacts, IdFacts DEF TriggerScheduledScan
<1>2. CASE JitterOver(t)
  <2>0. callPc[t] = "jitter" BY <1>2 DEF JitterOver
  <2>1. PICK r \in RunIds : callRun[t] = r BY <1>0, <2>0 DEF Shape, CallArgs
  <2>2. /\ \/ CallTo(t, "start") /\ UNCHANGED <<callDir, callRoot, callRun, callMerged, webhookMu>>
           \/ Return(t)
        /\ StoreOk \/ StoreError
        /\ unsaved' \subseteq unsaved \cup {r}
        /\ UNCHANGED <<rows, work, life, owed, unheard>>
    BY <1>2, <2>1 DEF JitterOver
  <2>3. LifeTypes' BY <2>2, FaultsBounded DEF Shape, LifeTypes, life
  <2>4. CASE Return(t) BY <1>0, <2>2, <2>3, <2>4, ShapeOfReturn DEF Shape, RowTypes
  <2>5. CASE CallTo(t, "start") /\ UNCHANGED <<callDir, callRoot, callRun, callMerged, webhookMu>>
    <3>1. /\ callPc' \in [Procs -> CallPcs] /\ callPc'[t] = "start"
          /\ \A q \in Procs : q # t => callPc'[q] = callPc[q]
      BY <1>0, <2>5, ToFacts DEF Shape, CallPcs
    <3>2. CallTypes' BY <2>5, <3>1 DEF Shape, CallTypes
    <3>3. \A q \in Procs : q # t => SameCall(q) BY <2>5, <3>1 DEF SameCall
    <3>4. CallArgs' BY <2>0, <2>5, <3>1 DEF Shape, CallArgs, Webhooks
    <3>5. \A q \in RunIds : callRun'[t] = q => status[q] # "none"
      BY <1>0, <2>5 DEF Shape, Born
    <3> QED BY <1>0, <2>2, <2>3, <2>5, <3>1, <3>2, <3>3, <3>4, <3>5, ShapeOfReader
            DEF Shape, WorkTypes, RowTypes, work
  <2> QED BY <2>2, <2>4, <2>5
<1> QED BY <1>1, <1>2

(* What Start does to a row.  One that stays active was not recovered. *)
LEMMA StartFacts ==
    ASSUME RowTypes, LifeTypes, Start
    PROVE  /\ status' \in [RunIds -> Active \cup Ended \cup {"none", "deleted"}]
           /\ \A r \in RunIds : \/ status'[r] = status[r]
                                \/ status'[r] = "deleted" /\ status[r] # "none"
                                \/ status'[r] = "failed" /\ status[r] \in Active
           /\ \A r \in RunIds \ unsaved' : status'[r] \notin Active
           /\ unsaved \subseteq unsaved' /\ unsaved' \subseteq RunIds
           /\ faults' \in 0 .. MaxEvents /\ proc = "down" /\ proc' = "up"
           /\ UNCHANGED <<dirOf, trig, root, work, calls, requests, owed, unheard>>
<1>1. PICK failed \in SUBSET {"recover", "prune"} :
         /\ faults' = faults + Cardinality(failed) /\ (failed = {} \/ requests + faults' <= MaxEvents)
         /\ status' = [r \in RunIds |->
                         IF "prune" \notin failed /\ r \in Surplus(Rows(dirOf[r])) THEN "deleted"
                         ELSE IF "recover" \notin failed /\ status[r] \in Active THEN "failed"
                         ELSE status[r]]
         /\ unsaved' = unsaved \cup {r \in RunIds : "recover" \in failed /\ status[r] \in Active}
  BY DEF Start
<1>2. \A r \in RunIds : r \in Surplus(Rows(dirOf[r])) => status[r] \notin {"none", "deleted"}
  BY DEF Surplus, Rows
<1>3. faults' \in 0 .. MaxEvents
  <2>1. IsFiniteSet({"recover", "prune"})
    <3>1. IsFiniteSet({"recover"}) BY FS_Singleton
    <3>2. IsFiniteSet({"recover"} \cup {"prune"}) BY <3>1, FS_AddElement
    <3>3. {"recover"} \cup {"prune"} = {"recover", "prune"} OBVIOUS
    <3> QED BY <3>2, <3>3
  <2>2. IsFiniteSet(failed) BY <2>1, FS_Subset
  <2>3. Cardinality(failed) \in Nat BY <2>2, FS_CardinalityType
  <2>4. failed = {} => Cardinality(failed) = 0 BY FS_EmptySet
  <2> QED BY <1>1, <2>3, <2>4, DirScanAssumption DEF LifeTypes
<1>4. status' \in [RunIds -> Active \cup Ended \cup {"none", "deleted"}]
  BY <1>1 DEF RowTypes, Ended
<1>5. \A r \in RunIds : \/ status'[r] = status[r]
                        \/ status'[r] = "deleted" /\ status[r] # "none"
                        \/ status'[r] = "failed" /\ status[r] \in Active
  BY <1>1, <1>2
<1>6. \A r \in RunIds \ unsaved' : status'[r] \notin Active
  BY <1>1 DEF Active
<1> QED BY <1>1, <1>3, <1>4, <1>5, <1>6 DEF Start, RowTypes

LEMMA ShapeOfLife ==
    ASSUME Shape, Crash \/ Start PROVE Shape'
<1>1. CASE Crash
  <2>0. 0 \in 0 .. MaxRuns BY DirScanAssumption
  <2>1. /\ faults' = faults + 1 /\ MoreEvents /\ proc' = "down" /\ UNCHANGED <<rows, requests, unsaved>>
        /\ pc' = [r \in RunIds |-> "none"] /\ used' = [r \in RunIds |-> None]
        /\ cancelFuncs' = {} /\ canceled' = {} /\ runSem' = 0
        /\ directoryMu' = [d \in Directories |-> 0]
        /\ owed' = [r \in RunIds |-> {}] /\ unheard' = {}
    BY <1>1 DEF Crash
  <2>2. /\ callPc' = [p \in Procs |-> "idle"] /\ callDir' = [p \in Procs |-> None]
        /\ callRoot' = [p \in Procs |-> None] /\ webhookMu' = None
        /\ callRun' = [p \in Procs |-> 0] /\ callMerged' = [p \in Procs |-> None]
    BY <1>1 DEF Crash
  <2>3. RowTypes' BY <2>1 DEF Shape, RowTypes, rows
  <2>4. WorkTypes' BY <2>0, <2>1 DEF WorkTypes, RunPcs
  <2>5. CallTypes' BY <2>0, <2>2 DEF CallTypes, CallPcs
  <2>6. LifeTypes' BY <2>1, DirScanAssumption DEF Shape, LifeTypes, MoreEvents
  <2>7. CallArgs' BY <2>2 DEF CallArgs, Webhooks
  <2>8. Merging' BY <2>2 DEF Merging
  <2>9. Born'
    <3>1. \A r \in RunIds : Base(r)' = Base(r) /\ status'[r] = status[r] /\ dirOf'[r] = dirOf[r]
                            /\ trig'[r] = trig[r]
      BY <2>1 DEF Base, rows
    <3> QED BY <2>1, <2>2, <3>1, IdFacts DEF Shape, Born, Within
  <2> QED BY <2>3, <2>4, <2>5, <2>6, <2>7, <2>8, <2>9 DEF Shape
<1>2. CASE Start
  <2>1. /\ status' \in [RunIds -> Active \cup Ended \cup {"none", "deleted"}]
        /\ \A r \in RunIds : status'[r] = "none" <=> status[r] = "none"
        /\ unsaved' \subseteq RunIds /\ faults' \in 0 .. MaxEvents /\ proc' = "up"
        /\ UNCHANGED <<dirOf, trig, root, work, calls, requests, owed, unheard>>
    BY <1>2, StartFacts DEF Shape, Active
  <2>3. RowTypes' BY <2>1 DEF Shape, RowTypes
  <2>4. WorkTypes' BY <2>1 DEF Shape, WorkTypes, work
  <2>5. CallTypes' BY <2>1 DEF Shape, CallTypes, calls
  <2>6. LifeTypes' BY <2>1 DEF Shape, LifeTypes
  <2>7. CallArgs' BY <2>1 DEF Shape, CallArgs, Webhooks, calls, Within
  <2>8. Merging' BY <2>1 DEF Shape, Merging, calls, Within, Base
  <2>9. Born'
    <3>1. \A r \in RunIds : Base(r)' = Base(r) BY <2>1 DEF Base
    <3> QED BY <2>1, <3>1 DEF Shape, Born, Within, work, calls
  <2> QED BY <2>3, <2>4, <2>5, <2>6, <2>7, <2>8, <2>9 DEF Shape
<1> QED BY <1>1, <1>2

LEMMA ShapeInit == Init => Shape
<1> SUFFICES ASSUME Init PROVE Shape OBVIOUS
<1> USE DirScanAssumption, IdFacts
<1>0. 0 \in 0 .. MaxRuns /\ 0 \in 0 .. MaxEvents OBVIOUS
<1>1. RowTypes /\ LifeTypes BY <1>0 DEF Init, RowTypes, LifeTypes
<1>2. WorkTypes /\ CallTypes BY <1>0 DEF Init, WorkTypes, CallTypes, RunPcs, CallPcs
<1>3. CallArgs /\ Merging BY DEF Init, CallArgs, Merging, Webhooks
<1>4. Born BY DEF Init, Born
<1> QED BY <1>1, <1>2, <1>3, <1>4 DEF Shape

LEMMA ShapeStep == Shape /\ [Next]_vars => Shape'
<1> SUFFICES ASSUME Shape, [Next]_vars PROVE Shape' OBVIOUS
<1>1. CASE UNCHANGED vars
  <2>1. RowTypes' /\ LifeTypes'
    BY <1>1 DEF vars, rows, life, history, Shape, RowTypes, LifeTypes
  <2>2. WorkTypes' /\ CallTypes'
    BY <1>1 DEF vars, work, calls, history, Shape, WorkTypes, CallTypes
  <2>3. CallArgs' BY <1>1 DEF vars, calls, Shape, CallArgs, Webhooks, Within
  <2>4. Merging' BY <1>1 DEF vars, calls, rows, Shape, Merging, Within, Base
  <2>5. Born' BY <1>1 DEF vars, calls, rows, work, history, Shape, Born, Within, Base
  <2> QED BY <2>1, <2>2, <2>3, <2>4, <2>5 DEF Shape
<1>2. CASE Crash \/ Start BY <1>2, ShapeOfLife
<1>3. ASSUME NEW c \in Callers, Request(c) \/ CallStep(c) PROVE Shape'
  BY <1>3, ShapeOfRequest, ShapeOfCall, IdFacts
<1>4. ASSUME NEW t \in Triggers, \/ \E d \in Directories : TriggerScheduledScan(t, d)
                                 \/ JitterOver(t) \/ StartRun(t)
      PROVE  Shape'
  BY <1>4, ShapeOfTrigger, StartRunShape, IdFacts
<1>5. ASSUME NEW r \in RunIds, RunStep(r) \/ Inject(r) \/ AcquireRunSlot(r) \/ Advance(r)
      PROVE  Shape'
  BY <1>5, ShapeOfRun
<1> QED BY <1>1, <1>2, <1>3, <1>4, <1>5 DEF Next, Serve

-----------------------------------------------------------------------------
(* What the step of a request may do to the rows and to the other requests. *)

Starting(p, r) == callRun[p] = r /\ callPc[p] \in {"start", "jitter"}
Late(p, r) == callRun[p] = r /\ callPc[p] = "write"
Attends(p, r) == callRun[p] = r /\ callPc[p] \in {"start", "jitter", "cancel", "write"}

(* A row comes to be, is trimmed, or is canceled: while queued, or by the   *)
(* request that looked it up.                                               *)
RowStep(c, r) ==
    \/ status'[r] = status[r] /\ dirOf'[r] = dirOf[r] /\ trig'[r] = trig[r]
    \/ /\ status[r] # "none" /\ status'[r] = "deleted"
       /\ dirOf'[r] = dirOf[r] /\ trig'[r] = trig[r]
    \/ /\ status[r] = "none" /\ status'[r] = "deleted" /\ Starting(c, r)'
    \/ /\ status[r] = "none" /\ status'[r] = "queued" /\ Starting(c, r)'
    \/ /\ status[r] = "queued" \/ Late(c, r)
       /\ status[r] # "none" /\ status'[r] = "canceled" /\ dirOf'[r] = dirOf[r] /\ trig'[r] = trig[r]

CallFrame(c) ==
    /\ \A q \in Procs : q # c => SameCall(q)
    /\ UNCHANGED <<pc, used, cancelFuncs, runSem, directoryMu, proc>>
    /\ canceled \subseteq canceled' /\ canceled' \subseteq canceled \cup cancelFuncs
    /\ unheard \subseteq unheard' /\ unsaved \subseteq unsaved'
    /\ \A r \in RunIds :
         /\ RowStep(c, r)
         /\ Starting(c, r)' => Starting(c, r) \/ status[r] = "none"
         /\ Late(c, r)' => r \in canceled' \cup unheard'
         /\ r \in canceled' => r \in canceled \/ Late(c, r)'
         /\ Attends(c, r) => Attends(c, r)' \/ r \in unsaved' \/ status'[r] \notin Active
         /\ Late(c, r) => Late(c, r)' \/ r \in unsaved' \/ status'[r] \notin Active

(* A run that has not begun is still queued, or canceled. *)
Waits ==
    /\ \A r \in RunIds :
         pc[r] \in {"check", "slot", "advance"} => status[r] \in {"queued", "deleted"} \cup Ended
    /\ \A p \in Procs, r \in RunIds :
         Starting(p, r) => status[r] \in {"queued", "deleted"} \cup Ended

LEMMA FrameOfInsert ==
    ASSUME Shape, NEW p \in Procs, NEW d, NEW t, NEW path, NEW r \in RunIds,
           Inserts(p, d, t, path, r), callPc[p] \in {"idle", "create idle", "create next"},
           NEW step \in {"start", "jitter"}, CallTo(p, step),
           UNCHANGED <<work, callDir, callRoot, callMerged, webhookMu, proc>>
    PROVE  CallFrame(p)
<1>1. /\ callPc' \in [Procs -> CallPcs] /\ callPc'[p] = step
      /\ \A q \in Procs : q # p => callPc'[q] = callPc[q]
  BY ToFacts DEF Shape, CallPcs
<1>2. /\ callRun'[p] = r /\ \A q \in Procs : q # p => callRun'[q] = callRun[q]
  BY IdFacts DEF Inserts, Shape, CallTypes
<1>3. \A q \in Procs : q # p => SameCall(q) BY <1>1, <1>2 DEF SameCall
<1>4. callRun[p] = 0 BY DEF Shape, CallArgs
<1>5. ASSUME NEW q \in RunIds PROVE
         /\ RowStep(p, q)
         /\ Starting(p, q)' => status[q] = "none"
         /\ ~Late(p, q)' /\ ~Attends(p, q) /\ ~Late(p, q)
  <2>1. CASE q = r
    <3>1. status[q] = "none" /\ (status'[q] = "deleted" \/ status'[q] = "queued")
      BY <2>1 DEF Inserts
    <3>2. Starting(p, q)' /\ ~Late(p, q)' BY <1>1, <1>2, <2>1 DEF Starting, Late
    <3>3. ~Attends(p, q) /\ ~Late(p, q) BY <1>4, <2>1, IdFacts DEF Attends, Late
    <3> QED BY <3>1, <3>2, <3>3 DEF RowStep
  <2>2. CASE q # r
    <3>1. /\ dirOf'[q] = dirOf[q] /\ trig'[q] = trig[q]
          /\ \/ status'[q] = "deleted" /\ status[q] # "none"
             \/ status'[q] = status[q]
      BY <2>2 DEF Inserts, Shape, RowTypes
    <3>2. ~Starting(p, q)' /\ ~Late(p, q)' BY <1>2, <2>2 DEF Starting, Late
    <3>3. ~Attends(p, q) /\ ~Late(p, q) BY <1>4, IdFacts DEF Attends, Late
    <3> QED BY <3>1, <3>2, <3>3 DEF RowStep
  <2> QED BY <2>1, <2>2
<1> QED BY <1>3, <1>5 DEF CallFrame, Inserts, work

(* The steps that leave the status of every row alone, except that the      *)
(* request may begin to cancel one.                                         *)
LEMMA FrameOfReader ==
    ASSUME Shape, NEW c \in Procs, \A q \in Procs : q # c => SameCall(q),
           callPc[c] \notin {"start", "jitter", "cancel", "write"},
           callPc'[c] \notin {"start", "jitter", "write"},
           UNCHANGED <<status, dirOf, trig, work, proc, unsaved, unheard>>
    PROVE  CallFrame(c)
  BY DEF CallFrame, RowStep, Starting, Late, Attends, work

LEMMA FrameOfRequest ==
    ASSUME Shape, NEW c \in Callers, Request(c)
    PROVE  CallFrame(c)
<1>0. c \in Procs BY IdFacts
<1>1. ASSUME NEW d \in Directories, StartManualScan(c, d) PROVE CallFrame(c)
  <2>1. PICK r \in RunIds : Inserts(c, d, "manual", None, r)
    BY <1>1, CreateRunInserts DEF StartManualScan, CreateRunIfNoActive, Shape
  <2> QED BY <1>0, <1>1, <2>1, FrameOfInsert, ArriveFacts DEF StartManualScan, Shape
<1>2. ASSUME NEW d \in Directories, CancelScan(c, d) PROVE CallFrame(c)
  <2>1. /\ callPc' = [callPc EXCEPT ![c] = "cancel"] /\ callPc[c] = "idle" /\ proc' = proc
        /\ callRun' = [callRun EXCEPT ![c] = GetActiveRun(d)]
        /\ callDir' = [callDir EXCEPT ![c] = d]
        /\ UNCHANGED <<rows, work, callRoot, callMerged, webhookMu, history>>
    BY <1>2 DEF CancelScan, Arrive, CallTo
  <2>2. callPc'[c] = "cancel" /\ \A q \in Procs : q # c => SameCall(q)
    BY <1>0, <2>1 DEF SameCall, Shape, CallTypes
  <2> QED BY <1>0, <2>1, <2>2, FrameOfReader DEF rows, history
<1>3. ASSUME NEW d \in Directories, NEW p \in Paths, LockWebhook(c, d, p) PROVE CallFrame(c)
  <2>1. /\ callPc' = [callPc EXCEPT ![c] = "active"] /\ callPc[c] = "idle" /\ proc' = proc
        /\ callRoot' = [callRoot EXCEPT ![c] = p] /\ callDir' = [callDir EXCEPT ![c] = d]
        /\ webhookMu = None
        /\ UNCHANGED <<rows, work, callRun, callMerged, history>>
    BY <1>3 DEF LockWebhook, Arrive, CallTo
  <2>2. callPc'[c] = "active" /\ \A q \in Procs : q # c => SameCall(q)
    BY <1>0, <2>1, IdFacts DEF SameCall, Shape, CallTypes
  <2> QED BY <1>0, <2>1, <2>2, FrameOfReader DEF rows, history
<1> QED BY <1>1, <1>2, <1>3 DEF Request

LEMMA FrameOfWebhook ==
    ASSUME Shape, NEW c \in Procs,
           \/ WebhookActive(c) \/ WebhookQueued(c) \/ WebhookMerge(c) \/ WebhookRefused(c)
           \/ WebhookCreate(c)
    PROVE  CallFrame(c)
<1>1. ASSUME Return(c) PROVE callPc'[c] = "idle" /\ \A q \in Procs : q # c => SameCall(q)
  BY <1>1, ReturnFacts DEF Shape
<1>2. ASSUME NEW step \in {"queued", "create idle", "create next"}, CallTo(c, step),
             UNCHANGED <<callDir, callRoot, callRun, callMerged, webhookMu>>
      PROVE  callPc'[c] = step /\ \A q \in Procs : q # c => SameCall(q)
  BY <1>2 DEF CallTo, SameCall, Shape, CallTypes
<1>3. ASSUME NEW r, JoinRun(c, r)
      PROVE  callPc'[c] \in {"idle", "merge"} /\ \A q \in Procs : q # c => SameCall(q)
  <2> DEFINE merged == MergeWebhookScanRoots(callDir[c], root[r], callRoot[c])
  <2>1. CASE /\ CallTo(c, "merge") /\ callRun' = [callRun EXCEPT ![c] = r]
             /\ callMerged' = [callMerged EXCEPT ![c] = merged]
             /\ UNCHANGED <<callDir, callRoot, webhookMu>>
    <3> HIDE DEF merged
    <3> QED BY <2>1 DEF CallTo, SameCall, Shape, CallTypes
  <2> QED BY <1>1, <1>3, <2>1 DEF JoinRun
<1>4. CASE WebhookActive(c)
  <2>1. callPc[c] = "active" /\ UNCHANGED <<rows, work, life, unsaved, unheard>>
    BY <1>4 DEF WebhookActive
  <2>2. /\ callPc'[c] \in {"idle", "create idle", "queued", "merge"}
        /\ \A q \in Procs : q # c => SameCall(q)
    BY <1>1, <1>2, <1>3, <1>4 DEF WebhookActive
  <2> QED BY <2>1, <2>2, FrameOfReader DEF rows, life
<1>5. CASE WebhookQueued(c)
  <2>1. callPc[c] = "queued" /\ UNCHANGED <<rows, work, life, unsaved, unheard>>
    BY <1>5 DEF WebhookQueued
  <2>2. /\ callPc'[c] \in {"idle", "create next", "merge"}
        /\ \A q \in Procs : q # c => SameCall(q)
    BY <1>1, <1>2, <1>3, <1>5 DEF WebhookQueued
  <2> QED BY <2>1, <2>2, FrameOfReader DEF rows, life
<1>6. CASE WebhookMerge(c) \/ WebhookRefused(c)
  <2>1. /\ callPc[c] \in {"merge", "create idle", "create next"} /\ Return(c)
        /\ UNCHANGED <<status, dirOf, trig, work, life, unsaved, unheard>>
    BY <1>6 DEF WebhookMerge, WebhookRefused, rows, history
  <2> QED BY <1>1, <2>1, FrameOfReader DEF life
<1>7. CASE WebhookCreate(c)
  <2>1. PICK r \in RunIds : Inserts(c, callDir[c], "webhook", callRoot[c], r)
    BY <1>7, WebhookCreateShape
  <2> QED BY <1>7, <2>1, FrameOfInsert DEF WebhookCreate, life
<1> QED BY <1>4, <1>5, <1>6, <1>7

LEMMA FrameOfCancel ==
    ASSUME Shape, NEW c \in Procs, CancelContext(c) \/ CancelWrite(c) \/ CancelQueuedRuns(c)
    PROVE  CallFrame(c)
<1>1. CASE CancelContext(c)
  <2>0. callPc[c] = "cancel" BY <1>1 DEF CancelContext
  <2>1. PICK r \in RunIds : callRun[c] = r BY <2>0 DEF Shape, CallArgs
  <2>2. /\ callPc' = [callPc EXCEPT ![c] = "write"]
        /\ \/ r \in cancelFuncs /\ canceled' = canceled \cup {r} /\ UNCHANGED unheard
           \/ r \notin cancelFuncs /\ unheard' = unheard \cup {r} /\ UNCHANGED canceled
        /\ UNCHANGED <<rows, pc, used, cancelFuncs, runSem, directoryMu, callDir, callRoot,
                       callRun, callMerged, webhookMu, life, faults, owed, unsaved>>
    BY <1>1, <2>1 DEF CancelContext, CallTo
  <2>3. callPc'[c] = "write" /\ \A q \in Procs : q # c => SameCall(q)
    BY <2>2 DEF SameCall, Shape, CallTypes
  <2>4. \A q \in RunIds : RowStep(c, q) BY <2>2 DEF RowStep, rows
  <2>5. \A q \in RunIds : Late(c, q)' <=> q = r BY <2>1, <2>2, <2>3 DEF Late
  <2>6. \A q \in RunIds : ~Starting(c, q)' /\ ~Late(c, q) BY <2>0, <2>3 DEF Starting, Late
  <2>7. \A q \in RunIds : Attends(c, q) => Attends(c, q)' BY <2>2, <2>3 DEF Attends
  <2>8. /\ canceled \subseteq canceled' /\ canceled' \subseteq canceled \cup cancelFuncs
        /\ unheard \subseteq unheard' /\ unsaved \subseteq unsaved'
        /\ r \in canceled' \cup unheard' /\ \A q \in canceled' : q \in canceled \/ q = r
    BY <2>2
  <2> QED BY <2>2, <2>3, <2>4, <2>5, <2>6, <2>7, <2>8 DEF CallFrame, life
<1>2. CASE CancelWrite(c)
  <2>0. callPc[c] = "write" BY <1>2 DEF CancelWrite
  <2>1. PICK r \in RunIds : callRun[c] = r BY <2>0 DEF Shape, CallArgs
  <2>2. Settle(r, "canceled") /\ UNCHANGED <<work, life>> BY <1>2, <2>1 DEF CancelWrite
  <2>3. /\ \A q \in RunIds : q # r => status'[q] = status[q]
        /\ \/ status'[r] = "canceled"
           \/ status'[r] = "deleted" /\ status[r] = "deleted"
           \/ status'[r] = status[r] /\ r \in unsaved'
        /\ unsaved \subseteq unsaved' /\ UNCHANGED <<dirOf, trig, root, owed, unheard>>
    <3>1. CASE SetStatus(r, "canceled") /\ UNCHANGED unsaved
      <4>1. UNCHANGED <<dirOf, trig, root, owed, unheard>> BY <2>2 DEF Settle
      <4>2. CASE status[r] = "deleted" BY <3>1, <4>1, <4>2 DEF SetStatus
      <4>3. CASE status[r] # "deleted"
        <5>1. status' = [status EXCEPT ![r] = "canceled"] BY <3>1, <4>3 DEF SetStatus
        <5> QED BY <3>1, <4>1, <5>1 DEF Shape, RowTypes
      <4> QED BY <4>2, <4>3
    <3>2. CASE UNCHANGED status /\ unsaved' = unsaved \cup {r}
      BY <2>2, <3>2 DEF Settle
    <3> QED BY <2>2, <3>1, <3>2 DEF Settle
  <2>4. /\ callPc'[c] \in {"idle", "cancel queued"}
        /\ \A q \in Procs : q # c => SameCall(q)
    <3>1. CASE Return(c) BY <3>1, ReturnFacts DEF Shape
    <3>2. CASE /\ CallTo(c, "cancel queued")
               /\ UNCHANGED <<callDir, callRoot, callRun, callMerged, webhookMu>>
      BY <3>2 DEF CallTo, SameCall, Shape, CallTypes
    <3> QED BY <1>2, <3>1, <3>2 DEF CancelWrite
  <2>5. status[r] # "none" BY <2>1 DEF Shape, Born
  <2>6. \A q \in RunIds : RowStep(c, q)
    BY <2>0, <2>1, <2>3, <2>5 DEF RowStep, Late
  <2>7. \A q \in RunIds : ~Starting(c, q)' /\ ~Late(c, q)' BY <2>4 DEF Starting, Late
  <2>8. r \in unsaved' \/ status'[r] \notin Active BY <2>3 DEF Active
  <2>9. \A q \in RunIds : Attends(c, q) \/ Late(c, q) => q = r BY <2>1 DEF Attends, Late
  <2> QED BY <2>2, <2>3, <2>4, <2>6, <2>7, <2>8, <2>9 DEF CallFrame, life, work
<1>3. CASE CancelQueuedRuns(c)
  <2>1. /\ callPc[c] = "cancel queued"
        /\ \/ status' = [r \in RunIds |-> IF dirOf[r] = callDir[c] /\ status[r] = "queued"
                                          THEN "canceled" ELSE status[r]]
           \/ UNCHANGED status
        /\ Return(c) /\ UNCHANGED <<dirOf, trig, root, work, life, history>>
    BY <1>3 DEF CancelQueuedRuns
  <2>2. callPc'[c] = "idle" /\ \A q \in Procs : q # c => SameCall(q)
    BY <2>1, ReturnFacts DEF Shape
  <2>3. \A q \in RunIds : RowStep(c, q) BY <2>1 DEF RowStep
  <2>4. \A q \in RunIds : /\ ~Starting(c, q)' /\ ~Late(c, q)'
                          /\ ~Attends(c, q) /\ ~Late(c, q)
    BY <2>1, <2>2 DEF Starting, Late, Attends
  <2> QED BY <2>1, <2>2, <2>3, <2>4 DEF CallFrame, life, work, history
<1> QED BY <1>1, <1>2, <1>3

LEMMA FrameOfTrigger ==
    ASSUME Shape, Waits, NEW t \in Triggers,
           \/ \E d \in Directories : TriggerScheduledScan(t, d)
           \/ JitterOver(t)
    PROVE  CallFrame(t)
<1>0. t \in Procs BY IdFacts
<1>1. ASSUME NEW d \in Directories, TriggerScheduledScan(t, d) PROVE CallFrame(t)
  <2>1. PICK r \in RunIds : Inserts(t, d, "scheduled", None, r)
    BY <1>1, CreateRunInserts DEF TriggerScheduledScan, CreateRunIfNoActive, Shape
  <2> QED BY <1>0, <1>1, <2>1, FrameOfInsert, ArriveFacts DEF TriggerScheduledScan, Shape
<1>2. CASE JitterOver(t)
  <2>0. callPc[t] = "jitter" BY <1>2 DEF JitterOver
  <2>1. PICK r \in RunIds : callRun[t] = r BY <1>0, <2>0 DEF Shape, CallArgs
  <2>2. UNCHANGED <<rows, work, life, owed, unheard>> /\ unsaved \subseteq unsaved'
    BY <1>2 DEF JitterOver
  <2>3. \A q \in RunIds : RowStep(t, q) BY <2>2 DEF RowStep, rows
  <2>4. \A q \in RunIds : (Attends(t, q) => q = r) /\ ~Late(t, q)
    BY <2>0, <2>1 DEF Attends, Late
  <2>5. CASE /\ CallTo(t, "start")
             /\ UNCHANGED <<callDir, callRoot, callRun, callMerged, webhookMu>>
    <3>1. callPc'[t] = "start" /\ \A q \in Procs : q # t => SameCall(q)
      BY <1>0, <2>5 DEF CallTo, SameCall, Shape, CallTypes
    <3>2. \A q \in RunIds : /\ ~Late(t, q)' /\ (Attends(t, q) => Attends(t, q)')
                            /\ (Starting(t, q)' => Starting(t, q))
      BY <2>0, <2>5, <3>1 DEF Late, Attends, Starting
    <3> QED BY <2>2, <2>3, <2>4, <3>1, <3>2 DEF CallFrame, life, work
  <2>6. CASE Return(t) /\ (r \in unsaved' \/ status[r] # "queued")
    <3>1. callPc'[t] = "idle" /\ \A q \in Procs : q # t => SameCall(q)
      BY <1>0, <2>6, ReturnFacts DEF Shape
    <3>2. \A q \in RunIds : ~Late(t, q)' /\ ~Starting(t, q)'
      BY <3>1 DEF Late, Starting
    <3>3. r \in unsaved' \/ status'[r] \notin Active
      <4>1. Starting(t, r) BY <2>0, <2>1 DEF Starting
      <4>2. status[r] \in {"queued", "deleted"} \cup Ended BY <1>0, <4>1 DEF Waits
      <4> QED BY <2>2, <2>6, <4>2 DEF Active, Ended, rows
    <3> QED BY <2>2, <2>3, <2>4, <3>1, <3>2, <3>3 DEF CallFrame, life, work
  <2> QED BY <1>2, <2>1, <2>5, <2>6 DEF JitterOver
<1> QED BY <1>1, <1>2

-----------------------------------------------------------------------------
(* What a step of a run's goroutine may do. *)

Busy == {"reload", "scan", "search", "fail", "complete"}

SameRun(q) ==
    /\ pc'[q] = pc[q] /\ used'[q] = used[q] /\ owed'[q] = owed[q] /\ status'[q] = status[q]
    /\ (q \in canceled' <=> q \in canceled) /\ (q \in cancelFuncs' <=> q \in cancelFuncs)
    /\ (q \in unheard' <=> q \in unheard)

(* Its row advances, ends, or stays as it is. *)
RowAdvances(r) ==
    \/ status'[r] = status[r] /\ pc'[r] # "reload"
    \/ status'[r] \in Ended /\ status[r] # "deleted" /\ pc'[r] \in {"leave", "exit"}
    \/ pc'[r] = "reload" /\ status[r] = "queued" /\ status'[r] = "scanning"
    \/ /\ pc[r] \in {"scan", "search"} /\ pc'[r] = "search" /\ r \notin canceled
       /\ status[r] # "deleted" /\ status'[r] \in {"searching", "injecting"}

(* Why a goroutine may go: the row has ended, or a cancellation or a failed *)
(* call of the store accounts for it.                                       *)
Over(r) == r \in unsaved' \/ status'[r] \notin Active \/ r \in canceled

RunMoves(r) ==
    \/ /\ UNCHANGED <<owed, cancelFuncs, canceled, unheard>>
       /\ \/ /\ pc[r] \in {"check", "slot"} /\ pc'[r] \in {"slot", "exit"}
             /\ UNCHANGED <<runSem, directoryMu, used>>
          \/ /\ pc[r] = "slot" /\ pc'[r] = "advance" /\ runSem < MaxConcurrentRuns
             /\ runSem' = runSem + 1 /\ UNCHANGED <<directoryMu, used>>
          \/ /\ pc[r] = "advance" /\ pc'[r] \in {"reload", "leave"}
             /\ directoryMu[dirOf[r]] = 0
             /\ directoryMu' = [directoryMu EXCEPT ![dirOf[r]] = r] /\ UNCHANGED <<runSem, used>>
          \/ /\ pc[r] \in Busy /\ pc'[r] \in {"scan", "search", "fail", "complete", "leave"}
             /\ \/ UNCHANGED used /\ (pc[r] = "reload" => pc'[r] = "leave")
                \/ pc[r] = "reload" /\ pc'[r] = "scan" /\ used' = [used EXCEPT ![r] = Base(r)]
             /\ UNCHANGED <<runSem, directoryMu>>
       /\ pc'[r] \in {"leave", "exit"} => Over(r)
    \/ /\ \/ /\ pc[r] = "leave" /\ directoryMu' = [directoryMu EXCEPT ![dirOf[r]] = 0]
             /\ runSem' = runSem - 1
          \/ pc[r] = "exit" /\ UNCHANGED <<runSem, directoryMu>>
       /\ pc'[r] = "none" /\ used'[r] = None /\ owed'[r] = {}
       /\ r \notin cancelFuncs' /\ r \notin canceled' /\ status'[r] = status[r]

RunFrame(r) ==
    /\ UNCHANGED <<calls, proc, dirOf, trig, root>>
    /\ \A q \in RunIds : q # r => SameRun(q)
    /\ unsaved \subseteq unsaved'
    /\ RowAdvances(r) /\ RunMoves(r)

(* A step that writes a final status, and one that writes none. *)
LEMMA FrameOfSettle ==
    ASSUME Shape, NEW r \in RunIds, NEW s \in Ended, Settle(r, s),
           NEW step \in {"leave", "exit"}, RunTo(r, step),
           \/ step = "exit" /\ pc[r] \in {"check", "slot"}
           \/ step = "leave" /\ pc[r] \in Busy \ {"reload"},
           UNCHANGED <<used, runSem, directoryMu, RunTouches>>
    PROVE  RunFrame(r)
<1>1. /\ \A q \in RunIds : q # r => status'[q] = status[q]
      /\ status[r] = "deleted" => status'[r] = "deleted"
      /\ \/ status'[r] \in Ended \cup {"deleted"} /\ unsaved' = unsaved
         \/ status' = status /\ unsaved' = unsaved \cup {r}
      /\ UNCHANGED <<dirOf, trig, root, owed, unheard>>
  BY SettleFacts DEF Shape
<1>2. pc'[r] = step /\ \A q \in RunIds : q # r => pc'[q] = pc[q]
  BY DEF RunTo, Shape, WorkTypes
<1>3. UNCHANGED <<calls, proc, cancelFuncs, canceled>> BY DEF RunTouches, life
<1>4. \A q \in RunIds : q # r => SameRun(q) BY <1>1, <1>2, <1>3 DEF SameRun
<1>5. RowAdvances(r)
  <2>1. status[r] # "deleted" /\ status'[r] = "deleted" => FALSE
    BY DEF Settle, SetStatus, Ended, Shape, RowTypes
  <2> QED BY <1>1, <1>2, <2>1 DEF RowAdvances
<1>6. Over(r) BY <1>1 DEF Over, Active, Ended
<1>7. RunMoves(r) BY <1>1, <1>2, <1>3, <1>6 DEF RunMoves, Busy
<1> QED BY <1>1, <1>3, <1>4, <1>5, <1>7 DEF RunFrame

(* A step that changes at most the row of r, and only its status, and that  *)
(* keeps what the run has been asked for.                                   *)
LEMMA FrameOfMove ==
    ASSUME Shape, NEW r \in RunIds, NEW step, pc' = [pc EXCEPT ![r] = step],
           \A q \in RunIds : q # r => status'[q] = status[q] /\ used'[q] = used[q],
           unsaved \subseteq unsaved',
           UNCHANGED <<dirOf, trig, root, owed, unheard, calls, proc, cancelFuncs, canceled>>
    PROVE  /\ pc'[r] = step
           /\ RowAdvances(r) /\ RunMoves(r) => RunFrame(r)
<1>1. pc'[r] = step /\ \A q \in RunIds : q # r => pc'[q] = pc[q] BY DEF Shape, WorkTypes
<1>2. \A q \in RunIds : q # r => SameRun(q) BY <1>1 DEF SameRun
<1> QED BY <1>1, <1>2 DEF RunFrame

LEMMA SetStatusFacts ==
    ASSUME Shape, NEW r \in RunIds, NEW s, SetStatus(r, s)
    PROVE  /\ \A q \in RunIds : q # r => status'[q] = status[q]
           /\ \/ status[r] = "deleted" /\ status'[r] = "deleted"
              \/ status[r] # "deleted" /\ status'[r] = s
<1>1. CASE status[r] = "deleted" BY <1>1 DEF SetStatus
<1>2. CASE status[r] # "deleted"
  <2>1. status' = [status EXCEPT ![r] = s] BY <1>2 DEF SetStatus
  <2> QED BY <1>2, <2>1 DEF Shape, RowTypes
<1> QED BY <1>1, <1>2

LEMMA FrameOfRun ==
    ASSUME Shape, Waits, NEW r \in RunIds,
           RunStep(r) \/ Inject(r) \/ AcquireRunSlot(r) \/ Advance(r)
    PROVE  RunFrame(r)
<1>0. Waits => (pc[r] \in {"check", "slot", "advance"} /\ status[r] # "queued" => status[r] \notin Active)
  BY DEF Waits, Active, Ended
<1>1. CASE CheckRun(r)
  <2>1. PICK step \in {"slot", "exit"} : RunTo(r, step) BY <1>1 DEF CheckRun
  <2>2. /\ pc[r] = "check" /\ unsaved \subseteq unsaved'
        /\ UNCHANGED <<rows, used, runSem, directoryMu, RunTouches, owed, unheard>>
    BY <1>1 DEF CheckRun, RunError
  <2>3. pc'[r] = step /\ (RowAdvances(r) /\ RunMoves(r) => RunFrame(r))
    BY <2>1, <2>2, FrameOfMove DEF RunTo, rows, RunTouches, life
  <2>4. step = "exit" => Over(r)
    <3>1. CASE RunTo(r, IF status[r] = "queued" THEN "slot" ELSE "exit")
      <4>1. pc'[r] = IF status[r] = "queued" THEN "slot" ELSE "exit"
        BY <3>1 DEF RunTo, Shape, WorkTypes
      <4> QED BY <1>0, <2>2, <2>3, <4>1 DEF Over, rows
    <3>2. CASE RunError(r) BY <3>2 DEF RunError, Over
    <3> QED BY <1>1, <3>1, <3>2 DEF CheckRun
  <2>5. RowAdvances(r) BY <2>2, <2>3 DEF RowAdvances, rows
  <2>6. RunMoves(r) BY <2>2, <2>3, <2>4 DEF RunMoves, RunTouches
  <2> QED BY <2>3, <2>5, <2>6
<1>2. CASE SlotCanceled(r)
  BY <1>2, FrameOfSettle DEF SlotCanceled, Ended
<1>3. CASE HandleCancellation(r)
  BY <1>3, FrameOfSettle DEF HandleCancellation, Ended, Busy
<1>4. CASE MarkRunFailed(r)
  BY <1>4, FrameOfSettle DEF MarkRunFailed, Ended, Busy
<1>5. CASE UpdateRunCompleted(r)
  BY <1>5, FrameOfSettle DEF UpdateRunCompleted, Ended, Busy
<1>6. CASE SearchOver(r)
  <2>1. /\ pc[r] = "search" /\ RunTo(r, "complete")
        /\ UNCHANGED <<rows, used, runSem, directoryMu, RunTouches, faults, history>>
    BY <1>6 DEF SearchOver
  <2>2. pc'[r] = "complete" /\ (RowAdvances(r) /\ RunMoves(r) => RunFrame(r))
    BY <2>1, FrameOfMove DEF RunTo, rows, RunTouches, life, history
  <2>3. RowAdvances(r) BY <2>1, <2>2 DEF RowAdvances, rows
  <2>4. RunMoves(r) BY <2>1, <2>2 DEF RunMoves, RunTouches, Busy, history
  <2> QED BY <2>2, <2>3, <2>4
<1>7. CASE AcquireRunSlot(r)
  <2>1. /\ pc[r] = "slot" /\ runSem < MaxConcurrentRuns
        /\ runSem' = runSem + 1 /\ RunTo(r, "advance")
        /\ UNCHANGED <<rows, used, directoryMu, RunTouches, faults, history>>
    BY <1>7 DEF AcquireRunSlot
  <2>2. pc'[r] = "advance" /\ (RowAdvances(r) /\ RunMoves(r) => RunFrame(r))
    BY <2>1, FrameOfMove DEF RunTo, rows, RunTouches, life, history
  <2>3. RowAdvances(r) BY <2>1, <2>2 DEF RowAdvances, rows
  <2>4. RunMoves(r) BY <2>1, <2>2 DEF RunMoves, RunTouches, history
  <2> QED BY <2>2, <2>3, <2>4
<1>8. CASE Reload(r)
  <2>1. /\ pc[r] = "reload" /\ unsaved \subseteq unsaved'
        /\ UNCHANGED <<rows, runSem, directoryMu, RunTouches, owed, unheard>>
        /\ \/ RunTo(r, "leave") /\ UNCHANGED used /\ (status[r] = "deleted" \/ RunError(r))
           \/ RunTo(r, "scan") /\ used' = [used EXCEPT ![r] = Base(r)]
    BY <1>8 DEF Reload, RunError, Base
  <2>2. CASE RunTo(r, "leave") /\ UNCHANGED used /\ (status[r] = "deleted" \/ RunError(r))
    <3>1. pc'[r] = "leave" /\ (RowAdvances(r) /\ RunMoves(r) => RunFrame(r))
      BY <2>1, <2>2, FrameOfMove DEF RunTo, rows, RunTouches, life
    <3>2. RowAdvances(r) BY <2>1, <3>1 DEF RowAdvances, rows
    <3>3. Over(r) BY <2>1, <2>2 DEF Over, RunError, rows, Active
    <3>4. RunMoves(r) BY <2>1, <2>2, <3>1, <3>3 DEF RunMoves, RunTouches, Busy
    <3> QED BY <3>1, <3>2, <3>4
  <2>3. CASE RunTo(r, "scan") /\ used' = [used EXCEPT ![r] = Base(r)]
    <3>0. \A q \in RunIds : q # r => used'[q] = used[q] BY <2>3 DEF Shape, WorkTypes
    <3>1. pc'[r] = "scan" /\ (RowAdvances(r) /\ RunMoves(r) => RunFrame(r))
      BY <2>1, <2>3, <3>0, FrameOfMove DEF RunTo, rows, RunTouches, life
    <3>2. RowAdvances(r) BY <2>1, <3>1 DEF RowAdvances, rows
    <3>3. RunMoves(r) BY <2>1, <2>3, <3>1 DEF RunMoves, RunTouches, Busy
    <3> QED BY <3>1, <3>2, <3>3
  <2> QED BY <2>1, <2>2, <2>3
<1>9. CASE ScanPhase(r)
  <2>1. /\ pc[r] = "scan"
        /\ UNCHANGED <<dirOf, trig, root, used, runSem, directoryMu, RunTouches, history>>
        /\ \/ r \notin canceled /\ SetStatus(r, "searching") /\ RunTo(r, "search")
           \/ UNCHANGED status /\ (RunTo(r, "search") \/ RunTo(r, "fail"))
    BY <1>9 DEF ScanPhase, RunOk
  <2>2. CASE r \notin canceled /\ SetStatus(r, "searching") /\ RunTo(r, "search")
    <3>1. /\ \A q \in RunIds : q # r => status'[q] = status[q]
          /\ \/ status[r] = "deleted" /\ status'[r] = "deleted"
             \/ status[r] # "deleted" /\ status'[r] = "searching"
      BY <2>2, SetStatusFacts
    <3>2. pc'[r] = "search" /\ (RowAdvances(r) /\ RunMoves(r) => RunFrame(r))
      BY <2>1, <2>2, <3>1, FrameOfMove DEF RunTo, RunTouches, life, history
    <3>3. RowAdvances(r) BY <2>1, <2>2, <3>1, <3>2 DEF RowAdvances
    <3>4. RunMoves(r) BY <2>1, <3>2 DEF RunMoves, RunTouches, Busy, history
    <3> QED BY <3>2, <3>3, <3>4
  <2>3. ASSUME UNCHANGED status, NEW step \in {"search", "fail"}, RunTo(r, step)
        PROVE  RunFrame(r)
    <3>2. pc'[r] = step /\ (RowAdvances(r) /\ RunMoves(r) => RunFrame(r))
      BY <2>1, <2>3, FrameOfMove DEF RunTo, RunTouches, life, history
    <3>3. RowAdvances(r) BY <2>1, <2>3, <3>2 DEF RowAdvances
    <3>4. RunMoves(r) BY <2>1, <3>2 DEF RunMoves, RunTouches, Busy, history
    <3> QED BY <3>2, <3>3, <3>4
  <2> QED BY <2>1, <2>2, <2>3
<1>10. CASE Inject(r)
  <2>1. /\ pc[r] = "search" /\ r \notin canceled /\ SetStatus(r, "injecting")
        /\ UNCHANGED <<dirOf, trig, root, pc, used, runSem, directoryMu, RunTouches, history>>
    BY <1>10 DEF Inject, RunOk
  <2>2. /\ \A q \in RunIds : q # r => status'[q] = status[q]
        /\ \/ status[r] = "deleted" /\ status'[r] = "deleted"
           \/ status[r] # "deleted" /\ status'[r] = "injecting"
    BY <2>1, SetStatusFacts
  <2>3. \A q \in RunIds : q # r => SameRun(q) BY <2>1, <2>2 DEF SameRun, RunTouches, history
  <2>4. RowAdvances(r) BY <2>1, <2>2 DEF RowAdvances
  <2>5. RunMoves(r) BY <2>1 DEF RunMoves, RunTouches, Busy, history
  <2> QED BY <2>1, <2>3, <2>4, <2>5 DEF RunFrame, RunTouches, life, history
<1>11. CASE Advance(r)
  <2>1. /\ pc[r] = "advance" /\ directoryMu[dirOf[r]] = 0
        /\ directoryMu' = [directoryMu EXCEPT ![dirOf[r]] = r] /\ unsaved \subseteq unsaved'
        /\ UNCHANGED <<dirOf, trig, root, used, runSem, RunTouches, owed, unheard>>
        /\ \/ status[r] = "queued" /\ SetStatus(r, "scanning") /\ RunTo(r, "reload")
           \/ UNCHANGED status /\ RunTo(r, "leave") /\ (status[r] # "queued" \/ RunError(r))
    BY <1>11 DEF Advance, RunError
  <2>2. CASE status[r] = "queued" /\ SetStatus(r, "scanning") /\ RunTo(r, "reload")
    <3>1. /\ \A q \in RunIds : q # r => status'[q] = status[q]
          /\ status'[r] = "scanning"
      BY <2>2, SetStatusFacts
    <3>2. pc'[r] = "reload" /\ (RowAdvances(r) /\ RunMoves(r) => RunFrame(r))
      BY <2>1, <2>2, <3>1, FrameOfMove DEF RunTo, RunTouches, life
    <3>3. RowAdvances(r) BY <2>2, <3>1, <3>2 DEF RowAdvances
    <3>4. RunMoves(r) BY <2>1, <3>2 DEF RunMoves, RunTouches
    <3> QED BY <3>2, <3>3, <3>4
  <2>3. CASE UNCHANGED status /\ RunTo(r, "leave") /\ (status[r] # "queued" \/ RunError(r))
    <3>1. pc'[r] = "leave" /\ (RowAdvances(r) /\ RunMoves(r) => RunFrame(r))
      BY <2>1, <2>3, FrameOfMove DEF RunTo, RunTouches, life
    <3>2. RowAdvances(r) BY <2>3, <3>1 DEF RowAdvances
    <3>3. Over(r) BY <1>0, <2>1, <2>3 DEF Over, RunError
    <3>4. RunMoves(r) BY <2>1, <3>1, <3>3 DEF RunMoves, RunTouches
    <3> QED BY <3>1, <3>2, <3>4
  <2> QED BY <2>1, <2>2, <2>3
<1>12. CASE ExitRun(r)
  <2>1. /\ \/ /\ pc[r] = "leave" /\ directoryMu' = [directoryMu EXCEPT ![dirOf[r]] = 0]
              /\ runSem' = runSem - 1
           \/ pc[r] = "exit" /\ UNCHANGED <<directoryMu, runSem>>
        /\ pc' = [pc EXCEPT ![r] = "none"]
        /\ cancelFuncs' = cancelFuncs \ {r} /\ canceled' = canceled \ {r}
        /\ used' = [used EXCEPT ![r] = None] /\ owed' = [owed EXCEPT ![r] = {}]
        /\ unheard' = unheard \ {r} /\ UNCHANGED <<rows, calls, life, faults, unsaved>>
    BY <1>12 DEF ExitRun, LeaveScan, RunTo
  <2>2. /\ pc'[r] = "none" /\ used'[r] = None /\ owed'[r] = {}
        /\ \A q \in RunIds : q # r => pc'[q] = pc[q] /\ used'[q] = used[q] /\ owed'[q] = owed[q]
    BY <2>1 DEF Shape, WorkTypes
  <2>3. \A q \in RunIds : q # r => SameRun(q) BY <2>1, <2>2 DEF SameRun, rows
  <2>4. RowAdvances(r) BY <2>1, <2>2 DEF RowAdvances, rows
  <2>5. RunMoves(r) BY <2>1, <2>2 DEF RunMoves, rows
  <2> QED BY <2>1, <2>3, <2>4, <2>5 DEF RunFrame, rows, life
<1> QED BY <1>1, <1>2, <1>3, <1>4, <1>5, <1>6, <1>7, <1>8, <1>9, <1>10, <1>11, <1>12 DEF RunStep

-----------------------------------------------------------------------------
(* The life of a run. *)

(* A process that is down has no goroutine and no request. *)
Down ==
    proc = "down" => /\ \A r \in RunIds : pc[r] = "none"
                     /\ \A p \in Procs : callPc[p] = "idle"

(* One request starts a run, and the run has no goroutine before that. *)
Starts ==
    \A p \in Procs, r \in RunIds : Starting(p, r) =>
       pc[r] = "none" /\ \A q \in Procs : Starting(q, r) => q = p

(* A run has a cancel function exactly while it has a goroutine. *)
Funcs ==
    \A r \in RunIds : /\ r \in cancelFuncs <=> pc[r] # "none"
                      /\ r \in canceled => r \in cancelFuncs

(* A run at work has its row in hand, unless it was canceled or trimmed. *)
Works ==
    \A r \in RunIds : pc[r] \in Busy =>
       \/ status[r] \in {"scanning", "searching", "injecting", "deleted"}
       \/ status[r] # "queued" /\ r \in canceled \cup unheard

(* A CancelScan that is about to write the row of a run has told the run,   *)
(* or found that it could not.                                              *)
Cancels ==
    \A p \in Procs, r \in RunIds :
       Late(p, r) /\ (pc[r] # "none" \/ \E q \in Procs : Starting(q, r)) =>
          r \in canceled \cup unheard

Core == Shape /\ Down /\ Starts /\ Funcs /\ Waits /\ Works /\ Cancels

LEMMA CoreOfCall ==
    ASSUME Core, Shape', NEW c \in Procs, CallFrame(c), proc = "up"
    PROVE  Core'
<1>1. \A q \in Procs, r \in RunIds :
         /\ q # c => /\ Starting(q, r)' <=> Starting(q, r)
                     /\ Late(q, r)' <=> Late(q, r)
         /\ Starting(q, r)' => Starting(q, r) \/ (q = c /\ status[r] = "none")
         /\ Late(q, r)' => Late(q, r) \/ r \in canceled' \cup unheard'
  BY DEF CallFrame, SameCall, Starting, Late
<1>2. \A r \in RunIds : status[r] = "none" => pc[r] = "none" /\ \A q \in Procs : callRun[q] # r
  BY DEF Core, Shape, Born
<1>3. Down' BY DEF Down, CallFrame
<1>4. Starts'
  <2>1. ASSUME NEW p \in Procs, NEW r \in RunIds, Starting(p, r)'
        PROVE  pc[r] = "none" /\ \A q \in Procs : Starting(q, r)' => q = p
    <3>1. CASE status[r] = "none" BY <1>1, <1>2, <2>1, <3>1 DEF Starting
    <3>2. CASE status[r] # "none" BY <1>1, <2>1, <3>2 DEF Core, Starts
    <3> QED BY <3>1, <3>2
  <2> QED BY <2>1 DEF Starts, CallFrame
<1>5. Funcs' BY DEF Core, Funcs, CallFrame
<1>6. \A r \in RunIds : RowStep(c, r) BY DEF CallFrame
<1>7. Waits'
  <2>1. ASSUME NEW r \in RunIds, status[r] \in {"queued", "deleted"} \cup Ended
        PROVE  status'[r] \in {"queued", "deleted"} \cup Ended
    BY <1>6, <2>1 DEF RowStep, Ended
  <2>2. ASSUME NEW r \in RunIds, status[r] = "none", NEW p \in Procs, Starting(p, r)'
        PROVE  status'[r] \in {"queued", "deleted"} \cup Ended
    <3>1. status'[r] # "none"
      BY <2>2 DEF Shape, Born, Starting
    <3> QED BY <1>6, <2>2, <3>1 DEF RowStep
  <2>3. ASSUME NEW r \in RunIds, NEW p \in Procs, Starting(p, r)'
        PROVE  status'[r] \in {"queued", "deleted"} \cup Ended
    BY <1>1, <2>1, <2>2, <2>3 DEF Core, Waits
  <2>4. ASSUME NEW r \in RunIds, pc'[r] \in {"check", "slot", "advance"}
        PROVE  status'[r] \in {"queued", "deleted"} \cup Ended
    BY <2>1, <2>4 DEF Core, Waits, CallFrame
  <2> QED BY <2>3, <2>4 DEF Waits
<1>8. Works'
  <2>1. ASSUME NEW r \in RunIds, pc[r] \in Busy
        PROVE  \/ status'[r] \in {"scanning", "searching", "injecting", "deleted"}
               \/ status'[r] # "queued" /\ r \in canceled' \cup unheard'
    <3>1. status[r] # "none" /\ status[r] # "queued" /\ pc[r] # "none"
      BY <1>2, <2>1 DEF Core, Works, Busy
    <3>2. CASE status'[r] = status[r] BY <2>1, <3>2 DEF Core, Works, CallFrame
    <3>3. CASE status'[r] = "deleted" BY <3>3
    <3>4. CASE status'[r] = "canceled" /\ Late(c, r)
      BY <3>1, <3>4 DEF Core, Cancels, CallFrame
    <3> QED BY <1>6, <3>1, <3>2, <3>3, <3>4 DEF RowStep
  <2> QED BY <2>1 DEF Works, CallFrame
<1>9. Cancels'
  <2>1. ASSUME NEW p \in Procs, NEW r \in RunIds, Late(p, r)',
               pc[r] # "none" \/ \E q \in Procs : Starting(q, r)'
        PROVE  r \in canceled' \cup unheard'
    <3>1. CASE Late(p, r)
      <4>1. status[r] # "none" BY <1>2, <3>1 DEF Late
      <4>2. pc[r] # "none" \/ \E q \in Procs : Starting(q, r) BY <1>1, <2>1, <4>1
      <4>3. r \in canceled \cup unheard BY <3>1, <4>2 DEF Core, Cancels
      <4> QED BY <4>3 DEF CallFrame
    <3> QED BY <1>1, <2>1, <3>1
  <2> QED BY <2>1 DEF Cancels, CallFrame
<1> QED BY <1>3, <1>4, <1>5, <1>7, <1>8, <1>9 DEF Core

LEMMA CoreOfStart ==
    ASSUME Core, Shape', NEW p \in Procs, StartRun(p), proc = "up"
    PROVE  Core'
<1>0. callPc[p] = "start" BY DEF StartRun
<1>1. PICK r \in RunIds : callRun[p] = r BY <1>0 DEF Core, Shape, CallArgs
<1>2. /\ cancelFuncs' = cancelFuncs \cup {r} /\ pc' = [pc EXCEPT ![r] = "check"] /\ Return(p)
      /\ UNCHANGED <<rows, used, canceled, runSem, directoryMu, life, faults, history>>
  BY <1>1 DEF StartRun
<1>3. pc'[r] = "check" /\ \A q \in RunIds : q # r => pc'[q] = pc[q]
  BY <1>2 DEF Core, Shape, WorkTypes
<1>4. callPc'[p] = "idle" /\ \A q \in Procs : q # p => SameCall(q)
  BY <1>2, ReturnFacts DEF Core, Shape
<1>5. Starting(p, r) BY <1>0, <1>1 DEF Starting
<1>6. \A c \in Procs, q \in RunIds :
         /\ Starting(c, q)' => Starting(c, q) /\ c # p
         /\ Late(c, q)' => Late(c, q)
  BY <1>4 DEF SameCall, Starting, Late
<1>7. Down' BY <1>2 DEF Down, life
<1>8. Starts'
  <2>1. ASSUME NEW c \in Procs, NEW q \in RunIds, Starting(c, q)'
        PROVE  pc'[q] = "none" /\ \A e \in Procs : Starting(e, q)' => e = c
    <3>1. q # r BY <1>5, <1>6, <2>1 DEF Core, Starts
    <3> QED BY <1>3, <1>6, <2>1, <3>1 DEF Core, Starts
  <2> QED BY <2>1 DEF Starts
<1>9. Funcs' BY <1>2, <1>3 DEF Core, Funcs
<1>10. Waits'
  <2>1. \A q \in RunIds : status'[q] = status[q] BY <1>2 DEF rows
  <2>2. status[r] \in {"queued", "deleted"} \cup Ended BY <1>5 DEF Core, Waits
  <2> QED BY <1>3, <1>6, <2>1, <2>2 DEF Core, Waits
<1>11. Works' BY <1>2, <1>3 DEF Core, Works, Busy, rows, history
<1>12. Cancels'
  <2>1. ASSUME NEW c \in Procs, NEW q \in RunIds, Late(c, q)',
               pc'[q] # "none" \/ \E e \in Procs : Starting(e, q)'
        PROVE  q \in canceled \cup unheard
    <3>1. pc[q] # "none" \/ \E e \in Procs : Starting(e, q) BY <1>3, <1>5, <1>6, <2>1
    <3> QED BY <1>6, <2>1, <3>1 DEF Core, Cancels
  <2> QED BY <1>2, <2>1 DEF Cancels, history
<1> QED BY <1>7, <1>8, <1>9, <1>10, <1>11, <1>12 DEF Core

LEMMA CoreOfRun ==
    ASSUME Core, Shape', NEW r \in RunIds, RunFrame(r), proc = "up"
    PROVE  Core'
<1>1. /\ \A p \in Procs, q \in RunIds : (Starting(p, q)' <=> Starting(p, q))
                                         /\ (Late(p, q)' <=> Late(p, q))
      /\ proc' = "up" /\ \A q \in RunIds : q # r => SameRun(q)
  BY DEF RunFrame, calls, Starting, Late
<1>2. pc[r] # "none" BY DEF RunFrame, RunMoves, Busy
<1>3. \A p \in Procs : ~Starting(p, r) BY <1>2 DEF Core, Starts
<1>4. Down' BY <1>1 DEF Down
<1>5. Starts' BY <1>1, <1>3 DEF Core, Starts, SameRun
<1>6. Funcs'
  <2>1. ASSUME NEW q \in RunIds, q # r
        PROVE (q \in cancelFuncs' <=> pc'[q] # "none") /\ (q \in canceled' => q \in cancelFuncs')
    BY <1>1, <2>1 DEF Core, Funcs, SameRun
  <2>2. (r \in cancelFuncs' <=> pc'[r] # "none") /\ (r \in canceled' => r \in cancelFuncs')
    BY <1>2 DEF RunFrame, RunMoves, Core, Funcs
  <2> QED BY <2>1, <2>2 DEF Funcs
<1>7. Waits'
  <2>1. ASSUME pc'[r] \in {"check", "slot", "advance"}
        PROVE  status'[r] \in {"queued", "deleted"} \cup Ended
    <3>1. pc[r] \in {"check", "slot"} BY <2>1 DEF RunFrame, RunMoves
    <3>2. status[r] \in {"queued", "deleted"} \cup Ended BY <3>1 DEF Core, Waits
    <3> QED BY <2>1, <3>1, <3>2 DEF RunFrame, RowAdvances
  <2> QED BY <1>1, <1>3, <2>1 DEF Core, Waits, SameRun
<1>8. Works'
  <2>1. ASSUME pc'[r] \in Busy
        PROVE  \/ status'[r] \in {"scanning", "searching", "injecting", "deleted"}
               \/ status'[r] # "queued" /\ r \in canceled' \cup unheard'
    <3>1. UNCHANGED <<canceled, unheard>> /\ (pc[r] \in Busy \/ pc'[r] = "reload")
      BY <2>1 DEF RunFrame, RunMoves, Busy
    <3>2. \/ status'[r] = status[r] /\ pc'[r] # "reload"
          \/ status'[r] \in {"scanning", "searching", "injecting"}
      BY <2>1 DEF RunFrame, RowAdvances, Busy
    <3> QED BY <3>1, <3>2 DEF Core, Works
  <2> QED BY <1>1, <2>1 DEF Core, Works, SameRun
<1>9. Cancels'
  <2>1. ASSUME NEW p \in Procs, Late(p, r), pc'[r] # "none"
        PROVE  r \in canceled' \cup unheard'
    <3>1. UNCHANGED <<canceled, unheard>> BY <2>1 DEF RunFrame, RunMoves
    <3> QED BY <1>2, <2>1, <3>1 DEF Core, Cancels
  <2> QED BY <1>1, <1>3, <2>1 DEF Core, Cancels, SameRun
<1> QED BY <1>4, <1>5, <1>6, <1>7, <1>8, <1>9 DEF Core

LEMMA CoreOfLife ==
    ASSUME Core, Shape', Crash \/ Start
    PROVE  Core'
<1>1. CASE Crash
  <2>1. /\ pc' = [r \in RunIds |-> "none"] /\ cancelFuncs' = {} /\ canceled' = {}
        /\ callPc' = [p \in Procs |-> "idle"]
    BY <1>1 DEF Crash
  <2>2. \A p \in Procs, r \in RunIds : ~Starting(p, r)' /\ ~Late(p, r)'
    BY <2>1 DEF Starting, Late
  <2> QED BY <2>1, <2>2 DEF Core, Down, Starts, Funcs, Waits, Works, Cancels, Busy
<1>2. CASE Start
  <2>1. /\ \A r \in RunIds : pc'[r] = "none" /\ pc[r] = "none"
        /\ \A p \in Procs : callPc'[p] = "idle"
        /\ UNCHANGED <<cancelFuncs, canceled>> /\ proc' = "up"
    BY <1>2, StartFacts DEF Core, Shape, Down, work, calls
  <2>2. \A p \in Procs, r \in RunIds : ~Starting(p, r)' /\ ~Late(p, r)'
    BY <2>1 DEF Starting, Late
  <2> QED BY <2>1, <2>2 DEF Core, Down, Starts, Funcs, Waits, Works, Cancels, Busy
<1> QED BY <1>1, <1>2

LEMMA CoreInit == Init => Core
<1> SUFFICES ASSUME Init PROVE Core OBVIOUS
<1>1. Shape BY ShapeInit
<1> QED BY <1>1 DEF Init, Core, Down, Starts, Funcs, Waits, Works, Cancels, Busy, Starting, Late

(* The steps of the system, by what they may do. *)
LEMMA StepFrames ==
    ASSUME Core, [Next]_vars
    PROVE  \/ UNCHANGED vars
           \/ proc = "up" /\ \E c \in Procs : CallFrame(c)
           \/ proc = "up" /\ \E c \in Procs : StartRun(c)
           \/ proc = "up" /\ \E r \in RunIds : RunFrame(r)
           \/ Crash \/ Start
<1>1. ASSUME proc = "up", NEW c \in Callers, Request(c) \/ CallStep(c)
      PROVE  \E p \in Procs : CallFrame(p) \/ StartRun(p)
  BY <1>1, FrameOfRequest, FrameOfWebhook, FrameOfCancel, IdFacts DEF CallStep, Core
<1>2. ASSUME proc = "up", NEW t \in Triggers,
             \/ \E d \in Directories : TriggerScheduledScan(t, d)
             \/ JitterOver(t) \/ StartRun(t)
      PROVE  \E p \in Procs : CallFrame(p) \/ StartRun(p)
  BY <1>2, FrameOfTrigger, IdFacts DEF Core
<1>3. ASSUME NEW r \in RunIds, RunStep(r) \/ Inject(r) \/ AcquireRunSlot(r) \/ Advance(r)
      PROVE  RunFrame(r)
  BY <1>3, FrameOfRun DEF Core
<1> QED BY <1>1, <1>2, <1>3 DEF Next, Serve

LEMMA CoreStep == Core /\ [Next]_vars => Core'
<1> SUFFICES ASSUME Core, [Next]_vars PROVE Core' OBVIOUS
<1>1. Shape' BY ShapeStep DEF Core
<1>2. CASE UNCHANGED vars
  BY <1>1, <1>2 DEF vars, rows, work, calls, life, history, Core, Down, Starts, Funcs, Waits, Works,
                    Cancels, Starting, Late
<1> QED BY <1>1, <1>2, StepFrames, CoreOfCall, CoreOfStart, CoreOfRun, CoreOfLife

LEMMA CoreAlways == Spec => []Core
<1>1. Init => Core BY CoreInit
<1>2. Core /\ [Next]_vars => Core' BY CoreStep
<1> QED BY <1>1, <1>2, PTL DEF Spec

(* A run that has ended, or whose row was trimmed, never becomes active     *)
(* again, whatever order its own writes and a cancellation come in; the one *)
(* exception is a CancelScan that came before startRun had registered the   *)
(* cancel function.  A goroutine looks at its row only when it begins       *)
(* (Waits), so what counts is that a run at work was told of a cancellation *)
(* before its row was written (Works, Cancels).                             *)
THEOREM EndedRunsStay == Spec => NotRevived
<1> DEFINE Kept == \A r \in RunIds \ unheard :
                      status[r] \in Ended \cup {"deleted"} => status'[r] \notin Active
<1>1. Core /\ [Next]_vars => Kept
  <2> SUFFICES ASSUME Core, [Next]_vars PROVE Kept OBVIOUS
  <2>1. CASE UNCHANGED vars BY <2>1 DEF vars, rows, Active, Ended
  <2>2. ASSUME NEW c \in Procs, CallFrame(c) PROVE Kept
    <3>1. \A r \in RunIds : RowStep(c, r) BY <2>2 DEF CallFrame
    <3> QED BY <3>1 DEF RowStep, Active, Ended
  <2>3. ASSUME NEW c \in Procs, StartRun(c) PROVE Kept
    BY <2>3 DEF StartRun, rows, Active, Ended
  <2>4. ASSUME NEW r \in RunIds, RunFrame(r) PROVE Kept
    <3>1. \A q \in RunIds : q # r => status'[q] = status[q] BY <2>4 DEF RunFrame, SameRun
    <3>2. ASSUME r \notin unheard, status[r] \in Ended \cup {"deleted"}
          PROVE  status'[r] \notin Active
      <4>1. pc[r] \in Busy => r \in canceled \/ status[r] = "deleted"
        BY <3>2 DEF Core, Works, Ended
      <4> QED BY <2>4, <3>2, <4>1 DEF RunFrame, RowAdvances, Busy, Active, Ended
    <3> QED BY <3>1, <3>2 DEF Active, Ended
  <2>5. CASE Crash BY <2>5 DEF Crash, rows, Active, Ended
  <2>6. CASE Start
    <3>1. \A r \in RunIds : \/ status'[r] = status[r]
                            \/ status'[r] = "deleted" \/ status'[r] = "failed"
      BY <2>6, StartFacts DEF Core, Shape
    <3> QED BY <3>1 DEF Active, Ended
  <2> QED BY <2>1, <2>2, <2>3, <2>4, <2>5, <2>6, StepFrames
<1>2. [Next]_vars /\ Core => [Kept]_vars BY <1>1
<1>3. Spec => []Core BY CoreAlways
<1> QED BY <1>2, <1>3, PTL DEF Spec, NotRevived

-----------------------------------------------------------------------------
(* Runs that are not left behind. *)

(* A canceled run's row has ended, or the request is about to write it, or  *)
(* the store failed to.                                                     *)
Accounted ==
    \A r \in RunIds : r \in canceled =>
       \/ r \in unsaved \/ status[r] \notin Active
       \/ \E p \in Procs : Late(p, r)

Attended ==
    \A r \in RunIds : status[r] \in Active /\ proc = "up" =>
       \/ r \in unsaved \/ pc[r] \notin {"none", "leave", "exit"}
       \/ \E p \in Procs : Attends(p, r)

AttendInv == Core /\ Accounted /\ Attended

LEMMA AttendOfCall ==
    ASSUME AttendInv, NEW c \in Procs, CallFrame(c)
    PROVE  Accounted' /\ Attended'
<1>1. \A q \in Procs, r \in RunIds : q # c =>
         (Late(q, r) => Late(q, r)') /\ (Attends(q, r) => Attends(q, r)')
  BY DEF CallFrame, SameCall, Late, Attends
<1>2. \A r \in RunIds : RowStep(c, r) BY DEF CallFrame
<1>3. \A r \in RunIds : status'[r] \in Active =>
         status[r] \in Active \/ (status[r] = "none" /\ Starting(c, r)')
  BY <1>2 DEF RowStep, Active
<1>4. \A r \in RunIds : /\ Starting(c, r)' => Attends(c, r)'
                        /\ Attends(c, r) => Attends(c, r)' \/ r \in unsaved' \/ status'[r] \notin Active
                        /\ Late(c, r) => Late(c, r)' \/ r \in unsaved' \/ status'[r] \notin Active
                        /\ r \in unsaved => r \in unsaved'
                        /\ r \in canceled' => r \in canceled \/ Late(c, r)'
  BY DEF CallFrame, Starting, Attends
<1>5. Accounted'
  <2>1. ASSUME NEW r \in RunIds, r \in canceled, r \notin unsaved', status'[r] \in Active
        PROVE  \E p \in Procs : Late(p, r)'
    <3>1. status[r] # "none"
      BY <2>1 DEF AttendInv, Core, Funcs, Shape, Born
    <3>2. PICK p \in Procs : Late(p, r)
      BY <1>3, <1>4, <2>1, <3>1 DEF AttendInv, Accounted
    <3> QED BY <1>1, <1>4, <2>1, <3>2
  <2> QED BY <1>4, <2>1 DEF Accounted
<1>6. Attended'
  <2>1. ASSUME NEW r \in RunIds, r \notin unsaved', status'[r] \in Active, proc = "up",
               pc[r] \in {"none", "leave", "exit"}
        PROVE  \E p \in Procs : Attends(p, r)'
    <3>1. CASE status[r] = "none" BY <1>3, <1>4, <2>1, <3>1 DEF Active
    <3>2. CASE status[r] # "none"
      <4>1. PICK p \in Procs : Attends(p, r)
        BY <1>3, <1>4, <2>1, <3>2 DEF AttendInv, Attended
      <4> QED BY <1>1, <1>4, <2>1, <4>1
    <3> QED BY <3>1, <3>2
  <2> QED BY <2>1 DEF Attended, CallFrame
<1> QED BY <1>5, <1>6

LEMMA AttendOfStart ==
    ASSUME AttendInv, NEW p \in Procs, StartRun(p)
    PROVE  Accounted' /\ Attended'
<1>0. callPc[p] = "start" BY DEF StartRun
<1>1. PICK r \in RunIds : callRun[p] = r BY <1>0 DEF AttendInv, Core, Shape, CallArgs
<1>2. /\ pc' = [pc EXCEPT ![r] = "check"] /\ Return(p)
      /\ UNCHANGED <<rows, canceled, life, history>>
  BY <1>1 DEF StartRun
<1>3. pc'[r] = "check" /\ \A q \in RunIds : q # r => pc'[q] = pc[q]
  BY <1>2 DEF AttendInv, Core, Shape, WorkTypes
<1>4. \A q \in Procs : q # p => SameCall(q)
  BY <1>2, ReturnFacts DEF AttendInv, Core, Shape
<1>5. \A c \in Procs, q \in RunIds :
         (Late(c, q) => Late(c, q)') /\ (Attends(c, q) => Attends(c, q)' \/ q = r)
  BY <1>0, <1>1, <1>4 DEF SameCall, Late, Attends
<1>6. Accounted' BY <1>2, <1>5 DEF AttendInv, Accounted, rows, history
<1>7. Attended' BY <1>2, <1>3, <1>5 DEF AttendInv, Attended, rows, history, life
<1> QED BY <1>6, <1>7

LEMMA AttendOfRun ==
    ASSUME AttendInv, NEW r \in RunIds, RunFrame(r)
    PROVE  Accounted' /\ Attended'
<1>1. /\ \A p \in Procs, q \in RunIds : (Attends(p, q)' <=> Attends(p, q))
                                         /\ (Late(p, q)' <=> Late(p, q))
      /\ proc' = proc /\ \A q \in RunIds : q # r => SameRun(q)
      /\ \A q \in RunIds : q \in unsaved => q \in unsaved'
  BY DEF RunFrame, calls, Attends, Late
<1>2. ASSUME r \in canceled, r \notin unsaved', status'[r] \in Active
      PROVE  \E p \in Procs : Late(p, r)
  <2>1. status'[r] = status[r] \/ status[r] = "queued"
    BY <1>2 DEF RunFrame, RowAdvances, Active, Ended
  <2> QED BY <1>1, <1>2, <2>1 DEF AttendInv, Accounted, Active
<1>3. Accounted'
  <2>1. r \in canceled' => r \in canceled BY DEF RunFrame, RunMoves
  <2> QED BY <1>1, <1>2, <2>1 DEF AttendInv, Accounted, SameRun
<1>4. ASSUME r \notin unsaved', status'[r] \in Active, proc = "up",
             pc'[r] \in {"none", "leave", "exit"}
      PROVE  \E p \in Procs : Attends(p, r)
  <2>1. CASE pc'[r] = "none"
    <3>1. status'[r] = status[r] /\ pc[r] \in {"leave", "exit"}
      BY <2>1 DEF RunFrame, RunMoves
    <3> QED BY <1>1, <1>4, <3>1 DEF AttendInv, Attended
  <2>2. CASE pc'[r] \in {"leave", "exit"}
    <3>1. Over(r) BY <2>2 DEF RunFrame, RunMoves
    <3>2. \E p \in Procs : Late(p, r) BY <1>2, <1>4, <3>1 DEF Over
    <3> QED BY <3>2 DEF Late, Attends
  <2> QED BY <1>4, <2>1, <2>2
<1>5. Attended' BY <1>1, <1>4 DEF AttendInv, Attended, SameRun
<1> QED BY <1>3, <1>5

LEMMA AttendStep == AttendInv /\ [Next]_vars => AttendInv'
<1> SUFFICES ASSUME AttendInv, [Next]_vars PROVE AttendInv' OBVIOUS
<1>1. Core' BY CoreStep DEF AttendInv
<1>2. CASE UNCHANGED vars
  BY <1>1, <1>2 DEF vars, rows, work, calls, life, history, AttendInv, Accounted, Attended,
                    Late, Attends
<1>3. CASE Crash
  BY <1>1, <1>3 DEF Crash, AttendInv, Accounted, Attended
<1>4. CASE Start
  <2>1. /\ \A r \in RunIds \ unsaved' : status'[r] \notin Active
        /\ canceled' = canceled
    BY <1>4, StartFacts DEF AttendInv, Core, Shape, work
  <2> QED BY <1>1, <2>1 DEF AttendInv, Accounted, Attended
<1>5. Accounted' /\ Attended' => AttendInv' BY <1>1 DEF AttendInv
<1> QED BY <1>2, <1>3, <1>4, <1>5, StepFrames, AttendOfCall, AttendOfStart, AttendOfRun
        DEF AttendInv

(* No active row is left without anybody to work on it or to end it, unless *)
(* a call of the store failed: not when a cancellation meets a goroutine    *)
(* that is about to begin, not when the jitter of a scheduled run ends      *)
(* after its cancellation, not after a restart.                             *)
THEOREM RunsAreAttended == Spec => []NoStrandedRun
<1>1. Init => AttendInv
  <2> SUFFICES ASSUME Init PROVE AttendInv OBVIOUS
  <2>1. Core BY CoreInit
  <2> QED BY <2>1 DEF Init, AttendInv, Accounted, Attended
<1>2. AttendInv /\ [Next]_vars => AttendInv' BY AttendStep
<1>3. AttendInv => NoStrandedRun BY DEF AttendInv, Attended, NoStrandedRun, Attends
<1> QED BY <1>1, <1>2, <1>3, PTL DEF Spec

-----------------------------------------------------------------------------
(* Slots and locks. *)

SlotHolders == {r \in RunIds : pc[r] \notin {"none", "check", "slot", "exit"}}
Slots == runSem = Cardinality(SlotHolders) /\ runSem <= MaxConcurrentRuns

(* A directory is locked by the run of it that is past the lock. *)
Locks ==
    \A d \in Directories, r \in RunIds :
       directoryMu[d] = r <=>
          dirOf[r] = d /\ pc[r] \notin {"none", "check", "slot", "advance", "exit"}

SlotInv == Core /\ Slots /\ Locks

LEMMA SlotOfOthers ==
    ASSUME SlotInv, UNCHANGED <<runSem, directoryMu>>,
           \A r \in RunIds :
              /\ pc'[r] = pc[r] \/ (pc[r] = "none" /\ pc'[r] = "check")
              /\ dirOf'[r] = dirOf[r] \/ status[r] = "none"
    PROVE  Slots' /\ Locks'
<1>1. SlotHolders' = SlotHolders BY DEF SlotHolders
<1>2. Slots' BY <1>1 DEF SlotInv, Slots
<1>3. \A r \in RunIds : status[r] = "none" => pc[r] = "none" BY DEF SlotInv, Core, Shape, Born
<1>4. Locks' BY <1>3 DEF SlotInv, Locks
<1> QED BY <1>2, <1>4

LEMMA SlotOfRun ==
    ASSUME SlotInv, NEW r \in RunIds, RunFrame(r)
    PROVE  Slots' /\ Locks'
<1>1. /\ \A q \in RunIds : dirOf'[q] = dirOf[q]
      /\ \A q \in RunIds : q # r => pc'[q] = pc[q]
  BY DEF RunFrame, SameRun
<1>2. dirOf[r] \in Directories
  <2>1. pc[r] # "none" BY DEF RunFrame, RunMoves, Busy
  <2> QED BY <2>1 DEF SlotInv, Core, Shape, Born
<1>3. directoryMu \in [Directories -> 0 .. MaxRuns] /\ runSem \in Int
  BY DEF SlotInv, Core, Shape, WorkTypes
<1>4. IsFiniteSet(SlotHolders) /\ SlotHolders \in SUBSET RunIds
  BY FS_Subset, IdFacts DEF SlotHolders
<1>5. Slots'
  <2>1. CASE pc[r] = "slot" /\ pc'[r] = "advance"
    <3>1. runSem < MaxConcurrentRuns /\ runSem' = runSem + 1
      BY <2>1 DEF RunFrame, RunMoves, Busy
    <3>2. r \notin SlotHolders /\ SlotHolders' = SlotHolders \cup {r}
      BY <1>1, <2>1 DEF SlotHolders
    <3>3. Cardinality(SlotHolders') = Cardinality(SlotHolders) + 1
      BY <1>4, <3>2, FS_AddElement
    <3> QED BY <1>3, <3>1, <3>3, DirScanAssumption DEF SlotInv, Slots
  <2>2. CASE pc[r] = "leave"
    <3>1. pc'[r] = "none" /\ runSem' = runSem - 1 BY <2>2 DEF RunFrame, RunMoves, Busy
    <3>2. r \in SlotHolders /\ SlotHolders' = SlotHolders \ {r}
      BY <1>1, <2>2, <3>1 DEF SlotHolders
    <3>3. Cardinality(SlotHolders') = Cardinality(SlotHolders) - 1
      BY <1>4, <3>2, FS_RemoveElement
    <3> QED BY <1>3, <3>1, <3>3, DirScanAssumption DEF SlotInv, Slots
  <2>3. CASE ~(pc[r] = "slot" /\ pc'[r] = "advance") /\ pc[r] # "leave"
    <3>1. runSem' = runSem /\ (pc'[r] \notin {"none", "check", "slot", "exit"} <=>
                               pc[r] \notin {"none", "check", "slot", "exit"})
      BY <2>3 DEF RunFrame, RunMoves, Busy
    <3>2. SlotHolders' = SlotHolders BY <1>1, <3>1 DEF SlotHolders
    <3> QED BY <3>1, <3>2 DEF SlotInv, Slots
  <2> QED BY <2>1, <2>2, <2>3
<1>6. Locks'
  <2>1. CASE pc[r] = "advance"
    <3>1. /\ pc'[r] \in {"reload", "leave"} /\ directoryMu[dirOf[r]] = 0
          /\ directoryMu' = [directoryMu EXCEPT ![dirOf[r]] = r]
      BY <2>1 DEF RunFrame, RunMoves, Busy
    <3>2. /\ directoryMu'[dirOf[r]] = r
          /\ \A d \in Directories : d # dirOf[r] => directoryMu'[d] = directoryMu[d]
      BY <1>2, <1>3, <3>1
    <3>3. ASSUME NEW d \in Directories, NEW q \in RunIds
          PROVE  directoryMu'[d] = q <=>
                   dirOf[q] = d /\ pc'[q] \notin {"none", "check", "slot", "advance", "exit"}
      BY <1>1, <1>2, <2>1, <3>1, <3>2, IdFacts DEF SlotInv, Locks
    <3> QED BY <1>1, <3>3 DEF Locks
  <2>2. CASE pc[r] = "leave"
    <3>1. pc'[r] = "none" /\ directoryMu' = [directoryMu EXCEPT ![dirOf[r]] = 0]
      BY <2>2 DEF RunFrame, RunMoves, Busy
    <3>2. /\ directoryMu'[dirOf[r]] = 0 /\ directoryMu[dirOf[r]] = r
          /\ \A d \in Directories : d # dirOf[r] => directoryMu'[d] = directoryMu[d]
      BY <1>2, <1>3, <2>2, <3>1 DEF SlotInv, Locks
    <3>3. ASSUME NEW d \in Directories, NEW q \in RunIds
          PROVE  directoryMu'[d] = q <=>
                   dirOf[q] = d /\ pc'[q] \notin {"none", "check", "slot", "advance", "exit"}
      BY <1>1, <1>2, <2>2, <3>1, <3>2, IdFacts DEF SlotInv, Locks
    <3> QED BY <1>1, <3>3 DEF Locks
  <2>3. CASE pc[r] \notin {"advance", "leave"}
    <3>1. /\ UNCHANGED directoryMu
          /\ pc'[r] \notin {"none", "check", "slot", "advance", "exit"} <=>
             pc[r] \notin {"none", "check", "slot", "advance", "exit"}
      BY <2>3 DEF RunFrame, RunMoves, Busy
    <3> QED BY <1>1, <3>1 DEF SlotInv, Locks
  <2> QED BY <2>1, <2>2, <2>3
<1> QED BY <1>5, <1>6

LEMMA SlotStep == SlotInv /\ [Next]_vars => SlotInv'
<1> SUFFICES ASSUME SlotInv, [Next]_vars PROVE SlotInv' OBVIOUS
<1>1. Core' BY CoreStep DEF SlotInv
<1>2. CASE UNCHANGED vars \/ Start
  <2>1. UNCHANGED <<runSem, directoryMu, pc, dirOf>> BY <1>2 DEF vars, rows, work, Start
  <2> QED BY <1>1, <2>1, SlotOfOthers DEF SlotInv
<1>3. CASE Crash
  <2>1. /\ pc' = [r \in RunIds |-> "none"] /\ runSem' = 0
        /\ directoryMu' = [d \in Directories |-> 0]
    BY <1>3 DEF Crash
  <2>2. SlotHolders' = {} BY <2>1 DEF SlotHolders
  <2>3. Cardinality(SlotHolders') = 0 BY <2>2, FS_EmptySet
  <2>4. Slots' BY <2>1, <2>3, DirScanAssumption DEF Slots
  <2>5. Locks' BY <2>1, IdFacts DEF Locks
  <2> QED BY <1>1, <2>4, <2>5 DEF SlotInv
<1>4. ASSUME NEW c \in Procs, CallFrame(c) PROVE SlotInv'
  <2>1. UNCHANGED <<pc, runSem, directoryMu>> BY <1>4 DEF CallFrame
  <2>2. \A r \in RunIds : dirOf'[r] = dirOf[r] \/ status[r] = "none"
    BY <1>4 DEF CallFrame, RowStep
  <2> QED BY <1>1, <2>1, <2>2, SlotOfOthers DEF SlotInv
<1>5. ASSUME NEW c \in Procs, StartRun(c) PROVE SlotInv'
  <2>0. callPc[c] = "start" BY <1>5 DEF StartRun
  <2>1. PICK r \in RunIds : callRun[c] = r BY <2>0 DEF SlotInv, Core, Shape, CallArgs
  <2>2. pc' = [pc EXCEPT ![r] = "check"] /\ UNCHANGED <<rows, runSem, directoryMu>>
    BY <1>5, <2>1 DEF StartRun
  <2>3. pc[r] = "none" BY <2>0, <2>1 DEF SlotInv, Core, Starts, Starting
  <2>4. \A q \in RunIds : pc'[q] = pc[q] \/ (pc[q] = "none" /\ pc'[q] = "check")
    BY <2>2, <2>3 DEF SlotInv, Core, Shape, WorkTypes
  <2> QED BY <1>1, <2>2, <2>4, SlotOfOthers DEF SlotInv, rows
<1>6. ASSUME NEW r \in RunIds, RunFrame(r) PROVE SlotInv'
  BY <1>1, <1>6, SlotOfRun DEF SlotInv
<1> QED BY <1>2, <1>3, <1>4, <1>5, <1>6, StepFrames DEF SlotInv

(* The variables keep their types, the slots taken are those of the runs    *)
(* past acquireRunSlot and never more than there are, and a directory is    *)
(* locked by the run of it that works, so by one at a time.  The count and  *)
(* the locks come out right because a run is started once (Starts).         *)
THEOREM DirScanTypes == Spec => []TypeOK
<1>1. Init => SlotInv
  <2> SUFFICES ASSUME Init PROVE SlotInv OBVIOUS
  <2>1. Core BY CoreInit
  <2>2. SlotHolders = {} BY DEF Init, SlotHolders
  <2>3. Slots BY <2>2, FS_EmptySet, DirScanAssumption DEF Slots, Init
  <2>4. Locks BY IdFacts DEF Locks, Init
  <2> QED BY <2>1, <2>3, <2>4 DEF SlotInv
<1>2. SlotInv /\ [Next]_vars => SlotInv' BY SlotStep
<1>3. SlotInv => TypeOK
  <2> SUFFICES ASSUME SlotInv PROVE TypeOK OBVIOUS
  <2>1. \A r \in RunIds :
         pc[r] \notin {"none", "check", "slot", "advance", "exit"} <=>
            dirOf[r] # None /\ directoryMu[dirOf[r]] = r
    <3>1. \A r \in RunIds : pc[r] # "none" => dirOf[r] \in Directories
      BY DEF SlotInv, Core, Shape, Born
    <3>2. \A r \in RunIds : dirOf[r] \in Directories \cup {None}
      BY DEF SlotInv, Core, Shape, RowTypes
    <3> QED BY <3>1, <3>2, IdFacts DEF SlotInv, Locks
  <2> QED BY <2>1 DEF SlotInv, Core, Shape, RowTypes, WorkTypes, CallTypes, LifeTypes, Slots,
                      SlotHolders, TypeOK
<1> QED BY <1>1, <1>2, <1>3, PTL DEF Spec

-----------------------------------------------------------------------------
(* Follow-ups.  A webhook that is about to create one has found none in the *)
(* queue, and while it holds the lock of the webhooks nobody adds one.      *)

FollowUp ==
    \A p \in Procs, r \in RunIds :
       callPc[p] = "create next" /\ dirOf[r] = callDir[p] /\ trig[r] = "webhook" =>
          status[r] # "queued"

QueueInv == Core /\ OneFollowUp /\ FollowUp

LEMMA QueueOfQuiet ==
    ASSUME QueueInv,
           \A r \in RunIds : status'[r] = "queued" =>
              status[r] = "queued" /\ dirOf'[r] = dirOf[r] /\ trig'[r] = trig[r],
           \A p \in Procs : callPc'[p] = "create next" =>
              callPc[p] = "create next" /\ callDir'[p] = callDir[p]
    PROVE  OneFollowUp' /\ FollowUp'
<1>1. OneFollowUp' BY DEF QueueInv, OneFollowUp
<1>2. FollowUp' BY DEF QueueInv, FollowUp
<1> QED BY <1>1, <1>2

LEMMA QueueOfCall ==
    ASSUME QueueInv, NEW c \in Procs, CallFrame(c),
           callPc'[c] \notin {"start", "jitter", "create next"}
    PROVE  OneFollowUp' /\ FollowUp'
<1>1. \A r \in RunIds : status'[r] = "queued" =>
         status[r] = "queued" /\ dirOf'[r] = dirOf[r] /\ trig'[r] = trig[r]
  <2>1. \A r \in RunIds : RowStep(c, r) BY DEF CallFrame
  <2>2. \A r \in RunIds : ~Starting(c, r)' BY DEF Starting
  <2> QED BY <2>1, <2>2 DEF RowStep
<1>2. \A p \in Procs : callPc'[p] = "create next" =>
         callPc[p] = "create next" /\ callDir'[p] = callDir[p]
  BY DEF CallFrame, SameCall
<1> QED BY <1>1, <1>2, QueueOfQuiet

(* A run that is not a webhook's, or a webhook's where none is queued. *)
LEMMA QueueOfInsert ==
    ASSUME QueueInv, NEW c \in Procs, NEW d, NEW t, NEW path, NEW r \in RunIds,
           Inserts(c, d, t, path, r), NEW step \in {"start", "jitter"}, CallTo(c, step),
           UNCHANGED callDir,
           t = "webhook" => /\ webhookMu = c
                            /\ \A q \in RunIds : dirOf[q] = d /\ trig[q] = "webhook" =>
                                                   status[q] # "queued"
    PROVE  OneFollowUp' /\ FollowUp'
<1>1. /\ callPc'[c] = step /\ \A q \in Procs : q # c => callPc'[q] = callPc[q]
  BY ToFacts DEF QueueInv, Core, Shape, CallPcs
<1>2. /\ dirOf'[r] = d /\ trig'[r] = t
      /\ \A q \in RunIds : q # r => dirOf'[q] = dirOf[q] /\ trig'[q] = trig[q]
  BY DEF Inserts, QueueInv, Core, Shape, RowTypes
<1>3. \A q \in RunIds : q # r /\ status'[q] = "queued" => status[q] = "queued"
  BY DEF Inserts
<1>4. OneFollowUp'
  <2>1. ASSUME NEW q \in RunIds, q # r, status'[q] = "queued", trig'[q] = "webhook",
               t = "webhook", dirOf'[q] = d
        PROVE  FALSE
    BY <1>2, <1>3, <2>1
  <2> QED BY <1>2, <1>3, <2>1 DEF QueueInv, OneFollowUp
<1>5. FollowUp'
  <2>1. \A p \in Procs : callPc'[p] = "create next" => t # "webhook" /\ callPc[p] = "create next"
    BY <1>1 DEF QueueInv, Core, Shape, CallArgs, Webhooks
  <2> QED BY <1>2, <1>3, <2>1 DEF QueueInv, FollowUp
<1> QED BY <1>4, <1>5

LEMMA QueueOfRequest ==
    ASSUME QueueInv, NEW c \in Callers, Request(c) \/ (CallStep(c) /\ ~StartRun(c))
    PROVE  OneFollowUp' /\ FollowUp'
<1>0. c \in Procs /\ Shape /\ CallTypes BY IdFacts DEF QueueInv, Core, Shape
<1>1. CallFrame(c)
  BY <1>0, FrameOfRequest, FrameOfWebhook, FrameOfCancel DEF CallStep
<1>2. ASSUME NEW step, CallTo(c, step) PROVE callPc'[c] = step
  BY <1>0, <1>2 DEF CallTo, CallTypes
<1>3. Return(c) => callPc'[c] = "idle" BY <1>2 DEF Return
<1>4. ASSUME NEW d \in Directories, StartManualScan(c, d) PROVE OneFollowUp' /\ FollowUp'
  <2>1. PICK r \in RunIds : Inserts(c, d, "manual", None, r)
    BY <1>4, CreateRunInserts DEF StartManualScan, CreateRunIfNoActive, QueueInv, Core, Shape
  <2> QED BY <1>0, <1>4, <2>1, QueueOfInsert DEF StartManualScan
<1>5. ASSUME NEW d \in Directories, CancelScan(c, d) PROVE OneFollowUp' /\ FollowUp'
  <2>1. callPc'[c] = "cancel" BY <1>2, <1>5 DEF CancelScan
  <2> QED BY <1>0, <1>1, <2>1, QueueOfCall
<1>6. ASSUME NEW d \in Directories, NEW p \in Paths, LockWebhook(c, d, p)
      PROVE  OneFollowUp' /\ FollowUp'
  <2>1. callPc'[c] = "active" BY <1>2, <1>6 DEF LockWebhook
  <2> QED BY <1>0, <1>1, <2>1, QueueOfCall
<1>7. CASE WebhookCreate(c)
  <2>1. /\ CallTo(c, "start") /\ UNCHANGED callDir
        /\ callPc[c] = "create next" \/ (callPc[c] = "create idle" /\ ActiveRuns(callDir[c]) = {})
    BY <1>7 DEF WebhookCreate, CreateRunIfNoActive
  <2>2. webhookMu = c BY <1>0, <2>1 DEF Shape, CallArgs, Webhooks
  <2>3. \A q \in RunIds : dirOf[q] = callDir[c] /\ trig[q] = "webhook" => status[q] # "queued"
    BY <1>0, <2>1 DEF QueueInv, FollowUp, ActiveRuns, Active
  <2>4. PICK r \in RunIds : Inserts(c, callDir[c], "webhook", callRoot[c], r)
    BY <1>0, <1>7, WebhookCreateShape
  <2>5. PICK d, path : d = callDir[c] /\ path = callRoot[c] OBVIOUS
  <2>6. Inserts(c, d, "webhook", path, r) BY <2>4, <2>5
  <2>7. \A q \in RunIds : dirOf[q] = d /\ trig[q] = "webhook" => status[q] # "queued"
    BY <2>3, <2>5
  <2>8. CallTo(c, "start") /\ UNCHANGED callDir BY <2>1
  <2> QED BY <1>0, <2>2, <2>6, <2>7, <2>8, QueueOfInsert
<1>8. CASE WebhookActive(c)
  <2>1. callPc'[c] \in {"create idle", "queued", "idle", "merge"}
    BY <1>2, <1>3, <1>8 DEF WebhookActive, JoinRun
  <2> QED BY <1>0, <1>1, <2>1, QueueOfCall
<1>9. CASE WebhookQueued(c)
  <2>1. CASE callPc'[c] \in {"idle", "merge"}
    BY <1>0, <1>1, <2>1, QueueOfCall
  <2>2. CASE callPc'[c] \notin {"idle", "merge"}
    <3>1. /\ GetQueuedRun(callDir[c]) = 0
          /\ UNCHANGED <<callDir, rows>>
      BY <1>2, <1>3, <1>9, <2>2 DEF WebhookQueued, JoinRun
    <3>2. \A r \in ActiveRuns(callDir[c]) : status[r] # "queued"
      <4>1. 0 \notin ActiveRuns(callDir[c]) BY IdFacts DEF ActiveRuns
      <4> QED BY <3>1, <4>1, ActiveRunFacts
    <3>3. OneFollowUp' BY <3>1 DEF rows, QueueInv, OneFollowUp
    <3>4. FollowUp'
      <4>1. \A r \in RunIds : dirOf[r] = callDir[c] => status[r] # "queued"
        BY <3>2 DEF ActiveRuns, Active
      <4>2. \A p \in Procs : p # c => callPc'[p] = callPc[p] BY <1>1 DEF CallFrame, SameCall
      <4> QED BY <3>1, <4>1, <4>2 DEF rows, QueueInv, FollowUp
    <3> QED BY <3>3, <3>4
  <2> QED BY <2>1, <2>2
<1>10. CASE WebhookMerge(c) \/ WebhookRefused(c) \/ CancelQueuedRuns(c)
  <2>1. callPc'[c] = "idle"
    BY <1>3, <1>10 DEF WebhookMerge, WebhookRefused, CancelQueuedRuns
  <2> QED BY <1>0, <1>1, <2>1, QueueOfCall
<1>11. CASE CancelContext(c) \/ CancelWrite(c)
  <2>1. callPc'[c] \in {"write", "cancel queued", "idle"}
    BY <1>2, <1>3, <1>11 DEF CancelContext, CancelWrite
  <2> QED BY <1>0, <1>1, <2>1, QueueOfCall
<1> QED BY <1>4, <1>5, <1>6, <1>7, <1>8, <1>9, <1>10, <1>11 DEF Request, CallStep

LEMMA QueueStep == QueueInv /\ [Next]_vars => QueueInv'
<1> SUFFICES ASSUME QueueInv, [Next]_vars PROVE QueueInv' OBVIOUS
<1>1. Core' BY CoreStep DEF QueueInv
<1> SUFFICES OneFollowUp' /\ FollowUp' BY <1>1 DEF QueueInv
<1>2. CASE UNCHANGED vars BY <1>2, QueueOfQuiet DEF vars, rows, calls
<1>3. CASE Crash BY <1>3, QueueOfQuiet DEF Crash, rows
<1>4. CASE Start
  <2>1. /\ \A r \in RunIds : \/ status'[r] = status[r]
                             \/ status'[r] = "deleted" \/ status'[r] = "failed"
        /\ UNCHANGED <<dirOf, trig, calls>>
    BY <1>4, StartFacts DEF QueueInv, Core, Shape
  <2> QED BY <2>1, QueueOfQuiet DEF calls
<1>5. ASSUME NEW c \in Procs, StartRun(c) PROVE OneFollowUp' /\ FollowUp'
  <2>1. UNCHANGED rows /\ Return(c) BY <1>5 DEF StartRun
  <2>2. callPc'[c] = "idle" /\ \A q \in Procs : q # c => SameCall(q)
    BY <2>1, ReturnFacts DEF QueueInv, Core, Shape
  <2> QED BY <2>1, <2>2, QueueOfQuiet DEF rows, SameCall
<1>6. ASSUME NEW c \in Callers, Request(c) \/ CallStep(c) PROVE OneFollowUp' /\ FollowUp'
  BY <1>5, <1>6, QueueOfRequest, IdFacts
<1>7. ASSUME NEW t \in Triggers, NEW d \in Directories, TriggerScheduledScan(t, d)
      PROVE  OneFollowUp' /\ FollowUp'
  <2>1. PICK r \in RunIds : Inserts(t, d, "scheduled", None, r)
    BY <1>7, CreateRunInserts DEF TriggerScheduledScan, CreateRunIfNoActive, QueueInv, Core, Shape
  <2> QED BY <1>7, <2>1, QueueOfInsert, IdFacts DEF TriggerScheduledScan
<1>8. ASSUME NEW t \in Triggers, JitterOver(t) PROVE OneFollowUp' /\ FollowUp'
  <2>1. CallFrame(t) BY <1>8, FrameOfTrigger DEF QueueInv, Core
  <2>2. UNCHANGED rows /\ callPc'[t] \in {"start", "idle"}
    BY <1>8, IdFacts DEF JitterOver, CallTo, Return, QueueInv, Core, Shape, CallTypes
  <2> QED BY <2>1, <2>2, QueueOfQuiet DEF rows, CallFrame, SameCall
<1>9. ASSUME NEW r \in RunIds, RunStep(r) \/ Inject(r) \/ AcquireRunSlot(r) \/ Advance(r)
      PROVE  OneFollowUp' /\ FollowUp'
  <2>1. RunFrame(r) BY <1>9, FrameOfRun DEF QueueInv, Core
  <2>2. \A q \in RunIds : status'[q] = "queued" => status[q] = "queued"
    BY <2>1 DEF RunFrame, RowAdvances, SameRun, Ended
  <2> QED BY <2>1, <2>2, QueueOfQuiet DEF RunFrame, calls
<1> QED BY <1>2, <1>3, <1>4, <1>5, <1>6, <1>7, <1>8, <1>9, IdFacts DEF Next, Serve

(* A burst of webhooks costs a directory one run in the queue: the lookup   *)
(* of a queued run and the creation of a follow-up are two calls of the     *)
(* store, and the webhook lock keeps them together.                         *)
THEOREM FollowUpsAreSingle == Spec => []OneFollowUp
<1>1. Init => QueueInv
  <2> SUFFICES ASSUME Init PROVE QueueInv OBVIOUS
  <2>1. Core BY CoreInit
  <2> QED BY <2>1 DEF Init, QueueInv, OneFollowUp, FollowUp
<1>2. QueueInv /\ [Next]_vars => QueueInv' BY QueueStep
<1> QED BY <1>1, <1>2, PTL DEF Spec, QueueInv

-----------------------------------------------------------------------------
(* Promises.  Before a run begins, what its row says covers the paths that  *)
(* were promised; afterwards, what it has read.                             *)

Scope(r) == IF used[r] = None THEN Base(r) ELSE used[r]
Promises == \A r \in RunIds : \A p \in owed[r] : Within(Scope(r), p)

(* A run that has read its root is not in the queue any more. *)
Reading ==
    \A r \in RunIds :
       /\ used[r] # None => status[r] \notin {"queued", "none"}
       /\ pc[r] \in {"none", "check", "slot", "advance", "reload", "exit"} => used[r] = None

PromiseInv == Core /\ Promises /\ Reading

LEMMA ReadingOfCall ==
    ASSUME PromiseInv, NEW c \in Procs, CallFrame(c)
    PROVE  Reading'
<1>1. \A r \in RunIds : RowStep(c, r) BY DEF CallFrame
<1>2. \A r \in RunIds : used[r] # None => status'[r] \notin {"queued", "none"}
  BY <1>1 DEF PromiseInv, Reading, RowStep
<1> QED BY <1>2 DEF CallFrame, PromiseInv, Reading

LEMMA PromisesKept ==
    ASSUME PromiseInv, UNCHANGED <<owed, used, root, dirOf>>
    PROVE  Promises'
<1>1. \A r \in RunIds : Scope(r)' = Scope(r) BY DEF Scope, Base
<1> QED BY <1>1 DEF PromiseInv, Promises, Within

LEMMA PromisesOfInsert ==
    ASSUME PromiseInv, NEW c, NEW d \in Directories, NEW t, NEW path \in Paths \cup {None},
           NEW r \in RunIds, Inserts(c, d, t, path, r), UNCHANGED used
    PROVE  Promises'
<1>1. \A q \in RunIds : q # r => /\ Scope(q)' = Scope(q) /\ owed'[q] = owed[q]
  BY DEF Inserts, Scope, Base, PromiseInv, Core, Shape, RowTypes, WorkTypes
<1>2. used[r] = None BY DEF Inserts, PromiseInv, Reading
<1>3. /\ owed'[r] = IF path = None THEN {} ELSE {path}
      /\ root'[r] = path
  BY DEF Inserts, PromiseInv, Core, Shape, RowTypes, WorkTypes
<1>4. \A p \in owed'[r] : Within(Scope(r)', p)
  BY <1>2, <1>3, WithinFacts DEF Scope, Base
<1>5. \A q \in RunIds : \A p \in owed'[q] : Within(Scope(q)', p)
  BY <1>1, <1>4 DEF PromiseInv, Promises
<1> QED BY <1>5 DEF Promises, Within

LEMMA PromisesOfJoin ==
    ASSUME PromiseInv, NEW c \in Procs, callPc[c] \in {"active", "queued"},
           NEW r \in ActiveRuns(callDir[c]), status[r] = "queued", JoinRun(c, r),
           UNCHANGED <<used, root, dirOf>>
    PROVE  Promises'
<1> DEFINE merged == MergeWebhookScanRoots(callDir[c], root[r], callRoot[c])
<1>1. /\ r \in RunIds /\ dirOf[r] = callDir[c]
      /\ callDir[c] \in Directories /\ callRoot[c] \in Paths
      /\ Within(DirPath[callDir[c]], callRoot[c])
  BY DEF ActiveRuns, PromiseInv, Core, Shape, CallArgs, Webhooks
<1>2. merged \in Paths /\ Within(merged, callRoot[c])
  <2>1. root[r] \in Paths \cup {None} BY <1>1 DEF PromiseInv, Core, Shape, RowTypes
  <2>2. Within(DirPath[callDir[c]], IF root[r] = None THEN DirPath[callDir[c]] ELSE root[r])
    BY <1>1 DEF PromiseInv, Core, Shape, Born, Base
  <2> HIDE DEF merged
  <2> QED BY <1>1, <2>1, <2>2, MergeFacts DEF merged
<1> HIDE DEF merged
<1>3. \A q \in RunIds : Scope(q)' = Scope(q) BY DEF Scope, Base
<1>4. CASE merged = root[r] /\ owed' = [owed EXCEPT ![r] = @ \cup {callRoot[c]}]
  <2>1. Scope(r) = merged
    BY <1>1, <1>2, <1>4, IdFacts DEF PromiseInv, Reading, Scope, Base
  <2>2. \A q \in RunIds : \A p \in owed'[q] : p \in owed[q] \/ (q = r /\ p = callRoot[c])
    BY <1>1, <1>4 DEF PromiseInv, Core, Shape, WorkTypes
  <2>3. \A q \in RunIds : \A p \in owed'[q] : Within(Scope(q), p)
    BY <1>2, <2>1, <2>2 DEF PromiseInv, Promises
  <2> QED BY <1>3, <2>3 DEF Promises, Within
<1>5. CASE UNCHANGED owed BY <1>5, PromisesKept
<1> QED BY <1>4, <1>5 DEF JoinRun, merged

LEMMA PromisesOfMerge ==
    ASSUME PromiseInv, NEW c \in Procs, WebhookMerge(c)
    PROVE  Promises'
<1>0. callPc[c] = "merge" BY DEF WebhookMerge
<1>1. PICK r \in RunIds : callRun[c] = r BY <1>0 DEF PromiseInv, Core, Shape, CallArgs
<1>2. CASE UNCHANGED <<root, owed>>
  BY <1>2, PromisesKept DEF WebhookMerge, work
<1>3. CASE /\ root' = [root EXCEPT ![r] = callMerged[c]]
           /\ owed' = [owed EXCEPT ![r] = IF used[r] = None THEN @ \cup {callRoot[c]} ELSE @]
  <2>1. /\ UNCHANGED <<used, dirOf>> /\ callMerged[c] \in Paths /\ callRoot[c] \in Paths
        /\ Within(callMerged[c], callRoot[c]) /\ Within(callMerged[c], Base(r))
    BY <1>0, <1>1 DEF WebhookMerge, work, PromiseInv, Core, Shape, Merging, CallArgs, Webhooks
  <2>2. \A q \in RunIds : q # r => Scope(q)' = Scope(q) /\ owed'[q] = owed[q]
    BY <1>3, <2>1 DEF Scope, Base, PromiseInv, Core, Shape, RowTypes, WorkTypes
  <2>3. Base(r) \in Paths
    <3>1. status[r] # "none" BY <1>1 DEF PromiseInv, Core, Shape, Born
    <3>2. dirOf[r] \in Directories BY <3>1 DEF PromiseInv, Core, Shape, Born
    <3> QED BY <3>2, DirPathFacts DEF Base, PromiseInv, Core, Shape, RowTypes
  <2>4. \A p \in owed'[r] : Within(Scope(r)', p)
    <3>1. CASE used[r] = None
      <4>1. Scope(r)' = callMerged[c] /\ Scope(r) = Base(r)
        BY <1>3, <2>1, <3>1, IdFacts DEF Scope, Base, PromiseInv, Core, Shape, RowTypes
      <4>2. owed'[r] = owed[r] \cup {callRoot[c]} /\ owed[r] \in SUBSET Paths
        BY <1>3, <3>1 DEF PromiseInv, Core, Shape, WorkTypes
      <4>3. \A p \in owed[r] : Within(Base(r), p) BY <4>1 DEF PromiseInv, Promises
      <4>4. \A p \in owed[r] : Within(callMerged[c], p)
        BY <2>1, <2>3, <4>2, <4>3, WithinFacts
      <4> QED BY <2>1, <4>1, <4>2, <4>4
    <3>2. CASE used[r] # None
      <4>1. Scope(r)' = Scope(r) BY <2>1, <3>2 DEF Scope
      <4>2. owed'[r] = owed[r] BY <1>3, <3>2 DEF PromiseInv, Core, Shape, WorkTypes
      <4> QED BY <4>1, <4>2 DEF PromiseInv, Promises
    <3> QED BY <3>1, <3>2
  <2>5. \A q \in RunIds : \A p \in owed'[q] : Within(Scope(q)', p)
    BY <2>2, <2>4 DEF PromiseInv, Promises
  <2> QED BY <2>5 DEF Promises, Within
<1> QED BY <1>1, <1>2, <1>3 DEF WebhookMerge

LEMMA PromisesOfRun ==
    ASSUME PromiseInv, NEW r \in RunIds, RunFrame(r)
    PROVE  Promises' /\ Reading'
<1>1. /\ \A q \in RunIds : q # r => SameRun(q)
      /\ \A q \in RunIds : Base(q)' = Base(q)
  BY DEF RunFrame, Base
<1>2. \A q \in RunIds : q # r => Scope(q)' = Scope(q) /\ owed'[q] = owed[q]
  BY <1>1 DEF Scope, SameRun
<1>3. Base(r) \in Paths /\ status[r] # "none"
  <2>1. pc[r] # "none" BY DEF RunFrame, RunMoves, Busy
  <2>2. dirOf[r] \in Directories /\ status[r] # "none" BY <2>1 DEF PromiseInv, Core, Shape, Born
  <2> QED BY <2>2, DirPathFacts DEF Base, PromiseInv, Core, Shape, RowTypes
<1>4. \/ owed'[r] = {} /\ used'[r] = None
      \/ owed'[r] = owed[r] /\ used'[r] = used[r]
      \/ owed'[r] = owed[r] /\ pc[r] = "reload" /\ pc'[r] = "scan" /\ used'[r] = Base(r)
  BY DEF RunFrame, RunMoves, PromiseInv, Core, Shape, WorkTypes
<1>5. \A p \in owed'[r] : Within(Scope(r)', p)
  <2>1. CASE owed'[r] = {} BY <2>1
  <2>2. CASE owed'[r] = owed[r] /\ used'[r] = used[r]
    <3>1. Scope(r)' = Scope(r) BY <1>1, <2>2 DEF Scope
    <3> QED BY <2>2, <3>1 DEF PromiseInv, Promises
  <2>3. CASE owed'[r] = owed[r] /\ pc[r] = "reload" /\ used'[r] = Base(r)
    <3>1. Scope(r)' = Base(r) /\ Scope(r) = Base(r)
      BY <1>3, <2>3, IdFacts DEF Scope, PromiseInv, Reading
    <3> QED BY <2>3, <3>1 DEF PromiseInv, Promises
  <2> QED BY <1>4, <2>1, <2>2, <2>3
<1>6. Promises'
  <2>1. \A q \in RunIds : \A p \in owed'[q] : Within(Scope(q)', p)
    BY <1>2, <1>5 DEF PromiseInv, Promises
  <2> QED BY <2>1 DEF Promises, Within
<1>7. Reading'
  <2>1. used'[r] # None => status'[r] \notin {"queued", "none"}
    <3>1. used'[r] # None => status[r] \notin {"queued", "none"}
      <4>1. pc[r] = "reload" => status[r] # "queued"
        BY DEF PromiseInv, Core, Works, Busy
      <4> QED BY <1>3, <1>4, <4>1 DEF PromiseInv, Reading
    <3> QED BY <3>1 DEF RunFrame, RowAdvances, Ended
  <2>2. pc'[r] \in {"none", "check", "slot", "advance", "reload", "exit"} => used'[r] = None
    BY DEF RunFrame, RunMoves, PromiseInv, Reading
  <2> QED BY <1>1, <2>1, <2>2 DEF PromiseInv, Reading, SameRun
<1> QED BY <1>6, <1>7

LEMMA PromisesOfRequest ==
    ASSUME PromiseInv, NEW c \in Callers, Request(c) \/ (CallStep(c) /\ ~StartRun(c))
    PROVE  Promises'
<1>0. c \in Procs /\ Shape BY IdFacts DEF PromiseInv, Core
<1>1. ASSUME NEW d \in Directories, StartManualScan(c, d) PROVE Promises'
  <2>1. PICK r \in RunIds : Inserts(c, d, "manual", None, r)
    BY <1>1, CreateRunInserts DEF StartManualScan, CreateRunIfNoActive, PromiseInv, Core, Shape
  <2> QED BY <1>1, <2>1, PromisesOfInsert DEF StartManualScan, work
<1>2. ASSUME NEW d \in Directories,
             CancelScan(c, d) \/ \E p \in Paths : LockWebhook(c, d, p)
      PROVE  Promises'
  BY <1>2, PromisesKept DEF CancelScan, LockWebhook, rows, work, history
<1>3. CASE WebhookCreate(c)
  <2>1. PICK r \in RunIds : Inserts(c, callDir[c], "webhook", callRoot[c], r)
    BY <1>0, <1>3, WebhookCreateShape
  <2>2. PICK d, path : d = callDir[c] /\ path = callRoot[c] OBVIOUS
  <2>3. Inserts(c, d, "webhook", path, r) BY <2>1, <2>2
  <2>4. d \in Directories /\ path \in Paths
    BY <1>0, <1>3, <2>2 DEF WebhookCreate, Shape, CallArgs, Webhooks
  <2>5. UNCHANGED used BY <1>3 DEF WebhookCreate, work
  <2> QED BY <2>3, <2>4, <2>5, PromisesOfInsert
<1>4. CASE WebhookActive(c)
  <2>1. callPc[c] = "active" /\ UNCHANGED <<used, root, dirOf>>
    BY <1>4 DEF WebhookActive, rows, work
  <2>2. CASE UNCHANGED owed BY <2>1, <2>2, PromisesKept
  <2>3. ASSUME NEW r, r = GetActiveRun(callDir[c]), r # 0, status[r] = "queued", JoinRun(c, r)
        PROVE  Promises'
    <3>1. r \in ActiveRuns(callDir[c]) BY <2>3, ActiveRunFacts
    <3> QED BY <1>0, <2>1, <2>3, <3>1, PromisesOfJoin
  <2> QED BY <1>4, <2>2, <2>3 DEF WebhookActive
<1>5. CASE WebhookQueued(c)
  <2>1. callPc[c] = "queued" /\ UNCHANGED <<used, root, dirOf>>
    BY <1>5 DEF WebhookQueued, rows, work
  <2>2. CASE UNCHANGED owed BY <2>1, <2>2, PromisesKept
  <2>3. ASSUME NEW r, r = GetQueuedRun(callDir[c]), r # 0, JoinRun(c, r)
        PROVE  Promises'
    <3>1. r \in ActiveRuns(callDir[c]) /\ status[r] = "queued" BY <2>3, ActiveRunFacts
    <3> QED BY <1>0, <2>1, <2>3, <3>1, PromisesOfJoin
  <2> QED BY <1>5, <2>2, <2>3 DEF WebhookQueued
<1>6. CASE WebhookMerge(c) BY <1>0, <1>6, PromisesOfMerge
<1>7. CASE WebhookRefused(c) \/ CancelContext(c) \/ CancelWrite(c) \/ CancelQueuedRuns(c)
  <2>1. UNCHANGED <<owed, used, root, dirOf>>
    BY <1>7 DEF WebhookRefused, CancelContext, CancelWrite, CancelQueuedRuns, Settle, rows, work, history
  <2> QED BY <2>1, PromisesKept
<1> QED BY <1>1, <1>2, <1>3, <1>4, <1>5, <1>6, <1>7 DEF Request, CallStep

LEMMA PromiseStep == PromiseInv /\ [Next]_vars => PromiseInv'
<1> SUFFICES ASSUME PromiseInv, [Next]_vars PROVE PromiseInv' OBVIOUS
<1>1. Core' BY CoreStep DEF PromiseInv
<1> SUFFICES Promises' /\ Reading' BY <1>1 DEF PromiseInv
<1>2. CASE UNCHANGED vars
  BY <1>2, PromisesKept DEF vars, rows, work, history, PromiseInv, Reading
<1>3. CASE Crash
  <2>1. /\ used' = [r \in RunIds |-> None] /\ owed' = [r \in RunIds |-> {}]
    BY <1>3 DEF Crash
  <2> QED BY <2>1 DEF Promises, Reading
<1>4. CASE Start
  <2>1. /\ \A r \in RunIds : \/ status'[r] = status[r]
                             \/ status'[r] = "deleted" \/ status'[r] = "failed"
        /\ UNCHANGED <<dirOf, root, owed, used, pc>>
    BY <1>4, StartFacts DEF PromiseInv, Core, Shape, work
  <2> QED BY <2>1, PromisesKept DEF PromiseInv, Reading
<1>5. ASSUME NEW c \in Procs, StartRun(c) PROVE Promises' /\ Reading'
  <2>0. callPc[c] = "start" BY <1>5 DEF StartRun
  <2>1. PICK r \in RunIds : callRun[c] = r BY <2>0 DEF PromiseInv, Core, Shape, CallArgs
  <2>2. pc' = [pc EXCEPT ![r] = "check"] /\ UNCHANGED <<rows, used, history>>
    BY <1>5, <2>1 DEF StartRun
  <2>3. pc[r] = "none" BY <2>0, <2>1 DEF PromiseInv, Core, Starts, Starting
  <2>4. \A q \in RunIds : pc'[q] = pc[q] \/ (pc[q] = "none" /\ pc'[q] = "check")
    BY <2>2, <2>3 DEF PromiseInv, Core, Shape, WorkTypes
  <2>5. Reading' BY <2>2, <2>4 DEF PromiseInv, Reading, rows
  <2>6. Promises' BY <2>2, PromisesKept DEF rows, history
  <2> QED BY <2>5, <2>6
<1>6. ASSUME NEW c \in Callers, Request(c) \/ (CallStep(c) /\ ~StartRun(c))
      PROVE  Promises' /\ Reading'
  <2>1. CallFrame(c)
    BY <1>6, FrameOfRequest, FrameOfWebhook, FrameOfCancel, IdFacts DEF CallStep, PromiseInv, Core
  <2> QED BY <1>6, <2>1, PromisesOfRequest, ReadingOfCall, IdFacts
<1>7. ASSUME NEW t \in Triggers, NEW d \in Directories, TriggerScheduledScan(t, d)
      PROVE  Promises' /\ Reading'
  <2>1. PICK r \in RunIds : Inserts(t, d, "scheduled", None, r)
    BY <1>7, CreateRunInserts DEF TriggerScheduledScan, CreateRunIfNoActive, PromiseInv, Core, Shape
  <2>2. CallFrame(t) BY <1>7, FrameOfTrigger DEF PromiseInv, Core
  <2>3. UNCHANGED used BY <2>2 DEF CallFrame
  <2> QED BY <2>1, <2>2, <2>3, PromisesOfInsert, ReadingOfCall, IdFacts
<1>8. ASSUME NEW t \in Triggers, JitterOver(t) PROVE Promises' /\ Reading'
  <2>1. CallFrame(t) BY <1>8, FrameOfTrigger DEF PromiseInv, Core
  <2>2. UNCHANGED <<owed, used, root, dirOf>> BY <1>8 DEF JitterOver, rows, work
  <2> QED BY <2>1, <2>2, PromisesKept, ReadingOfCall, IdFacts
<1>9. ASSUME NEW r \in RunIds, RunStep(r) \/ Inject(r) \/ AcquireRunSlot(r) \/ Advance(r)
      PROVE  Promises' /\ Reading'
  <2>1. RunFrame(r) BY <1>9, FrameOfRun DEF PromiseInv, Core
  <2> QED BY <2>1, PromisesOfRun
<1> QED BY <1>2, <1>3, <1>4, <1>5, <1>6, <1>7, <1>8, <1>9, IdFacts DEF Next, Serve

(* No webhook is lost: a run that has begun scans every path that was       *)
(* accepted into it before, however webhooks, the writes of merged roots    *)
(* and the run's own progress interleave.  Rests on what the merge of two   *)
(* roots is (MergeFacts), on the webhook lock, which keeps the root that a  *)
(* webhook has read from changing before it writes (Merging), and on the    *)
(* run's reading its row again after it has left the queue (Reading).       *)
THEOREM WebhooksAreCovered == Spec => []WebhookCovered
<1>1. Init => PromiseInv
  <2> SUFFICES ASSUME Init PROVE PromiseInv OBVIOUS
  <2>1. Core BY CoreInit
  <2> QED BY <2>1 DEF Init, PromiseInv, Promises, Reading
<1>2. PromiseInv /\ [Next]_vars => PromiseInv' BY PromiseStep
<1>3. PromiseInv => WebhookCovered BY DEF PromiseInv, Promises, Scope, WebhookCovered
<1> QED BY <1>1, <1>2, <1>3, PTL DEF Spec
=============================================================================
