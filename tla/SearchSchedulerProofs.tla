------------------------ MODULE SearchSchedulerProofs ------------------------
(***************************************************************************)
(* SearchScheduler for every finite set of searches and indexers, any      *)
(* priorities, intervals, budgets and capacities: its types, exact RSS     *)
(* entries, exclusive workers, spaced requests, and callbacks that come    *)
(* once and last.                                                          *)
(*                                                                         *)
(* Most of this follows the life of a task and so needs Shape: tasks are   *)
(* in known states, and what dispatchTasks holds is still queued (the loop *)
(* is the only goroutine that takes a task out of the queue).              *)
(***************************************************************************)
EXTENDS SearchScheduler, FiniteSetTheorems, WellFoundedInduction, TLAPS

States == Live \cup {"none", "skipped", "dropped", "releasing", "done"}

Shape ==
    /\ task \in [Tasks -> States]
    /\ pendingRSS \subseteq Indexers
    /\ inFlight \subseteq Indexers
    /\ workerPool \in Int
    /\ \A t \in held : t \in Tasks /\ task[t] = "queued"

\* The two halves of RSSEntriesExact.
LiveRSS(t) == t[1] \in RSS /\ task[t] \in Live

EveryEntryLive == \A i \in pendingRSS : \E t \in Tasks : t[2] = i /\ LiveRSS(t)

EveryLiveEntered ==
    \A t \in Tasks : LiveRSS(t) =>
        /\ t[2] \in pendingRSS
        /\ \A u \in Tasks : u[2] = t[2] /\ LiveRSS(u) => u = t

RSSInv == EveryEntryLive /\ EveryLiveEntered

Busy(t) == task[t] \in OnWorker
Slots   == {t \in Tasks : task[t] \in HasSlot}

WorkerInv ==
    /\ \A t, u \in Tasks : Busy(t) /\ Busy(u) /\ t[2] = u[2] => t = u
    /\ \A t \in Tasks : Busy(t) => t[2] \in inFlight
    /\ \A i \in inFlight : \E t \in Tasks : t[2] = i /\ Busy(t)

PoolInv ==
    /\ workerPool = Cardinality(Slots)
    /\ workerPool <= Workers

-----------------------------------------------------------------------------
(* Pairs of a job and an indexer. *)
LEMMA TaskParts == ASSUME NEW t \in Tasks PROVE t[1] \in Jobs /\ t[2] \in Indexers
BY DEF Tasks

LEMMA TaskPair == ASSUME NEW j \in Jobs, NEW i \in Indexers
                  PROVE  <<j, i>> \in Tasks /\ <<j, i>>[1] = j /\ <<j, i>>[2] = i
BY DEF Tasks

LEMMA TasksFinite == IsFiniteSet(Tasks)
BY FS_Product, ShapeAssumption DEF Tasks

-----------------------------------------------------------------------------
(* Every step keeps the tasks in known states and what dispatchTasks holds *)
(* in the queue.                                                           *)
LEMMA ShapeStep == Shape /\ [Next]_vars => Shape'
<1> SUFFICES ASSUME Shape, [Next]_vars PROVE Shape'
  OBVIOUS
<1> USE DEF Shape, States, Live, OnWorker
<1>1. ASSUME NEW j \in Jobs, SubmitStep(j) PROVE Shape'
  <2>1. CASE SubmitStart(j) BY <2>1 DEF SubmitStart, loopVars
  <2>2. ASSUME NEW i \in Indexers, SubmitIndexer(j, i) PROVE Shape'
    BY <2>2, TaskPair DEF SubmitIndexer, loopVars
  <2>3. CASE SubmitRegister(j) BY <2>3 DEF SubmitRegister, loopVars
  <2>4. CASE SubmitSend(j) BY <2>4 DEF SubmitSend, loopVars, TasksOf
  <2>5. CASE SubmitGiveUp(j) BY <2>5 DEF SubmitGiveUp, loopVars, TasksOf
  <2> QED BY <1>1, <2>1, <2>2, <2>3, <2>4, <2>5 DEF SubmitStep
<1>2. CASE LoopStep
  <2>1. CASE EnqueueTasks BY <2>1 DEF EnqueueTasks, TasksOf
  <2>2. CASE DispatchStart BY <2>2 DEF DispatchStart, Queued
  <2>3. ASSUME NEW t \in Tasks, DispatchSkip(t) PROVE Shape'
    BY <2>3 DEF DispatchSkip, Foremost, Classified, CompleteTask
  <2>4. ASSUME NEW t \in Tasks, DispatchBlock(t) PROVE Shape'
    BY <2>4 DEF DispatchBlock, Classified
  <2>5. ASSUME NEW t \in Tasks, DispatchLaunch(t) PROVE Shape'
    BY <2>5, TaskParts DEF DispatchLaunch, Foremost, Classified
  <2>6. CASE ScheduleRetryTimer BY <2>6 DEF ScheduleRetryTimer
  <2> QED BY <1>2, <2>1, <2>2, <2>3, <2>4, <2>5, <2>6 DEF LoopStep
<1>3. CASE Stop BY <1>3 DEF Stop
<1>4. ASSUME NEW t \in Tasks, WorkerStep(t) PROVE Shape'
  <2>1. CASE ExecuteStart(t) BY <2>1 DEF ExecuteStart, WorkerTo, loopVars
  <2>2. CASE ExecuteReturn(t) BY <2>2 DEF ExecuteReturn, WorkerTo, loopVars
  <2>3. CASE ExecuteComplete(t)
    BY <2>3 DEF ExecuteComplete, WorkerTo, CompleteTask, loopVars
  <2>4. CASE ExecuteRelease(t) BY <2>4 DEF ExecuteRelease, WorkerTo, loopVars
  <2> QED BY <1>4, <2>1, <2>2, <2>3, <2>4 DEF WorkerStep
<1>5. ASSUME NEW t \in Tasks, ExecReturn(t) PROVE Shape'
  BY <1>5 DEF ExecReturn, loopVars
<1>6. ASSUME NEW t \in Tasks, OnComplete(t) PROVE Shape'
  BY <1>6 DEF OnComplete, loopVars
<1>7. ASSUME NEW j \in Jobs, OnJobDone(j) PROVE Shape'
  BY <1>7 DEF OnJobDone, loopVars
<1>8. CASE Tick BY <1>8 DEF Tick, loopVars
<1>9. CASE RetryTimerFires BY <1>9 DEF RetryTimerFires, loopVars
<1>10. ASSUME NEW j \in Jobs, CancelContext(j) \/ DeadlinePasses(j) PROVE Shape'
  BY <1>10 DEF CancelContext, DeadlinePasses, loopVars
<1>11. ASSUME NEW t \in Tasks, FreshDeadlinePasses(t) PROVE Shape'
  BY <1>11 DEF FreshDeadlinePasses, loopVars
<1>12. ASSUME NEW i \in Indexers, WaitForMinInterval(i) PROVE Shape'
  BY <1>12 DEF WaitForMinInterval, loopVars
<1>13. CASE UNCHANGED vars BY <1>13 DEF vars, loopVars
<1> QED
  BY <1>1, <1>2, <1>3, <1>4, <1>5, <1>6, <1>7, <1>8, <1>9, <1>10, <1>11,
     <1>12, <1>13 DEF Next

-----------------------------------------------------------------------------
(* The steps that touch neither the tasks nor the tables keyed by indexer. *)
Quiet == UNCHANGED <<task, pendingRSS, inFlight, workerPool>>

(* Every step is one of ten that move a task, or quiet. *)
LEMMA Moves ==
    ASSUME [Next]_vars
    PROVE  \/ \E j \in Jobs : \/ \E i \in Indexers : SubmitIndexer(j, i)
                              \/ SubmitSend(j) \/ SubmitGiveUp(j)
           \/ EnqueueTasks
           \/ \E t \in Tasks : \/ DispatchSkip(t) \/ DispatchLaunch(t)
                               \/ ExecuteStart(t) \/ ExecuteReturn(t)
                               \/ ExecuteComplete(t) \/ ExecuteRelease(t)
           \/ Quiet
<1>1. ASSUME NEW j \in Jobs, SubmitStart(j) \/ SubmitRegister(j) PROVE Quiet
  BY <1>1 DEF SubmitStart, SubmitRegister, Quiet
<1>2. CASE DispatchStart \/ ScheduleRetryTimer \/ Stop
  BY <1>2 DEF DispatchStart, ScheduleRetryTimer, Stop, Quiet
<1>3. ASSUME NEW t \in Tasks, DispatchBlock(t) \/ ExecReturn(t) \/ OnComplete(t)
                                \/ FreshDeadlinePasses(t)
      PROVE  Quiet
  BY <1>3 DEF DispatchBlock, ExecReturn, OnComplete, FreshDeadlinePasses, Quiet
<1>4. ASSUME NEW j \in Jobs, OnJobDone(j) \/ CancelContext(j) \/ DeadlinePasses(j)
      PROVE  Quiet
  BY <1>4 DEF OnJobDone, CancelContext, DeadlinePasses, Quiet
<1>5. CASE Tick \/ RetryTimerFires BY <1>5 DEF Tick, RetryTimerFires, Quiet
<1>6. ASSUME NEW i \in Indexers, WaitForMinInterval(i) PROVE Quiet
  BY <1>6 DEF WaitForMinInterval, Quiet
<1>7. CASE UNCHANGED vars BY <1>7 DEF vars, Quiet
<1> QED
  BY <1>1, <1>2, <1>3, <1>4, <1>5, <1>6, <1>7
  DEF Next, SubmitStep, LoopStep, WorkerStep

-----------------------------------------------------------------------------
(* A task that ends takes its dedup entry with it: no other live RSS task  *)
(* shares the entry, so the other entries are untouched.                   *)
LEMMA EndKeepsRSS ==
    ASSUME Shape, RSSInv, NEW t \in Tasks, task[t] \in Live,
           NEW s \in States \ Live, task' = [task EXCEPT ![t] = s],
           pendingRSS' = IF t[1] \in RSS THEN pendingRSS \ {t[2]} ELSE pendingRSS
    PROVE  RSSInv'
<1>1. \A u \in Tasks : u # t => task'[u] = task[u]
  BY DEF Shape
<1>2. task'[t] \notin Live
  BY DEF Shape
<1>3. EveryLiveEntered'
  BY <1>1, <1>2 DEF RSSInv, EveryLiveEntered, LiveRSS
<1>4. EveryEntryLive'
  <2> SUFFICES ASSUME NEW i \in pendingRSS' PROVE \E u \in Tasks : u[2] = i /\ LiveRSS(u)'
    BY DEF EveryEntryLive
  <2>1. i \in pendingRSS OBVIOUS
  <2>2. PICK u \in Tasks : u[2] = i /\ LiveRSS(u)
    BY <2>1 DEF RSSInv, EveryEntryLive
  <2>3. u # t
    BY <2>2 DEF LiveRSS
  <2> QED BY <1>1, <2>2, <2>3 DEF LiveRSS
<1> QED BY <1>3, <1>4 DEF RSSInv

(* A task that moves on while alive keeps every entry as it is. *)
LEMMA MoveKeepsRSS ==
    ASSUME Shape, RSSInv, task' \in [Tasks -> States], pendingRSS' = pendingRSS,
           \A t \in Tasks : task'[t] \in Live <=> task[t] \in Live
    PROVE  RSSInv'
BY DEF RSSInv, EveryLiveEntered, EveryEntryLive, LiveRSS

(* Every step keeps pendingRSS exact. *)
LEMMA RSSStep == Shape /\ RSSInv /\ [Next]_vars => RSSInv'
<1> SUFFICES ASSUME Shape, RSSInv, [Next]_vars PROVE RSSInv'
  OBVIOUS
<1>0. task' \in [Tasks -> States]
  BY ShapeStep DEF Shape
<1>1. ASSUME NEW j \in Jobs, NEW i \in Indexers, SubmitIndexer(j, i) PROVE RSSInv'
  <2> DEFINE n == <<j, i>>
  <2>0. n \in Tasks /\ n[1] = j /\ n[2] = i BY TaskPair
  <2> HIDE DEF n
  <2>1. task[n] = "none" /\ (\A u \in Tasks : u # n => task'[u] = task[u])
    BY <1>1, <2>0 DEF SubmitIndexer, Shape, n
  <2>2. CASE task'[n] \notin Live \/ j \notin RSS
    <3>1. pendingRSS' = pendingRSS
      BY <1>1, <2>0, <2>2 DEF SubmitIndexer, Shape, Live, n
    <3>2. \A u \in Tasks : LiveRSS(u)' <=> LiveRSS(u)
      BY <2>0, <2>1, <2>2 DEF LiveRSS, Live, OnWorker
    <3> QED BY <3>1, <3>2 DEF RSSInv, EveryLiveEntered, EveryEntryLive
  <2>3. CASE task'[n] \in Live /\ j \in RSS
    <3>1. i \notin pendingRSS /\ pendingRSS' = pendingRSS \cup {i}
      BY <1>1, <2>0, <2>3 DEF SubmitIndexer, Shape, Live, OnWorker, n
    <3>2. \A u \in Tasks : LiveRSS(u)' <=> LiveRSS(u) \/ u = n
      BY <2>0, <2>1, <2>3 DEF LiveRSS
    <3>3. \A u \in Tasks : LiveRSS(u) => u[2] # i
      BY <3>1 DEF RSSInv, EveryLiveEntered
    <3>4. EveryLiveEntered'
      BY <2>0, <3>1, <3>2, <3>3 DEF RSSInv, EveryLiveEntered
    <3>5. EveryEntryLive'
      BY <2>0, <3>1, <3>2 DEF RSSInv, EveryEntryLive
    <3> QED BY <3>4, <3>5 DEF RSSInv
  <2> QED BY <2>2, <2>3
<1>2. ASSUME NEW j \in Jobs, SubmitSend(j) PROVE RSSInv'
  <2>1. pendingRSS' = pendingRSS BY <1>2 DEF SubmitSend
  <2>2. \A t \in Tasks : task'[t] \in Live <=> task[t] \in Live
    BY <1>2 DEF SubmitSend, TasksOf, Live
  <2> QED BY <1>0, <2>1, <2>2, MoveKeepsRSS
<1>3. ASSUME NEW j \in Jobs, SubmitGiveUp(j) PROVE RSSInv'
  <2>1. \A t \in Tasks : task'[t] \in Live <=> task[t] \in Live /\ t \notin TasksOf(j, "listed")
    BY <1>3 DEF SubmitGiveUp, TasksOf, Live, OnWorker
  <2>2. \A t \in TasksOf(j, "listed") : t \in Tasks /\ t[1] = j /\ task[t] \in Live
    BY DEF TasksOf, Live
  <2>3. CASE j \notin RSS
    <3>1. pendingRSS' = pendingRSS BY <1>3, <2>3 DEF SubmitGiveUp
    <3>2. \A t \in Tasks : LiveRSS(t)' <=> LiveRSS(t)
      BY <2>1, <2>2, <2>3 DEF LiveRSS
    <3> QED BY <3>1, <3>2 DEF RSSInv, EveryLiveEntered, EveryEntryLive
  <2>4. CASE j \in RSS
    <3>1. \A i \in Indexers : i \in pendingRSS' <=>
                /\ i \in pendingRSS
                /\ \A t \in TasksOf(j, "listed") : t[2] # i
      BY <1>3, <2>4 DEF SubmitGiveUp
    <3>2. \A t \in Tasks : LiveRSS(t)' <=> LiveRSS(t) /\ t \notin TasksOf(j, "listed")
      BY <2>1 DEF LiveRSS
    <3>3. pendingRSS' \subseteq pendingRSS /\ pendingRSS \subseteq Indexers
      BY <1>3 DEF SubmitGiveUp, Shape
    <3>4. \A t \in TasksOf(j, "listed") : t \in Tasks /\ LiveRSS(t)
      BY <2>2, <2>4 DEF LiveRSS
    <3>5. EveryLiveEntered'
      BY <3>1, <3>2, <3>3, <3>4, TaskParts DEF RSSInv, EveryLiveEntered
    <3>6. EveryEntryLive'
      BY <3>1, <3>2, <3>3, TaskParts DEF RSSInv, EveryEntryLive
    <3> QED BY <3>5, <3>6 DEF RSSInv
  <2> QED BY <2>3, <2>4
<1>4. CASE EnqueueTasks
  <2>1. pendingRSS' = pendingRSS BY <1>4 DEF EnqueueTasks
  <2>2. \A t \in Tasks : task'[t] \in Live <=> task[t] \in Live
    BY <1>4 DEF EnqueueTasks, TasksOf, Live
  <2> QED BY <1>0, <2>1, <2>2, MoveKeepsRSS
<1>5. ASSUME NEW t \in Tasks, DispatchSkip(t) PROVE RSSInv'
  <2>1. task[t] \in Live
    BY <1>5 DEF DispatchSkip, Foremost, Shape, Live
  <2>2. "done" \in States \ Live
    BY DEF States, Live, OnWorker
  <2> QED BY <1>5, <2>1, <2>2, EndKeepsRSS DEF DispatchSkip, CompleteTask
<1>6. ASSUME NEW t \in Tasks, ExecuteComplete(t) PROVE RSSInv'
  <2>1. task[t] \in Live
    BY <1>6 DEF ExecuteComplete, Live, OnWorker
  <2>2. "releasing" \in States \ Live
    BY DEF States, Live, OnWorker
  <2> QED BY <1>6, <2>1, <2>2, EndKeepsRSS DEF ExecuteComplete, CompleteTask, WorkerTo
<1>7. ASSUME NEW t \in Tasks,
             DispatchLaunch(t) \/ ExecuteStart(t) \/ ExecuteReturn(t) \/ ExecuteRelease(t)
      PROVE  RSSInv'
  <2>1. pendingRSS' = pendingRSS
    BY <1>7 DEF DispatchLaunch, ExecuteStart, ExecuteReturn, ExecuteRelease
  <2>2. \A u \in Tasks : task'[u] \in Live <=> task[u] \in Live
    BY <1>7 DEF DispatchLaunch, Foremost, ExecuteStart, ExecuteReturn,
                ExecuteRelease, WorkerTo, Shape, Live, OnWorker
  <2> QED BY <1>0, <2>1, <2>2, MoveKeepsRSS
<1>8. CASE Quiet
  BY <1>0, <1>8, MoveKeepsRSS DEF Quiet
<1> QED
  BY <1>1, <1>2, <1>3, <1>4, <1>5, <1>6, <1>7, <1>8, Moves

-----------------------------------------------------------------------------
(* Every step keeps inFlight and the busy workers in one-to-one           *)
(* correspondence.                                                         *)
LEMMA WorkerKeeps == Shape /\ WorkerInv /\ [Next]_vars => WorkerInv'
<1> SUFFICES ASSUME Shape, WorkerInv, [Next]_vars PROVE WorkerInv'
  OBVIOUS
<1>0. ASSUME inFlight' = inFlight, \A t \in Tasks : Busy(t)' <=> Busy(t)
      PROVE  WorkerInv'
  BY <1>0 DEF WorkerInv
<1>1. ASSUME NEW j \in Jobs, NEW i \in Indexers, SubmitIndexer(j, i) PROVE WorkerInv'
  <2>1. inFlight' = inFlight BY <1>1 DEF SubmitIndexer
  <2>2. \A t \in Tasks : Busy(t)' <=> Busy(t)
    BY <1>1, TaskPair DEF SubmitIndexer, Shape, Busy, OnWorker
  <2> QED BY <1>0, <2>1, <2>2
<1>2. ASSUME NEW j \in Jobs, SubmitSend(j) \/ SubmitGiveUp(j) PROVE WorkerInv'
  <2>1. inFlight' = inFlight BY <1>2 DEF SubmitSend, SubmitGiveUp
  <2>2. \A t \in Tasks : Busy(t)' <=> Busy(t)
    BY <1>2 DEF SubmitSend, SubmitGiveUp, TasksOf, Busy, OnWorker
  <2> QED BY <1>0, <2>1, <2>2
<1>3. CASE EnqueueTasks
  <2>1. inFlight' = inFlight BY <1>3 DEF EnqueueTasks
  <2>2. \A t \in Tasks : Busy(t)' <=> Busy(t)
    BY <1>3 DEF EnqueueTasks, TasksOf, Busy, OnWorker
  <2> QED BY <1>0, <2>1, <2>2
<1>4. ASSUME NEW t \in Tasks,
             DispatchSkip(t) \/ ExecuteStart(t) \/ ExecuteReturn(t) \/ ExecuteRelease(t)
      PROVE  WorkerInv'
  <2>1. inFlight' = inFlight
    BY <1>4 DEF DispatchSkip, ExecuteStart, ExecuteReturn, ExecuteRelease
  <2>2. \A u \in Tasks : Busy(u)' <=> Busy(u)
    BY <1>4 DEF DispatchSkip, Foremost, ExecuteStart, ExecuteReturn,
                ExecuteRelease, WorkerTo, Shape, Busy, OnWorker
  <2> QED BY <1>0, <2>1, <2>2
<1>5. ASSUME NEW t \in Tasks, DispatchLaunch(t) PROVE WorkerInv'
  <2>1. t[2] \notin inFlight /\ inFlight' = inFlight \cup {t[2]}
    BY <1>5 DEF DispatchLaunch
  <2>2. \A u \in Tasks : Busy(u)' <=> Busy(u) \/ u = t
    BY <1>5 DEF DispatchLaunch, Shape, Busy, OnWorker
  <2> QED BY <2>1, <2>2 DEF WorkerInv
<1>6. ASSUME NEW t \in Tasks, ExecuteComplete(t) PROVE WorkerInv'
  <2>1. Busy(t) /\ inFlight' = inFlight \ {t[2]}
    BY <1>6 DEF ExecuteComplete, Busy, OnWorker
  <2>2. \A u \in Tasks : Busy(u)' <=> Busy(u) /\ u # t
    BY <1>6 DEF ExecuteComplete, WorkerTo, Shape, Busy, OnWorker
  <2> QED BY <2>1, <2>2 DEF WorkerInv
<1>7. CASE Quiet
  BY <1>0, <1>7 DEF Quiet, Busy
<1> QED
  BY <1>1, <1>2, <1>3, <1>4, <1>5, <1>6, <1>7, Moves

(* Every step keeps the pool's counter equal to the slots held. *)
LEMMA PoolKeeps == Shape /\ PoolInv /\ [Next]_vars => PoolInv'
<1> SUFFICES ASSUME Shape, PoolInv, [Next]_vars PROVE PoolInv'
  OBVIOUS
<1>0. ASSUME workerPool' = workerPool,
             \A t \in Tasks : task'[t] \in HasSlot <=> task[t] \in HasSlot
      PROVE  PoolInv'
  <2>1. Slots' = Slots BY <1>0 DEF Slots
  <2> QED BY <1>0, <2>1 DEF PoolInv
<1>f. IsFiniteSet(Slots)
  BY TasksFinite, FS_Subset DEF Slots
<1>1. ASSUME NEW j \in Jobs, NEW i \in Indexers, SubmitIndexer(j, i) PROVE PoolInv'
  <2>1. workerPool' = workerPool BY <1>1 DEF SubmitIndexer
  <2>2. \A t \in Tasks : task'[t] \in HasSlot <=> task[t] \in HasSlot
    BY <1>1, TaskPair DEF SubmitIndexer, Shape, HasSlot, OnWorker
  <2> QED BY <1>0, <2>1, <2>2
<1>2. ASSUME NEW j \in Jobs, SubmitSend(j) \/ SubmitGiveUp(j) PROVE PoolInv'
  <2>1. workerPool' = workerPool BY <1>2 DEF SubmitSend, SubmitGiveUp
  <2>2. \A t \in Tasks : task'[t] \in HasSlot <=> task[t] \in HasSlot
    BY <1>2 DEF SubmitSend, SubmitGiveUp, TasksOf, HasSlot, OnWorker
  <2> QED BY <1>0, <2>1, <2>2
<1>3. CASE EnqueueTasks
  <2>1. workerPool' = workerPool BY <1>3 DEF EnqueueTasks
  <2>2. \A t \in Tasks : task'[t] \in HasSlot <=> task[t] \in HasSlot
    BY <1>3 DEF EnqueueTasks, TasksOf, HasSlot, OnWorker
  <2> QED BY <1>0, <2>1, <2>2
<1>4. ASSUME NEW t \in Tasks,
             DispatchSkip(t) \/ ExecuteStart(t) \/ ExecuteReturn(t) \/ ExecuteComplete(t)
      PROVE  PoolInv'
  <2>1. workerPool' = workerPool
    BY <1>4 DEF DispatchSkip, ExecuteStart, ExecuteReturn, ExecuteComplete
  <2>2. \A u \in Tasks : task'[u] \in HasSlot <=> task[u] \in HasSlot
    BY <1>4 DEF DispatchSkip, Foremost, ExecuteStart, ExecuteReturn,
                ExecuteComplete, WorkerTo, Shape, HasSlot, OnWorker
  <2> QED BY <1>0, <2>1, <2>2
<1>5. ASSUME NEW t \in Tasks, DispatchLaunch(t) PROVE PoolInv'
  <2>1. workerPool < Workers /\ workerPool' = workerPool + 1
    BY <1>5 DEF DispatchLaunch
  <2>2. t \notin Slots /\ Slots' = Slots \cup {t}
    BY <1>5 DEF DispatchLaunch, Foremost, Shape, Slots, HasSlot, OnWorker
  <2>3. Cardinality(Slots') = Cardinality(Slots) + 1
    BY <1>f, <2>2, FS_AddElement
  <2> QED BY <2>1, <2>3, BoundAssumption DEF PoolInv, Shape
<1>6. ASSUME NEW t \in Tasks, ExecuteRelease(t) PROVE PoolInv'
  <2>1. workerPool' = workerPool - 1
    BY <1>6 DEF ExecuteRelease
  <2>2. t \in Slots /\ Slots' = Slots \ {t}
    BY <1>6 DEF ExecuteRelease, WorkerTo, Shape, Slots, HasSlot, OnWorker
  <2>3. Cardinality(Slots') = Cardinality(Slots) - 1
    BY <1>f, <2>2, FS_RemoveElement
  <2> QED BY <2>1, <2>3, BoundAssumption DEF PoolInv, Shape
<1>7. CASE Quiet
  BY <1>0, <1>7 DEF Quiet
<1> QED
  BY <1>1, <1>2, <1>3, <1>4, <1>5, <1>6, <1>7, Moves

-----------------------------------------------------------------------------
(* The initial states: no task, no entry, no worker. *)
LEMMA InitFacts == Init => Shape /\ RSSInv /\ WorkerInv /\ PoolInv
<1> SUFFICES ASSUME Init PROVE Shape /\ RSSInv /\ WorkerInv /\ PoolInv
  OBVIOUS
<1>1. Shape BY DEF Init, Shape, States
<1>2. RSSInv
  BY DEF Init, RSSInv, EveryEntryLive, EveryLiveEntered, LiveRSS, Live, OnWorker
<1>3. WorkerInv BY DEF Init, WorkerInv, Busy, OnWorker
<1>4. PoolInv
  <2>1. Slots = {} BY DEF Init, Slots, HasSlot, OnWorker
  <2> QED BY <2>1, FS_EmptySet, BoundAssumption DEF Init, PoolInv
<1> QED BY <1>1, <1>2, <1>3, <1>4

(* For any searches, indexers and interleaving of submissions, dispatches,  *)
(* workers and ending contexts, pendingRSS holds exactly the indexers with  *)
(* an RSS task that has not completed, one task each.                       *)
THEOREM RSSExact == Spec => []RSSEntriesExact
<1>1. Shape /\ RSSInv => RSSEntriesExact
  BY DEF RSSInv, EveryEntryLive, EveryLiveEntered, LiveRSS, RSSEntriesExact
<1> QED BY <1>1, InitFacts, ShapeStep, RSSStep, PTL DEF Spec

(* For any searches, indexers and number of workers, no two workers search  *)
(* the same indexer, inFlight names exactly the busy indexers, and the pool *)
(* counts exactly the slots held, never more than its capacity.             *)
THEOREM WorkersExact == Spec => []WorkersExclusive
<1>1. Shape /\ WorkerInv /\ PoolInv => WorkersExclusive
  <2> SUFFICES ASSUME Shape, WorkerInv, PoolInv PROVE WorkersExclusive
    OBVIOUS
  <2>1. inFlight = {t[2] : t \in {u \in Tasks : task[u] \in OnWorker}}
    BY DEF Shape, WorkerInv, Busy
  <2> QED BY <2>1 DEF WorkersExclusive, WorkerInv, PoolInv, Busy, Slots
<1> QED BY <1>1, InitFacts, ShapeStep, WorkerKeeps, PoolKeeps, PTL DEF Spec

-----------------------------------------------------------------------------
(* The type invariant.  Two operators of the library need a word: the       *)
(* larger and the smaller of a few numbers are among them.                  *)

LEMMA MaxOfThree ==
    ASSUME NEW a \in Int, NEW b \in Int, NEW c \in Int
    PROVE  /\ Max({a, b, c}) \in {a, b, c}
           /\ a <= Max({a, b, c}) /\ b <= Max({a, b, c}) /\ c <= Max({a, b, c})
<1>1. \E x \in {a, b, c} : \A y \in {a, b, c} : x >= y OBVIOUS
<1> QED BY <1>1 DEF Max

(* NextWait is a number of ticks, at least what is left of the cooldown and *)
(* of the search's share of the interval.                                   *)
LEMMA NextWaitBounds ==
    ASSUME NEW t \in Tasks, spacing \in [Indexers -> Nat], cooldown \in [Indexers -> Nat]
    PROVE  /\ NextWait(t) \in Nat
           /\ NextWait(t) >= spacing[t[2]] - (MinInterval - Interval[t[1]])
<1> USE TimeAssumption, TaskParts
<1> DEFINE gap == spacing[t[2]] - (MinInterval - Interval[t[1]])
<1> DEFINE rest == cooldown[t[2]]
<1>1. gap \in Int /\ rest \in Int OBVIOUS
<1> HIDE DEF gap, rest
<1>2. /\ Max({0, gap, rest}) \in {0, gap, rest}
      /\ 0 <= Max({0, gap, rest}) /\ gap <= Max({0, gap, rest})
  <2>1. 0 \in Int OBVIOUS
  <2> QED BY <1>1, <2>1, MaxOfThree, Zenon
<1>3. Max({0, gap, rest}) \in Nat /\ Max({0, gap, rest}) >= gap
  BY <1>1, <1>2
<1> QED BY <1>3 DEF NextWait, gap, rest

(* The smallest of a non-empty set of numbers that are not negative.        *)
LEMMA MinOfNats ==
    ASSUME NEW S \in SUBSET Nat, S # {} PROVE Min(S) \in S /\ \A y \in S : Min(S) <= y
<1> DEFINE R == {ss \in Nat \X Nat : ss[1] < ss[2]}
<1>1. OpToRel(<, Nat) = R BY Zenon DEF OpToRel
<1>2. IsWellFoundedOn(R, Nat) BY <1>1, NatLessThanWellFounded, Zenon
<1> HIDE DEF R
<1>3. PICK x \in S : \A y \in S : ~(<<y, x>> \in R) BY ONLY <1>2, S \subseteq Nat, S # {}, WFMin
<1>4. \A a, b \in Nat : a < b => <<a, b>> \in R BY DEF R
<1>5. ASSUME NEW y \in S PROVE x <= y
  <2>1. x \in Nat /\ y \in Nat OBVIOUS
  <2>2. ~(y < x) BY <1>3, <1>4, <2>1
  <2> QED BY <2>1, <2>2
<1> QED BY <1>5 DEF Min

(* scheduleRetryTimerLocked arms the timer within its bound. *)
LEMMA TimerBound ==
    ASSUME TypeOK, ScheduleRetryTimer PROVE retryTimer' \in NoTimer .. MaxRetry
<1> DEFINE waits == {NextWait(t) : t \in Queued} \ {0}
<1>1. waits \subseteq Nat
  <2>1. ASSUME NEW t \in Queued PROVE NextWait(t) \in Nat
    BY NextWaitBounds DEF TypeOK, Queued
  <2> QED BY <2>1
<1>2. retryTimer' = IF waits = {} THEN retryTimer ELSE Min(waits \cup {MaxRetry})
  BY DEF ScheduleRetryTimer
<1> HIDE DEF waits
<1>3. /\ Min(waits \cup {MaxRetry}) \in waits \cup {MaxRetry}
      /\ Min(waits \cup {MaxRetry}) <= MaxRetry
  BY <1>1, MinOfNats, TimeAssumption
<1> QED BY <1>1, <1>2, <1>3, TimeAssumption DEF TypeOK, NoTimer

LEMMA TypeInit == Init => TypeOK
<1>1. \A j \in Jobs : Cardinality(Wanted[j]) \in Nat
  BY ShapeAssumption, FS_Subset, FS_CardinalityType
<1> SUFFICES ASSUME Init PROVE TypeOK
  OBVIOUS
<1>2. /\ cooldown \in [Indexers -> Nat] /\ level \in [Indexers -> 0 .. Levels]
      /\ retryTimer \in NoTimer .. MaxRetry
  BY TimeAssumption DEF Init, NoTimer
<1>3. completionWG \in [Jobs -> Int] BY <1>1 DEF Init
<1>4. completeCh \in 0 .. CompleteCap /\ downloads \in 0 .. MaxDownloads /\ workerPool \in Int
  BY BoundAssumption DEF Init
<1>5. coalesce \in BOOLEAN BY DEF Init
<1> QED BY <1>2, <1>3, <1>4, <1>5 DEF Init, TypeOK

LEMMA TypeSubmit ==
    ASSUME TypeOK, NEW j \in Jobs, SubmitStep(j) PROVE TypeOK'
<1> USE DEF submitVars, jobVars, loopVars, rateVars, cbVars
<1>1. CASE SubmitStart(j) BY <1>1 DEF SubmitStart, TypeOK
<1>2. ASSUME NEW i \in Indexers, SubmitIndexer(j, i) PROVE TypeOK'
  <2>1. task' \in [Tasks -> Live \cup {"none", "skipped", "dropped", "releasing", "done"}]
    <3>1. PICK s \in {"skipped", "listed"} : task' = [task EXCEPT ![<<j, i>>] = s]
      BY <1>2 DEF SubmitIndexer
    <3> QED BY <3>1 DEF TypeOK, Live
  <2>2. pendingRSS' \subseteq Indexers BY <1>2 DEF SubmitIndexer, TypeOK
  <2> QED BY <1>2, <2>1, <2>2 DEF SubmitIndexer, TypeOK
<1>3. CASE SubmitRegister(j)
  <2>1. Cardinality(TasksOf(j, "listed")) \in Nat
    BY TasksFinite, FS_Subset, FS_CardinalityType DEF TasksOf
  <2> DEFINE n == Cardinality(TasksOf(j, "listed"))
  <2>2. /\ \E s \in {"accepted", "sending"} : subPc' = [subPc EXCEPT ![j] = s]
        /\ onJobDone' = onJobDone \/ onJobDone' = [onJobDone EXCEPT ![j] = @ + 1]
        /\ jobs' = jobs \/ jobs' = jobs \cup {j}
        /\ totalTasks' = totalTasks \/ totalTasks' = [totalTasks EXCEPT ![j] = n]
    BY <1>3 DEF SubmitRegister
  <2> HIDE DEF n
  <2>3. subPc' \in [Jobs -> {"idle", "listing", "sending", "accepted", "refused"}]
    BY <2>2 DEF TypeOK
  <2>4. totalTasks' \in [Jobs -> Nat]
    <3>1. n \in Nat BY <2>1 DEF n
    <3> QED BY <2>2, <3>1 DEF TypeOK
  <2>5. onJobDone' \in [Jobs -> Nat] BY <2>2 DEF TypeOK
  <2>6. jobs' \subseteq Jobs BY <2>2 DEF TypeOK
  <2> QED BY <1>3, <2>3, <2>4, <2>5, <2>6 DEF SubmitRegister, TypeOK
<1>4. CASE SubmitSend(j)
  <2>1. task' \in [Tasks -> Live \cup {"none", "skipped", "dropped", "releasing", "done"}]
    BY <1>4 DEF SubmitSend, TypeOK, Live
  <2>2. submitCh' \in Seq(Jobs) BY <1>4 DEF SubmitSend, TypeOK
  <2> QED BY <1>4, <2>1, <2>2 DEF SubmitSend, TypeOK
<1>5. CASE SubmitGiveUp(j)
  <2>1. task' \in [Tasks -> Live \cup {"none", "skipped", "dropped", "releasing", "done"}]
    BY <1>5 DEF SubmitGiveUp, TypeOK
  <2> QED BY <1>5, <2>1 DEF SubmitGiveUp, TypeOK
<1> QED BY <1>1, <1>2, <1>3, <1>4, <1>5 DEF SubmitStep

(* The part a completed task has in the types. *)
LEMMA TypeComplete ==
    ASSUME TypeOK, NEW t \in Tasks, CompleteTask(t)
    PROVE  /\ onComplete' \subseteq Tasks /\ pendingRSS' \subseteq Indexers /\ jobs' \subseteq Jobs
           /\ completedTasks' \in [Jobs -> Nat] /\ onJobDone' \in [Jobs -> Nat]
           /\ UNCHANGED <<totalTasks, completionWG, delivered>>
<1>1. onComplete' \subseteq Tasks /\ pendingRSS' \subseteq Indexers
  BY DEF CompleteTask, TypeOK
<1>2. /\ jobs' \subseteq jobs /\ UNCHANGED <<totalTasks, completionWG, delivered>>
      /\ \/ completedTasks' = completedTasks
         \/ completedTasks' = [completedTasks EXCEPT ![t[1]] = @ + 1]
      /\ onJobDone' = onJobDone \/ onJobDone' = [onJobDone EXCEPT ![t[1]] = @ + 1]
  BY DEF CompleteTask
<1>3. PICK j \in Jobs : j = t[1] BY TaskParts
<1>4. completedTasks' \in [Jobs -> Nat]
  <2>1. completedTasks \in [Jobs -> Nat] BY DEF TypeOK
  <2>2. CASE completedTasks' = completedTasks BY <2>1, <2>2
  <2>3. CASE completedTasks' = [completedTasks EXCEPT ![t[1]] = @ + 1] BY ONLY <1>3, <2>1, <2>3
  <2> QED BY <1>2, <2>2, <2>3
<1>5. onJobDone' \in [Jobs -> Nat]
  <2>1. onJobDone \in [Jobs -> Nat] BY DEF TypeOK
  <2>2. CASE onJobDone' = onJobDone BY <2>1, <2>2
  <2>3. CASE onJobDone' = [onJobDone EXCEPT ![t[1]] = @ + 1] BY ONLY <1>3, <2>1, <2>3
  <2> QED BY <1>2, <2>2, <2>3
<1> QED BY <1>1, <1>2, <1>4, <1>5 DEF TypeOK

LEMMA TypeLoop ==
    ASSUME TypeOK, LoopStep \/ Stop PROVE TypeOK'
<1> USE DEF submitVars, jobVars, loopVars, rateVars, cbVars
<1>1. CASE EnqueueTasks
  <2>1. task' \in [Tasks -> Live \cup {"none", "skipped", "dropped", "releasing", "done"}]
    BY <1>1 DEF EnqueueTasks, TypeOK, Live
  <2>2. submitCh' \in Seq(Jobs) BY <1>1 DEF EnqueueTasks, TypeOK
  <2> QED BY <1>1, <2>1, <2>2 DEF EnqueueTasks, TypeOK
<1>2. CASE DispatchStart
  <2>0. /\ completeCh' = completeCh \/ (completeCh > 0 /\ completeCh' = completeCh - 1)
        /\ coalesce' = coalesce \/ coalesce' = FALSE
    BY <1>2 DEF DispatchStart
  <2>1. completeCh' \in 0 .. CompleteCap /\ coalesce' \in BOOLEAN
    <3>1. completeCh' \in 0 .. CompleteCap BY <2>0, BoundAssumption DEF TypeOK
    <3>2. coalesce' \in BOOLEAN BY <2>0, Zenon DEF TypeOK
    <3> QED BY <3>1, <3>2
  <2>2. held' \subseteq Tasks /\ loopPc' \in {"idle", "dispatch", "retry", "stopped"}
    BY <1>2 DEF DispatchStart, Queued, TypeOK
  <2> QED BY <1>2, <2>1, <2>2 DEF DispatchStart, TypeOK
<1>3. ASSUME NEW t \in Tasks, DispatchSkip(t) \/ DispatchBlock(t) \/ DispatchLaunch(t)
      PROVE  TypeOK'
  <2>1. /\ held' \subseteq Tasks /\ loopPc' \in {"idle", "dispatch", "retry", "stopped"}
        /\ fresh' \in [Tasks -> {"none", "live", "expired"}]
    BY <1>3 DEF DispatchSkip, DispatchBlock, DispatchLaunch, Classified, Renew, TypeOK
  <2>2. CASE DispatchSkip(t)
    <3>1. task' \in [Tasks -> Live \cup {"none", "skipped", "dropped", "releasing", "done"}]
      BY <2>2 DEF DispatchSkip, TypeOK
    <3> QED BY <2>1, <2>2, <3>1, TypeComplete DEF DispatchSkip, TypeOK
  <2>3. CASE DispatchBlock(t) BY <2>1, <2>3 DEF DispatchBlock, TypeOK
  <2>4. CASE DispatchLaunch(t)
    <3>1. task' \in [Tasks -> Live \cup {"none", "skipped", "dropped", "releasing", "done"}]
      BY <2>4 DEF DispatchLaunch, TypeOK, Live, OnWorker
    <3>2. inFlight' \subseteq Indexers /\ workerPool' \in Int
      BY <2>4, TaskParts DEF DispatchLaunch, TypeOK
    <3> QED BY <2>1, <2>4, <3>1, <3>2 DEF DispatchLaunch, TypeOK
  <2> QED BY <1>3, <2>2, <2>3, <2>4
<1>4. CASE ScheduleRetryTimer
  <2>1. retryTimer' \in NoTimer .. MaxRetry BY <1>4, TimerBound
  <2> QED BY <1>4, <2>1 DEF ScheduleRetryTimer, TypeOK
<1>5. CASE Stop BY <1>5 DEF Stop, TypeOK
<1> QED BY <1>1, <1>2, <1>3, <1>4, <1>5 DEF LoopStep

LEMMA TypeWorker ==
    ASSUME TypeOK, NEW t \in Tasks, WorkerStep(t) \/ ExecReturn(t) PROVE TypeOK'
<1> USE DEF submitVars, jobVars, loopVars, rateVars, cbVars
<1> USE TaskParts, TimeAssumption, BoundAssumption
<1>0. ASSUME NEW s, WorkerTo(t, s), s \in {"executing", "returned", "releasing", "done"}
      PROVE  task' \in [Tasks -> Live \cup {"none", "skipped", "dropped", "releasing", "done"}]
  BY <1>0 DEF WorkerTo, TypeOK, Live, OnWorker
<1>1. CASE ExecuteStart(t)
  <2>1. exec' \in [Tasks -> {"none", "running", "answered"}] BY <1>1 DEF ExecuteStart, TypeOK
  <2> QED BY <1>0, <1>1, <2>1 DEF ExecuteStart, TypeOK
<1>2. CASE ExecuteReturn(t)
  <2>1. spacing' \in [Indexers -> Nat] BY <1>2 DEF ExecuteReturn, TypeOK
  <2> QED BY <1>0, <1>2, <2>1 DEF ExecuteReturn, TypeOK
<1>3. CASE ExecuteComplete(t)
  <2>1. inFlight' \subseteq Indexers BY <1>3 DEF ExecuteComplete, TypeOK
  <2> QED BY <1>0, <1>3, <2>1, TypeComplete DEF ExecuteComplete, TypeOK
<1>4. CASE ExecuteRelease(t)
  <2>1. completeCh' \in 0 .. CompleteCap /\ workerPool' \in Int
    BY <1>4 DEF ExecuteRelease, Wake, TypeOK
  <2> QED BY <1>0, <1>4, <2>1 DEF ExecuteRelease, TypeOK
<1>5. CASE ExecReturn(t)
  <2>1. exec' \in [Tasks -> {"none", "running", "answered"}] BY <1>5 DEF ExecReturn, TypeOK
  <2>2. level' \in [Indexers -> 0 .. Levels] /\ cooldown' \in [Indexers -> Nat]
    <3> DEFINE i == t[2]
               up == IF level[i] < Levels THEN level[i] + 1 ELSE level[i]
    <3>1. i \in Indexers /\ up \in 0 .. Levels BY DEF TypeOK
    <3>2. \/ level' = [level EXCEPT ![i] = 0] /\ cooldown' = cooldown
          \/ /\ level' = [level EXCEPT ![i] = up]
             /\ cooldown' = [cooldown EXCEPT ![i] = IF Period[up] > 0 THEN Period[up] ELSE @]
          \/ level' = level /\ cooldown' = cooldown
      BY <1>5 DEF ExecReturn
    <3> HIDE DEF i, up
    <3>3. Period[up] \in Nat BY <3>1
    <3>4. level' \in [Indexers -> 0 .. Levels]
      <4>1. level \in [Indexers -> 0 .. Levels] /\ 0 \in 0 .. Levels BY DEF TypeOK
      <4> QED BY ONLY <3>1, <3>2, <4>1
    <3>5. cooldown' \in [Indexers -> Nat] BY <3>1, <3>2, <3>3 DEF TypeOK
    <3> QED BY <3>4, <3>5
  <2> QED BY <1>5, <2>1, <2>2 DEF ExecReturn, TypeOK
<1> QED BY <1>1, <1>2, <1>3, <1>4, <1>5 DEF WorkerStep

(* Every step keeps the variables in their types. *)
LEMMA TypeStep == TypeOK /\ [Next]_vars => TypeOK'
<1> SUFFICES ASSUME TypeOK, [Next]_vars PROVE TypeOK'
  OBVIOUS
<1> USE DEF submitVars, jobVars, loopVars, rateVars, cbVars
<1> USE TaskParts, TimeAssumption, BoundAssumption
<1>1. CASE (\E j \in Jobs : SubmitStep(j)) \/ LoopStep \/ Stop
           \/ \E t \in Tasks : WorkerStep(t) \/ ExecReturn(t)
  BY <1>1, TypeSubmit, TypeLoop, TypeWorker
<1>2. ASSUME NEW t \in Tasks, OnComplete(t) PROVE TypeOK'
  <2>1. completionWG' \in [Jobs -> Int] BY <1>2 DEF OnComplete, TypeOK
  <2> QED BY <1>2, <2>1 DEF OnComplete, TypeOK
<1>3. ASSUME NEW j \in Jobs, OnJobDone(j) \/ CancelContext(j) \/ DeadlinePasses(j) PROVE TypeOK'
  BY <1>3 DEF OnJobDone, CancelContext, DeadlinePasses, TypeOK
<1>4. CASE Tick
  <2>1. /\ spacing' \in [Indexers -> Nat] /\ cooldown' \in [Indexers -> Nat]
        /\ retryTimer' \in NoTimer .. MaxRetry
    BY <1>4 DEF Tick, TypeOK, NoTimer
  <2> QED BY <1>4, <2>1 DEF Tick, TypeOK
<1>5. CASE RetryTimerFires
  <2>1. completeCh' \in 0 .. CompleteCap /\ retryTimer' \in NoTimer .. MaxRetry
    BY <1>5 DEF RetryTimerFires, Wake, TypeOK, NoTimer
  <2> QED BY <1>5, <2>1 DEF RetryTimerFires, TypeOK
<1>6. ASSUME NEW t \in Tasks, FreshDeadlinePasses(t) PROVE TypeOK'
  BY <1>6 DEF FreshDeadlinePasses, TypeOK
<1>7. ASSUME NEW i \in Indexers, WaitForMinInterval(i) PROVE TypeOK'
  <2>1. spacing' \in [Indexers -> Nat] /\ downloads' \in 0 .. MaxDownloads
    BY <1>7 DEF WaitForMinInterval, TypeOK
  <2> QED BY <1>7, <2>1 DEF WaitForMinInterval, TypeOK
<1>8. CASE UNCHANGED vars BY <1>8 DEF vars, TypeOK
<1> QED BY <1>1, <1>2, <1>3, <1>4, <1>5, <1>6, <1>7, <1>8 DEF Next

(* The variables of the scheduler stay in their types: the channels within  *)
(* their capacities, the retry timer within its bound.                      *)
THEOREM SchedulerTypes == Spec => []TypeOK
  BY TypeInit, TypeStep, PTL DEF Spec

-----------------------------------------------------------------------------
(* StartsSpaced.  The wait is checked when the task is launched and used    *)
(* when its worker sends the request.  In between only a completion at the  *)
(* same indexer, or a paced download, could lengthen it; the former has no  *)
(* worker to come from, by WorkerInv.                                       *)

LaunchesSpaced ==
    downloads = 0 =>
        \A t \in Tasks : task[t] = "starting" => spacing[t[2]] <= MinInterval - Interval[t[1]]

LEMMA SpacedStep ==
    TypeOK /\ Shape /\ WorkerInv /\ LaunchesSpaced /\ [Next]_vars => LaunchesSpaced'
<1> SUFFICES ASSUME TypeOK, Shape, WorkerInv, LaunchesSpaced, [Next]_vars, downloads' = 0,
                    NEW t \in Tasks, task'[t] = "starting"
             PROVE  spacing'[t[2]] <= MinInterval - Interval[t[1]]
  BY DEF LaunchesSpaced
<1> USE DEF submitVars, jobVars, loopVars, rateVars, cbVars
<1>t. /\ t[1] \in Jobs /\ t[2] \in Indexers /\ Interval[t[1]] \in Int /\ MinInterval \in Int
      /\ spacing[t[2]] \in Nat
  BY TaskParts, TimeAssumption DEF TypeOK
<1>0. ASSUME UNCHANGED <<spacing, downloads>>, task[t] = "starting"
      PROVE  spacing'[t[2]] <= MinInterval - Interval[t[1]]
  BY <1>0 DEF LaunchesSpaced
<1>1. ASSUME NEW j \in Jobs, SubmitStep(j) PROVE UNCHANGED <<spacing, downloads>> /\ task[t] = "starting"
  <2>1. UNCHANGED <<spacing, downloads>>
    BY <1>1 DEF SubmitStep, SubmitStart, SubmitIndexer, SubmitRegister, SubmitSend, SubmitGiveUp
  <2>2. CASE \E i \in Indexers : SubmitIndexer(j, i)
    BY <2>2, TaskPair DEF SubmitIndexer, Shape
  <2>3. CASE SubmitSend(j) \/ SubmitGiveUp(j)
    BY <2>3 DEF SubmitSend, SubmitGiveUp
  <2>4. CASE SubmitStart(j) \/ SubmitRegister(j)
    BY <2>4 DEF SubmitStart, SubmitRegister
  <2> QED BY <1>1, <2>1, <2>2, <2>3, <2>4 DEF SubmitStep
<1>2. CASE EnqueueTasks \/ DispatchStart \/ ScheduleRetryTimer \/ Stop
  <2>1. UNCHANGED <<spacing, downloads>> /\ task[t] = "starting"
    BY <1>2 DEF EnqueueTasks, DispatchStart, ScheduleRetryTimer, Stop
  <2> QED BY <1>0, <2>1
<1>3. ASSUME NEW u \in Tasks, DispatchSkip(u) \/ DispatchBlock(u)
      PROVE  UNCHANGED <<spacing, downloads>> /\ task[t] = "starting"
  BY <1>3 DEF DispatchSkip, DispatchBlock, Shape
<1>4. ASSUME NEW u \in Tasks, DispatchLaunch(u)
      PROVE  spacing'[t[2]] <= MinInterval - Interval[t[1]]
  <2>1. UNCHANGED <<spacing, downloads>> BY <1>4 DEF DispatchLaunch
  <2>2. CASE t = u
    <3>1. NextWait(t) = 0 BY <1>4, <2>2 DEF DispatchLaunch
    <3>2. NextWait(t) >= spacing[t[2]] - (MinInterval - Interval[t[1]])
      BY NextWaitBounds DEF TypeOK
    <3> QED BY <1>t, <2>1, <3>1, <3>2
  <2>3. CASE t # u
    <3>1. task[t] = "starting" BY <1>4, <2>3 DEF DispatchLaunch, Shape
    <3> QED BY <1>0, <2>1, <3>1
  <2> QED BY <2>2, <2>3
<1>5. ASSUME NEW u \in Tasks, ExecuteStart(u) \/ ExecuteComplete(u) \/ ExecuteRelease(u)
      PROVE  UNCHANGED <<spacing, downloads>> /\ task[t] = "starting"
  BY <1>5 DEF ExecuteStart, ExecuteComplete, ExecuteRelease, WorkerTo, Shape
<1>6. ASSUME NEW u \in Tasks, ExecuteReturn(u)
      PROVE  spacing'[t[2]] <= MinInterval - Interval[t[1]]
  <2>1. task[u] = "executing" /\ task'[u] = "returned" /\ downloads' = downloads
    BY <1>6 DEF ExecuteReturn, WorkerTo, Shape
  <2>2. t # u /\ task[t] = "starting" BY <1>6, <2>1 DEF ExecuteReturn, WorkerTo, Shape
  <2>3. t[2] # u[2] BY <2>1, <2>2 DEF WorkerInv, Busy, OnWorker
  <2>4. spacing'[t[2]] = spacing[t[2]] BY <1>6, <1>t, <2>3 DEF ExecuteReturn, TypeOK
  <2> QED BY <2>1, <2>2, <2>4 DEF LaunchesSpaced
<1>7. ASSUME NEW u \in Tasks, ExecReturn(u) \/ OnComplete(u) \/ FreshDeadlinePasses(u)
      PROVE  UNCHANGED <<spacing, downloads>> /\ task[t] = "starting"
  BY <1>7 DEF ExecReturn, OnComplete, FreshDeadlinePasses
<1>8. ASSUME NEW j \in Jobs, OnJobDone(j) \/ CancelContext(j) \/ DeadlinePasses(j)
      PROVE  UNCHANGED <<spacing, downloads>> /\ task[t] = "starting"
  BY <1>8 DEF OnJobDone, CancelContext, DeadlinePasses
<1>9. CASE Tick
  <2>1. UNCHANGED <<task, downloads>> /\ spacing'[t[2]] <= spacing[t[2]] /\ spacing'[t[2]] \in Nat
    BY <1>9, <1>t DEF Tick
  <2>2. spacing[t[2]] <= MinInterval - Interval[t[1]] BY <2>1 DEF LaunchesSpaced
  <2> QED BY <1>t, <2>1, <2>2
<1>10. ASSUME NEW i \in Indexers, WaitForMinInterval(i) PROVE FALSE
  BY <1>10 DEF WaitForMinInterval, TypeOK
<1>11. CASE RetryTimerFires \/ UNCHANGED vars
  <2>1. UNCHANGED <<spacing, downloads>> /\ task[t] = "starting"
    BY <1>11 DEF RetryTimerFires, vars
  <2> QED BY <1>0, <2>1
<1> QED
  BY <1>0, <1>1, <1>2, <1>3, <1>4, <1>5, <1>6, <1>7, <1>8, <1>9, <1>10, <1>11
  DEF Next, LoopStep, WorkerStep

(* For any number of workers and searches and any intervals, cooldowns and  *)
(* budgets: a worker asks an indexer only when its search's share of the    *)
(* interval since the last recorded completion has passed.                  *)
THEOREM RequestsSpaced == Spec => StartsSpaced
<1> DEFINE Spaced == \A t \in Tasks :
              task[t] = "starting" /\ task'[t] = "executing" /\ downloads = 0
                 => spacing[t[2]] <= MinInterval - Interval[t[1]]
<1>1. LaunchesSpaced => Spaced BY DEF LaunchesSpaced
<1>2. Init => LaunchesSpaced BY DEF Init, LaunchesSpaced
<1>3. StartsSpaced <=> [][Spaced]_vars BY DEF StartsSpaced
<1> HIDE DEF Spaced
<1> QED BY <1>1, <1>2, <1>3, InitFacts, ShapeStep, WorkerKeeps, SchedulerTypes, SpacedStep, PTL DEF Spec

-----------------------------------------------------------------------------
(* JobDoneOnceAndLast.  A registered job has counted every task but the     *)
(* live ones, so the task that makes the count complete is the last; a job  *)
(* that is not registered any more has no live task to be counted again.    *)

LiveOf(j) == {t \in Tasks : t[1] = j /\ task[t] \in Live}

(* Until its batch is sent, no task of a job goes beyond the list. *)
Before ==
    \A j \in Jobs : subPc[j] \in {"idle", "listing", "sending"} =>
        /\ onJobDone[j] = 0 /\ completedTasks[j] = 0 /\ (j \in jobs <=> subPc[j] = "sending")
        /\ \A t \in Tasks : t[1] = j => task[t] \in {"none", "skipped", "listed"}

Registered ==
    \A j \in jobs : /\ onJobDone[j] = 0
                    /\ totalTasks[j] = completedTasks[j] + Cardinality(LiveOf(j))

Settled ==
    \A j \in Jobs : /\ subPc[j] \in {"accepted", "refused"} /\ j \notin jobs => LiveOf(j) = {}
                    /\ subPc[j] = "refused" => j \notin jobs
                    /\ onJobDone[j] <= 1 /\ (onJobDone[j] = 1 => subPc[j] = "accepted")

CountInv == Before /\ Registered /\ Settled

LEMMA LiveOfFinite == \A j : IsFiniteSet(LiveOf(j)) /\ Cardinality(LiveOf(j)) \in Nat
  BY TasksFinite, FS_Subset, FS_CardinalityType DEF LiveOf

(* Tasks that move while alive, or after their end, leave the counts alone. *)
LEMMA CountKept ==
    ASSUME CountInv, UNCHANGED <<subPc, jobs, totalTasks, completedTasks, onJobDone>>,
           \A t \in Tasks : \/ task'[t] = task[t]
                            \/ /\ task[t] \notin {"none", "skipped", "listed"}
                               /\ task'[t] \in Live <=> task[t] \in Live
    PROVE  CountInv'
<1>1. \A j : LiveOf(j)' = LiveOf(j) BY DEF LiveOf
<1>2. Before' BY DEF CountInv, Before
<1>3. Registered' BY <1>1 DEF CountInv, Registered
<1>4. Settled' BY <1>1 DEF CountInv, Settled
<1> QED BY <1>2, <1>3, <1>4 DEF CountInv

(* A task that completes is counted; the last one closes the job. *)
LEMMA CountComplete ==
    ASSUME TypeOK, CountInv, NEW t \in Tasks, task[t] \in {"queued", "returned"},
           NEW s \in {"releasing", "done"}, task' = [task EXCEPT ![t] = s],
           CompleteTask(t), subPc' = subPc
    PROVE  CountInv'
<1>1. PICK j \in Jobs : j = t[1] BY TaskParts
<1>2. \A u \in Tasks : task'[u] = IF u = t THEN s ELSE task[u] BY DEF TypeOK
<1>3. t \in LiveOf(j) /\ s \notin Live BY <1>1 DEF LiveOf, Live, OnWorker
<1>4. LiveOf(j)' = LiveOf(j) \ {t} BY <1>2, <1>3 DEF LiveOf
<1>5. \A k \in Jobs : k # j => LiveOf(k)' = LiveOf(k) BY <1>1, <1>2 DEF LiveOf
<1>6. Cardinality(LiveOf(j)') = Cardinality(LiveOf(j)) - 1
  BY <1>3, <1>4, LiveOfFinite, FS_RemoveElement
<1>7. subPc[j] \in {"accepted", "refused"}
  <2>1. task[t] \notin {"none", "skipped", "listed"} OBVIOUS
  <2>2. subPc[j] \notin {"idle", "listing", "sending"} BY <1>1, <2>1 DEF CountInv, Before
  <2> QED BY <2>2 DEF TypeOK
<1>8. j \in jobs BY <1>3, <1>7 DEF CountInv, Settled
<1>9. /\ totalTasks[j] = completedTasks[j] + Cardinality(LiveOf(j)) /\ onJobDone[j] = 0
  BY <1>8 DEF CountInv, Registered
<1> DEFINE last == completedTasks[j] + 1 >= totalTasks[j]
<1>10. /\ totalTasks' = totalTasks
       /\ \A k \in Jobs : /\ k # j => completedTasks'[k] = completedTasks[k] /\ onJobDone'[k] = onJobDone[k]
                          /\ k = j => completedTasks'[k] = completedTasks[k] + 1
       /\ jobs' = IF last THEN jobs \ {j} ELSE jobs
       /\ onJobDone'[j] = IF last THEN 1 ELSE 0
  BY <1>1, <1>8, <1>9 DEF CompleteTask, TypeOK
<1>11. last <=> LiveOf(j)' = {}
  <2>1. /\ completedTasks[j] \in Nat /\ Cardinality(LiveOf(j)) \in Nat
    BY LiveOfFinite DEF TypeOK
  <2>2. last <=> Cardinality(LiveOf(j)') = 0
    <3>1. Cardinality(LiveOf(j)) # 0 BY <1>3, LiveOfFinite, FS_EmptySet
    <3> QED BY <1>6, <1>9, <2>1, <3>1
  <2>3. IsFiniteSet(LiveOf(j)') BY <1>4, LiveOfFinite, FS_RemoveElement
  <2> QED BY <2>2, <2>3, FS_EmptySet
<1> HIDE DEF last
<1>12. Before'
  BY <1>1, <1>2, <1>7, <1>10 DEF CountInv, Before
<1>13. Registered'
  <2> SUFFICES ASSUME NEW k \in jobs'
               PROVE  /\ onJobDone'[k] = 0
                      /\ totalTasks'[k] = completedTasks'[k] + Cardinality(LiveOf(k)')
    BY DEF Registered
  <2>1. k \in jobs /\ k \in Jobs BY <1>10 DEF TypeOK
  <2>2. CASE k # j BY <1>5, <1>10, <2>1, <2>2 DEF CountInv, Registered
  <2>3. CASE k = j
    <3>1. ~last BY <1>10, <2>3
    <3>2. completedTasks[j] \in Nat /\ Cardinality(LiveOf(j)) \in Nat BY LiveOfFinite DEF TypeOK
    <3> QED BY <1>6, <1>9, <1>10, <2>3, <3>1, <3>2
  <2> QED BY <2>2, <2>3
<1>14. Settled'
  <2> SUFFICES ASSUME NEW k \in Jobs
               PROVE  /\ subPc'[k] \in {"accepted", "refused"} /\ k \notin jobs' => LiveOf(k)' = {}
                      /\ subPc'[k] = "refused" => k \notin jobs'
                      /\ onJobDone'[k] <= 1 /\ (onJobDone'[k] = 1 => subPc'[k] = "accepted")
    BY DEF Settled
  <2>1. CASE k # j BY <1>5, <1>10, <2>1 DEF CountInv, Settled
  <2>2. CASE k = j
    <3>1. subPc[j] # "refused" BY <1>8 DEF CountInv, Settled
    <3> QED BY <1>7, <1>8, <1>10, <1>11, <2>2, <3>1
  <2> QED BY <2>1, <2>2
<1> QED BY <1>12, <1>13, <1>14 DEF CountInv

LEMMA CountSubmit ==
    ASSUME TypeOK, CountInv, NEW j \in Jobs, SubmitStep(j) PROVE CountInv'
<1> USE DEF submitVars, jobVars, loopVars, rateVars, cbVars
<1>1. CASE SubmitStart(j)
  <2>1. /\ subPc[j] = "idle" /\ UNCHANGED <<task, jobs, totalTasks, completedTasks, onJobDone>>
        /\ \A k \in Jobs : subPc'[k] = IF k = j THEN "listing" ELSE subPc[k]
    BY <1>1 DEF SubmitStart, TypeOK
  <2>2. \A k : LiveOf(k)' = LiveOf(k) BY <2>1 DEF LiveOf
  <2>3. Before' BY <2>1 DEF CountInv, Before
  <2>4. Registered' BY <2>1, <2>2 DEF CountInv, Registered
  <2>5. Settled' BY <2>1, <2>2 DEF CountInv, Settled, Before
  <2> QED BY <2>3, <2>4, <2>5 DEF CountInv
<1>2. ASSUME NEW i \in Indexers, SubmitIndexer(j, i) PROVE CountInv'
  <2> DEFINE n == <<j, i>>
  <2>1. n \in Tasks /\ n[1] = j BY TaskPair
  <2>2. PICK s \in {"skipped", "listed"} : task' = [task EXCEPT ![n] = s]
    BY <1>2 DEF SubmitIndexer
  <2> HIDE DEF n
  <2>3. /\ subPc[j] = "listing"
        /\ UNCHANGED <<subPc, jobs, totalTasks, completedTasks, onJobDone>>
        /\ \A t \in Tasks : task'[t] = IF t = n THEN s ELSE task[t]
    BY <1>2, <2>1, <2>2 DEF SubmitIndexer, TypeOK
  <2>4. \A k \in Jobs : k # j => LiveOf(k)' = LiveOf(k) BY <2>1, <2>3 DEF LiveOf
  <2>5. j \notin jobs BY <2>3 DEF CountInv, Before
  <2>6. Before' BY <2>3 DEF CountInv, Before
  <2>7. Registered'
    <3>1. \A k \in jobs : k \in Jobs /\ k # j BY <2>5 DEF TypeOK
    <3> QED BY <2>3, <2>4, <3>1 DEF CountInv, Registered
  <2>8. Settled' BY <2>3, <2>4 DEF CountInv, Settled
  <2> QED BY <2>6, <2>7, <2>8 DEF CountInv
<1>3. CASE SubmitRegister(j)
  <2>1. subPc[j] = "listing" /\ UNCHANGED <<task, completedTasks>> BY <1>3 DEF SubmitRegister
  <2>2. /\ onJobDone[j] = 0 /\ completedTasks[j] = 0 /\ j \notin jobs
        /\ \A t \in Tasks : t[1] = j => task[t] \in {"none", "skipped", "listed"}
    BY <2>1 DEF CountInv, Before
  <2>3. \A k : LiveOf(k)' = LiveOf(k) BY <2>1 DEF LiveOf
  <2>4. LiveOf(j) = TasksOf(j, "listed") BY <2>2 DEF LiveOf, TasksOf, Live, OnWorker
  <2>5. CASE TasksOf(j, "listed") = {}
    <3>1. /\ UNCHANGED <<jobs, totalTasks>>
          /\ \A k \in Jobs : /\ subPc'[k] = IF k = j THEN "accepted" ELSE subPc[k]
                             /\ k # j => onJobDone'[k] = onJobDone[k]
                             /\ k = j => onJobDone'[k] = 1
      BY <1>3, <2>2, <2>5 DEF SubmitRegister, TypeOK
    <3>2. Before' BY <2>1, <3>1 DEF CountInv, Before
    <3>3. Registered'
      <4>1. \A k \in jobs : k \in Jobs /\ k # j BY <2>2 DEF TypeOK
      <4> QED BY <2>1, <2>3, <3>1, <4>1 DEF CountInv, Registered
    <3>4. Settled' BY <2>3, <2>4, <2>5, <3>1 DEF CountInv, Settled
    <3> QED BY <3>2, <3>3, <3>4 DEF CountInv
  <2>6. CASE TasksOf(j, "listed") # {}
    <3>1. /\ jobs' = jobs \cup {j} /\ onJobDone' = onJobDone
          /\ \A k \in Jobs : /\ subPc'[k] = IF k = j THEN "sending" ELSE subPc[k]
                             /\ totalTasks'[k] = IF k = j THEN Cardinality(LiveOf(j)) ELSE totalTasks[k]
      BY <1>3, <2>4, <2>6 DEF SubmitRegister, TypeOK
    <3>2. Before' BY <2>1, <2>2, <3>1 DEF CountInv, Before
    <3>3. Registered'
      <4> SUFFICES ASSUME NEW k \in jobs'
                   PROVE  /\ onJobDone'[k] = 0
                          /\ totalTasks'[k] = completedTasks'[k] + Cardinality(LiveOf(k)')
        BY DEF Registered
      <4>1. k \in Jobs BY <3>1 DEF TypeOK
      <4>2. CASE k = j
        <5>1. Cardinality(LiveOf(j)) \in Nat BY LiveOfFinite
        <5> QED BY <2>1, <2>2, <2>3, <3>1, <4>2, <5>1
      <4>3. CASE k # j BY <2>1, <2>3, <3>1, <4>1, <4>3 DEF CountInv, Registered
      <4> QED BY <4>2, <4>3
    <3>4. Settled' BY <2>2, <2>3, <3>1 DEF CountInv, Settled
    <3> QED BY <3>2, <3>3, <3>4 DEF CountInv
  <2> QED BY <2>5, <2>6
<1>4. CASE SubmitSend(j)
  <2>1. /\ subPc[j] = "sending" /\ UNCHANGED <<jobs, totalTasks, completedTasks, onJobDone>>
        /\ \A k \in Jobs : subPc'[k] = IF k = j THEN "accepted" ELSE subPc[k]
        /\ \A t \in Tasks : task'[t] = IF t[1] = j /\ task[t] = "listed" THEN "sent" ELSE task[t]
    BY <1>4 DEF SubmitSend, TasksOf, TypeOK
  <2>2. \A k : LiveOf(k)' = LiveOf(k) BY <2>1 DEF LiveOf, Live
  <2>3. j \in jobs BY <2>1 DEF CountInv, Before
  <2>4. Before' BY <2>1 DEF CountInv, Before
  <2>5. Registered' BY <2>1, <2>2 DEF CountInv, Registered
  <2>6. Settled' BY <2>1, <2>2, <2>3 DEF CountInv, Settled
  <2> QED BY <2>4, <2>5, <2>6 DEF CountInv
<1>5. CASE SubmitGiveUp(j)
  <2>1. /\ subPc[j] = "sending" /\ jobs' = jobs \ {j}
        /\ UNCHANGED <<totalTasks, completedTasks, onJobDone>>
        /\ \A k \in Jobs : subPc'[k] = IF k = j THEN "refused" ELSE subPc[k]
        /\ \A t \in Tasks : task'[t] = IF t[1] = j /\ task[t] = "listed" THEN "dropped" ELSE task[t]
    BY <1>5 DEF SubmitGiveUp, TasksOf, TypeOK
  <2>2. \A k \in Jobs : k # j => LiveOf(k)' = LiveOf(k) BY <2>1 DEF LiveOf
  <2>3. LiveOf(j)' = {}
    <3>1. \A t \in Tasks : t[1] = j => task'[t] \in {"none", "skipped", "dropped"}
      BY <2>1 DEF CountInv, Before
    <3> QED BY <3>1 DEF LiveOf, Live, OnWorker
  <2>4. onJobDone[j] = 0 BY <2>1 DEF CountInv, Before
  <2>5. Before' BY <2>1 DEF CountInv, Before
  <2>6. Registered'
    <3>1. \A k \in jobs' : k \in jobs /\ k \in Jobs /\ k # j BY <2>1 DEF TypeOK
    <3> QED BY <2>1, <2>2, <3>1 DEF CountInv, Registered
  <2>7. Settled' BY <2>1, <2>2, <2>3, <2>4 DEF CountInv, Settled
  <2> QED BY <2>5, <2>6, <2>7 DEF CountInv
<1> QED BY <1>1, <1>2, <1>3, <1>4, <1>5 DEF SubmitStep

(* Every step keeps the counts of the jobs exact. *)
LEMMA CountStep == TypeOK /\ Shape /\ CountInv /\ [Next]_vars => CountInv'
<1> SUFFICES ASSUME TypeOK, Shape, CountInv, [Next]_vars PROVE CountInv'
  OBVIOUS
<1> USE DEF submitVars, jobVars, loopVars, rateVars, cbVars
<1>0. ASSUME UNCHANGED <<task, subPc, jobs, totalTasks, completedTasks, onJobDone>> PROVE CountInv'
  BY <1>0, CountKept
<1>1. ASSUME NEW j \in Jobs, SubmitStep(j) PROVE CountInv' BY <1>1, CountSubmit
<1>2. CASE EnqueueTasks
  <2>1. UNCHANGED <<subPc, jobs, totalTasks, completedTasks, onJobDone>> BY <1>2 DEF EnqueueTasks
  <2>2. \A t \in Tasks : task'[t] = task[t] \/ (task[t] = "sent" /\ task'[t] = "queued")
    BY <1>2 DEF EnqueueTasks, TasksOf
  <2> QED BY <2>1, <2>2, CountKept DEF Live
<1>3. CASE DispatchStart \/ ScheduleRetryTimer \/ Stop \/ Tick \/ RetryTimerFires \/ UNCHANGED vars
  BY <1>0, <1>3 DEF DispatchStart, ScheduleRetryTimer, Stop, Tick, RetryTimerFires, vars
<1>4. ASSUME NEW t \in Tasks, DispatchSkip(t) PROVE CountInv'
  <2>1. /\ task[t] = "queued" /\ task' = [task EXCEPT ![t] = "done"]
        /\ CompleteTask(t) /\ subPc' = subPc
    BY <1>4 DEF DispatchSkip, Foremost, Shape
  <2> QED BY <2>1, CountComplete
<1>5. ASSUME NEW t \in Tasks, ExecuteComplete(t) PROVE CountInv'
  <2>1. /\ task[t] = "returned" /\ task' = [task EXCEPT ![t] = "releasing"]
        /\ CompleteTask(t) /\ subPc' = subPc
    BY <1>5 DEF ExecuteComplete, WorkerTo
  <2> QED BY <2>1, CountComplete
<1>6. ASSUME NEW t \in Tasks,
             DispatchLaunch(t) \/ ExecuteStart(t) \/ ExecuteReturn(t) \/ ExecuteRelease(t)
      PROVE  CountInv'
  <2>1. UNCHANGED <<subPc, jobs, totalTasks, completedTasks, onJobDone>>
    BY <1>6 DEF DispatchLaunch, ExecuteStart, ExecuteReturn, ExecuteRelease
  <2>2. \A u \in Tasks : \/ task'[u] = task[u]
                         \/ /\ task[u] \notin {"none", "skipped", "listed"}
                            /\ task'[u] \in Live <=> task[u] \in Live
    BY <1>6 DEF DispatchLaunch, Foremost, ExecuteStart, ExecuteReturn, ExecuteRelease, WorkerTo,
                Shape, Live, OnWorker
  <2> QED BY <2>1, <2>2, CountKept
<1>7. ASSUME NEW t \in Tasks,
             DispatchBlock(t) \/ ExecReturn(t) \/ OnComplete(t) \/ FreshDeadlinePasses(t)
      PROVE  CountInv'
  BY <1>0, <1>7 DEF DispatchBlock, ExecReturn, OnComplete, FreshDeadlinePasses
<1>8. ASSUME NEW j \in Jobs, OnJobDone(j) \/ CancelContext(j) \/ DeadlinePasses(j) PROVE CountInv'
  BY <1>0, <1>8 DEF OnJobDone, CancelContext, DeadlinePasses
<1>9. ASSUME NEW i \in Indexers, WaitForMinInterval(i) PROVE CountInv'
  BY <1>0, <1>9 DEF WaitForMinInterval
<1> QED
  BY <1>1, <1>2, <1>3, <1>4, <1>5, <1>6, <1>7, <1>8, <1>9 DEF Next, LoopStep, WorkerStep

LEMMA CountInit == Init => CountInv
<1> SUFFICES ASSUME Init PROVE CountInv
  OBVIOUS
<1>1. Before BY DEF Init, Before
<1>2. Registered BY DEF Init, Registered
<1>3. Settled BY DEF Init, Settled
<1> QED BY <1>1, <1>2, <1>3 DEF CountInv

(* For any searches and indexers: OnJobDone is started at most once for a   *)
(* search, and only when none of its tasks waits or runs any more, whether  *)
(* they were deduplicated, given up, skipped in the queue or executed.      *)
THEOREM JobsDoneOnce == Spec => []JobDoneOnceAndLast
<1>1. TypeOK /\ CountInv => JobDoneOnceAndLast
  <2> SUFFICES ASSUME TypeOK, CountInv, NEW j \in Jobs
               PROVE  /\ onJobDone[j] <= 1
                      /\ onJobDone[j] = 1 => \A t \in Tasks : t[1] = j => task[t] \notin Live
    BY DEF JobDoneOnceAndLast
  <2>1. onJobDone[j] <= 1 /\ (onJobDone[j] = 1 => subPc[j] = "accepted")
    BY DEF CountInv, Settled
  <2>2. onJobDone[j] = 1 => j \notin jobs BY DEF CountInv, Registered
  <2>3. onJobDone[j] = 1 => LiveOf(j) = {} BY <2>1, <2>2 DEF CountInv, Settled
  <2> QED BY <2>1, <2>3 DEF LiveOf
<1> QED BY <1>1, CountInit, CountStep, InitFacts, ShapeStep, SchedulerTypes, PTL DEF Spec

-----------------------------------------------------------------------------
(* DeliveredComplete.  The wait group of a search counts the indexers asked *)
(* for whose OnComplete has not run: those of skipped and dropped tasks     *)
(* stay in it.                                                              *)

Reported(t) == task[t] \in {"releasing", "done"} /\ t \notin onComplete
Awaited(j) == {t \in Tasks : t[1] = j /\ t[2] \in Wanted[j] /\ ~Reported(t)}

WaitInv ==
    /\ \A t \in Tasks : task[t] # "none" => t[2] \in Wanted[t[1]]
    /\ \A t \in onComplete : task[t] \in {"releasing", "done"}
    /\ \A j \in Jobs : completionWG[j] = Cardinality(Awaited(j))
    /\ \A j \in delivered : Awaited(j) = {}

LEMMA AwaitedFinite == \A j : IsFiniteSet(Awaited(j)) /\ Cardinality(Awaited(j)) \in Nat
  BY TasksFinite, FS_Subset, FS_CardinalityType DEF Awaited

(* A task that is listed, moves or completes is awaited as before: its      *)
(* OnComplete is yet to run.                                                *)
LEMMA WaitKept ==
    ASSUME WaitInv, UNCHANGED <<completionWG, delivered>>,
           \A t \in Tasks : task'[t] # "none" => task[t] # "none" \/ t[2] \in Wanted[t[1]],
           \A t \in Tasks : task[t] \in {"releasing", "done"} => task'[t] \in {"releasing", "done"},
           \A t \in Tasks : \/ task'[t] \in {"releasing", "done"} => task[t] \in {"releasing", "done"}
                            \/ t \in onComplete',
           \A t \in Tasks : t \in onComplete' /\ t \notin onComplete =>
                task[t] \notin {"releasing", "done"} /\ task'[t] \in {"releasing", "done"},
           onComplete \subseteq onComplete', onComplete' \subseteq Tasks
    PROVE  WaitInv'
<1>1. \A t \in Tasks : Reported(t)' <=> Reported(t)
  BY DEF Reported, WaitInv
<1>2. \A j : Awaited(j)' = Awaited(j) BY <1>1 DEF Awaited
<1>3. \A t \in onComplete' : task'[t] \in {"releasing", "done"} BY DEF WaitInv
<1> QED BY <1>2, <1>3 DEF WaitInv

(* Every step keeps the wait groups exact. *)
LEMMA WaitStep == TypeOK /\ Shape /\ WaitInv /\ [Next]_vars => WaitInv'
<1> SUFFICES ASSUME TypeOK, Shape, WaitInv, [Next]_vars PROVE WaitInv'
  OBVIOUS
<1> USE DEF submitVars, jobVars, loopVars, rateVars, cbVars
<1>o. onComplete \subseteq Tasks BY DEF TypeOK
<1>0. ASSUME UNCHANGED <<completionWG, delivered, onComplete>>,
             \A t \in Tasks : \/ task'[t] = task[t]
                              \/ t[2] \in Wanted[t[1]] /\ task[t] = "none" /\ task'[t] \in {"skipped", "listed"}
                              \/ /\ task[t] \notin {"none", "releasing", "done"}
                                 /\ task'[t] \notin {"releasing", "done"}
                              \/ task[t] = "releasing" /\ task'[t] = "done"
      PROVE  WaitInv'
  BY <1>0, <1>o, WaitKept
<1>1. ASSUME NEW j \in Jobs, SubmitStep(j) PROVE WaitInv'
  <2>1. UNCHANGED <<completionWG, delivered, onComplete>>
    BY <1>1 DEF SubmitStep, SubmitStart, SubmitIndexer, SubmitRegister, SubmitSend, SubmitGiveUp
  <2>2. CASE SubmitStart(j) \/ SubmitRegister(j)
    <3>1. task' = task BY <2>2 DEF SubmitStart, SubmitRegister
    <3> QED BY <1>0, <2>1, <3>1
  <2>3. ASSUME NEW i \in Indexers, SubmitIndexer(j, i) PROVE WaitInv'
    <3>1. PICK s \in {"skipped", "listed"} : task' = [task EXCEPT ![<<j, i>>] = s]
      BY <2>3 DEF SubmitIndexer
    <3>2. i \in Wanted[j] /\ task[<<j, i>>] = "none" BY <2>3 DEF SubmitIndexer
    <3>3. \A t \in Tasks : \/ task'[t] = task[t]
                           \/ /\ t[2] \in Wanted[t[1]] /\ task[t] = "none"
                              /\ task'[t] \in {"skipped", "listed"}
      BY <3>1, <3>2, TaskPair DEF Shape
    <3> QED BY <1>0, <2>1, <3>3
  <2>4. CASE SubmitSend(j) \/ SubmitGiveUp(j)
    <3>1. \A t \in Tasks : task'[t] = task[t] \/ (task[t] = "listed" /\ task'[t] \in {"sent", "dropped"})
      BY <2>4 DEF SubmitSend, SubmitGiveUp, TasksOf
    <3> QED BY <1>0, <2>1, <3>1
  <2> QED BY <1>1, <2>2, <2>3, <2>4 DEF SubmitStep
<1>2. CASE EnqueueTasks
  <2>1. UNCHANGED <<completionWG, delivered, onComplete>> BY <1>2 DEF EnqueueTasks
  <2>2. \A t \in Tasks : task'[t] = task[t] \/ (task[t] = "sent" /\ task'[t] = "queued")
    BY <1>2 DEF EnqueueTasks, TasksOf
  <2> QED BY <1>0, <2>1, <2>2
<1>3. CASE DispatchStart \/ ScheduleRetryTimer \/ Stop \/ Tick \/ RetryTimerFires \/ UNCHANGED vars
  <2>1. UNCHANGED <<completionWG, delivered, onComplete, task>>
    BY <1>3 DEF DispatchStart, ScheduleRetryTimer, Stop, Tick, RetryTimerFires, vars
  <2> QED BY <1>0, <2>1
<1>4. ASSUME NEW t \in Tasks, DispatchSkip(t) \/ ExecuteComplete(t) PROVE WaitInv'
  <2>1. /\ task[t] \in {"queued", "returned"} /\ task'[t] \in {"releasing", "done"}
        /\ \A u \in Tasks : u # t => task'[u] = task[u]
    BY <1>4 DEF DispatchSkip, Foremost, ExecuteComplete, WorkerTo, Shape
  <2>2. onComplete' = onComplete \cup {t} /\ UNCHANGED <<completionWG, delivered>>
    BY <1>4 DEF DispatchSkip, ExecuteComplete, CompleteTask
  <2> QED BY <1>o, <2>1, <2>2, WaitKept
<1>5. ASSUME NEW t \in Tasks,
             DispatchLaunch(t) \/ ExecuteStart(t) \/ ExecuteReturn(t) \/ ExecuteRelease(t)
      PROVE  WaitInv'
  <2>1. UNCHANGED <<completionWG, delivered, onComplete>>
    BY <1>5 DEF DispatchLaunch, ExecuteStart, ExecuteReturn, ExecuteRelease
  <2>2. /\ \A u \in Tasks : u # t => task'[u] = task[u]
        /\ \/ /\ task[t] \in {"queued", "starting", "executing"}
              /\ task'[t] \in {"starting", "executing", "returned"}
           \/ task[t] = "releasing" /\ task'[t] = "done"
    BY <1>5 DEF DispatchLaunch, Foremost, ExecuteStart, ExecuteReturn, ExecuteRelease, WorkerTo, Shape
  <2> QED BY <1>0, <2>1, <2>2
<1>6. ASSUME NEW t \in Tasks, DispatchBlock(t) \/ ExecReturn(t) \/ FreshDeadlinePasses(t)
      PROVE  WaitInv'
  <2>1. UNCHANGED <<completionWG, delivered, onComplete, task>>
    BY <1>6 DEF DispatchBlock, ExecReturn, FreshDeadlinePasses
  <2> QED BY <1>0, <2>1
<1>7. ASSUME NEW j \in Jobs, CancelContext(j) \/ DeadlinePasses(j) PROVE WaitInv'
  <2>1. UNCHANGED <<completionWG, delivered, onComplete, task>>
    BY <1>7 DEF CancelContext, DeadlinePasses
  <2> QED BY <1>0, <2>1
<1>8. ASSUME NEW i \in Indexers, WaitForMinInterval(i) PROVE WaitInv'
  <2>1. UNCHANGED <<completionWG, delivered, onComplete, task>> BY <1>8 DEF WaitForMinInterval
  <2> QED BY <1>0, <2>1
<1>9. ASSUME NEW t \in Tasks, OnComplete(t) PROVE WaitInv'
  <2>1. PICK j \in Jobs : j = t[1] BY TaskParts
  <2>2. /\ t \in onComplete /\ onComplete' = onComplete \ {t} /\ UNCHANGED <<task, delivered>>
        /\ \A k \in Jobs : completionWG'[k] = IF k = j THEN completionWG[k] - 1 ELSE completionWG[k]
    BY <1>9, <2>1 DEF OnComplete, TypeOK
  <2>3. task[t] \in {"releasing", "done"} /\ t[2] \in Wanted[j] BY <2>1, <2>2 DEF WaitInv
  <2>4. \A u \in Tasks : Reported(u)' <=> Reported(u) \/ u = t BY <2>2, <2>3 DEF Reported
  <2>5. t \in Awaited(j) /\ Awaited(j)' = Awaited(j) \ {t}
    BY <2>1, <2>2, <2>3, <2>4 DEF Awaited, Reported
  <2>6. \A k \in Jobs : k # j => Awaited(k)' = Awaited(k) BY <2>1, <2>4 DEF Awaited
  <2>7. Cardinality(Awaited(j)') = Cardinality(Awaited(j)) - 1
    BY <2>5, AwaitedFinite, FS_RemoveElement
  <2>8. \A k \in Jobs : completionWG'[k] = Cardinality(Awaited(k)')
    BY <2>2, <2>6, <2>7 DEF WaitInv
  <2>9. \A k \in delivered' : Awaited(k)' = {}
    <3>1. \A k \in delivered : k \in Jobs /\ Awaited(k) = {} BY DEF WaitInv, TypeOK
    <3> QED BY <2>2, <2>5, <2>6, <3>1
  <2> QED BY <2>2, <2>8, <2>9 DEF WaitInv
<1>10. ASSUME NEW j \in Jobs, OnJobDone(j) PROVE WaitInv'
  <2>1. /\ completionWG[j] = 0 /\ delivered' = delivered \cup {j}
        /\ UNCHANGED <<task, onComplete, completionWG>>
    BY <1>10 DEF OnJobDone
  <2>2. \A k : Awaited(k)' = Awaited(k) BY <2>1 DEF Awaited, Reported
  <2>3. Awaited(j) = {} BY <2>1, AwaitedFinite, FS_EmptySet DEF WaitInv
  <2> QED BY <2>1, <2>2, <2>3 DEF WaitInv
<1> QED
  BY <1>1, <1>2, <1>3, <1>4, <1>5, <1>6, <1>7, <1>8, <1>9, <1>10 DEF Next, LoopStep, WorkerStep

LEMMA WaitInit == Init => WaitInv
<1> SUFFICES ASSUME Init PROVE WaitInv
  OBVIOUS
<1>1. ASSUME NEW j \in Jobs PROVE Cardinality(Awaited(j)) = Cardinality(Wanted[j])
  <2> DEFINE f == [i \in Wanted[j] |-> <<j, i>>]
  <2>1. Wanted[j] \subseteq Indexers /\ IsFiniteSet(Wanted[j]) BY ShapeAssumption, FS_Subset
  <2>2. Awaited(j) = {<<j, i>> : i \in Wanted[j]}
    BY <2>1, TaskPair DEF Init, Awaited, Reported, Tasks
  <2>3. ExistsBijection(Wanted[j], Awaited(j))
    <3>1. f \in Bijection(Wanted[j], Awaited(j))
      BY <2>2 DEF Bijection, Injection, Surjection, IsInjective
    <3> QED BY <3>1 DEF ExistsBijection
  <2> QED BY <2>1, <2>3, FS_Bijection
<1> QED BY <1>1 DEF Init, WaitInv

(* For any searches and indexers: the caller's final callback runs only     *)
(* after every OnComplete of the search has run.                            *)
THEOREM DeliveryIsLast == Spec => []DeliveredComplete
<1>1. TypeOK /\ WaitInv => DeliveredComplete
  <2> SUFFICES ASSUME TypeOK, WaitInv, NEW j \in delivered, NEW t \in Tasks, t[1] = j
               PROVE  task[t] \notin Live /\ t \notin onComplete
    BY DEF DeliveredComplete
  <2>1. CASE task[t] = "none"
    BY <2>1 DEF WaitInv, Live, OnWorker
  <2>2. CASE task[t] # "none"
    <3>1. t[2] \in Wanted[j] BY <2>2 DEF WaitInv
    <3>2. Reported(t) BY <3>1 DEF WaitInv, Awaited
    <3> QED BY <3>2 DEF Reported, Live, OnWorker
  <2> QED BY <2>1, <2>2
<1> QED BY <1>1, WaitInit, WaitStep, InitFacts, ShapeStep, SchedulerTypes, PTL DEF Spec
=============================================================================
