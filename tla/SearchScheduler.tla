--------------------------- MODULE SearchScheduler ---------------------------
(***************************************************************************)
(* The Torznab search scheduler (internal/services/jackett/scheduler.go)   *)
(* and the aggregator that wraps one search of the service around it       *)
(* (service.go, searchIndexersWithScheduler).                              *)
(*                                                                         *)
(* Goroutines: one submitter per search, the scheduler's loop, one worker  *)
(* per dispatched task, one goroutine per execution of a search against    *)
(* an indexer (it may outlive its worker when the context ends first), and *)
(* the goroutines that run the OnComplete and OnJobDone callbacks.  s.mu   *)
(* is held by the loop through a whole dispatchTasks, so every other step  *)
(* that needs it waits (MuFree); the clock and the contexts do not.        *)
(*                                                                         *)
(* A search is a job; a task is a pair <<job, indexer>>.  Time is counted  *)
(* down: spacing[i] is how much of the full minimum interval since the     *)
(* last recorded completion is left, cooldown[i] what is left of the       *)
(* cooldown, retryTimer what is left until the retry timer is due.         *)
(***************************************************************************)
EXTENDS Integers, Sequences, FiniteSets, FiniteSetsExt

CONSTANTS
    Jobs,           \* the searches submitted, each once
    Indexers,       \* the enabled Torznab indexers
    Wanted,         \* Wanted[j]: the (non-nil) indexers search j asks for
    RSS,            \* the searches with RateLimitPriorityRSS
    Priority,       \* Priority[j]: jobPriority, smaller runs first
    Interval,       \* Interval[j]: the minimum interval times the multiplier
    MaxWait,        \* MaxWait[j]: getMaxWait, 0 when there is no budget
    MinInterval,    \* the rate limiter's minInterval, in ticks
    Period,         \* Period[l]: escalationPeriods, for the levels 0..Levels
    Levels,         \* the highest escalation level
    Workers,        \* capacity of workerPool
    SubmitCap,      \* capacity of submitCh
    CompleteCap,    \* capacity of completeCh
    MaxRetry,       \* maxRetryTimerInterval, in ticks
    MaxDownloads,   \* bound: paced torrent downloads explored
    MayStop         \* whether Stop is explored

Tasks == Jobs \X Indexers

ASSUME ShapeAssumption ==
    /\ Wanted \in [Jobs -> SUBSET Indexers]
    /\ \A j \in Jobs : Wanted[j] # {}
    /\ IsFiniteSet(Jobs) /\ IsFiniteSet(Indexers)
    /\ RSS \subseteq Jobs
    /\ Priority \in [Jobs -> Nat]

ASSUME TimeAssumption ==
    /\ MinInterval \in Nat
    /\ Levels \in Nat
    /\ Period \in [0..Levels -> Nat]
    /\ MaxWait \in [Jobs -> Nat]
    /\ Interval \in [Jobs -> 0..MinInterval]
    /\ MaxRetry \in Nat \ {0}

ASSUME BoundAssumption ==
    /\ Workers \in Nat \ {0}
    /\ SubmitCap \in Nat \ {0}
    /\ CompleteCap \in Nat \ {0}
    /\ MaxDownloads \in Nat
    /\ MayStop \in BOOLEAN

VARIABLES
    subPc,          \* subPc[j]: where the goroutine in Submit is
    ctx,            \* ctx[j]: the context the search was submitted with
    task,           \* task[t]: where the task is
    fresh,          \* fresh[t]: the context dispatchTasks replaced ctx by
    exec,           \* exec[t]: the goroutine that runs task.exec
    submitCh,       \* batches sent and not yet received, as their jobs
    completeCh,     \* wake-ups in the channel
    loopPc,         \* what the loop goroutine is doing
    coalesce,       \* whether the coalescing timer of the loop runs
    held,           \* the items of dispatchTasks not classified yet
    inFlight,       \* the indexers with an entry in s.inFlight
    workerPool,     \* slots taken in the worker pool
    pendingRSS,     \* the indexers with an entry in s.pendingRSS
    jobs,           \* the jobs with a jobState
    totalTasks,     \* totalTasks[j] of its jobState
    completedTasks, \* completedTasks[j] of its jobState
    spacing, cooldown, level,   \* the rate limiter, per indexer
    retryTimer,     \* ticks until the retry timer is due, NoTimer if off
    downloads,      \* paced downloads so far
    onComplete,     \* the tasks whose OnComplete goroutine has not finished
    completionWG,   \* completionWG[j]: the aggregator's wait group
    onJobDone,      \* onJobDone[j]: OnJobDone goroutines started
    delivered       \* the jobs whose resultCallback was called

submitVars == <<subPc, submitCh>>
jobVars    == <<jobs, totalTasks, completedTasks>>
loopVars   == <<loopPc, coalesce, held>>
rateVars   == <<spacing, cooldown, level>>
cbVars     == <<onComplete, completionWG, onJobDone, delivered>>
vars == <<submitVars, ctx, task, fresh, exec, completeCh, loopVars, inFlight,
          workerPool, pendingRSS, jobVars, rateVars, retryTimer, downloads,
          cbVars>>

NoTimer == -1

\* A worker goroutine owns the task from the launch to its completion, and
\* its slot of the pool a little longer.
OnWorker == {"starting", "executing", "returned"}
HasSlot  == OnWorker \cup {"releasing"}

\* A task the scheduler still owes a completion.
Live == {"listed", "sent", "queued"} \cup OnWorker

Init ==
    /\ subPc = [j \in Jobs |-> "idle"]
    /\ ctx = [j \in Jobs |-> "live"]
    /\ task = [t \in Tasks |-> "none"]
    /\ fresh = [t \in Tasks |-> "none"]
    /\ exec = [t \in Tasks |-> "none"]
    /\ submitCh = << >>
    /\ completeCh = 0
    /\ loopPc = "idle"
    /\ coalesce = FALSE
    /\ held = {}
    /\ inFlight = {}
    /\ workerPool = 0
    /\ pendingRSS = {}
    /\ jobs = {}
    /\ totalTasks = [j \in Jobs |-> 0]
    /\ completedTasks = [j \in Jobs |-> 0]
    /\ spacing = [i \in Indexers |-> 0]
    /\ cooldown \in [Indexers -> {0, Period[Levels]}]   \* LoadCooldowns
    /\ level = [i \in Indexers |-> 0]
    /\ retryTimer = NoTimer
    /\ downloads = 0
    /\ onComplete = {}
    /\ completionWG = [j \in Jobs |-> Cardinality(Wanted[j])]
    /\ onJobDone = [j \in Jobs |-> 0]
    /\ delivered = {}

-----------------------------------------------------------------------------
(* Helpers.                                                                *)

\* s.mu is free unless the loop is inside dispatchTasks.
MuFree == loopPc \notin {"dispatch", "retry"}

\* The context a task runs under.
Ctx(t) == IF fresh[t] = "none" THEN ctx[t[1]] ELSE fresh[t]

\* RateLimiter.NextWait: the larger of the cooldown and of what the
\* priority's share of the minimum interval leaves to wait.
NextWait(t) ==
    LET gap == spacing[t[2]] - (MinInterval - Interval[t[1]])
    IN  Max({0, gap, cooldown[t[2]]})

\* A non-blocking send to completeCh.
Wake == completeCh' = IF completeCh < CompleteCap THEN completeCh + 1
                                                  ELSE completeCh

TasksOf(j, state) == {t \in Tasks : t[1] = j /\ task[t] = state}

Queued == {t \in Tasks : task[t] = "queued"}

\* Mutant: the job is closed one task early.
CompleteTaskEarly(t) ==
    LET j    == t[1]
        last == completedTasks[j] + 2 >= totalTasks[j]
    IN  /\ onComplete' = onComplete \cup {t}
        /\ pendingRSS' = IF j \in RSS THEN pendingRSS \ {t[2]} ELSE pendingRSS
        /\ IF j \in jobs
           THEN /\ completedTasks' = [completedTasks EXCEPT ![j] = @ + 1]
                /\ jobs' = IF last THEN jobs \ {j} ELSE jobs
                /\ onJobDone' = IF last THEN [onJobDone EXCEPT ![j] = @ + 1]
                                        ELSE onJobDone
           ELSE UNCHANGED <<completedTasks, jobs, onJobDone>>
        /\ UNCHANGED <<totalTasks, completionWG, delivered>>

\* handleTaskCompleteLocked and the caller's delete of the dedup entry: the
\* OnComplete goroutine starts, the job counts the task and, at the last one,
\* starts OnJobDone and forgets the job.
CompleteTask(t) ==
    LET j    == t[1]
        last == completedTasks[j] + 1 >= totalTasks[j]
    IN  /\ onComplete' = onComplete \cup {t}
        /\ pendingRSS' = IF j \in RSS THEN pendingRSS \ {t[2]} ELSE pendingRSS
        /\ IF j \in jobs
           THEN /\ completedTasks' = [completedTasks EXCEPT ![j] = @ + 1]
                /\ jobs' = IF last THEN jobs \ {j} ELSE jobs
                /\ onJobDone' = IF last THEN [onJobDone EXCEPT ![j] = @ + 1]
                                        ELSE onJobDone
           ELSE UNCHANGED <<completedTasks, jobs, onJobDone>>
        /\ UNCHANGED <<totalTasks, completionWG, delivered>>

-----------------------------------------------------------------------------
(* Submit, one step per critical section.                                  *)

SubmitStart(j) ==
    /\ subPc[j] = "idle"
    /\ MuFree
    /\ subPc' = [subPc EXCEPT ![j] = "listing"]
    /\ UNCHANGED <<submitCh, ctx, task, fresh, exec, completeCh, loopVars,
                   inFlight, workerPool, pendingRSS, jobVars, rateVars,
                   retryTimer, downloads, cbVars>>

\* One turn of the loop over the request's indexers: an RSS search skips an
\* indexer with an RSS task pending.
SubmitIndexer(j, i) ==
    /\ subPc[j] = "listing"
    /\ MuFree
    /\ i \in Wanted[j]
    /\ task[<<j, i>>] = "none"
    /\ IF j \in RSS /\ i \in pendingRSS
       THEN /\ task' = [task EXCEPT ![<<j, i>>] = "skipped"]
            /\ UNCHANGED pendingRSS
       ELSE /\ task' = [task EXCEPT ![<<j, i>>] = "listed"]
            /\ pendingRSS' = IF j \in RSS THEN pendingRSS \cup {i} ELSE pendingRSS
    /\ UNCHANGED <<submitVars, ctx, fresh, exec, completeCh, loopVars, inFlight,
                   workerPool, jobVars, rateVars, retryTimer, downloads, cbVars>>

\* Registers the job, or calls OnJobDone when every indexer was skipped.
SubmitRegister(j) ==
    /\ subPc[j] = "listing"
    /\ MuFree
    /\ \A i \in Wanted[j] : task[<<j, i>>] # "none"
    /\ LET listed == TasksOf(j, "listed") IN
       \/ /\ listed = {}
          /\ subPc' = [subPc EXCEPT ![j] = "accepted"]
          /\ onJobDone' = [onJobDone EXCEPT ![j] = @ + 1]
          /\ UNCHANGED <<jobs, totalTasks>>
       \/ /\ listed # {}
          /\ subPc' = [subPc EXCEPT ![j] = "sending"]
          /\ jobs' = jobs \cup {j}
          /\ totalTasks' = [totalTasks EXCEPT ![j] = Cardinality(listed)]
          /\ UNCHANGED onJobDone
    /\ UNCHANGED <<submitCh, ctx, task, fresh, exec, completeCh, loopVars,
                   inFlight, workerPool, pendingRSS, completedTasks, rateVars,
                   retryTimer, downloads, onComplete, completionWG, delivered>>

SubmitSend(j) ==
    /\ subPc[j] = "sending"
    /\ Len(submitCh) < SubmitCap
    /\ submitCh' = Append(submitCh, j)
    /\ task' = [t \in Tasks |-> IF t \in TasksOf(j, "listed") THEN "sent" ELSE task[t]]
    /\ subPc' = [subPc EXCEPT ![j] = "accepted"]
    /\ UNCHANGED <<ctx, fresh, exec, completeCh, loopVars, inFlight, workerPool,
                   pendingRSS, jobVars, rateVars, retryTimer, downloads, cbVars>>

\* Mutant: the dedup entries of the abandoned tasks stay.
SubmitGiveUpLeaky(j) ==
    /\ subPc[j] = "sending"
    /\ ctx[j] # "live"
    /\ MuFree
    /\ jobs' = jobs \ {j}
    /\ task' = [t \in Tasks |-> IF t \in TasksOf(j, "listed") THEN "dropped" ELSE task[t]]
    /\ subPc' = [subPc EXCEPT ![j] = "refused"]
    /\ UNCHANGED <<submitCh, ctx, fresh, exec, completeCh, loopVars, inFlight,
                   workerPool, pendingRSS, totalTasks, completedTasks, rateVars,
                   retryTimer, downloads, cbVars>>

\* The other arm of the select: the caller's context ended first.
SubmitGiveUp(j) ==
    /\ subPc[j] = "sending"
    /\ ctx[j] # "live"
    /\ MuFree
    /\ jobs' = jobs \ {j}
    /\ pendingRSS' = pendingRSS \ {t[2] : t \in {u \in TasksOf(j, "listed") : j \in RSS}}
    /\ task' = [t \in Tasks |-> IF t \in TasksOf(j, "listed") THEN "dropped" ELSE task[t]]
    /\ subPc' = [subPc EXCEPT ![j] = "refused"]
    /\ UNCHANGED <<submitCh, ctx, fresh, exec, completeCh, loopVars, inFlight,
                   workerPool, totalTasks, completedTasks, rateVars, retryTimer,
                   downloads, cbVars>>

-----------------------------------------------------------------------------
(* The loop goroutine.                                                     *)

\* A batch arrives: enqueueTasks, and the coalescing timer starts.
EnqueueTasks ==
    /\ loopPc = "idle"
    /\ submitCh # << >>
    /\ LET batch == TasksOf(Head(submitCh), "sent") IN
       task' = [t \in Tasks |-> IF t \in batch THEN "queued" ELSE task[t]]
    /\ submitCh' = Tail(submitCh)
    /\ coalesce' = TRUE
    /\ UNCHANGED <<subPc, ctx, fresh, exec, completeCh, loopPc, held, inFlight,
                   workerPool, pendingRSS, jobVars, rateVars, retryTimer,
                   downloads, cbVars>>

\* dispatchTasks takes s.mu and drains the heap into items.
DispatchStart ==
    /\ loopPc = "idle"
    /\ \/ /\ completeCh > 0
          /\ completeCh' = completeCh - 1
          /\ UNCHANGED coalesce
       \/ /\ coalesce
          /\ coalesce' = FALSE
          /\ UNCHANGED completeCh
    /\ held' = Queued
    /\ loopPc' = IF Queued = {} THEN "idle" ELSE "dispatch"
    /\ UNCHANGED <<submitVars, ctx, task, fresh, exec, inFlight, workerPool,
                   pendingRSS, jobVars, rateVars, retryTimer, downloads, cbVars>>

\* The item classified next: the heap orders by priority (and by creation
\* time, left open here).
Foremost(t) ==
    /\ loopPc = "dispatch"
    /\ t \in held
    /\ \A u \in held : Priority[t[1]] <= Priority[u[1]]

\* A context whose deadline passed in the queue is replaced, once.
Renewable(t) == Ctx(t) = "expired" /\ fresh[t] = "none"
Renew(t) == fresh' = IF Renewable(t) THEN [fresh EXCEPT ![t] = "live"] ELSE fresh

Ended(t) == Ctx(t) = "canceled" \/ (Ctx(t) = "expired" /\ fresh[t] # "none")

OverBudget(t) == MaxWait[t[1]] > 0 /\ NextWait(t) > MaxWait[t[1]]

\* The item moves on: classified, and the retry timer is next after the last.
Classified(t) ==
    /\ held' = held \ {t}
    /\ loopPc' = IF held = {t} THEN "retry" ELSE "dispatch"

\* Canceled, expired twice, or over its wait budget: completed with an error.
DispatchSkip(t) ==
    /\ Foremost(t)
    /\ Ended(t) \/ (t[2] \notin inFlight /\ OverBudget(t))
    /\ Classified(t)
    /\ Renew(t)
    /\ task' = [task EXCEPT ![t] = "done"]
    /\ CompleteTask(t)
    /\ UNCHANGED <<submitVars, ctx, exec, completeCh, coalesce, inFlight,
                   workerPool, rateVars, retryTimer, downloads>>

\* Its indexer is busy, must wait, or no worker is free: back to the queue.
DispatchBlock(t) ==
    /\ Foremost(t)
    /\ ~Ended(t)
    /\ \/ t[2] \in inFlight
       \/ ~OverBudget(t) /\ (NextWait(t) > 0 \/ workerPool = Workers)
    /\ Classified(t)
    /\ Renew(t)
    /\ UNCHANGED <<submitVars, ctx, task, exec, completeCh, coalesce, inFlight,
                   workerPool, pendingRSS, jobVars, rateVars, retryTimer,
                   downloads, cbVars>>

\* Mutant: the in-flight entry of the indexer is not looked at.
DispatchLaunchBlind(t) ==
    /\ Foremost(t)
    /\ ~Ended(t)
    /\ NextWait(t) = 0
    /\ workerPool < Workers
    /\ Classified(t)
    /\ Renew(t)
    /\ workerPool' = workerPool + 1
    /\ inFlight' = inFlight \cup {t[2]}
    /\ task' = [task EXCEPT ![t] = "starting"]
    /\ UNCHANGED <<submitVars, ctx, exec, completeCh, coalesce, pendingRSS,
                   jobVars, rateVars, retryTimer, downloads, cbVars>>

\* Launched: the item's context stands, its indexer is free and need not be
\* waited for, and a worker slot is left.
DispatchLaunch(t) ==
    /\ Foremost(t)
    /\ ~Ended(t)
    /\ t[2] \notin inFlight
    /\ NextWait(t) = 0
    /\ workerPool < Workers
    /\ Classified(t)
    /\ Renew(t)
    /\ workerPool' = workerPool + 1
    /\ inFlight' = inFlight \cup {t[2]}
    /\ task' = [task EXCEPT ![t] = "starting"]
    /\ UNCHANGED <<submitVars, ctx, exec, completeCh, coalesce, pendingRSS,
                   jobVars, rateVars, retryTimer, downloads, cbVars>>

\* scheduleRetryTimerLocked reads the waits again, later than the
\* classification did, and arms the timer only if one is still positive.
ScheduleRetryTimer ==
    /\ loopPc = "retry"
    /\ LET waits == {NextWait(t) : t \in Queued} \ {0} IN
       retryTimer' = IF waits = {} THEN retryTimer ELSE Min(waits \cup {MaxRetry})
    /\ loopPc' = "idle"
    /\ UNCHANGED <<submitVars, ctx, task, fresh, exec, completeCh, coalesce,
                   held, inFlight, workerPool, pendingRSS, jobVars, rateVars,
                   downloads, cbVars>>

\* Stop closes stopCh and the loop returns.
Stop ==
    /\ MayStop
    /\ loopPc = "idle"
    /\ loopPc' = "stopped"
    /\ UNCHANGED <<submitVars, ctx, task, fresh, exec, completeCh, coalesce,
                   held, inFlight, workerPool, pendingRSS, jobVars, rateVars,
                   retryTimer, downloads, cbVars>>

-----------------------------------------------------------------------------
(* executeTask: the worker goroutine and the goroutine that runs the       *)
(* search.                                                                 *)

WorkerTo(t, state) == task' = [task EXCEPT ![t] = state]

\* RecordRequestStart (lastStarted is never read) and the exec goroutine.
ExecuteStart(t) ==
    /\ task[t] = "starting"
    /\ WorkerTo(t, "executing")
    /\ exec' = [exec EXCEPT ![t] = "running"]
    /\ UNCHANGED <<submitVars, ctx, fresh, completeCh, loopVars, inFlight,
                   workerPool, pendingRSS, jobVars, rateVars, retryTimer,
                   downloads, cbVars>>

\* The search returns (a panic in it is an error): a success resets the
\* escalation, a rate-limit answer raises it and sets the cooldown, any
\* other error does neither.  The worker may have left already.
ExecReturn(t) ==
    /\ exec[t] = "running"
    /\ exec' = [exec EXCEPT ![t] = "answered"]
    /\ LET i  == t[2]
           up == IF level[i] < Levels THEN level[i] + 1 ELSE level[i]
       IN  \/ /\ level' = [level EXCEPT ![i] = 0]           \* RecordSuccess
              /\ UNCHANGED cooldown
           \/ /\ level' = [level EXCEPT ![i] = up]          \* RecordFailure
              /\ cooldown' = [cooldown EXCEPT
                                ![i] = IF Period[up] > 0 THEN Period[up] ELSE @]
           \/ UNCHANGED <<level, cooldown>>
    /\ UNCHANGED <<submitVars, ctx, task, fresh, completeCh, loopVars, inFlight,
                   workerPool, pendingRSS, jobVars, spacing, retryTimer,
                   downloads, cbVars>>

\* The worker takes the answer or sees its context end, and records the
\* completion.
ExecuteReturn(t) ==
    /\ task[t] = "executing"
    /\ exec[t] = "answered" \/ Ctx(t) # "live"
    /\ WorkerTo(t, "returned")
    /\ spacing' = [spacing EXCEPT ![t[2]] = MinInterval]
    /\ UNCHANGED <<submitVars, ctx, fresh, exec, completeCh, loopVars, inFlight,
                   workerPool, pendingRSS, jobVars, cooldown, level, retryTimer,
                   downloads, cbVars>>

ExecuteComplete(t) ==
    /\ task[t] = "returned"
    /\ MuFree
    /\ WorkerTo(t, "releasing")
    /\ CompleteTask(t)
    /\ inFlight' = inFlight \ {t[2]}
    /\ UNCHANGED <<submitVars, ctx, fresh, exec, completeCh, loopVars,
                   workerPool, rateVars, retryTimer, downloads>>

\* Mutant: the loop is not told that a worker is free.
ExecuteReleaseSilent(t) ==
    /\ task[t] = "releasing"
    /\ WorkerTo(t, "done")
    /\ workerPool' = workerPool - 1
    /\ UNCHANGED <<submitVars, ctx, fresh, exec, completeCh, loopVars, inFlight,
                   pendingRSS, jobVars, rateVars, retryTimer, downloads, cbVars>>

\* Mutant: the deferred function records the completion a second time.
ExecuteReleaseRecords(t) ==
    /\ task[t] = "releasing"
    /\ WorkerTo(t, "done")
    /\ workerPool' = workerPool - 1
    /\ spacing' = [spacing EXCEPT ![t[2]] = MinInterval]
    /\ Wake
    /\ UNCHANGED <<submitVars, ctx, fresh, exec, loopVars, inFlight, pendingRSS,
                   jobVars, cooldown, level, retryTimer, downloads, cbVars>>

\* The deferred function: the slot is released, then the loop is woken.
ExecuteRelease(t) ==
    /\ task[t] = "releasing"
    /\ WorkerTo(t, "done")
    /\ workerPool' = workerPool - 1
    /\ Wake
    /\ UNCHANGED <<submitVars, ctx, fresh, exec, loopVars, inFlight, pendingRSS,
                   jobVars, rateVars, retryTimer, downloads, cbVars>>

-----------------------------------------------------------------------------
(* The aggregator's callbacks.                                             *)

OnComplete(t) ==
    /\ t \in onComplete
    /\ onComplete' = onComplete \ {t}
    /\ completionWG' = [completionWG EXCEPT ![t[1]] = @ - 1]
    /\ UNCHANGED <<submitVars, ctx, task, fresh, exec, completeCh, loopVars,
                   inFlight, workerPool, pendingRSS, jobVars, rateVars,
                   retryTimer, downloads, onJobDone, delivered>>

\* Mutant: the aggregator does not wait for the OnComplete goroutines.
OnJobDoneEager(j) ==
    /\ onJobDone[j] > 0
    /\ j \notin delivered
    /\ delivered' = delivered \cup {j}
    /\ UNCHANGED <<submitVars, ctx, task, fresh, exec, completeCh, loopVars,
                   inFlight, workerPool, pendingRSS, jobVars, rateVars,
                   retryTimer, downloads, onComplete, completionWG, onJobDone>>

\* OnJobDone passes completionWG.Wait and calls resultCallback.
OnJobDone(j) ==
    /\ onJobDone[j] > 0
    /\ j \notin delivered
    /\ completionWG[j] = 0
    /\ delivered' = delivered \cup {j}
    /\ UNCHANGED <<submitVars, ctx, task, fresh, exec, completeCh, loopVars,
                   inFlight, workerPool, pendingRSS, jobVars, rateVars,
                   retryTimer, downloads, onComplete, completionWG, onJobDone>>

-----------------------------------------------------------------------------
(* The surroundings: clock, timer, contexts, downloads.                    *)

Tick ==
    /\ \/ retryTimer > 0
       \/ \E i \in Indexers : spacing[i] > 0 \/ cooldown[i] > 0
    /\ spacing' = [i \in Indexers |-> IF spacing[i] > 0 THEN spacing[i] - 1 ELSE 0]
    /\ cooldown' = [i \in Indexers |-> IF cooldown[i] > 0 THEN cooldown[i] - 1 ELSE 0]
    /\ retryTimer' = IF retryTimer > 0 THEN retryTimer - 1 ELSE retryTimer
    /\ UNCHANGED <<submitVars, ctx, task, fresh, exec, completeCh, loopVars,
                   inFlight, workerPool, pendingRSS, jobVars, level, downloads,
                   cbVars>>

RetryTimerFires ==
    /\ retryTimer = 0
    /\ retryTimer' = NoTimer
    /\ Wake
    /\ UNCHANGED <<submitVars, ctx, task, fresh, exec, loopVars, inFlight,
                   workerPool, pendingRSS, jobVars, rateVars, downloads, cbVars>>

CancelContext(j) ==
    /\ ctx[j] = "live"
    /\ ctx' = [ctx EXCEPT ![j] = "canceled"]
    /\ UNCHANGED <<submitVars, task, fresh, exec, completeCh, loopVars, inFlight,
                   workerPool, pendingRSS, jobVars, rateVars, retryTimer,
                   downloads, cbVars>>

DeadlinePasses(j) ==
    /\ ctx[j] = "live"
    /\ ctx' = [ctx EXCEPT ![j] = "expired"]
    /\ UNCHANGED <<submitVars, task, fresh, exec, completeCh, loopVars, inFlight,
                   workerPool, pendingRSS, jobVars, rateVars, retryTimer,
                   downloads, cbVars>>

FreshDeadlinePasses(t) ==
    /\ fresh[t] = "live"
    /\ fresh' = [fresh EXCEPT ![t] = "expired"]
    /\ UNCHANGED <<submitVars, ctx, task, exec, completeCh, loopVars, inFlight,
                   workerPool, pendingRSS, jobVars, rateVars, retryTimer,
                   downloads, cbVars>>

\* A paced torrent download: WaitForMinInterval finds the (full) interval
\* elapsed and reserves the slot.
WaitForMinInterval(i) ==
    /\ downloads < MaxDownloads
    /\ spacing[i] = 0
    /\ spacing' = [spacing EXCEPT ![i] = MinInterval]
    /\ downloads' = downloads + 1
    /\ UNCHANGED <<submitVars, ctx, task, fresh, exec, completeCh, loopVars,
                   inFlight, workerPool, pendingRSS, jobVars, cooldown, level,
                   retryTimer, cbVars>>

-----------------------------------------------------------------------------

SubmitStep(j) ==
    \/ SubmitStart(j)
    \/ \E i \in Indexers : SubmitIndexer(j, i)
    \/ SubmitRegister(j)
    \/ SubmitSend(j)
    \/ SubmitGiveUp(j)

LoopStep ==
    \/ EnqueueTasks
    \/ DispatchStart
    \/ \E t \in Tasks : DispatchSkip(t) \/ DispatchBlock(t) \/ DispatchLaunch(t)
    \/ ScheduleRetryTimer

WorkerStep(t) ==
    ExecuteStart(t) \/ ExecuteReturn(t) \/ ExecuteComplete(t) \/ ExecuteRelease(t)

Next ==
    \/ \E j \in Jobs : SubmitStep(j)
    \/ LoopStep
    \/ Stop
    \/ \E t \in Tasks : WorkerStep(t)
    \/ \E t \in Tasks : ExecReturn(t)
    \/ \E t \in Tasks : OnComplete(t)
    \/ \E j \in Jobs : OnJobDone(j)
    \/ Tick
    \/ RetryTimerFires
    \/ \E j \in Jobs : CancelContext(j)
    \/ \E j \in Jobs : DeadlinePasses(j)
    \/ \E t \in Tasks : FreshDeadlinePasses(t)
    \/ \E i \in Indexers : WaitForMinInterval(i)

Spec == Init /\ [][Next]_vars

\* Goroutines that can run do run; clocks, timers and the deadlines that
\* WithSearchTimeout and dispatchTasks put on every context arrive.  Nothing
\* is assumed of the indexers (ExecReturn), of the callers' cancellations or
\* of downloads.
Fairness ==
    /\ \A j \in Jobs : WF_vars(SubmitStep(j)) /\ WF_vars(OnJobDone(j))
    /\ WF_vars(LoopStep)
    /\ \A t \in Tasks : WF_vars(WorkerStep(t)) /\ WF_vars(OnComplete(t))
    /\ WF_vars(Tick) /\ WF_vars(RetryTimerFires)
    /\ \A j \in Jobs : WF_vars(DeadlinePasses(j))
    /\ \A t \in Tasks : WF_vars(FreshDeadlinePasses(t))

FairSpec == Spec /\ Fairness

-----------------------------------------------------------------------------
(* Properties.                                                             *)

\* Every variable stays in its type: the task and goroutine states, the
\* channels and the worker pool within their capacities.
TypeOK ==
    /\ subPc \in [Jobs -> {"idle", "listing", "sending", "accepted", "refused"}]
    /\ ctx \in [Jobs -> {"live", "canceled", "expired"}]
    /\ task \in [Tasks -> Live \cup {"none", "skipped", "dropped", "releasing", "done"}]
    /\ fresh \in [Tasks -> {"none", "live", "expired"}]
    /\ exec \in [Tasks -> {"none", "running", "answered"}]
    /\ submitCh \in Seq(Jobs)
    /\ completeCh \in 0..CompleteCap
    /\ loopPc \in {"idle", "dispatch", "retry", "stopped"}
    /\ coalesce \in BOOLEAN
    /\ held \subseteq Tasks
    /\ inFlight \subseteq Indexers
    /\ workerPool \in Int
    /\ pendingRSS \subseteq Indexers
    /\ jobs \subseteq Jobs
    /\ totalTasks \in [Jobs -> Nat]
    /\ completedTasks \in [Jobs -> Nat]
    /\ spacing \in [Indexers -> Nat]
    /\ cooldown \in [Indexers -> Nat]
    /\ level \in [Indexers -> 0..Levels]
    /\ retryTimer \in NoTimer..MaxRetry
    /\ downloads \in 0..MaxDownloads
    /\ onComplete \subseteq Tasks
    /\ completionWG \in [Jobs -> Int]
    /\ onJobDone \in [Jobs -> Nat]
    /\ delivered \subseteq Jobs

\* An RSS search skips an indexer that has an entry in pendingRSS, so an entry
\* that outlived its task would silence the indexer's feed for good, and a
\* missing one would query the indexer twice.  At every moment the entries are
\* exactly the indexers with an RSS task not completed yet, one task each,
\* whatever cancellations, give-ups, skips and executions ended earlier ones.
RSSEntriesExact ==
    /\ \A i \in pendingRSS : \E t \in Tasks :
            t[1] \in RSS /\ t[2] = i /\ task[t] \in Live
    /\ \A t \in Tasks :
            t[1] \in RSS /\ task[t] \in Live =>
                /\ t[2] \in pendingRSS
                /\ \A u \in Tasks : u[1] \in RSS /\ u[2] = t[2] /\ task[u] \in Live
                                        => u = t

\* No indexer is ever searched by two workers at once, and the worker pool
\* accounts exactly for the workers that have not released their slot, never
\* more than its capacity.
WorkersExclusive ==
    /\ \A t, u \in Tasks :
            task[t] \in OnWorker /\ task[u] \in OnWorker /\ t[2] = u[2] => t = u
    /\ inFlight = {t[2] : t \in {u \in Tasks : task[u] \in OnWorker}}
    /\ workerPool = Cardinality({t \in Tasks : task[t] \in HasSlot})
    /\ workerPool <= Workers

\* "OnJobDone fires once after ALL indexers complete": never twice, and not
\* while a task of the job still waits or runs, whether its tasks end in
\* dispatchTasks, in a worker or are all dropped by the RSS deduplication.
JobDoneOnceAndLast ==
    \A j \in Jobs :
        /\ onJobDone[j] <= 1
        /\ onJobDone[j] = 1 => \A t \in Tasks : t[1] = j => task[t] \notin Live

\* The final callback sees every outcome: it runs only once every OnComplete of
\* the search has run.
DeliveredComplete ==
    \A j \in delivered : \A t \in Tasks :
        t[1] = j => task[t] \notin Live /\ t \notin onComplete

\* A worker asks an indexer only when the search's share of the minimum
\* interval has passed since the last completion recorded there: the indexer
\* is never freed before its completion is on record.  (A paced download may
\* take the slot between the launch and the request; it is set aside here.)
StartsSpaced ==
    [][\A t \in Tasks :
         task[t] = "starting" /\ task'[t] = "executing" /\ downloads = 0
            => spacing[t[2]] <= MinInterval - Interval[t[1]]]_vars

\* Every search that Submit accepted ends: OnJobDone is started, even when
\* indexers never answer and whatever contexts are canceled or expire.  This
\* is not so when tasks wait for their interval: a wait that elapses between
\* classification and arming the timer leaves the task without a wake-up.
AcceptedJobsFinish ==
    \A j \in Jobs : subPc[j] = "accepted" ~> onJobDone[j] = 1

\* The caller of an accepted search gets its resultCallback.
ResultsDelivered ==
    \A j \in Jobs : subPc[j] = "accepted" ~> j \in delivered
=============================================================================
