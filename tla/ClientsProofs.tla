--------------------------- MODULE ClientsProofs ----------------------------
(***************************************************************************)
(* The reannounce service on top of the pool, for any number of instances, *)
(* torrents, goroutines and connections: isRunning is exact, the service   *)
(* implements SingleFlight, jobs keep their cooldown, and the pool keeps   *)
(* what ClientPoolProofs shows of it alone.                                *)
(***************************************************************************)
EXTENDS Clients, ClientPoolProofs

(* What the steps of the service keep: a worker and a running entry imply  *)
(* one another, one torrent has one worker, and an entry that was not      *)
(* removed remembers the last completion.                                  *)
OneWorker == \A v, w \in Workers : on[v] # None /\ on[v] = on[w] => v = w

RunningHasWorker ==
    \A t \in Torrents : JobOf(t).running <=> \E w \in Workers : on[w] = t

CompletionKnown ==
    \A t \in Torrents \ forgotten : JobOf(t).completed = completedAt[t]

JobInv ==
    /\ now \in 1 .. MaxTime /\ ReannounceTypeOK
    /\ OneWorker /\ RunningHasWorker /\ CompletionKnown

-----------------------------------------------------------------------------
(* Entries have the fields enqueue and finishJob use. *)
LEMMA JobFacts ==
    ASSUME JobInv, NEW t \in Torrents
    PROVE  /\ JobOf(t) \in JobRecords
           /\ t # None
           /\ JobOf(t).running => jobs[t] # None /\ jobs[t] = JobOf(t)
<1>1. NoJob \in JobRecords
  BY ClockAssumption DEF NoJob, JobRecords
<1>2. jobs[t] # None => jobs[t] \in JobRecords
  BY DEF JobInv, ReannounceTypeOK
<1>3. ~NoJob.running
  BY DEF NoJob
<1> QED BY <1>1, <1>2, <1>3, ReannounceAssumption DEF JobOf

(* The entry of one torrent is replaced by job; the others stay. *)
LEMMA JobReplaced ==
    ASSUME JobInv, NEW t \in Torrents, NEW job \in JobRecords,
           jobs' = [jobs EXCEPT ![t] = job]
    PROVE  /\ jobs' \in [Torrents -> {None} \cup JobRecords]
           /\ JobOf(t)' = job
           /\ \A u \in Torrents \ {t} : JobOf(u)' = JobOf(u)
<1>1. jobs'[t] = job /\ job # None
  BY ReannounceAssumption DEF JobInv, ReannounceTypeOK
<1>2. \A u \in Torrents \ {t} : jobs'[u] = jobs[u]
  BY DEF JobInv, ReannounceTypeOK
<1>3. jobs' \in [Torrents -> {None} \cup JobRecords]
  BY DEF JobInv, ReannounceTypeOK
<1> QED BY <1>1, <1>2, <1>3 DEF JobOf, NoJob

(* enqueue. *)
LEMMA EnqueueKeeps ==
    ASSUME JobInv, NEW t \in Torrents, Enqueue(t),
           UNCHANGED <<now, started, scanning, completedAt, forgotten>>,
           found' = None \/ found' \subseteq Torrents
    PROVE  JobInv'
<1>1. JobOf(t) \in JobRecords /\ now \in 0 .. MaxTime
  BY JobFacts DEF JobInv
<1>2. ASSUME NEW w \in Workers, ~JobOf(t).running, on[w] = None,
             jobs' = [jobs EXCEPT ![t] = [JobOf(t) EXCEPT !.requested = now, !.running = TRUE]],
             on' = [on EXCEPT ![w] = t], phase' = [phase EXCEPT ![w] = "client"]
      PROVE  JobInv'
  <2> DEFINE job == [JobOf(t) EXCEPT !.requested = now, !.running = TRUE]
  <2>1. job \in JobRecords /\ job.running /\ job.completed = JobOf(t).completed
    BY <1>1 DEF JobRecords
  <2>2. /\ jobs' \in [Torrents -> {None} \cup JobRecords]
        /\ JobOf(t)' = job
        /\ \A u \in Torrents \ {t} : JobOf(u)' = JobOf(u)
    BY <1>2, <2>1, JobReplaced
  <2> HIDE DEF job
  <2>3. ReannounceTypeOK' /\ (now \in 1 .. MaxTime)'
    BY <1>2, <2>2, JobFacts DEF JobInv, ReannounceTypeOK, Phases
  <2>4. OneWorker'
    BY <1>2, JobFacts DEF JobInv, ReannounceTypeOK, OneWorker, RunningHasWorker
  <2>5. RunningHasWorker'
    BY <1>2, <2>1, <2>2, JobFacts DEF JobInv, ReannounceTypeOK, RunningHasWorker
  <2>6. CompletionKnown'
    BY <2>1, <2>2 DEF JobInv, CompletionKnown
  <2> QED BY <2>3, <2>4, <2>5, <2>6 DEF JobInv
<1>3. CASE /\ jobs' = [jobs EXCEPT ![t] = [JobOf(t) EXCEPT !.requested = now]]
           /\ UNCHANGED <<on, phase>>
  <2> DEFINE job == [JobOf(t) EXCEPT !.requested = now]
  <2>1. /\ job \in JobRecords /\ job.running = JobOf(t).running
        /\ job.completed = JobOf(t).completed
    BY <1>1 DEF JobRecords
  <2>2. /\ jobs' \in [Torrents -> {None} \cup JobRecords]
        /\ JobOf(t)' = job
        /\ \A u \in Torrents \ {t} : JobOf(u)' = JobOf(u)
    BY <1>3, <2>1, JobReplaced
  <2> HIDE DEF job
  <2>3. ReannounceTypeOK' /\ (now \in 1 .. MaxTime)'
    BY <1>3, <2>2 DEF JobInv, ReannounceTypeOK
  <2>4. OneWorker'
    BY <1>3 DEF JobInv, OneWorker
  <2>5. RunningHasWorker'
    BY <1>3, <2>1, <2>2 DEF JobInv, RunningHasWorker
  <2>6. CompletionKnown'
    BY <2>1, <2>2 DEF JobInv, CompletionKnown
  <2> QED BY <2>3, <2>4, <2>5, <2>6 DEF JobInv
<1> QED BY <1>2, <1>3 DEF Enqueue

(* finishJob. *)
LEMMA FinishKeeps ==
    ASSUME JobInv, NEW w \in Workers, on[w] # None, FinishJob(w), UNCHANGED now
    PROVE  JobInv'
<1>0. PICK t \in Torrents : on[w] = t
  BY DEF JobInv, ReannounceTypeOK
<1>1. now \in 0 .. MaxTime /\ now # 0
  BY DEF JobInv, ReannounceTypeOK
<1>2. JobOf(t).running /\ jobs[t] # None /\ jobs[t] = JobOf(t) /\ jobs[t] \in JobRecords
  BY <1>0, JobFacts DEF JobInv, RunningHasWorker
<1>3. /\ on' = [on EXCEPT ![w] = None] /\ phase' = [phase EXCEPT ![w] = "idle"]
      /\ completedAt' = [completedAt EXCEPT ![t] = now]
      /\ forgotten' = IF jobs'[t] = None THEN forgotten \cup {t} ELSE forgotten \ {t}
      /\ UNCHANGED <<started, scanning, found>>
      /\ \/ jobs' = [jobs EXCEPT ![t] = None]
         \/ jobs' = [jobs EXCEPT ![t] = [jobs[t] EXCEPT !.running = FALSE, !.completed = now]]
  BY <1>0 DEF FinishJob
<1>4. OneWorker' /\ ~(\E v \in Workers : on'[v] = t)
  BY <1>0, <1>3, ReannounceAssumption DEF JobInv, ReannounceTypeOK, OneWorker
<1>5. /\ jobs' \in [Torrents -> {None} \cup JobRecords]
      /\ ~JobOf(t)'.running
      /\ t \notin forgotten' => JobOf(t)'.completed = now
      /\ \A u \in Torrents \ {t} : JobOf(u)' = JobOf(u)
  <2>1. CASE jobs' = [jobs EXCEPT ![t] = None]
    BY <1>1, <1>3, <2>1 DEF JobInv, ReannounceTypeOK, JobOf, NoJob
  <2>2. CASE jobs' = [jobs EXCEPT ![t] = [jobs[t] EXCEPT !.running = FALSE, !.completed = now]]
    <3> DEFINE job == [jobs[t] EXCEPT !.running = FALSE, !.completed = now]
    <3>1. job \in JobRecords /\ ~job.running /\ job.completed = now
      BY <1>1, <1>2 DEF JobRecords
    <3> QED BY <1>1, <2>2, <3>1, JobReplaced
  <2> QED BY <1>3, <2>1, <2>2
<1>6. ReannounceTypeOK' /\ (now \in 1 .. MaxTime)'
  BY <1>1, <1>3, <1>5, ReannounceAssumption DEF JobInv, ReannounceTypeOK, Phases
<1>7. RunningHasWorker'
  <2>1. \A u \in Torrents \ {t}, v \in Workers : on'[v] = u <=> on[v] = u
    BY <1>0, <1>3, ReannounceAssumption DEF JobInv, ReannounceTypeOK
  <2> QED BY <1>4, <1>5, <2>1 DEF JobInv, RunningHasWorker
<1>8. CompletionKnown'
  BY <1>1, <1>3, <1>5 DEF JobInv, ReannounceTypeOK, CompletionKnown
<1> QED BY <1>4, <1>6, <1>7, <1>8 DEF JobInv

-----------------------------------------------------------------------------
(* The steps of the service that move no job. *)
LEMMA QuietKeeps ==
    ASSUME JobInv, UNCHANGED <<now, jobs, on, completedAt, forgotten>>,
           started' \in BOOLEAN, scanning' \in Instances \cup {None},
           found' = None \/ found' \subseteq Torrents,
           phase' \in [Workers -> Phases],
           \A w \in Workers : phase'[w] = "idle" <=> phase[w] = "idle"
    PROVE  JobInv'
<1>1. \A t \in Torrents : JobOf(t)' = JobOf(t)
  BY DEF JobOf, NoJob
<1>2. ReannounceTypeOK'
  BY DEF JobInv, ReannounceTypeOK
<1> QED BY <1>1, <1>2 DEF JobInv, OneWorker, RunningHasWorker, CompletionKnown

(* A step of a job that does not finish it. *)
LEMMA AdvanceKeeps ==
    ASSUME JobInv, NEW w \in Workers, NEW from \in Phases \ {"idle"},
           NEW to \in Phases \ {"idle"}, Advance(w, from, to), UNCHANGED now
    PROVE  JobInv'
<1>1. phase' \in [Workers -> Phases]
      /\ \A v \in Workers : phase'[v] = "idle" <=> phase[v] = "idle"
  BY DEF JobInv, ReannounceTypeOK, Advance
<1> QED BY <1>1, QuietKeeps DEF JobInv, ReannounceTypeOK, Advance

(* Every step keeps the entries exact. *)
LEMMA JobStep == JobInv /\ [Next]_vars => JobInv'
<1> SUFFICES ASSUME JobInv, [Next]_vars PROVE JobInv'
  OBVIOUS
<1> USE DEF reannounceVars
<1>1. CASE PoolStep /\ UNCHANGED reannounceVars
  BY <1>1, QuietKeeps DEF PoolStep, JobInv, ReannounceTypeOK
<1>2. CASE Tick /\ UNCHANGED <<poolVars, reannounceVars>>
  <2>1. now' \in 1 .. MaxTime
    BY <1>2, ClockAssumption DEF Tick, JobInv
  <2>2. \A t \in Torrents : JobOf(t)' = JobOf(t)
    BY <1>2 DEF JobOf, NoJob
  <2> QED BY <1>2, <2>1, <2>2
      DEF JobInv, ReannounceTypeOK, OneWorker, RunningHasWorker, CompletionKnown
<1>3. CASE ServiceStep
  <2>1. ASSUME NEW w \in Workers, JobAsks(w) PROVE JobInv'
    BY <2>1, AdvanceKeeps DEF JobAsks, AskClient, Phases
  <2>2. ASSUME NEW w \in Workers, JobGoesOn(w) PROVE JobInv'
    <3>1. CASE ClientReady(w) /\ UNCHANGED now
      BY <3>1, AdvanceKeeps DEF ClientReady, Phases
    <3>2. CASE ClientUnavailable(w) /\ UNCHANGED now
      BY <3>2, FinishKeeps DEF ClientUnavailable, JobInv, ReannounceTypeOK
    <3> QED BY <2>2, <3>1, <3>2 DEF JobGoesOn, Answered
  <2>3. ASSUME NEW i \in Instances, ScanAsks(i) PROVE JobInv'
    BY <2>3, QuietKeeps DEF ScanAsks, ScanInstance, JobInv, ReannounceTypeOK
  <2>4. CASE ScanGoesOn
    <3>1. CASE ScanFinds /\ UNCHANGED now
      BY <3>1, QuietKeeps DEF ScanFinds, JobInv, ReannounceTypeOK
    <3>2. CASE ScanFails /\ UNCHANGED now
      BY <3>2, QuietKeeps DEF ScanFails, JobInv, ReannounceTypeOK
    <3>3. CASE ScanEnds /\ UNCHANGED now
      BY <3>3, QuietKeeps DEF ScanEnds, JobInv, ReannounceTypeOK
    <3>4. CASE ScanEnqueues /\ UNCHANGED now
      <4>1. PICK t \in found : Enqueue(t) /\ found' = found \ {t}
        BY <3>4 DEF ScanEnqueues
      <4>2. found \subseteq Torrents
        BY <3>4 DEF ScanEnqueues, JobInv, ReannounceTypeOK
      <4> QED BY <3>4, <4>1, <4>2, EnqueueKeeps DEF ScanEnqueues
    <3> QED BY <2>4, <3>1, <3>2, <3>3, <3>4 DEF ScanGoesOn, Answered
  <2>5. CASE StartService /\ UNCHANGED now
    BY <2>5, QuietKeeps DEF StartService, JobInv, ReannounceTypeOK
  <2>6. ASSUME NEW w \in Workers, Reannounced(w), UNCHANGED now PROVE JobInv'
    BY <2>6, FinishKeeps DEF Reannounced, JobInv, ReannounceTypeOK
  <2>7. ASSUME NEW t \in Torrents, RequestReannounce(t), UNCHANGED now PROVE JobInv'
    BY <2>7, EnqueueKeeps DEF RequestReannounce, JobInv, ReannounceTypeOK
  <2> QED BY <1>3, <2>1, <2>2, <2>3, <2>4, <2>5, <2>6, <2>7 DEF ServiceStep
<1>4. CASE UNCHANGED vars
  BY <1>4, QuietKeeps DEF vars, JobInv, ReannounceTypeOK
<1> QED BY <1>1, <1>2, <1>3, <1>4 DEF Next

LEMMA JobInvariant == Spec => []JobInv
<1>1. Init => JobInv
  <2> SUFFICES ASSUME ClockInit, ReannounceInit PROVE JobInv
    BY DEF Init
  <2>1. now \in 1 .. MaxTime /\ completedAt \in [Torrents -> 0 .. MaxTime]
    BY ClockAssumption DEF ClockInit, ReannounceInit
  <2>3. ReannounceTypeOK
    BY <2>1 DEF ReannounceInit, ReannounceTypeOK, Phases
  <2>2. \A t \in Torrents : ~JobOf(t).running /\ JobOf(t).completed = 0 /\ t # None
    BY ReannounceAssumption DEF ReannounceInit, JobOf, NoJob
  <2> QED BY <2>1, <2>2, <2>3
      DEF JobInv, ReannounceInit, OneWorker, RunningHasWorker, CompletionKnown
<1> QED BY <1>1, JobStep, PTL DEF Spec

(* isRunning is set exactly while one worker has the torrent.              *)
THEOREM RunningIsExact == Spec => []RunningExact
<1>1. JobInv => RunningExact
  <2> SUFFICES ASSUME JobInv, NEW t \in Torrents
               PROVE  Cardinality(JobsOn(t)) = IF JobOf(t).running THEN 1 ELSE 0
    BY DEF RunningExact
  <2>1. CASE JobOf(t).running
    <3>1. PICK w \in Workers : on[w] = t
      BY <2>1 DEF JobInv, RunningHasWorker
    <3>2. JobsOn(t) = {w}
      BY <3>1, JobFacts DEF JobInv, OneWorker, JobsOn
    <3> QED BY <2>1, <3>2, FS_Singleton
  <2>2. CASE ~JobOf(t).running
    BY <2>2, FS_EmptySet DEF JobInv, RunningHasWorker, JobsOn
  <2> QED BY <2>1, <2>2
<1> QED BY <1>1, JobInvariant, PTL

-----------------------------------------------------------------------------
(* Which workers have which torrents changes in two ways: a job begins on a *)
(* torrent that has none, or a job ends.                                    *)
Begins == \E t \in Torrents, w \in Workers :
    /\ ~JobOf(t).running /\ on[w] = None
    /\ \E window \in Windows : ~InCooldown(t, window)
    /\ on' = [on EXCEPT ![w] = t]

Ends == \E w \in Workers : on[w] # None /\ on' = [on EXCEPT ![w] = None]

LEMMA EnqueueMoves ==
    ASSUME NEW t \in Torrents, Enqueue(t)
    PROVE  Begins \/ UNCHANGED on
BY DEF Enqueue, Begins

LEMMA WorkersMove ==
    ASSUME JobInv, [Next]_vars
    PROVE  Begins \/ Ends \/ UNCHANGED on
<1> USE DEF reannounceVars
<1>1. CASE ServiceStep
  <2>1. ASSUME NEW w \in Workers, JobAsks(w) PROVE UNCHANGED on
    BY <2>1 DEF JobAsks, AskClient, Advance
  <2>2. ASSUME NEW w \in Workers, JobGoesOn(w) PROVE Ends \/ UNCHANGED on
    <3>1. CASE ClientReady(w)
      BY <3>1 DEF ClientReady, Advance
    <3>2. CASE ClientUnavailable(w)
      BY <3>2 DEF ClientUnavailable, FinishJob, Ends, JobInv, ReannounceTypeOK
    <3> QED BY <2>2, <3>1, <3>2 DEF JobGoesOn
  <2>3. ASSUME NEW i \in Instances, ScanAsks(i) PROVE UNCHANGED on
    BY <2>3 DEF ScanAsks, ScanInstance
  <2>4. CASE ScanGoesOn
    <3>1. CASE ScanFinds \/ ScanFails \/ ScanEnds
      BY <3>1 DEF ScanFinds, ScanFails, ScanEnds
    <3>2. CASE ScanEnqueues
      BY <3>2, EnqueueMoves DEF ScanEnqueues, JobInv, ReannounceTypeOK
    <3> QED BY <2>4, <3>1, <3>2 DEF ScanGoesOn
  <2>5. CASE StartService BY <2>5 DEF StartService
  <2>6. ASSUME NEW w \in Workers, Reannounced(w) PROVE Ends
    BY <2>6 DEF Reannounced, FinishJob, Ends, JobInv, ReannounceTypeOK
  <2>7. ASSUME NEW t \in Torrents, RequestReannounce(t) PROVE Begins \/ UNCHANGED on
    BY <2>7, EnqueueMoves DEF RequestReannounce
  <2> QED BY <1>1, <2>1, <2>2, <2>3, <2>4, <2>5, <2>6, <2>7 DEF ServiceStep
<1> QED BY <1>1 DEF Next, vars

(* The service implements SingleFlight with torrents as keys: a job begins  *)
(* only on a torrent without one.                                           *)
THEOREM OneJobRefines == Spec => OneJobPerTorrent
<1> DEFINE Busy == [t \in Torrents |-> JobsOn(t)]
<1>1. Init => OneJob!Init
  BY ReannounceAssumption DEF Init, ReannounceInit, OneJob!Init, JobsOn
<1>2. JobInv /\ [Next]_vars => [OneJob!Next]_Busy
  <2> SUFFICES ASSUME JobInv, [Next]_vars PROVE OneJob!Next \/ Busy' = Busy
    OBVIOUS
  <2>1. CASE Begins
    <3>1. PICK t \in Torrents, w \in Workers :
                 ~JobOf(t).running /\ on[w] = None /\ on' = [on EXCEPT ![w] = t]
      BY <2>1 DEF Begins
    <3>2. JobsOn(t) = {}
      BY <3>1 DEF JobInv, RunningHasWorker, JobsOn
    <3>3. JobsOn(t)' = {w}
      BY <3>1, <3>2 DEF JobInv, ReannounceTypeOK, JobsOn
    <3>4. \A u \in Torrents \ {t} : JobsOn(u)' = JobsOn(u)
      BY <3>1, ReannounceAssumption DEF JobInv, ReannounceTypeOK, JobsOn
    <3>5. OneJob!Begin(t, w)
      BY <3>2, <3>3, <3>4 DEF OneJob!Begin
    <3> QED BY <3>5 DEF OneJob!Next
  <2>2. CASE Ends
    <3>1. PICK w \in Workers : on[w] # None /\ on' = [on EXCEPT ![w] = None]
      BY <2>2 DEF Ends
    <3>2. PICK t \in Torrents : on[w] = t
      BY <3>1 DEF JobInv, ReannounceTypeOK
    <3>3. JobsOn(t) # {} /\ JobsOn(t)' = {}
      BY <3>1, <3>2, ReannounceAssumption DEF JobInv, ReannounceTypeOK, OneWorker, JobsOn
    <3>4. \A u \in Torrents \ {t} : JobsOn(u)' = JobsOn(u)
      BY <3>1, <3>2, ReannounceAssumption DEF JobInv, ReannounceTypeOK, JobsOn
    <3>5. OneJob!End(t)
      BY <3>3, <3>4 DEF OneJob!End
    <3> QED BY <3>5 DEF OneJob!Next
  <2>3. CASE UNCHANGED on
    BY <2>3 DEF JobsOn
  <2> QED BY <2>1, <2>2, <2>3, WorkersMove
<1> QED BY <1>1, <1>2, JobInvariant, PTL DEF Spec, OneJobPerTorrent, OneJob!Spec

(* Two jobs for a torrent are a cooldown apart, but for the entries that    *)
(* finishJob removed.                                                       *)
THEOREM CooldownHolds == Spec => CooldownKept
<1> DEFINE Kept == \A t \in Torrents :
         ~JobOf(t).running /\ JobsOn(t)' # {} =>
            \/ completedAt[t] = 0 \/ t \in forgotten
            \/ \E window \in Windows : now - completedAt[t] >= window
<1>1. JobInv /\ [Next]_vars => [Kept]_reannounceVars
  <2> SUFFICES ASSUME JobInv, [Next]_vars, NEW t \in Torrents, ~JobOf(t).running,
                      JobsOn(t)' # {}, completedAt[t] # 0, t \notin forgotten
               PROVE  \E window \in Windows : now - completedAt[t] >= window
    OBVIOUS
  <2>1. JobsOn(t) = {} /\ JobOf(t).completed = completedAt[t]
    BY DEF JobInv, RunningHasWorker, JobsOn, CompletionKnown
  <2>2. PICK v \in Workers : on'[v] = t /\ on[v] # t
    BY <2>1 DEF JobsOn
  <2>3. ~Ends /\ on' # on
    BY <2>2, ReannounceAssumption DEF Ends, JobInv, ReannounceTypeOK
  <2>4. PICK u \in Torrents, w \in Workers :
               /\ \E window \in Windows : ~InCooldown(u, window)
               /\ on' = [on EXCEPT ![w] = u]
    BY <2>3, WorkersMove DEF Begins
  <2>5. u = t
    BY <2>2, <2>4 DEF JobInv, ReannounceTypeOK
  <2>6. PICK window \in Windows : ~InCooldown(t, window)
    BY <2>4, <2>5
  <2> QED BY <2>1, <2>6, ReannounceAssumption DEF InCooldown, JobInv, ReannounceTypeOK
<1> QED BY <1>1, JobInvariant, PTL DEF Spec, CooldownKept

-----------------------------------------------------------------------------
(* To the pool, the service is callers that call and take their answers. *)
LEMMA ServiceIsCallers ==
    ASSUME Shape, JobInv, [Next]_vars
    PROVE  PoolMove
<1>1. CASE PoolStep /\ UNCHANGED reannounceVars
  BY <1>1 DEF PoolMove, PoolNext
<1>2. CASE UNCHANGED <<now, poolVars>>
  BY <1>2, PoolStutters
<1>3. ASSUME NEW c \in Callers, NEW a, Answered(c, a)
      PROVE  PoolMove
  <2>1. answer' \in [Procs -> {"none", "client", "error"}]
    BY <1>3 DEF Answered, Shape, PoolTypeOK
  <2> QED BY <1>3, <2>1 DEF Answered, PoolMove, AnswerTaken
<1>4. ASSUME NEW c \in Callers, NEW i \in Instances, GetClient(c, i), UNCHANGED now
      PROVE  PoolMove
  BY <1>4 DEF PoolMove, PoolNext
<1>5. CASE ServiceStep
  <2>1. ASSUME NEW w \in Workers, JobAsks(w) PROVE PoolMove
    <3>1. w \in Callers /\ GetClient(w, InstanceOf[on[w]]) /\ UNCHANGED now
      BY <2>1, ClientsAssumption DEF JobAsks
    <3>2. InstanceOf[on[w]] \in Instances
      BY <2>1, ReannounceAssumption DEF JobAsks, AskClient, Advance, JobInv, ReannounceTypeOK
    <3> QED BY <1>4, <3>1, <3>2
  <2>2. ASSUME NEW w \in Workers, JobGoesOn(w) PROVE PoolMove
    BY <1>3, <2>2, ClientsAssumption DEF JobGoesOn
  <2>3. ASSUME NEW i \in Instances, ScanAsks(i) PROVE PoolMove
    BY <1>4, <2>3, ClientsAssumption DEF ScanAsks
  <2>4. CASE ScanGoesOn
    BY <1>2, <1>3, <2>4, ClientsAssumption DEF ScanGoesOn
  <2> QED BY <1>2, <1>5, <2>1, <2>2, <2>3, <2>4 DEF ServiceStep
<1>6. CASE Tick /\ UNCHANGED <<poolVars, reannounceVars>>
  <2>1. Tick /\ UNCHANGED poolVars
    BY <1>6
  <2> QED BY <2>1 DEF PoolMove, PoolNext
<1>7. CASE UNCHANGED vars
  BY <1>2, <1>7 DEF vars
<1> QED BY <1>1, <1>5, <1>6, <1>7 DEF Next

(* A job waits for a client exactly while the pool works for it or has an  *)
(* answer for it.                                                          *)
AnswersMatch ==
    \A w \in Workers : stage[w] # "idle" \/ answer[w] # "none" <=> phase[w] = "asked"

ServiceInv == JobInv /\ MapInv /\ SpaceInv /\ AnswersMatch

LEMMA AnswersKept ==
    ASSUME ServiceInv, [Next]_vars
    PROVE  AnswersMatch'
<1> USE DEF reannounceVars
<1>0. Shape /\ AnswersMatch /\ JobInv /\ Workers \subseteq Callers /\ Scanner \notin Workers
      /\ Callers \subseteq Procs
  BY ClientsAssumption DEF ServiceInv, MapInv, Procs
<1>1. CASE PoolStep /\ UNCHANGED phase
  BY <1>0, <1>1, CallerMoves DEF AnswersMatch
<1>2. CASE UNCHANGED <<stage, answer, phase>>
  BY <1>0, <1>2 DEF AnswersMatch
<1>3. ASSUME NEW c \in Callers, NEW i, GetClient(c, i)
      PROVE  /\ stage'[c] # "idle" \/ answer'[c] # "none"
             /\ \A v \in Callers \ {c} : stage'[v] = stage[v] /\ answer'[v] = answer[v]
  BY <1>0, <1>3 DEF GetClient, Return, Goto, Shape, PoolTypeOK
<1>4. ASSUME NEW c \in Callers, NEW a, Answered(c, a)
      PROVE  /\ stage'[c] = "idle" /\ answer'[c] = "none"
             /\ \A v \in Callers \ {c} : stage'[v] = stage[v] /\ answer'[v] = answer[v]
  BY <1>0, <1>4 DEF Answered, Shape, PoolTypeOK
<1>5. ASSUME NEW t \in Torrents, Enqueue(t), UNCHANGED <<stage, answer>>
      PROVE  AnswersMatch'
  <2>1. CASE UNCHANGED phase
    BY <1>2, <1>5, <2>1
  <2>2. ASSUME NEW w \in Workers, on[w] = None, phase' = [phase EXCEPT ![w] = "client"]
        PROVE  AnswersMatch'
    BY <1>0, <1>5, <2>2 DEF AnswersMatch, JobInv, ReannounceTypeOK
  <2> QED BY <1>5, <2>1, <2>2 DEF Enqueue
<1>6. CASE ServiceStep
  <2>1. ASSUME NEW w \in Workers, JobAsks(w) PROVE AnswersMatch'
    <3>1. phase' = [phase EXCEPT ![w] = "asked"]
      BY <2>1 DEF JobAsks, AskClient, Advance
    <3> QED BY <1>0, <1>3, <2>1, <3>1 DEF JobAsks, AnswersMatch, JobInv, ReannounceTypeOK
  <2>2. ASSUME NEW w \in Workers, JobGoesOn(w) PROVE AnswersMatch'
    <3>1. \E s \in {"announce", "idle"} : phase' = [phase EXCEPT ![w] = s]
      BY <2>2 DEF JobGoesOn, ClientReady, ClientUnavailable, Advance, FinishJob
    <3> QED BY <1>0, <1>4, <2>2, <3>1 DEF JobGoesOn, AnswersMatch, JobInv, ReannounceTypeOK
  <2>3. ASSUME NEW i \in Instances, ScanAsks(i) PROVE AnswersMatch'
    <3>1. UNCHANGED phase /\ Scanner \in Callers /\ GetClient(Scanner, i)
      BY <2>3, ClientsAssumption DEF ScanAsks, ScanInstance
    <3> QED BY <1>0, <1>3, <3>1 DEF AnswersMatch
  <2>4. CASE ScanGoesOn
    <3>1. ASSUME NEW a, Answered(Scanner, a), UNCHANGED phase
          PROVE  AnswersMatch'
      BY <1>0, <1>4, <3>1, ClientsAssumption DEF AnswersMatch
    <3>2. CASE ScanEnqueues /\ UNCHANGED poolVars
      <4>1. PICK t \in Torrents : Enqueue(t)
        BY <1>0, <3>2 DEF ScanEnqueues, JobInv, ReannounceTypeOK
      <4> QED BY <1>5, <3>2, <4>1 DEF poolVars, local
    <3>3. CASE ScanEnds /\ UNCHANGED poolVars
      BY <1>2, <3>3 DEF ScanEnds, poolVars, local
    <3> QED BY <2>4, <3>1, <3>2, <3>3 DEF ScanGoesOn, ScanFinds, ScanFails
  <2>5. CASE StartService /\ UNCHANGED poolVars
    BY <1>2, <2>5 DEF StartService, poolVars, local
  <2>6. ASSUME NEW w \in Workers, Reannounced(w), UNCHANGED poolVars PROVE AnswersMatch'
    <3>1. phase[w] = "announce" /\ phase' = [phase EXCEPT ![w] = "idle"]
      BY <2>6 DEF Reannounced, FinishJob
    <3> QED BY <1>0, <2>6, <3>1 DEF AnswersMatch, JobInv, ReannounceTypeOK, poolVars, local
  <2>7. ASSUME NEW t \in Torrents, RequestReannounce(t), UNCHANGED poolVars
        PROVE  AnswersMatch'
    BY <1>5, <2>7 DEF RequestReannounce, poolVars, local
  <2> QED BY <1>6, <2>1, <2>2, <2>3, <2>4, <2>5, <2>6, <2>7 DEF ServiceStep
<1>7. CASE (Tick /\ UNCHANGED <<poolVars, reannounceVars>>) \/ UNCHANGED vars
  BY <1>2, <1>7 DEF vars, poolVars, local
<1> QED BY <1>1, <1>6, <1>7 DEF Next

LEMMA ServiceInvariant == Spec => []ServiceInv
<1>1. Init => Begin
  BY DEF Init, Begin
<1>2. Init => AnswersMatch
  BY ClientsAssumption DEF Init, PoolInit, ReannounceInit, AnswersMatch, Procs
<1>3. Begin => SpaceInv
  BY SpaceInit
<1>4. ServiceInv /\ [Next]_vars => (MapInv /\ SpaceInv /\ AnswersMatch)'
  BY AnswersKept, ServiceIsCallers, MapKept, SpaceKept DEF ServiceInv, MapInv
<1>5. JobInv /\ MapInv /\ SpaceInv /\ AnswersMatch <=> ServiceInv
  BY DEF ServiceInv
<1> QED BY <1>1, <1>2, <1>3, <1>4, <1>5, MapInit, JobInvariant, PTL DEF Spec

(* Both parts keep their types, and a job waits for a client exactly while *)
(* the pool works for it or has an answer for it: no answer is lost and    *)
(* none is taken twice.                                                    *)
THEOREM ServiceTypes == Spec => []TypeOK
<1>1. ServiceInv => TypeOK
  BY DEF ServiceInv, JobInv, MapInv, Shape, AnswersMatch, TypeOK
<1> QED BY <1>1, ServiceInvariant, PTL

(* Under the service, too, pooled clients are current and refresh loops    *)
(* have clients.                                                           *)
THEOREM ServiceClientsCurrent == Spec => [](ClientCurrent /\ RefreshHasClient)
<1>1. ServiceInv => ClientCurrent /\ RefreshHasClient
  BY DEF ServiceInv, MapInv
<1> QED BY <1>1, ServiceInvariant, PTL
=============================================================================
