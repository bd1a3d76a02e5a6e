-------------------------- MODULE ClientPoolProofs --------------------------
(***************************************************************************)
(* The pool of connections, for any number of instances, callers, handlers *)
(* and health checks: a pooled client is current, a refresh loop has a     *)
(* client, and failed connections are spaced.                              *)
(***************************************************************************)
EXTENDS ClientPool, FiniteSetTheorems, TLAPS

(* A step of the pool, or a caller that takes its answer. *)
AnswerTaken ==
    /\ answer' \in [Procs -> {"none", "client", "error"}]
    /\ UNCHANGED <<now, store, pool, backoff, stage, inst, lock, read, checking>>

PoolMove == PoolNext \/ AnswerTaken

(* The stages in which a process has a lock, held or not. *)
WithLock == Locked \cup {"wait", "rwait", "forget"}

(* What is where: PoolTypeOK, the stages of callers and of handlers, and   *)
(* the instance and the lock a process has in them.                        *)
Shape ==
    /\ now \in 1 .. MaxTime /\ PoolTypeOK
    /\ \A i \in Instances : version[i] <= edits
    /\ \A p \in Procs : stage[p] # "idle" => inst[p] \in Instances
    /\ \A p \in Procs : stage[p] \in WithLock => lock[p] \in Locks
    /\ \A c \in Callers : stage[c] \in {"idle", "verify"} \cup CreatePcs
    /\ \A h \in Handlers : stage[h] \in {"idle", "reset"} \cup RemovePcs

-----------------------------------------------------------------------------
(* No two processes work under one lock. *)
LEMMA LockHeldOnce ==
    ASSUME Shape, NEW p \in Procs, NEW q \in Procs,
           stage[p] \in Locked, stage[q] \in Locked, lock[p] = lock[q]
    PROVE  p = q
BY DEF Shape, PoolTypeOK

LEMMA NewChosen == ASSUME NEW S, S # {} PROVE New(S) \in S
BY DEF New

(* getInstanceLock: the lock of the instance, or one nobody else has. *)
LEMMA LockObtained ==
    ASSUME Shape, NEW p \in Procs, GetInstanceLock(p)
    PROVE  /\ inst[p] \in Instances
           /\ \E l \in Locks :
                /\ lock' = [lock EXCEPT ![p] = l]
                /\ creationLocks' = [creationLocks EXCEPT ![inst[p]] = l]
                /\ \/ creationLocks[inst[p]] = l
                   \/ creationLocks[inst[p]] = None /\ l \in FreshLocks
<1> DEFINE l == IF creationLocks[inst[p]] # None THEN creationLocks[inst[p]]
                ELSE New(FreshLocks)
<1>1. inst[p] \in Instances
  BY DEF GetInstanceLock, Shape
<1>2. creationLocks[inst[p]] = None => l \in FreshLocks
  BY NewChosen DEF GetInstanceLock
<1>3. l \in Locks
  BY <1>1, <1>2 DEF FreshLocks, Shape, PoolTypeOK
<1>4. /\ lock' = [lock EXCEPT ![p] = l]
      /\ creationLocks' = [creationLocks EXCEPT ![inst[p]] = l]
  BY DEF GetInstanceLock
<1>5. creationLocks[inst[p]] # None => creationLocks[inst[p]] = l
  OBVIOUS
<1> QED BY <1>1, <1>2, <1>3, <1>4, <1>5

(* Return: the process ends, and its locks are free. *)
LEMMA ReturnShape ==
    ASSUME Shape, NEW p \in Procs, NEW a \in {"none", "client", "error"}, Return(p, a)
    PROVE  /\ stage' \in [Procs -> Stages] /\ stage'[p] = "idle"
           /\ inst' \in [Procs -> Instances \cup {None}]
           /\ lock' \in [Procs -> Locks \cup {None}]
           /\ read' \in [Procs -> 0 .. MaxEdits]
           /\ answer' \in [Procs -> {"none", "client", "error"}]
           /\ holder' \in [Locks -> Procs \cup {None}]
           /\ \A q \in Procs \ {p} : /\ stage'[q] = stage[q] /\ inst'[q] = inst[q]
                                     /\ lock'[q] = lock[q] /\ read'[q] = read[q]
           /\ \A l \in Locks, q \in Procs \ {p} : holder[l] = q => holder'[l] = q
<1>1. 0 \in 0 .. MaxEdits
  BY ClientPoolAssumption
<1>2. holder' \in [Locks -> Procs \cup {None}]
  BY DEF Return, Shape, PoolTypeOK
<1>3. /\ stage' \in [Procs -> Stages] /\ stage'[p] = "idle"
      /\ inst' \in [Procs -> Instances \cup {None}]
      /\ lock' \in [Procs -> Locks \cup {None}]
      /\ read' \in [Procs -> 0 .. MaxEdits]
      /\ answer' \in [Procs -> {"none", "client", "error"}]
  BY <1>1 DEF Return, Goto, Shape, PoolTypeOK, Stages
<1>4. \A q \in Procs \ {p} : /\ stage'[q] = stage[q] /\ inst'[q] = inst[q]
                             /\ lock'[q] = lock[q] /\ read'[q] = read[q]
  BY DEF Return, Goto, Shape, PoolTypeOK
<1>5. \A l \in Locks, q \in Procs \ {p} : holder[l] = q => holder'[l] = q
  BY DEF Return
<1> QED BY <1>2, <1>3, <1>4, <1>5

(* A process that returns keeps the shape, whatever else of the right type *)
(* it changes.                                                             *)
LEMMA ReturnKeeps ==
    ASSUME Shape, NEW p \in Procs, NEW a \in {"none", "client", "error"}, Return(p, a),
           UNCHANGED <<now, store, closed>>,
           (clients \in [Instances -> {None} \cup ClientRecords])',
           (creationLocks \in [Instances -> Locks \cup {None}])',
           (attempts \in [Instances -> 0 .. MaxAttempts])',
           (nextRetry \in [Instances -> Int])',
           (triedAt \in [Instances -> 0 .. MaxTime])',
           (refresh \in [Instances -> {"off", "on", "stray"}])',
           (checking \in [Checkers \cup Callers -> {None} \cup (Instances \X Ids)])'
    PROVE  Shape'
<1>1. PoolTypeOK'
  BY ReturnShape DEF Shape, PoolTypeOK, store, Locked, WithLock
<1>2. /\ (now \in 1 .. MaxTime)' /\ (\A i \in Instances : version[i] <= edits)'
  BY DEF Shape, store
<1>3. /\ (\A q \in Procs : stage[q] # "idle" => inst[q] \in Instances)'
      /\ (\A q \in Procs : stage[q] \in WithLock => lock[q] \in Locks)'
      /\ (\A c \in Callers : stage[c] \in {"idle", "verify"} \cup CreatePcs)'
      /\ (\A h \in Handlers : stage[h] \in {"idle", "reset"} \cup RemovePcs)'
  BY ReturnShape DEF Shape, WithLock, Locked, Procs
<1> QED BY <1>1, <1>2, <1>3 DEF Shape

(* What the pool and the trackers write has its type. *)
LEMMA HealthTyped ==
    ASSUME Shape, NEW i \in Instances, NEW n, NEW ok \in BOOLEAN, SetHealth(i, n, ok)
    PROVE  /\ clients' \in [Instances -> {None} \cup ClientRecords]
           /\ \A j \in Instances :
                \/ clients'[j] = clients[j]
                \/ /\ clients[j] # None /\ clients'[j] # None
                   /\ clients'[j].ver = clients[j].ver
                   /\ clients'[j].stray = clients[j].stray
<1>1. CASE clients[i] # None /\ clients[i].id = n
  <2>1. clients[i] \in ClientRecords
    BY <1>1 DEF Shape, PoolTypeOK
  <2> DEFINE r == [clients[i] EXCEPT !.healthy = ok]
  <2>2. r \in ClientRecords /\ r.ver = clients[i].ver /\ r.stray = clients[i].stray
    BY <2>1 DEF ClientRecords
  <2>3. clients' = [clients EXCEPT ![i] = r]
    BY <1>1 DEF SetHealth
  <2> HIDE DEF r
  <2>4. r # None
    BY <2>2, ClientPoolAssumption
  <2> QED BY <1>1, <2>2, <2>3, <2>4 DEF Shape, PoolTypeOK
<1>2. CASE ~(clients[i] # None /\ clients[i].id = n)
  BY <1>2 DEF SetHealth, Shape, PoolTypeOK
<1> QED BY <1>1, <1>2

LEMMA PowerTyped ==
    ASSUME NEW n \in Nat
    PROVE  Power(n) \in Nat \ {0}
<1>1. IsFiniteSet(1 .. n) /\ Cardinality(1 .. n) = n
  BY FS_Interval
<1>2. IsFiniteSet(SUBSET (1 .. n)) /\ Cardinality(SUBSET (1 .. n)) = 2 ^ n
  BY <1>1, FS_SUBSET
<1>3. Cardinality(SUBSET (1 .. n)) # 0
  BY <1>2, FS_EmptySet
<1> QED BY <1>2, <1>3, FS_CardinalityType DEF Power

LEMMA PowerGrows ==
    ASSUME NEW n \in Nat
    PROVE  Power(n) <= Power(n + 1)
<1>1. /\ IsFiniteSet(1 .. n) /\ Cardinality(1 .. n) = n
      /\ IsFiniteSet(1 .. (n + 1)) /\ Cardinality(1 .. (n + 1)) = n + 1
  BY FS_Interval
<1>2. /\ Cardinality(SUBSET (1 .. n)) = 2 ^ n
      /\ IsFiniteSet(SUBSET (1 .. (n + 1)))
      /\ Cardinality(SUBSET (1 .. (n + 1))) = 2 ^ (n + 1)
  BY <1>1, FS_SUBSET
<1>3. SUBSET (1 .. n) \subseteq SUBSET (1 .. (n + 1))
  <2>1. 1 .. n \subseteq 1 .. (n + 1)
    OBVIOUS
  <2> QED BY <2>1
<1>4. Cardinality(SUBSET (1 .. n)) <= Cardinality(SUBSET (1 .. (n + 1)))
  BY <1>2, <1>3, FS_Subset
<1> QED BY <1>2, <1>4 DEF Power

(* calculateBackoff: an integer and, as long as the product fits, at least *)
(* the first backoff.                                                      *)
LEMMA BackoffValue ==
    ASSUME NEW n \in Nat, NEW b \in Backoffs
    PROVE  /\ CalculateBackoff(n + 1, b) \in Int
           /\ Fits(n + 1) => CalculateBackoff(n + 1, b) >= Least(b[1], b[2])
<1>1. b[1] \in Nat /\ b[2] \in Nat /\ Width \in Nat /\ Width - 1 \in Nat
  BY ClientPoolAssumption
<1>2. /\ Power(n) \in Nat \ {0} /\ Power(Width) \in Nat \ {0}
      /\ Power(Width - 1) \in Nat \ {0} /\ Power(Width - 1) <= Power(Width)
  <2>1. (Width - 1) + 1 = Width
    BY <1>1
  <2> QED BY <1>1, <2>1, PowerTyped, PowerGrows
<1> DEFINE x == Power(n) * b[1]
<1>3. x \in Nat /\ x >= b[1]
  <2>1. \A k \in Nat \ {0}, m \in Nat : k * m \in Nat /\ k * m >= m
    OBVIOUS
  <2> QED BY <1>1, <1>2, <2>1
<1>4. (n + 1) - 1 = n
  OBVIOUS
<1>5. CalculateBackoff(n + 1, b) = Least(Wrap(x), b[2])
  BY <1>4 DEF CalculateBackoff
<1>6. Fits(n + 1) => x < Power(Width - 1)
  BY <1>4 DEF Fits
<1> HIDE DEF x
<1>7. Wrap(x) \in Int
  BY <1>2, <1>3 DEF Wrap
<1>8. x < Power(Width - 1) => Wrap(x) = x
  BY <1>2, <1>3 DEF Wrap
<1> QED BY <1>1, <1>3, <1>5, <1>6, <1>7, <1>8 DEF Least

(* One failure fewer fits as well. *)
LEMMA FitsFewer ==
    ASSUME NEW n \in Nat \ {0}, Fits(n + 1)
    PROVE  Fits(n)
<1>1. SUFFICES ASSUME NEW b \in Backoffs
               PROVE  Power(n - 1) * b[1] < Power(Width - 1)
  BY DEF Fits
<1>2. b[1] \in Nat /\ Width - 1 \in Nat /\ n - 1 \in Nat /\ (n + 1) - 1 = (n - 1) + 1
  BY ClientPoolAssumption
<1>3. Power((n - 1) + 1) * b[1] < Power(Width - 1)
  BY <1>2 DEF Fits
<1>4. /\ Power(n - 1) \in Nat /\ Power((n - 1) + 1) \in Nat /\ Power(Width - 1) \in Nat
      /\ Power(n - 1) <= Power((n - 1) + 1)
  BY <1>2, PowerTyped, PowerGrows
<1>5. \A k, l, m \in Nat : k <= l => k * m <= l * m /\ k * m \in Nat /\ l * m \in Nat
  OBVIOUS
<1> QED BY <1>2, <1>3, <1>4, <1>5

(* trackFailure and ResetFailureTracking. *)
LEMMA FailureTyped ==
    ASSUME Shape, NEW i \in Instances, TrackFailure(i), attempts[i] < MaxAttempts
    PROVE  /\ attempts' \in [Instances -> 0 .. MaxAttempts]
           /\ nextRetry' \in [Instances -> Int]
<1>1. attempts[i] \in Nat /\ now \in Int /\ attempts[i] + 1 \in 0 .. MaxAttempts
  BY ClientPoolAssumption, ClockAssumption DEF Shape, PoolTypeOK
<1>2. PICK b \in Backoffs :
         nextRetry' = [nextRetry EXCEPT ![i] = now + CalculateBackoff(attempts[i] + 1, b)]
  BY DEF TrackFailure
<1>3. now + CalculateBackoff(attempts[i] + 1, b) \in Int
  BY <1>1, BackoffValue
<1> QED BY <1>1, <1>2, <1>3 DEF TrackFailure, Shape, PoolTypeOK

LEMMA ResetTyped ==
    ASSUME Shape, NEW i \in Instances, ResetFailureTracking(i)
    PROVE  /\ attempts' \in [Instances -> 0 .. MaxAttempts]
           /\ nextRetry' \in [Instances -> Int]
           /\ triedAt' \in [Instances -> 0 .. MaxTime]
BY ClientPoolAssumption, ClockAssumption DEF ResetFailureTracking, Shape, PoolTypeOK

-----------------------------------------------------------------------------
(* The steps of GetClient keep the shape. *)
LEMMA CreationShape ==
    ASSUME Shape, NEW c \in Callers, CreateStep(c) \/ LockInstance(c), UNCHANGED now
    PROVE  Shape'
<1> USE ClientPoolAssumption DEF Shape, PoolTypeOK, store, pool, backoff
<1>0. c \in Procs /\ (stage[c] # "idle" => inst[c] \in Instances)
  BY DEF Procs
<1>1. CASE Verify(c)
  <2>1. PICK ok \in BOOLEAN : /\ Return(c, IF ok THEN "client" ELSE "error")
                              /\ SetHealth(inst[c], checking[c][2], ok)
    BY <1>1 DEF Verify
  <2>2. inst[c] \in Instances
    BY <1>0, <1>1 DEF Verify
  <2>3. clients' \in [Instances -> {None} \cup ClientRecords]
    BY <2>1, <2>2, HealthTyped
  <2>4. /\ (IF ok THEN "client" ELSE "error") \in {"none", "client", "error"}
        /\ UNCHANGED <<now, store, closed>>
        /\ (creationLocks \in [Instances -> Locks \cup {None}])'
        /\ (attempts \in [Instances -> 0 .. MaxAttempts])'
        /\ (nextRetry \in [Instances -> Int])'
        /\ (triedAt \in [Instances -> 0 .. MaxTime])'
        /\ (refresh \in [Instances -> {"off", "on", "stray"}])'
        /\ (checking \in [Checkers \cup Callers -> {None} \cup (Instances \X Ids)])'
    BY <1>1 DEF Verify
  <2> QED BY <1>0, <2>1, <2>3, <2>4, ReturnKeeps
<1>2. CASE GetInstanceLock(c)
  <2>1. PICK l \in Locks : /\ lock' = [lock EXCEPT ![c] = l]
                           /\ creationLocks' = [creationLocks EXCEPT ![inst[c]] = l]
    BY <1>0, <1>2, LockObtained
  <2>2. stage[c] = "lock" /\ stage' = [stage EXCEPT ![c] = "wait"]
    BY <1>2 DEF GetInstanceLock, Goto, CreatePcs
  <2>3. UNCHANGED <<store, clients, holder, closed, refresh, backoff, inst, read, answer, checking>>
    BY <1>2 DEF GetInstanceLock
  <2> QED BY <1>0, <2>1, <2>2, <2>3 DEF Stages, CreatePcs, RemovePcs, WithLock, Locked, Procs
<1>3. CASE LockInstance(c)
  <2>1. stage[c] = "wait" /\ stage' = [stage EXCEPT ![c] = "backoff"]
    BY <1>3 DEF LockInstance, Goto, CreatePcs
  <2>2. lock[c] \in Locks /\ holder[lock[c]] = None /\ holder' = [holder EXCEPT ![lock[c]] = c]
    BY <1>0, <1>3, <2>1 DEF LockInstance, WithLock
  <2>3. UNCHANGED <<store, clients, creationLocks, closed, refresh, backoff, inst, lock, read,
                    answer, checking>>
    BY <1>3 DEF LockInstance
  <2> QED BY <1>0, <2>1, <2>2, <2>3 DEF Stages, CreatePcs, RemovePcs, WithLock, Locked, Procs
<1>4. CASE CheckBackoff(c) \/ DoubleCheck(c) \/ ReadInstance(c) \/ ReadClosed(c)
  <2>1. /\ UNCHANGED <<now, store, clients, creationLocks, closed, refresh, backoff, checking>>
        /\ \/ \E a \in {"none", "client", "error"} : Return(c, a)
           \/ /\ \E s \in {"again", "read", "connect", "start"} :
                    stage' = [stage EXCEPT ![c] = s]
              /\ stage[c] \in {"backoff", "again", "read", "closed"}
              /\ read' = read \/ read' = [read EXCEPT ![c] = version[inst[c]]]
              /\ UNCHANGED <<inst, lock, answer, holder>>
    BY <1>4 DEF CheckBackoff, DoubleCheck, ReadInstance, ReadClosed, Goto
  <2>2. CASE \E a \in {"none", "client", "error"} : Return(c, a)
    BY <1>0, <2>1, <2>2, ReturnKeeps
  <2>3. ASSUME NEW s \in {"again", "read", "connect", "start"},
               stage' = [stage EXCEPT ![c] = s],
               stage[c] \in {"backoff", "again", "read", "closed"},
               read' = read \/ read' = [read EXCEPT ![c] = version[inst[c]]],
               UNCHANGED <<inst, lock, answer, holder>>
        PROVE  Shape'
    <3>1. read' \in [Procs -> 0 .. MaxEdits]
      BY <1>0, <2>3
    <3>2. lock[c] \in Locks /\ holder[lock[c]] = c /\ inst[c] \in Instances /\ inst[c] # None
      BY <1>0, <2>3 DEF Locked, WithLock
    <3> QED BY <1>0, <2>1, <2>3, <3>1, <3>2
            DEF Stages, CreatePcs, RemovePcs, WithLock, Locked, Procs
  <2> QED BY <2>1, <2>2, <2>3
<1>5. CASE ConnectFails(c)
  <2>1. inst[c] \in Instances /\ Return(c, "error")
    BY <1>0, <1>5 DEF ConnectFails
  <2>2. attempts' \in [Instances -> 0 .. MaxAttempts] /\ nextRetry' \in [Instances -> Int]
    BY <1>5, <2>1, FailureTyped DEF ConnectFails
  <2>3. triedAt' \in [Instances -> 0 .. MaxTime]
    BY <1>5, <2>1 DEF ConnectFails
  <2> QED BY <1>0, <1>5, <2>1, <2>2, <2>3, ReturnKeeps DEF ConnectFails
<1>6. CASE StoreClient(c)
  <2>1. /\ stage[c] = "connect" /\ stage' = [stage EXCEPT ![c] = "closed"]
        /\ inst[c] \in Instances /\ lock[c] \in Locks /\ holder[lock[c]] = c
    BY <1>0, <1>6 DEF StoreClient, Goto, WithLock, Locked
  <2>2. PICK ok \in BOOLEAN :
           clients' = [clients EXCEPT ![inst[c]] =
                         [id |-> New(FreshIds), ver |-> read[c], healthy |-> ok,
                          stray |-> ~Alone(c)]]
    BY <1>6 DEF StoreClient
  <2>3. New(FreshIds) \in Ids
    BY <1>6 DEF StoreClient, New, FreshIds
  <2>4. [id |-> New(FreshIds), ver |-> read[c], healthy |-> ok, stray |-> ~Alone(c)]
           \in ClientRecords
    <3>1. (~Alone(c)) \in BOOLEAN
      BY DEF Alone
    <3> QED BY <1>0, <2>3, <3>1 DEF ClientRecords
  <2>5. clients' \in [Instances -> {None} \cup ClientRecords]
    BY <2>1, <2>2, <2>4
  <2>6. /\ attempts' \in [Instances -> 0 .. MaxAttempts]
        /\ nextRetry' \in [Instances -> Int]
        /\ triedAt' \in [Instances -> 0 .. MaxTime]
    BY <1>6, <2>1, ResetTyped DEF StoreClient
  <2>7. UNCHANGED <<store, creationLocks, holder, closed, refresh, inst, lock, read, answer,
                    checking>>
    BY <1>6 DEF StoreClient
  <2> QED BY <1>0, <2>1, <2>5, <2>6, <2>7
          DEF Stages, CreatePcs, RemovePcs, WithLock, Locked, Procs
<1>7. CASE StartTrackerHealthRefresh(c)
  BY <1>0, <1>7, ReturnKeeps DEF StartTrackerHealthRefresh
<1> QED BY <1>1, <1>2, <1>3, <1>4, <1>5, <1>6, <1>7 DEF CreateStep

(* The steps of RemoveClient and of the handlers keep the shape. *)
LEMMA RemovalShape ==
    ASSUME Shape, NEW h \in Handlers, RemoveStep(h) \/ LockInstance(h), UNCHANGED now
    PROVE  Shape'
<1> USE ClientPoolAssumption DEF Shape, PoolTypeOK, store, pool, backoff
<1>0. h \in Procs /\ (stage[h] # "idle" => inst[h] \in Instances)
  BY DEF Procs
<1>1. CASE GetInstanceLock(h)
  <2>1. PICK l \in Locks : /\ lock' = [lock EXCEPT ![h] = l]
                           /\ creationLocks' = [creationLocks EXCEPT ![inst[h]] = l]
    BY <1>0, <1>1, LockObtained
  <2>2. stage[h] = "rlock" /\ stage' = [stage EXCEPT ![h] = "rwait"]
    BY <1>1 DEF GetInstanceLock, Goto, RemovePcs
  <2>3. UNCHANGED <<store, clients, holder, closed, refresh, backoff, inst, read, answer, checking>>
    BY <1>1 DEF GetInstanceLock
  <2> QED BY <1>0, <2>1, <2>2, <2>3 DEF Stages, CreatePcs, RemovePcs, WithLock, Locked, Procs
<1>2. CASE LockInstance(h)
  <2>1. stage[h] = "rwait" /\ stage' = [stage EXCEPT ![h] = "remove"]
    BY <1>2 DEF LockInstance, Goto, RemovePcs
  <2>2. lock[h] \in Locks /\ holder[lock[h]] = None /\ holder' = [holder EXCEPT ![lock[h]] = h]
    BY <1>0, <1>2, <2>1 DEF LockInstance, WithLock
  <2>3. UNCHANGED <<store, clients, creationLocks, closed, refresh, backoff, inst, lock, read,
                    answer, checking>>
    BY <1>2 DEF LockInstance
  <2> QED BY <1>0, <2>1, <2>2, <2>3 DEF Stages, CreatePcs, RemovePcs, WithLock, Locked, Procs
<1>3. CASE RemoveFromPool(h)
  <2>1. /\ stage[h] = "remove" /\ stage' = [stage EXCEPT ![h] = "stop"]
        /\ inst[h] \in Instances /\ lock[h] \in Locks /\ holder[lock[h]] = h
    BY <1>0, <1>3 DEF RemoveFromPool, Goto, WithLock, Locked
  <2>2. clients' \in [Instances -> {None} \cup ClientRecords]
    BY <1>3 DEF RemoveFromPool
  <2>3. UNCHANGED <<store, creationLocks, holder, closed, refresh, backoff, inst, lock, read,
                    answer, checking>>
    BY <1>3 DEF RemoveFromPool
  <2> QED BY <1>0, <2>1, <2>2, <2>3 DEF Stages, CreatePcs, RemovePcs, WithLock, Locked, Procs
<1>4. CASE StopTrackerHealthRefresh(h)
  <2>1. /\ stage[h] = "stop" /\ stage' = [stage EXCEPT ![h] = "forget"]
        /\ inst[h] \in Instances /\ lock[h] \in Locks
    BY <1>0, <1>4 DEF StopTrackerHealthRefresh, Goto, WithLock, Locked
  <2>2. refresh' \in [Instances -> {"off", "on", "stray"}]
    BY <1>4 DEF StopTrackerHealthRefresh
  <2>3. holder' = [holder EXCEPT ![lock[h]] = None]
    BY <1>4 DEF StopTrackerHealthRefresh
  <2>4. UNCHANGED <<store, clients, creationLocks, closed, backoff, inst, lock, read, answer,
                    checking>>
    BY <1>4 DEF StopTrackerHealthRefresh
  <2>5. \A q \in Procs \ {h} : stage[q] \in Locked => lock[q] # lock[h]
    BY <1>0, <2>1, LockHeldOnce DEF Locked
  <2> QED BY <1>0, <2>1, <2>2, <2>3, <2>4, <2>5
          DEF Stages, CreatePcs, RemovePcs, WithLock, Locked, Procs
<1>5. CASE ForgetLock(h)
  <2>1. creationLocks' \in [Instances -> Locks \cup {None}]
    BY <1>5 DEF ForgetLock
  <2> QED BY <1>0, <1>5, <2>1, ReturnKeeps DEF ForgetLock
<1>6. CASE ResetOnEnable(h)
  <2>1. /\ attempts' \in [Instances -> 0 .. MaxAttempts]
        /\ nextRetry' \in [Instances -> Int]
        /\ triedAt' \in [Instances -> 0 .. MaxTime]
    BY <1>0, <1>6, ResetTyped DEF ResetOnEnable
  <2> QED BY <1>0, <1>6, <2>1, ReturnKeeps DEF ResetOnEnable
<1> QED BY <1>1, <1>2, <1>3, <1>4, <1>5, <1>6 DEF RemoveStep

(* So do the edits, the health checks, the callbacks, Close, the calls and *)
(* the answers.                                                            *)
LEMMA SurroundingShape ==
    ASSUME Shape, Surroundings, UNCHANGED now
    PROVE  Shape'
<1> USE ClientPoolAssumption DEF Shape, PoolTypeOK, store, pool, backoff, local
<1>1. ASSUME NEW h \in Handlers, NEW i \in Instances, NEW on \in BOOLEAN, EditInstance(h, i, on)
      PROVE  Shape'
  <2>1. /\ stage[h] = "idle" /\ stage' = [stage EXCEPT ![h] = "rlock"] /\ h \in Procs
        /\ inst' = [inst EXCEPT ![h] = i]
        /\ enabled' = [enabled EXCEPT ![i] = on]
        /\ version' = [version EXCEPT ![i] = version[i] + 1]
        /\ edits' = edits + 1 /\ edits < MaxEdits
        /\ UNCHANGED <<pool, backoff, lock, read, answer, checking>>
    BY <1>1 DEF EditInstance, Goto, Procs
  <2>2. /\ version' \in [Instances -> 0 .. MaxEdits] /\ edits' \in 0 .. MaxEdits
        /\ \A j \in Instances : version'[j] <= edits'
    BY <2>1
  <2> HIDE DEF pool, backoff
  <2> QED BY <2>1, <2>2 DEF pool, backoff, Stages, CreatePcs, RemovePcs, WithLock, Locked, Procs
<1>2. ASSUME NEW h \in Handlers, NEW i \in Instances, EnableInstance(h, i)
      PROVE  Shape'
  <2>1. /\ stage[h] = "idle" /\ stage' = [stage EXCEPT ![h] = "reset"] /\ h \in Procs
        /\ inst' = [inst EXCEPT ![h] = i]
        /\ enabled' = [enabled EXCEPT ![i] = TRUE]
        /\ edits' = edits + 1 /\ edits < MaxEdits
        /\ UNCHANGED <<version, pool, backoff, lock, read, answer, checking>>
    BY <1>2 DEF EnableInstance, Goto, Procs
  <2>2. edits' \in 0 .. MaxEdits /\ \A j \in Instances : version'[j] <= edits'
    BY <2>1
  <2> QED BY <2>1, <2>2 DEF Stages, CreatePcs, RemovePcs, WithLock, Locked, Procs
<1>3. ASSUME NEW k \in Checkers, NEW i \in Instances, StartHealthCheck(k, i)
      PROVE  Shape'
  <2>1. <<i, clients[i].id>> \in Instances \X Ids
    BY <1>3 DEF StartHealthCheck, ClientRecords
  <2>2. checking' \in [Checkers \cup Callers -> {None} \cup (Instances \X Ids)]
    BY <1>3, <2>1 DEF StartHealthCheck
  <2> QED BY <1>3, <2>2 DEF StartHealthCheck
<1>4. ASSUME NEW k \in Checkers, NEW ok \in BOOLEAN, FinishHealthCheck(k, ok)
      PROVE  Shape'
  <2>1. checking[k][1] \in Instances
    BY <1>4 DEF FinishHealthCheck
  <2>2. clients' \in [Instances -> {None} \cup ClientRecords]
    BY <1>4, <2>1, HealthTyped DEF FinishHealthCheck
  <2>3. /\ attempts' \in [Instances -> 0 .. MaxAttempts]
        /\ nextRetry' \in [Instances -> Int]
        /\ triedAt' \in [Instances -> 0 .. MaxTime]
    BY <1>4, <2>1, ResetTyped, FailureTyped DEF FinishHealthCheck
  <2>4. checking' \in [Checkers \cup Callers -> {None} \cup (Instances \X Ids)]
    BY <1>4 DEF FinishHealthCheck
  <2>5. UNCHANGED <<store, creationLocks, holder, closed, refresh, local>>
    BY <1>4 DEF FinishHealthCheck
  <2> QED BY <2>2, <2>3, <2>4, <2>5
<1>5. ASSUME NEW i \in Instances, NEW ok \in BOOLEAN, SyncReports(i, ok)
      PROVE  Shape'
  <2>1. clients' \in [Instances -> {None} \cup ClientRecords]
    BY <1>5, HealthTyped DEF SyncReports
  <2> QED BY <1>5, <2>1 DEF SyncReports
<1>6. CASE Close
  <2>1. /\ clients' \in [Instances -> {None} \cup ClientRecords] /\ closed' \in BOOLEAN
        /\ refresh' \in [Instances -> {"off", "on", "stray"}]
    BY <1>6 DEF Close
  <2>2. /\ attempts' \in [Instances -> 0 .. MaxAttempts]
        /\ nextRetry' \in [Instances -> Int]
        /\ triedAt' \in [Instances -> 0 .. MaxTime]
    BY <1>6, ClockAssumption DEF Close
  <2> QED BY <1>6, <2>1, <2>2 DEF Close
<1> HIDE DEF Shape
<1> QED BY <1>1, <1>2, <1>3, <1>4, <1>5, <1>6 DEF Surroundings

LEMMA CallShape ==
    ASSUME Shape, NEW c \in Callers, NEW i \in Instances, GetClient(c, i), UNCHANGED now
    PROVE  Shape'
<1> USE ClientPoolAssumption DEF Shape, PoolTypeOK, store, backoff
<1>0. c \in Procs
  BY DEF Procs
<1>1. clients[i] # None => <<i, clients[i].id>> \in Instances \X Ids
  BY DEF ClientRecords
<1>2. /\ checking' \in [Checkers \cup Callers -> {None} \cup (Instances \X Ids)]
      /\ UNCHANGED <<now, store, clients, creationLocks, closed, refresh, backoff>>
  BY <1>1 DEF GetClient
<1>3. CASE Return(c, "error") \/ Return(c, "client")
  BY <1>0, <1>2, <1>3, ReturnKeeps
<1>4. CASE /\ \E s \in {"lock", "verify"} : stage' = [stage EXCEPT ![c] = s]
           /\ inst' = [inst EXCEPT ![c] = i]
           /\ answer' = [answer EXCEPT ![c] = "none"]
           /\ UNCHANGED <<lock, read, holder>>
  BY <1>0, <1>2, <1>4 DEF Stages, CreatePcs, RemovePcs, WithLock, Locked, Procs
<1> QED BY <1>3, <1>4 DEF GetClient, Goto

LEMMA ShapeKept == Shape /\ PoolMove => Shape'
<1> SUFFICES ASSUME Shape, PoolMove
             PROVE  Shape'
  OBVIOUS
<1>1. CASE PoolStep
  BY <1>1, CreationShape, RemovalShape, SurroundingShape DEF PoolStep, Procs
<1>2. ASSUME NEW c \in Callers, NEW i \in Instances, GetClient(c, i), UNCHANGED now
      PROVE  Shape'
  BY <1>2, CallShape
<1>3. CASE Tick /\ UNCHANGED poolVars
  BY <1>3, ClockAssumption DEF Tick, Shape, PoolTypeOK, poolVars, store, pool, backoff, local
<1>4. CASE AnswerTaken
  BY <1>4 DEF AnswerTaken, Shape, PoolTypeOK, store, pool, backoff
<1> QED BY <1>1, <1>2, <1>3, <1>4 DEF PoolMove, PoolNext

LEMMA ShapeInit == Begin => Shape
<1> SUFFICES ASSUME Begin PROVE Shape
  OBVIOUS
<1> USE ClientPoolAssumption, ClockAssumption DEF Begin, ClockInit, PoolInit
<1>1. PoolTypeOK
  <2>1. /\ version \in [Instances -> 0 .. MaxEdits] /\ enabled \in [Instances -> BOOLEAN]
        /\ edits \in 0 .. MaxEdits /\ read \in [Procs -> 0 .. MaxEdits]
        /\ attempts \in [Instances -> 0 .. MaxAttempts] /\ nextRetry \in [Instances -> Int]
        /\ triedAt \in [Instances -> 0 .. MaxTime]
    OBVIOUS
  <2>2. /\ clients \in [Instances -> {None} \cup ClientRecords]
        /\ creationLocks \in [Instances -> Locks \cup {None}]
        /\ holder \in [Locks -> Procs \cup {None}]
        /\ inst \in [Procs -> Instances \cup {None}]
        /\ lock \in [Procs -> Locks \cup {None}]
        /\ checking \in [Checkers \cup Callers -> {None} \cup (Instances \X Ids)]
    OBVIOUS
  <2>3. /\ closed \in BOOLEAN /\ refresh \in [Instances -> {"off", "on", "stray"}]
        /\ stage \in [Procs -> Stages] /\ answer \in [Procs -> {"none", "client", "error"}]
        /\ \A p \in Procs : stage[p] \notin Locked
    BY DEF Stages, Locked
  <2> QED BY <2>1, <2>2, <2>3 DEF PoolTypeOK
<1>2. \A p \in Procs : stage[p] = "idle"
  OBVIOUS
<1>3. now \in 1 .. MaxTime /\ \A i \in Instances : version[i] <= edits
  OBVIOUS
<1> QED BY <1>1, <1>2, <1>3 DEF Shape, WithLock, Locked, Procs

-----------------------------------------------------------------------------
(* A creation that is about to store its client, under a lock that is      *)
(* still the instance's, read the instance as it is now, unless a handler  *)
(* is at work on it, before the removal or under another lock.             *)
FreshRead ==
    \A c \in Callers :
       stage[c] = "connect" /\ creationLocks[inst[c]] = lock[c] =>
          \/ read[c] = version[inst[c]] /\ enabled[inst[c]]
          \/ RemovalDue(inst[c])
          \/ \E h \in Handlers : /\ inst[h] = inst[c] /\ stage[h] \in {"stop", "forget"}
                                 /\ lock[h] # lock[c]

(* A creation that stored its client and has yet to start the refresh loop *)
(* finds the client in the map, with the same exception.                   *)
StoredStays ==
    \A c \in Callers :
       stage[c] \in {"closed", "start"} /\ creationLocks[inst[c]] = lock[c] /\ ~closed =>
          \/ clients[inst[c]] # None
          \/ \E h \in Handlers : /\ inst[h] = inst[c] /\ stage[h] \in {"stop", "forget"}
                                 /\ lock[h] # lock[c]

MapInv == Shape /\ FreshRead /\ StoredStays /\ ClientCurrent /\ RefreshHasClient

(* A client with the same settings, or none as before. *)
SameClient(i) ==
    \/ clients'[i] = clients[i]
    \/ /\ clients[i] # None /\ clients'[i] # None
       /\ clients'[i].ver = clients[i].ver /\ clients'[i].stray = clients[i].stray

(* Process p goes on or stays as it is. *)
Same(p) == /\ stage'[p] = stage[p] /\ inst'[p] = inst[p]
           /\ lock'[p] = lock[p] /\ read'[p] = read[p]

(* Steps outside the map that lead no caller to its client. *)
LEMMA QuietMap ==
    ASSUME MapInv, Shape', UNCHANGED <<version, enabled, creationLocks, closed, refresh>>,
           \A i \in Instances : SameClient(i),
           \A h \in Handlers : Same(h),
           \A c \in Callers : Same(c) \/ stage'[c] \notin {"connect", "closed", "start"}
    PROVE  MapInv'
<1>1. \A i \in Instances : RemovalDue(i)' = RemovalDue(i)
  BY DEF RemovalDue, Same
<1>2. FreshRead'
  <2>1. SUFFICES ASSUME NEW c \in Callers, stage'[c] = "connect",
                        creationLocks'[inst'[c]] = lock'[c]
                 PROVE  \/ read'[c] = version'[inst'[c]] /\ enabled'[inst'[c]]
                        \/ RemovalDue(inst[c])'
                        \/ \E h \in Handlers : /\ inst'[h] = inst'[c]
                                               /\ stage'[h] \in {"stop", "forget"}
                                               /\ lock'[h] # lock'[c]
    BY DEF FreshRead
  <2>2. Same(c) /\ inst[c] \in Instances
    BY <2>1 DEF MapInv, Shape, Procs, Same
  <2>3. RemovalDue(inst[c])' = RemovalDue(inst[c])
    BY <2>2 DEF RemovalDue, Same
  <2> QED BY <2>1, <2>2, <2>3 DEF FreshRead, MapInv, Same
<1>3. StoredStays'
  BY DEF StoredStays, MapInv, Same, Shape, Procs, SameClient
<1>4. ClientCurrent'
  BY <1>1 DEF ClientCurrent, MapInv, SameClient
<1>5. RefreshHasClient'
  BY DEF RefreshHasClient, MapInv, SameClient, Same
<1> QED BY <1>2, <1>3, <1>4, <1>5 DEF MapInv

(* A new lock is nobody's: it makes no creation under way current again. *)
LEMMA ObtainMap ==
    ASSUME MapInv, Shape', NEW p \in Procs, GetInstanceLock(p)
    PROVE  MapInv'
<1>0. Shape
  BY DEF MapInv
<1>1. PICK l \in Locks : /\ lock' = [lock EXCEPT ![p] = l]
                         /\ creationLocks' = [creationLocks EXCEPT ![inst[p]] = l]
                         /\ \/ creationLocks[inst[p]] = l
                            \/ creationLocks[inst[p]] = None /\ l \in FreshLocks
  BY <1>0, LockObtained
<1>2. /\ stage[p] \in {"lock", "rlock"}
      /\ stage' = [stage EXCEPT ![p] = IF stage[p] = "lock" THEN "wait" ELSE "rwait"]
      /\ UNCHANGED <<inst, read, version, enabled, clients, closed, refresh>>
  BY DEF GetInstanceLock, Goto, store
<1>3. /\ \A q \in Procs \ {p} : Same(q)
      /\ stage'[p] \in {"wait", "rwait"} /\ (stage'[p] = "rwait" <=> stage[p] = "rlock")
  BY <1>0, <1>1, <1>2 DEF Same, Shape, PoolTypeOK
<1>4. \A q \in Procs : /\ stage[q] \in Locked /\ creationLocks'[inst[q]] = lock[q]
                        => creationLocks[inst[q]] = lock[q]
  <2>1. SUFFICES ASSUME NEW q \in Procs, stage[q] \in Locked,
                        creationLocks'[inst[q]] = lock[q]
                 PROVE  creationLocks[inst[q]] = lock[q]
    OBVIOUS
  <2>2. inst[q] \in Instances
    BY <1>0, <2>1 DEF Shape, Locked
  <2>3. CASE inst[q] = inst[p]
    BY <1>0, <1>1, <2>1, <2>2, <2>3 DEF FreshLocks, Shape, PoolTypeOK
  <2>4. CASE inst[q] # inst[p]
    BY <1>0, <1>1, <2>1, <2>2, <2>4 DEF Shape, PoolTypeOK
  <2> QED BY <2>3, <2>4
<1>5. \A h \in Handlers : /\ inst'[h] = inst[h]
                          /\ stage'[h] \in {"rlock", "rwait", "remove"}
                               <=> stage[h] \in {"rlock", "rwait", "remove"}
                          /\ stage[h] \in {"stop", "forget"} =>
                               stage'[h] = stage[h] /\ lock'[h] = lock[h]
  BY <1>0, <1>2, <1>3 DEF Same, Procs, Shape, RemovePcs
<1>6. \A i \in Instances : RemovalDue(i)' = RemovalDue(i)
  BY <1>5 DEF RemovalDue
<1>7. \A c \in Callers : stage'[c] \in {"connect", "closed", "start"} =>
                            Same(c) /\ stage[c] \in Locked /\ inst[c] \in Instances
  BY <1>0, <1>3 DEF Procs, Same, Locked, Shape
<1>8. FreshRead'
  <2>1. SUFFICES ASSUME NEW c \in Callers, stage'[c] = "connect",
                        creationLocks'[inst'[c]] = lock'[c]
                 PROVE  \/ read'[c] = version'[inst'[c]] /\ enabled'[inst'[c]]
                        \/ RemovalDue(inst[c])'
                        \/ \E h \in Handlers : /\ inst'[h] = inst'[c]
                                               /\ stage'[h] \in {"stop", "forget"}
                                               /\ lock'[h] # lock'[c]
    BY DEF FreshRead
  <2>2. Same(c) /\ creationLocks[inst[c]] = lock[c] /\ stage[c] = "connect"
    BY <1>4, <1>7, <2>1 DEF Same, Procs
  <2>3. RemovalDue(inst[c])' <=> RemovalDue(inst[c])
    BY <1>5, <2>2 DEF RemovalDue, Same
  <2> QED BY <1>2, <1>5, <2>2, <2>3 DEF FreshRead, MapInv, Same
<1>9. StoredStays'
  BY <1>2, <1>4, <1>5, <1>7 DEF StoredStays, MapInv, Same, Procs
<1>10. ClientCurrent'
  BY <1>2, <1>6 DEF ClientCurrent, MapInv
<1>11. RefreshHasClient'
  BY <1>2, <1>5 DEF RefreshHasClient, MapInv
<1> QED BY <1>8, <1>9, <1>10, <1>11 DEF MapInv

(* The steps of a creation. *)
LEMMA CreationMap ==
    ASSUME MapInv, NEW c \in Callers, CreateStep(c) \/ LockInstance(c), UNCHANGED now
    PROVE  MapInv'
<1>0. /\ Shape /\ Shape' /\ c \in Procs /\ c \notin Handlers /\ stage[c] # "idle"
      /\ inst[c] \in Instances
      /\ stage[c] \in WithLock => lock[c] \in Locks /\ lock[c] # None
  <2>1. Shape'
    BY CreationShape DEF MapInv
  <2>2. stage[c] # "idle"
    BY DEF CreateStep, LockInstance, Verify, GetInstanceLock, CheckBackoff, DoubleCheck,
           ReadInstance, ConnectFails, StoreClient, ReadClosed, StartTrackerHealthRefresh
  <2> QED BY <2>1, <2>2, ClientPoolAssumption DEF MapInv, Shape, Procs
<1>1. ASSUME UNCHANGED <<version, enabled, creationLocks, closed, refresh>>,
             \A i \in Instances : SameClient(i),
             stage'[c] \notin {"connect", "closed", "start"},
             \A q \in Procs \ {c} : Same(q)
      PROVE  MapInv'
  BY <1>0, <1>1, QuietMap DEF Procs
<1>2. ASSUME NEW a \in {"none", "client", "error"}, Return(c, a)
      PROVE  stage'[c] = "idle" /\ \A q \in Procs \ {c} : Same(q)
  BY <1>0, <1>2, ReturnShape DEF Same
<1>3. CASE Verify(c)
  <2>1. \A i \in Instances : SameClient(i)
    BY <1>0, <1>3, HealthTyped DEF Verify, SameClient
  <2> QED BY <1>1, <1>2, <1>3, <2>1 DEF Verify, store
<1>4. CASE ConnectFails(c)
  BY <1>1, <1>2, <1>4 DEF ConnectFails, store, SameClient
<1>5. ASSUME CheckBackoff(c) \/ DoubleCheck(c) \/ ReadInstance(c) \/ ReadClosed(c),
             ~(stage'[c] \in {"connect", "start"})
      PROVE  MapInv'
  <2>1. /\ UNCHANGED <<version, enabled, creationLocks, closed, refresh, clients>>
        /\ \/ \E a \in {"none", "client", "error"} : Return(c, a)
           \/ /\ stage'[c] \in {"again", "read"} /\ stage' = [stage EXCEPT ![c] = stage'[c]]
              /\ UNCHANGED <<inst, lock, read>>
    BY <1>0, <1>5 DEF CheckBackoff, DoubleCheck, ReadInstance, ReadClosed, Goto, store, Shape,
                      PoolTypeOK
  <2>2. \A i \in Instances : SameClient(i)
    BY <2>1 DEF SameClient
  <2>3. CASE \E a \in {"none", "client", "error"} : Return(c, a)
    BY <1>1, <1>2, <2>1, <2>2, <2>3
  <2>4. CASE /\ stage'[c] \in {"again", "read"} /\ stage' = [stage EXCEPT ![c] = stage'[c]]
             /\ UNCHANGED <<inst, lock, read>>
    <3>1. \A q \in Procs \ {c} : Same(q)
      BY <1>0, <2>4 DEF Same, Shape, PoolTypeOK
    <3> QED BY <1>1, <2>1, <2>2, <2>4, <3>1
  <2> QED BY <2>1, <2>3, <2>4
<1>6. CASE LockInstance(c)
  <2>1. \A q \in Procs \ {c} : Same(q)
    BY <1>0, <1>6 DEF LockInstance, Goto, Same, Shape, PoolTypeOK
  <2> QED BY <1>0, <1>1, <1>6, <2>1
          DEF LockInstance, Goto, Shape, PoolTypeOK, store, SameClient
<1>7. ASSUME ReadInstance(c), stage'[c] = "connect"
      PROVE  MapInv'
  <2>1. /\ stage' = [stage EXCEPT ![c] = "connect"] /\ stage[c] = "read"
        /\ read' = [read EXCEPT ![c] = version[inst[c]]] /\ enabled[inst[c]]
        /\ UNCHANGED <<inst, lock, version, enabled, creationLocks, closed, refresh, clients>>
    BY <1>0, <1>2, <1>7 DEF ReadInstance, Goto, store
  <2>2. /\ read'[c] = version[inst[c]] /\ \A h \in Handlers : Same(h)
        /\ \A d \in Callers \ {c} : Same(d)
    BY <1>0, <2>1 DEF Same, Shape, PoolTypeOK, Procs
  <2>3. FreshRead'
    BY <2>1, <2>2 DEF FreshRead, MapInv, RemovalDue, Same
  <2>4. StoredStays' /\ RefreshHasClient' /\ ClientCurrent'
    BY <1>0, <2>1, <2>2 DEF StoredStays, RefreshHasClient, ClientCurrent, RemovalDue, MapInv, Same
  <2> QED BY <1>0, <2>3, <2>4 DEF MapInv
<1>8. ASSUME ReadClosed(c), stage'[c] = "start"
      PROVE  MapInv'
  <2>1. /\ stage' = [stage EXCEPT ![c] = "start"] /\ stage[c] = "closed"
        /\ UNCHANGED <<inst, lock, read, version, enabled, creationLocks, closed, refresh,
                       clients>>
    BY <1>0, <1>2, <1>8 DEF ReadClosed, Goto, store
  <2>2. (\A h \in Handlers : Same(h)) /\ (\A d \in Callers \ {c} : Same(d))
    BY <1>0, <2>1 DEF Same, Shape, PoolTypeOK, Procs
  <2>3. FreshRead'
    BY <1>8, <2>1, <2>2 DEF FreshRead, MapInv, RemovalDue, Same
  <2>4. StoredStays'
    BY <2>1, <2>2 DEF StoredStays, MapInv, Same
  <2>5. RefreshHasClient' /\ ClientCurrent'
    BY <2>1, <2>2 DEF RefreshHasClient, ClientCurrent, RemovalDue, MapInv, Same
  <2> QED BY <1>0, <2>3, <2>4, <2>5 DEF MapInv
<1>9. Alone(c) /\ stage[c] \in Locked =>
         \A h \in Handlers : inst[h] = inst[c] => stage[h] \notin {"stop", "forget"} \/ lock[h] = lock[c]
  BY <1>0, ClientPoolAssumption DEF Alone, Shape, WithLock, Locked, Procs
<1>10. CASE StoreClient(c)
  <2>1. PICK ok \in BOOLEAN :
           clients' = [clients EXCEPT ![inst[c]] =
                         [id |-> New(FreshIds), ver |-> read[c], healthy |-> ok,
                          stray |-> ~Alone(c)]]
    BY <1>10 DEF StoreClient
  <2> DEFINE r == [id |-> New(FreshIds), ver |-> read[c], healthy |-> ok, stray |-> ~Alone(c)]
  <2>2. r.ver = read[c] /\ r.stray = ~Alone(c)
    OBVIOUS
  <2>3. r # None
    <3>1. New(FreshIds) \in Ids
      BY <1>10, NewChosen DEF StoreClient, FreshIds
    <3>2. r \in ClientRecords
      BY <1>0, <3>1 DEF ClientRecords, Alone, Shape, PoolTypeOK
    <3> QED BY <3>2, ClientPoolAssumption
  <2> HIDE DEF r
  <2>4. /\ clients'[inst[c]] = r
        /\ \A j \in Instances \ {inst[c]} : clients'[j] = clients[j]
    BY <1>0, <2>1 DEF r, Shape, PoolTypeOK
  <2>5. /\ stage' = [stage EXCEPT ![c] = "closed"] /\ stage[c] = "connect"
        /\ UNCHANGED <<inst, lock, read, version, enabled, creationLocks, closed, refresh>>
    BY <1>10 DEF StoreClient, Goto, store
  <2>6. (\A h \in Handlers : Same(h)) /\ (\A d \in Callers \ {c} : Same(d)) /\ stage'[c] = "closed"
    BY <1>0, <2>5 DEF Same, Shape, PoolTypeOK, Procs
  <2>7. FreshRead'
    BY <2>5, <2>6 DEF FreshRead, MapInv, RemovalDue, Same
  <2>8. StoredStays'
    BY <1>0, <2>3, <2>4, <2>5, <2>6 DEF StoredStays, MapInv, Same, Shape, Procs
  <2>9. RefreshHasClient'
    BY <2>3, <2>4, <2>5, <2>6 DEF RefreshHasClient, MapInv, Same
  <2>10. \A i \in Instances : RemovalDue(i)' = RemovalDue(i)
    BY <2>6 DEF RemovalDue, Same
  <2>11. Alone(c) => (r.ver = version[inst[c]] /\ enabled[inst[c]]) \/ RemovalDue(inst[c])
    BY <1>9, <2>2, <2>5 DEF FreshRead, MapInv, Alone, Locked
  <2>12. ClientCurrent'
    BY <2>2, <2>4, <2>5, <2>10, <2>11 DEF ClientCurrent, MapInv
  <2> QED BY <1>0, <2>7, <2>8, <2>9, <2>12 DEF MapInv
<1>11. CASE StartTrackerHealthRefresh(c)
  <2>1. /\ stage'[c] = "idle" /\ \A q \in Procs \ {c} : Same(q)
        /\ stage[c] = "start"
        /\ refresh' = [refresh EXCEPT ![inst[c]] = IF Alone(c) THEN "on" ELSE "stray"]
        /\ UNCHANGED <<version, enabled, creationLocks, closed, clients>>
    BY <1>2, <1>11 DEF StartTrackerHealthRefresh, store
  <2>2. (\A h \in Handlers : Same(h)) /\ (\A d \in Callers \ {c} : Same(d))
    BY <1>0, <2>1 DEF Procs
  <2>3. FreshRead' /\ StoredStays' /\ ClientCurrent'
    BY <2>1, <2>2 DEF FreshRead, StoredStays, ClientCurrent, MapInv, RemovalDue, Same
  <2>4. Alone(c) => clients[inst[c]] # None
    BY <1>9, <2>1 DEF StoredStays, MapInv, Alone, Locked
  <2>5. RefreshHasClient'
    BY <1>0, <2>1, <2>2, <2>4 DEF RefreshHasClient, MapInv, Same, Shape, PoolTypeOK
  <2> QED BY <1>0, <2>3, <2>5 DEF MapInv
<1>12. /\ CheckBackoff(c) \/ DoubleCheck(c) => stage'[c] \in {"again", "read", "idle"}
       /\ ReadInstance(c) => stage'[c] \in {"connect", "idle"}
       /\ ReadClosed(c) => stage'[c] \in {"start", "idle"}
  BY <1>0, <1>2 DEF CheckBackoff, DoubleCheck, ReadInstance, ReadClosed, Goto, Shape, PoolTypeOK
<1>13. CASE CheckBackoff(c) \/ DoubleCheck(c) \/ ReadInstance(c) \/ ReadClosed(c)
  BY <1>5, <1>7, <1>8, <1>12, <1>13
<1>14. CASE GetInstanceLock(c)
  BY <1>0, <1>14, ObtainMap
<1> QED BY <1>3, <1>4, <1>6, <1>10, <1>11, <1>13, <1>14 DEF CreateStep

(* The steps of a removal. *)
LEMMA RemovalMap ==
    ASSUME MapInv, NEW h \in Handlers, RemoveStep(h) \/ LockInstance(h), UNCHANGED now
    PROVE  MapInv'
<1>0. /\ Shape /\ Shape' /\ h \in Procs /\ h \notin Callers /\ stage[h] # "idle"
      /\ inst[h] \in Instances
  <2>1. Shape'
    BY RemovalShape DEF MapInv
  <2>2. stage[h] # "idle"
    BY DEF RemoveStep, LockInstance, GetInstanceLock, RemoveFromPool, StopTrackerHealthRefresh,
           ForgetLock, ResetOnEnable
  <2> QED BY <2>1, <2>2, ClientPoolAssumption DEF MapInv, Shape, Procs
<1>1. \A c \in Callers : stage[c] \in {"connect", "closed", "start"} =>
         inst[c] \in Instances /\ lock[c] \in Locks /\ stage[c] \in Locked /\ c \in Procs
  BY <1>0 DEF Shape, WithLock, Locked, Procs
<1>2. CASE GetInstanceLock(h)
  BY <1>0, <1>2, ObtainMap
<1>3. CASE LockInstance(h)
  <2>1. /\ stage[h] = "rwait" /\ stage' = [stage EXCEPT ![h] = "remove"]
        /\ UNCHANGED <<inst, lock, read, version, enabled, creationLocks, closed, refresh, clients>>
    BY <1>0, <1>3 DEF LockInstance, Goto, Shape, RemovePcs, store
  <2>2. (\A q \in Procs \ {h} : Same(q)) /\ stage'[h] = "remove"
    BY <1>0, <2>1 DEF Same, Shape, PoolTypeOK
  <2>3. \A i \in Instances : RemovalDue(i)' = RemovalDue(i)
    BY <1>0, <2>1, <2>2 DEF RemovalDue, Same, Procs
  <2>4. FreshRead'
    BY <1>0, <1>1, <2>1, <2>2, <2>3 DEF FreshRead, MapInv, RemovalDue, Same, Procs
  <2>5. StoredStays'
    BY <1>0, <2>1, <2>2 DEF StoredStays, MapInv, Same, Procs
  <2>6. ClientCurrent'
    BY <2>1, <2>3 DEF ClientCurrent, MapInv
  <2>7. RefreshHasClient'
    BY <2>1, <2>2 DEF RefreshHasClient, MapInv, Same, Procs
  <2> QED BY <1>0, <2>4, <2>5, <2>6, <2>7 DEF MapInv
<1>4. CASE RemoveFromPool(h)
  <2>1. /\ stage[h] = "remove" /\ stage' = [stage EXCEPT ![h] = "stop"]
        /\ clients' = [clients EXCEPT ![inst[h]] = None]
        /\ UNCHANGED <<inst, lock, read, version, enabled, creationLocks, closed, refresh>>
    BY <1>4 DEF RemoveFromPool, Goto, store
  <2>2. (\A q \in Procs \ {h} : Same(q)) /\ stage'[h] = "stop"
    BY <1>0, <2>1 DEF Same, Shape, PoolTypeOK
  <2>3. /\ clients'[inst[h]] = None
        /\ \A j \in Instances \ {inst[h]} : clients'[j] = clients[j]
    BY <1>0, <2>1 DEF Shape, PoolTypeOK
  <2>4. \A i \in Instances \ {inst[h]} : RemovalDue(i)' = RemovalDue(i)
    BY <1>0, <2>1, <2>2 DEF RemovalDue, Same, Procs
  <2>5. \A c \in Callers : stage[c] \in {"connect", "closed", "start"} => lock[c] # lock[h]
    BY <1>0, <1>1, <2>1, LockHeldOnce DEF Locked
  <2>6. FreshRead'
    <3>1. SUFFICES ASSUME NEW c \in Callers, stage'[c] = "connect",
                          creationLocks'[inst'[c]] = lock'[c]
                   PROVE  \/ read'[c] = version'[inst'[c]] /\ enabled'[inst'[c]]
                          \/ RemovalDue(inst[c])'
                          \/ \E g \in Handlers : /\ inst'[g] = inst'[c]
                                                 /\ stage'[g] \in {"stop", "forget"}
                                                 /\ lock'[g] # lock'[c]
      BY DEF FreshRead
    <3>2. stage[c] = "connect" /\ creationLocks[inst[c]] = lock[c] /\ lock[c] # lock[h]
      BY <1>0, <2>1, <2>2, <2>5, <3>1 DEF Procs, Same
    <3>3. CASE inst[c] = inst[h]
      BY <2>1, <2>2, <3>2, <3>3
    <3>4. CASE inst[c] # inst[h]
      <4>1. RemovalDue(inst[c])' <=> RemovalDue(inst[c])
        BY <1>0, <2>1, <2>2, <3>4 DEF RemovalDue, Same, Procs
      <4> QED BY <1>0, <2>1, <2>2, <3>2, <3>4, <4>1 DEF FreshRead, MapInv, Same, Procs
    <3> QED BY <3>3, <3>4
  <2>7. StoredStays'
    <3>1. SUFFICES ASSUME NEW c \in Callers, stage'[c] \in {"closed", "start"},
                          creationLocks'[inst'[c]] = lock'[c], ~closed'
                   PROVE  \/ clients'[inst'[c]] # None
                          \/ \E g \in Handlers : /\ inst'[g] = inst'[c]
                                                 /\ stage'[g] \in {"stop", "forget"}
                                                 /\ lock'[g] # lock'[c]
      BY DEF StoredStays
    <3>2. /\ stage[c] \in {"closed", "start"} /\ creationLocks[inst[c]] = lock[c]
          /\ lock[c] # lock[h] /\ inst[c] \in Instances
      BY <1>0, <1>1, <2>1, <2>2, <2>5, <3>1 DEF Procs, Same
    <3>3. CASE inst[c] = inst[h]
      BY <2>1, <2>2, <3>2, <3>3
    <3>4. CASE inst[c] # inst[h]
      BY <1>0, <2>1, <2>2, <2>3, <3>1, <3>2, <3>4 DEF StoredStays, MapInv, Same, Procs
    <3> QED BY <3>3, <3>4
  <2>8. ClientCurrent'
    BY <2>1, <2>3, <2>4 DEF ClientCurrent, MapInv
  <2>9. RefreshHasClient'
    BY <1>0, <2>1, <2>2, <2>3 DEF RefreshHasClient, MapInv, Same, Procs
  <2> QED BY <1>0, <2>6, <2>7, <2>8, <2>9 DEF MapInv
<1>5. CASE StopTrackerHealthRefresh(h)
  <2>1. /\ stage[h] = "stop" /\ stage' = [stage EXCEPT ![h] = "forget"]
        /\ refresh' = [refresh EXCEPT ![inst[h]] = "off"]
        /\ UNCHANGED <<inst, lock, read, version, enabled, creationLocks, closed, clients>>
    BY <1>5 DEF StopTrackerHealthRefresh, Goto, store
  <2>2. (\A q \in Procs \ {h} : Same(q)) /\ stage'[h] = "forget"
    BY <1>0, <2>1 DEF Same, Shape, PoolTypeOK
  <2>3. \A i \in Instances : RemovalDue(i)' = RemovalDue(i)
    BY <1>0, <2>1, <2>2 DEF RemovalDue, Same, Procs
  <2>4. FreshRead'
    BY <1>0, <2>1, <2>2 DEF FreshRead, MapInv, RemovalDue, Same, Procs
  <2>5. StoredStays'
    BY <1>0, <2>1, <2>2 DEF StoredStays, MapInv, Same, Procs
  <2>6. ClientCurrent'
    BY <2>1, <2>3 DEF ClientCurrent, MapInv
  <2>7. RefreshHasClient'
    BY <1>0, <2>1, <2>2 DEF RefreshHasClient, MapInv, Same, Procs, Shape, PoolTypeOK
  <2> QED BY <1>0, <2>4, <2>5, <2>6, <2>7 DEF MapInv
<1>6. CASE ForgetLock(h)
  <2>1. /\ stage'[h] = "idle" /\ stage[h] = "forget" /\ \A q \in Procs \ {h} : Same(q)
        /\ creationLocks' = [creationLocks EXCEPT ![inst[h]] = None]
        /\ UNCHANGED <<version, enabled, closed, clients, refresh>>
    BY <1>0, <1>6, ReturnShape DEF ForgetLock, store, Same
  <2>2. \A i \in Instances : RemovalDue(i)' = RemovalDue(i)
    BY <1>0, <2>1 DEF RemovalDue, Same, Procs
  <2>3. \A c \in Callers : stage'[c] \in {"connect", "closed", "start"}
                           /\ creationLocks'[inst'[c]] = lock'[c] =>
           /\ Same(c) /\ inst[c] # inst[h] /\ creationLocks[inst[c]] = lock[c]
           /\ inst[c] \in Instances
    BY <1>0, <1>1, <2>1, ClientPoolAssumption DEF Same, Procs, Shape, PoolTypeOK
  <2>4. FreshRead'
    <3>1. \A c \in Callers : Same(c) /\ inst[c] # inst[h] => (RemovalDue(inst[c])' <=> RemovalDue(inst[c]))
      BY <1>0, <2>1 DEF RemovalDue, Same, Procs
    <3> QED BY <1>0, <2>1, <2>3, <3>1 DEF FreshRead, MapInv, Same, Procs
  <2>5. StoredStays'
    BY <1>0, <2>1, <2>3 DEF StoredStays, MapInv, Same, Procs
  <2>6. ClientCurrent'
    BY <2>1, <2>2 DEF ClientCurrent, MapInv
  <2>7. RefreshHasClient'
    BY <1>0, <2>1 DEF RefreshHasClient, MapInv, Same, Procs
  <2> QED BY <1>0, <2>4, <2>5, <2>6, <2>7 DEF MapInv
<1>7. CASE ResetOnEnable(h)
  <2>1. /\ stage'[h] = "idle" /\ stage[h] = "reset" /\ \A q \in Procs \ {h} : Same(q)
        /\ UNCHANGED <<version, enabled, creationLocks, closed, clients, refresh>>
    BY <1>0, <1>7, ReturnShape DEF ResetOnEnable, store, Same
  <2>2. \A i \in Instances : RemovalDue(i)' = RemovalDue(i)
    BY <1>0, <2>1 DEF RemovalDue, Same, Procs
  <2>3. FreshRead'
    BY <1>0, <2>1 DEF FreshRead, MapInv, RemovalDue, Same, Procs
  <2>4. StoredStays'
    BY <1>0, <2>1 DEF StoredStays, MapInv, Same, Procs
  <2>5. ClientCurrent'
    BY <2>1, <2>2 DEF ClientCurrent, MapInv
  <2>6. RefreshHasClient'
    BY <1>0, <2>1 DEF RefreshHasClient, MapInv, Same, Procs
  <2> QED BY <1>0, <2>3, <2>4, <2>5, <2>6 DEF MapInv
<1> QED BY <1>2, <1>3, <1>4, <1>5, <1>6, <1>7 DEF RemoveStep

(* The edits, the health checks, the callbacks, and Close. *)
LEMMA SurroundingMap ==
    ASSUME MapInv, Surroundings, UNCHANGED now
    PROVE  MapInv'
<1>0. Shape /\ Shape' /\ Handlers \cap Callers = {}
  BY SurroundingShape, ClientPoolAssumption DEF MapInv
<1>1. ASSUME UNCHANGED <<version, enabled, creationLocks, closed, refresh, stage, inst, lock, read>>,
             \A i \in Instances : SameClient(i)
      PROVE  MapInv'
  BY <1>0, <1>1, QuietMap DEF Same
<1>2. ASSUME NEW h \in Handlers, NEW i \in Instances, NEW on \in BOOLEAN, EditInstance(h, i, on)
      PROVE  MapInv'
  <2>1. /\ stage[h] = "idle" /\ stage' = [stage EXCEPT ![h] = "rlock"]
        /\ inst' = [inst EXCEPT ![h] = i]
        /\ enabled' = [enabled EXCEPT ![i] = on]
        /\ version' = [version EXCEPT ![i] = version[i] + 1]
        /\ UNCHANGED <<clients, creationLocks, closed, refresh, lock, read>>
    BY <1>2 DEF EditInstance, Goto, pool
  <2>2. /\ \A q \in Procs \ {h} : Same(q)
        /\ stage'[h] = "rlock" /\ inst'[h] = i
        /\ \A j \in Instances \ {i} : version'[j] = version[j] /\ enabled'[j] = enabled[j]
    BY <1>0, <2>1 DEF Same, Shape, PoolTypeOK, Procs
  <2>3. /\ RemovalDue(i)'
        /\ \A j \in Instances \ {i} : RemovalDue(j) => RemovalDue(j)'
    BY <1>0, <2>1, <2>2 DEF RemovalDue, Same, Procs
  <2>4. \A c \in Callers : Same(c) /\ (stage[c] # "idle" => inst[c] \in Instances)
    BY <1>0, <2>2 DEF Procs, Shape
  <2>5. FreshRead'
    <3>1. SUFFICES ASSUME NEW c \in Callers, stage'[c] = "connect",
                          creationLocks'[inst'[c]] = lock'[c]
                   PROVE  \/ read'[c] = version'[inst'[c]] /\ enabled'[inst'[c]]
                          \/ RemovalDue(inst[c])'
                          \/ \E g \in Handlers : /\ inst'[g] = inst'[c]
                                                 /\ stage'[g] \in {"stop", "forget"}
                                                 /\ lock'[g] # lock'[c]
      BY DEF FreshRead
    <3>2. stage[c] = "connect" /\ creationLocks[inst[c]] = lock[c] /\ inst[c] \in Instances
      BY <2>1, <2>4, <3>1 DEF Same
    <3>3. CASE inst[c] = i
      BY <2>2, <2>4, <3>3 DEF RemovalDue, Same
    <3>4. CASE inst[c] # i
      <4>1. RemovalDue(inst[c]) => RemovalDue(inst[c])'
        BY <1>0, <2>1, <2>2, <2>4 DEF RemovalDue, Same, Procs
      <4> QED BY <1>0, <2>1, <2>2, <2>4, <3>2, <3>4, <4>1 DEF FreshRead, MapInv, Same, Procs
    <3> QED BY <3>3, <3>4
  <2>6. StoredStays'
    BY <1>0, <2>1, <2>2, <2>4 DEF StoredStays, MapInv, Same, Procs
  <2>7. ClientCurrent'
    BY <2>1, <2>2, <2>3 DEF ClientCurrent, MapInv
  <2>8. RefreshHasClient'
    BY <1>0, <2>1, <2>2 DEF RefreshHasClient, MapInv, Same, Procs
  <2> QED BY <1>0, <2>5, <2>6, <2>7, <2>8 DEF MapInv
<1>3. ASSUME NEW h \in Handlers, NEW i \in Instances, EnableInstance(h, i)
      PROVE  MapInv'
  <2>1. /\ stage[h] = "idle" /\ stage' = [stage EXCEPT ![h] = "reset"]
        /\ inst' = [inst EXCEPT ![h] = i] /\ ~enabled[i]
        /\ enabled' = [enabled EXCEPT ![i] = TRUE]
        /\ UNCHANGED <<version, clients, creationLocks, closed, refresh, lock, read>>
    BY <1>3 DEF EnableInstance, Goto, pool
  <2>2. /\ \A q \in Procs \ {h} : Same(q)
        /\ stage'[h] = "reset" /\ inst'[h] = i
        /\ \A j \in Instances : enabled[j] => enabled'[j]
    BY <1>0, <2>1 DEF Same, Shape, PoolTypeOK, Procs
  <2>3. \A j : RemovalDue(j) <=> (\E g \in Handlers : inst'[g] = j /\ stage'[g] \in {"rlock", "rwait", "remove"})
    BY <1>0, <2>1, <2>2 DEF RemovalDue, Same, Procs
  <2>4. \A c \in Callers : Same(c) /\ (stage[c] # "idle" => inst[c] \in Instances)
    BY <1>0, <2>2 DEF Procs, Shape
  <2>5. FreshRead'
    BY <1>0, <2>1, <2>2, <2>3, <2>4 DEF FreshRead, MapInv, Same, Procs, RemovalDue
  <2>6. StoredStays'
    BY <1>0, <2>1, <2>2, <2>4 DEF StoredStays, MapInv, Same, Procs
  <2>7. ClientCurrent'
    BY <2>1, <2>2, <2>3 DEF ClientCurrent, MapInv, RemovalDue
  <2>8. RefreshHasClient'
    BY <1>0, <2>1, <2>2 DEF RefreshHasClient, MapInv, Same, Procs
  <2> QED BY <1>0, <2>5, <2>6, <2>7, <2>8 DEF MapInv
<1>4. ASSUME NEW k \in Checkers, NEW i \in Instances, StartHealthCheck(k, i)
      PROVE  MapInv'
  BY <1>1, <1>4 DEF StartHealthCheck, store, pool, local, SameClient
<1>5. ASSUME NEW k \in Checkers, NEW ok \in BOOLEAN, FinishHealthCheck(k, ok)
      PROVE  MapInv'
  <2>1. checking[k][1] \in Instances
    BY <1>0, <1>5 DEF FinishHealthCheck, Shape, PoolTypeOK
  <2>2. \A i \in Instances : SameClient(i)
    BY <1>0, <1>5, <2>1, HealthTyped DEF FinishHealthCheck, SameClient
  <2> QED BY <1>1, <1>5, <2>2 DEF FinishHealthCheck, store, local
<1>6. ASSUME NEW i \in Instances, NEW ok \in BOOLEAN, SyncReports(i, ok)
      PROVE  MapInv'
  <2>1. \A j \in Instances : SameClient(j)
    BY <1>0, <1>6, HealthTyped DEF SyncReports, SameClient
  <2> QED BY <1>1, <1>6, <2>1 DEF SyncReports, store, local
<1>7. CASE Close
  <2>1. /\ closed' = TRUE /\ clients' = [i \in Instances |-> None]
        /\ refresh' = [i \in Instances |-> IF clients[i] = None THEN refresh[i] ELSE "off"]
        /\ UNCHANGED <<version, enabled, creationLocks, stage, inst, lock, read>>
    BY <1>7 DEF Close, store, local
  <2>2. FreshRead' /\ StoredStays' /\ ClientCurrent'
    BY <2>1 DEF FreshRead, StoredStays, ClientCurrent, RemovalDue, MapInv
  <2>3. RefreshHasClient'
    BY <2>1 DEF RefreshHasClient, MapInv
  <2> QED BY <1>0, <2>2, <2>3 DEF MapInv
<1> QED BY <1>2, <1>3, <1>4, <1>5, <1>6, <1>7 DEF Surroundings

LEMMA MapKept == MapInv /\ PoolMove => MapInv'
<1> SUFFICES ASSUME MapInv, PoolMove
             PROVE  MapInv'
  OBVIOUS
<1>0. Shape /\ Shape'
  BY ShapeKept DEF MapInv
<1>1. CASE PoolStep
  BY <1>1, CreationMap, RemovalMap, SurroundingMap DEF PoolStep, Procs
<1>2. ASSUME NEW c \in Callers, NEW i \in Instances, GetClient(c, i), UNCHANGED now
      PROVE  MapInv'
  <2>1. UNCHANGED <<version, enabled, clients, creationLocks, closed, refresh>>
    BY <1>2 DEF GetClient, store
  <2>2. stage'[c] \in {"idle", "lock", "verify"} /\ \A q \in Procs \ {c} : Same(q)
    BY <1>0, <1>2, ReturnShape DEF GetClient, Goto, Same, Shape, PoolTypeOK, Procs
  <2>3. c \notin Handlers
    BY <1>2, ClientPoolAssumption
  <2> QED BY <1>0, <2>1, <2>2, <2>3, QuietMap DEF SameClient, Procs
<1>3. CASE (Tick /\ UNCHANGED poolVars) \/ AnswerTaken
  <2>1. UNCHANGED <<version, enabled, clients, creationLocks, closed, refresh, stage, inst,
                    lock, read>>
    BY <1>3 DEF AnswerTaken, poolVars, store, pool, local
  <2> QED BY <1>0, <2>1, QuietMap DEF SameClient, Same
<1> QED BY <1>1, <1>2, <1>3 DEF PoolMove, PoolNext

LEMMA MapInit == Begin => MapInv
<1> SUFFICES ASSUME Begin PROVE MapInv
  OBVIOUS
<1>1. Shape
  BY ShapeInit
<1>2. FreshRead /\ StoredStays
  BY DEF Begin, PoolInit, FreshRead, StoredStays, Procs
<1>3. ClientCurrent /\ RefreshHasClient
  BY DEF Begin, PoolInit, ClientCurrent, RefreshHasClient
<1> QED BY <1>1, <1>2, <1>3 DEF MapInv

LEMMA PoolStutters == ASSUME Shape, UNCHANGED <<now, poolVars>> PROVE PoolMove
BY DEF Shape, PoolTypeOK, PoolMove, AnswerTaken, poolVars, local

(* The pool has the types of PoolTypeOK, and a creation or removal under   *)
(* way has its lock to itself, though RemoveClient forgets locks that      *)
(* others hold or wait for.                                                *)
THEOREM PoolTypes == PoolSpec => []PoolTypeOK
<1>1. Begin => Shape
  BY ShapeInit
<1>2. Shape /\ [PoolNext]_<<now, poolVars>> => Shape'
  BY ShapeKept, PoolStutters DEF PoolMove
<1>3. Shape => PoolTypeOK
  BY DEF Shape
<1> QED BY <1>1, <1>2, <1>3, PTL DEF PoolSpec

LEMMA MapInvariant == PoolSpec => []MapInv
<1>1. Begin => MapInv
  BY MapInit
<1>2. MapInv /\ [PoolNext]_<<now, poolVars>> => MapInv'
  BY MapKept, PoolStutters DEF PoolMove, MapInv
<1> QED BY <1>1, <1>2, PTL DEF PoolSpec

(* A client in the map that is not stray has the settings of its instance, *)
(* or the handler that changed them is about to remove it.                 *)
THEOREM ClientsAreCurrent == PoolSpec => []ClientCurrent
<1>1. MapInv => ClientCurrent
  BY DEF MapInv
<1> QED BY <1>1, MapInvariant, PTL

(* A tracker health refresh that is not stray runs for an instance with a  *)
(* client, or is about to be stopped.                                      *)
THEOREM RefreshesHaveClients == PoolSpec => []RefreshHasClient
<1>1. MapInv => RefreshHasClient
  BY DEF MapInv
<1> QED BY <1>1, MapInvariant, PTL

-----------------------------------------------------------------------------
(* The last failed connection of i counts, and its backoff did not overflow. *)
Waits(i) == triedAt[i] # 0 /\ attempts[i] > 0 /\ Fits(attempts[i])

(* The first backoff has passed since then. *)
Passed(i) == \E b \in Backoffs : now >= triedAt[i] + Least(b[1], b[2])

(* A creation that got past the look at the backoff may connect; the       *)
(* tracked retry is late enough; failures and their times go together.     *)
MayConnect ==
    \A c \in Callers :
       stage[c] \in {"again", "read", "connect"} /\ Waits(inst[c]) => Passed(inst[c])

RetryLate ==
    \A i \in Instances :
       Waits(i) => \E b \in Backoffs : nextRetry[i] >= triedAt[i] + Least(b[1], b[2])

TriedBefore ==
    \A i \in Instances : triedAt[i] <= now /\ (attempts[i] = 0 => triedAt[i] = 0)

SpaceInv == Shape /\ MayConnect /\ RetryLate /\ TriedBefore

(* No step of a tracker: callers go on, but past the look at the backoff   *)
(* only when it has ended, and time may pass.                              *)
LEMMA QuietSpace ==
    ASSUME SpaceInv, Shape', UNCHANGED backoff, now' >= now,
           \A c \in Callers :
              stage'[c] \in {"again", "read", "connect"} =>
                 /\ inst'[c] = inst[c]
                 /\ \/ stage[c] \in {"again", "read", "connect"}
                    \/ stage[c] = "backoff" /\ ~InBackoff(inst[c])
    PROVE  SpaceInv'
<1> USE DEF SpaceInv, Shape, PoolTypeOK, backoff
<1>1. \A i \in Instances :
         /\ Waits(i)' <=> Waits(i)
         /\ Passed(i) => Passed(i)'
         /\ Waits(i) /\ ~InBackoff(i) => Passed(i)
  <2>1. SUFFICES ASSUME NEW i \in Instances
                 PROVE  /\ Waits(i)' <=> Waits(i)
                        /\ Passed(i) => Passed(i)'
                        /\ Waits(i) /\ ~InBackoff(i) => Passed(i)
    OBVIOUS
  <2>2. now \in Int /\ now' \in Int /\ triedAt[i] \in Int /\ nextRetry[i] \in Int /\ attempts[i] \in Int
    BY ClientPoolAssumption, ClockAssumption
  <2>3. \A b \in Backoffs : Least(b[1], b[2]) \in Int
    BY ClientPoolAssumption DEF Least
  <2>4. Waits(i)' <=> Waits(i)
    BY DEF Waits, Fits
  <2>5. Passed(i) => Passed(i)'
    <3>1. ASSUME NEW b \in Backoffs, now >= triedAt[i] + Least(b[1], b[2])
          PROVE  now' >= triedAt'[i] + Least(b[1], b[2])
      BY <2>2, <2>3, <3>1
    <3> QED BY <3>1 DEF Passed
  <2>6. Waits(i) /\ ~InBackoff(i) => Passed(i)
    <3>1. ASSUME Waits(i), ~InBackoff(i)
          PROVE  Passed(i)
      <4>1. PICK b \in Backoffs : nextRetry[i] >= triedAt[i] + Least(b[1], b[2])
        BY <3>1 DEF RetryLate
      <4>2. now >= nextRetry[i]
        BY <2>2, <3>1 DEF InBackoff, Waits
      <4>3. now >= triedAt[i] + Least(b[1], b[2])
        BY <2>2, <2>3, <4>1, <4>2
      <4> QED BY <4>3 DEF Passed
    <3> QED BY <3>1
  <2> QED BY <2>4, <2>5, <2>6
<1>2. MayConnect'
  <2>1. SUFFICES ASSUME NEW c \in Callers, stage'[c] \in {"again", "read", "connect"},
                        Waits(inst[c])'
                 PROVE  Passed(inst[c])'
    BY DEF MayConnect
  <2>2. PICK i \in Instances : inst[c] = i /\ inst'[c] = i
    BY <2>1 DEF Procs
  <2>3. Waits(i)
    BY <1>1, <2>1, <2>2 DEF Waits
  <2>4. Passed(i)
    BY <1>1, <2>1, <2>2, <2>3 DEF MayConnect
  <2>5. Passed(i)'
    BY <1>1, <2>4
  <2> QED BY <2>2, <2>5 DEF Passed
<1>3. RetryLate'
  BY <1>1 DEF RetryLate
<1>4. TriedBefore'
  <2>1. \A i \in Instances : triedAt[i] \in Int /\ now \in Int /\ now' \in Int
    BY ClockAssumption
  <2> QED BY <2>1 DEF TriedBefore
<1> QED BY <1>2, <1>3, <1>4 DEF SpaceInv

(* ResetFailureTracking: nothing is left to wait for. *)
LEMMA ResetSpace ==
    ASSUME SpaceInv, Shape', UNCHANGED now, NEW i \in Instances, ResetFailureTracking(i),
           \A c \in Callers :
              stage'[c] \in {"again", "read", "connect"} =>
                 inst'[c] = inst[c] /\ stage[c] \in {"again", "read", "connect"}
    PROVE  SpaceInv'
<1> USE DEF SpaceInv, Shape, PoolTypeOK
<1>1. /\ triedAt'[i] = 0 /\ attempts'[i] = 0
      /\ \A j \in Instances \ {i} : /\ triedAt'[j] = triedAt[j] /\ attempts'[j] = attempts[j]
                                    /\ nextRetry'[j] = nextRetry[j]
  BY DEF ResetFailureTracking
<1>2. \A j \in Instances : Waits(j)' => j # i /\ Waits(j)
  BY <1>1 DEF Waits, Fits
<1>3. \A j \in Instances \ {i} : Passed(j) => Passed(j)'
  BY <1>1 DEF Passed
<1>4. MayConnect'
  <2>1. SUFFICES ASSUME NEW c \in Callers, stage'[c] \in {"again", "read", "connect"},
                        Waits(inst[c])'
                 PROVE  Passed(inst[c])'
    BY DEF MayConnect
  <2>2. PICK j \in Instances : inst[c] = j /\ inst'[c] = j
    BY <2>1 DEF Procs
  <2>3. Waits(j)' /\ stage[c] \in {"again", "read", "connect"}
    BY <2>1, <2>2 DEF Waits
  <2>4. Passed(j)'
    BY <1>2, <1>3, <2>2, <2>3 DEF MayConnect
  <2> QED BY <2>2, <2>4 DEF Passed
<1>5. RetryLate'
  BY <1>1, <1>2 DEF RetryLate
<1>6. TriedBefore'
  BY <1>1, ClockAssumption DEF TriedBefore
<1> QED BY <1>4, <1>5, <1>6 DEF SpaceInv

(* trackFailure: when it notes the time, nobody else is past the look at   *)
(* the backoff; when it does not, the time it leaves is older.             *)
LEMMA FailureSpace ==
    ASSUME SpaceInv, Shape', UNCHANGED now, NEW i \in Instances, TrackFailure(i),
           \/ triedAt' = triedAt
           \/ /\ triedAt' = [triedAt EXCEPT ![i] = now]
              /\ \A c \in Callers : stage'[c] \in {"again", "read", "connect"} => inst[c] # i,
           \A c \in Callers :
              stage'[c] \in {"again", "read", "connect"} =>
                 inst'[c] = inst[c] /\ stage[c] \in {"again", "read", "connect"}
    PROVE  SpaceInv'
<1> USE DEF SpaceInv, Shape, PoolTypeOK
<1>1. /\ attempts'[i] = attempts[i] + 1 /\ attempts[i] \in Nat /\ now \in Nat \ {0}
      /\ \A j \in Instances \ {i} : /\ triedAt'[j] = triedAt[j] /\ attempts'[j] = attempts[j]
                                    /\ nextRetry'[j] = nextRetry[j]
      /\ triedAt'[i] \in {triedAt[i], now} /\ triedAt[i] \in Nat
  BY ClientPoolAssumption, ClockAssumption DEF TrackFailure
<1>2. PICK b \in Backoffs : nextRetry'[i] = now + CalculateBackoff(attempts[i] + 1, b)
  BY DEF TrackFailure
<1>3. \A j \in Instances \ {i} : (Waits(j)' <=> Waits(j)) /\ (Passed(j) => Passed(j)')
  BY <1>1 DEF Waits, Fits, Passed
<1>4. Fits(attempts[i] + 1) => nextRetry'[i] >= triedAt'[i] + Least(b[1], b[2])
  <2>1. triedAt'[i] <= now
    BY <1>1 DEF TriedBefore
  <2>2. Least(b[1], b[2]) \in Int
    BY ClientPoolAssumption DEF Least
  <2>3. /\ CalculateBackoff(attempts[i] + 1, b) \in Int
        /\ Fits(attempts[i] + 1) => CalculateBackoff(attempts[i] + 1, b) >= Least(b[1], b[2])
    BY <1>1, BackoffValue
  <2> QED BY <1>1, <1>2, <2>1, <2>2, <2>3
<1>5. RetryLate'
  <2>1. SUFFICES ASSUME NEW j \in Instances, Waits(j)'
                 PROVE  \E d \in Backoffs : nextRetry'[j] >= triedAt'[j] + Least(d[1], d[2])
    BY DEF RetryLate
  <2>2. CASE j # i
    BY <1>1, <1>3, <2>1, <2>2 DEF RetryLate
  <2>3. CASE j = i
    <3>1. Fits(attempts[i] + 1)
      BY <1>1, <2>1, <2>3 DEF Waits, Fits
    <3> QED BY <1>4, <2>3, <3>1
  <2> QED BY <2>2, <2>3
<1>6. triedAt' = triedAt /\ Waits(i)' => Waits(i)
  <2>1. ASSUME triedAt' = triedAt, Waits(i)'
        PROVE  Waits(i)
    <3>1. triedAt[i] # 0 /\ attempts[i] # 0
      BY <2>1 DEF Waits, TriedBefore
    <3>2. Fits(attempts[i] + 1)
      BY <1>1, <2>1 DEF Waits, Fits
    <3>3. Fits(attempts[i])
      BY <1>1, <3>1, <3>2, FitsFewer
    <3> QED BY <1>1, <3>1, <3>3 DEF Waits
  <2> QED BY <2>1
<1>7. MayConnect'
  <2>1. SUFFICES ASSUME NEW c \in Callers, stage'[c] \in {"again", "read", "connect"},
                        Waits(inst[c])'
                 PROVE  Passed(inst[c])'
    BY DEF MayConnect
  <2>2. PICK j \in Instances : inst[c] = j /\ inst'[c] = j
    BY <2>1 DEF Procs
  <2>3. Waits(j)' /\ stage[c] \in {"again", "read", "connect"}
    BY <2>1, <2>2 DEF Waits
  <2>4. CASE j # i
    <3>1. Passed(j)'
      BY <1>3, <2>2, <2>3, <2>4 DEF MayConnect
    <3> QED BY <2>2, <3>1 DEF Passed
  <2>5. CASE j = i
    <3>1. triedAt' = triedAt
      BY <2>1, <2>2, <2>5
    <3>2. Passed(i)
      BY <1>6, <2>2, <2>3, <2>5, <3>1 DEF MayConnect
    <3>3. Passed(i)'
      BY <3>1, <3>2 DEF Passed
    <3> QED BY <2>2, <2>5, <3>3 DEF Passed
  <2> QED BY <2>4, <2>5
<1>8. TriedBefore'
  BY <1>1 DEF TriedBefore
<1> QED BY <1>5, <1>7, <1>8 DEF SpaceInv

LEMMA SpaceKept == SpaceInv /\ PoolMove => SpaceInv'
<1> SUFFICES ASSUME SpaceInv, PoolMove
             PROVE  SpaceInv'
  OBVIOUS
<1>0. /\ Shape /\ Shape' /\ now \in Int
  BY ShapeKept, ClockAssumption DEF SpaceInv, Shape
<1> DEFINE Later(c) == stage'[c] \in {"again", "read", "connect"} =>
                          /\ inst'[c] = inst[c]
                          /\ stage[c] \in {"again", "read", "connect"}
<1>1. ASSUME NEW p \in Procs, NEW a \in {"none", "client", "error"}, Return(p, a)
      PROVE  stage'[p] = "idle" /\ \A c \in Callers : Later(c)
  BY <1>0, <1>1, ReturnShape DEF Procs
<1>2. ASSUME NEW c \in Callers, CreateStep(c), UNCHANGED now
      PROVE  SpaceInv'
  <2>0. /\ c \in Procs /\ (stage[c] # "idle" => inst[c] \in Instances)
        /\ stage[c] \in WithLock => lock[c] \in Locks /\ lock[c] # None
    BY <1>0, ClientPoolAssumption DEF Procs, Shape
  <2>1. CASE \/ Verify(c) \/ GetInstanceLock(c) \/ DoubleCheck(c) \/ ReadInstance(c)
             \/ ReadClosed(c) \/ StartTrackerHealthRefresh(c)
    <3>1. UNCHANGED backoff
      BY <2>1 DEF Verify, GetInstanceLock, DoubleCheck, ReadInstance, ReadClosed,
                  StartTrackerHealthRefresh
    <3>2. \A d \in Callers : Later(d)
      <4>1. CASE \E a \in {"none", "client", "error"} : Return(c, a)
        BY <1>1, <2>0, <4>1
      <4>2. ASSUME NEW s \in {"read", "connect", "start", "wait", "rwait"},
                   stage' = [stage EXCEPT ![c] = s], inst' = inst,
                   s \in {"read", "connect"} => stage[c] \in {"again", "read"}
            PROVE  \A d \in Callers : Later(d)
        BY <1>0, <4>2 DEF Shape, PoolTypeOK
      <4> QED BY <2>1, <4>1, <4>2 DEF Verify, GetInstanceLock, DoubleCheck, ReadInstance,
                  ReadClosed, StartTrackerHealthRefresh, Goto
    <3> QED BY <1>0, <1>2, <3>1, <3>2, QuietSpace
  <2>2. CASE CheckBackoff(c)
    <3>1. UNCHANGED backoff
      BY <2>2 DEF CheckBackoff
    <3>2. \A d \in Callers :
             stage'[d] \in {"again", "read", "connect"} =>
                /\ inst'[d] = inst[d]
                /\ \/ stage[d] \in {"again", "read", "connect"}
                   \/ stage[d] = "backoff" /\ ~InBackoff(inst[d])
      <4>1. CASE Return(c, "error")
        BY <1>1, <2>0, <4>1
      <4>2. CASE ~InBackoff(inst[c]) /\ Goto(c, "again") /\ UNCHANGED inst
        BY <1>0, <2>2, <4>2 DEF CheckBackoff, Goto, Shape, PoolTypeOK
      <4> QED BY <2>2, <4>1, <4>2 DEF CheckBackoff
    <3> QED BY <1>0, <1>2, <3>1, <3>2, QuietSpace
  <2>3. CASE ConnectFails(c)
    <3>1. \A d \in Callers : Later(d)
      BY <1>1, <2>0, <2>3 DEF ConnectFails
    <3>2. inst[c] \in Instances /\ TrackFailure(inst[c]) /\ stage'[c] = "idle"
      BY <1>1, <2>0, <2>3 DEF ConnectFails
    <3>3. CASE ~Alone(c)
      <4>1. triedAt' = triedAt
        BY <1>0, <2>3, <3>3 DEF ConnectFails, Shape, PoolTypeOK
      <4> QED BY <1>0, <1>2, <3>1, <3>2, <4>1, FailureSpace
    <3>4. CASE Alone(c)
      <4>1. triedAt' = [triedAt EXCEPT ![inst[c]] = now]
        BY <2>3, <3>4 DEF ConnectFails
      <4>2. \A d \in Callers : stage'[d] \in {"again", "read", "connect"} => inst[d] # inst[c]
        <5>1. SUFFICES ASSUME NEW d \in Callers, stage'[d] \in {"again", "read", "connect"},
                              inst[d] = inst[c]
                       PROVE  FALSE
          OBVIOUS
        <5>2. /\ d # c /\ d \in Procs /\ stage[d] \in {"again", "read", "connect"}
              /\ lock[d] \in Locks
          BY <1>0, <3>1, <3>2, <5>1 DEF Shape, WithLock, Locked, Procs
        <5>3. lock[d] = lock[c]
          BY <3>4, <5>1, <5>2, ClientPoolAssumption DEF Alone
        <5> QED BY <1>0, <2>0, <2>3, <5>2, <5>3, LockHeldOnce DEF Locked, ConnectFails
      <4> QED BY <1>0, <1>2, <3>1, <3>2, <4>1, <4>2, FailureSpace
    <3> QED BY <3>3, <3>4
  <2>4. CASE StoreClient(c)
    <3>1. \A d \in Callers : Later(d)
      BY <1>0, <2>0, <2>4 DEF StoreClient, Goto, Shape, PoolTypeOK
    <3> QED BY <1>0, <1>2, <2>0, <2>4, <3>1, ResetSpace DEF StoreClient
  <2> QED BY <1>2, <2>1, <2>2, <2>3, <2>4 DEF CreateStep
<1>3. ASSUME NEW h \in Handlers, RemoveStep(h), UNCHANGED now
      PROVE  SpaceInv'
  <2>0. h \in Procs /\ h \notin Callers /\ (stage[h] # "idle" => inst[h] \in Instances)
    BY <1>0, ClientPoolAssumption DEF Procs, Shape
  <2>1. CASE GetInstanceLock(h) \/ RemoveFromPool(h) \/ StopTrackerHealthRefresh(h)
    <3>1. UNCHANGED <<inst, backoff>> /\ \E s \in Stages : stage' = [stage EXCEPT ![h] = s]
      BY <2>1 DEF GetInstanceLock, RemoveFromPool, StopTrackerHealthRefresh, Goto, Stages,
                  CreatePcs, RemovePcs
    <3>2. \A d \in Callers : Later(d)
      BY <1>0, <2>0, <3>1 DEF Shape, PoolTypeOK, Procs
    <3> QED BY <1>0, <1>3, <3>1, <3>2, QuietSpace
  <2>2. CASE ForgetLock(h)
    <3>1. (\A d \in Callers : Later(d)) /\ UNCHANGED backoff
      BY <1>1, <2>0, <2>2 DEF ForgetLock
    <3> QED BY <1>0, <1>3, <3>1, QuietSpace
  <2>3. CASE ResetOnEnable(h)
    <3>1. \A d \in Callers : Later(d)
      BY <1>1, <2>0, <2>3 DEF ResetOnEnable
    <3> QED BY <1>0, <1>3, <2>0, <2>3, <3>1, ResetSpace DEF ResetOnEnable
  <2> QED BY <1>3, <2>1, <2>2, <2>3 DEF RemoveStep
<1>4. ASSUME NEW p \in Procs, LockInstance(p), UNCHANGED now
      PROVE  SpaceInv'
  <2>1. /\ UNCHANGED <<inst, backoff>>
        /\ \E s \in {"backoff", "remove"} : stage' = [stage EXCEPT ![p] = s]
    BY <1>4 DEF LockInstance, Goto
  <2>2. \A d \in Callers : Later(d)
    BY <1>0, <2>1 DEF Shape, PoolTypeOK, Procs
  <2> QED BY <1>0, <1>4, <2>1, <2>2, QuietSpace
<1>5. CASE Surroundings /\ UNCHANGED now
  <2>1. ASSUME NEW h \in Handlers, NEW i \in Instances,
               (\E on \in BOOLEAN : EditInstance(h, i, on)) \/ EnableInstance(h, i)
        PROVE  SpaceInv'
    <3>1. /\ UNCHANGED backoff /\ \E s \in {"rlock", "reset"} : stage' = [stage EXCEPT ![h] = s]
          /\ inst' = [inst EXCEPT ![h] = i]
      BY <2>1 DEF EditInstance, EnableInstance, Goto
    <3>2. \A d \in Callers : Later(d)
      BY <1>0, <3>1, ClientPoolAssumption DEF Shape, PoolTypeOK, Procs
    <3> QED BY <1>0, <1>5, <3>1, <3>2, QuietSpace
  <2>2. ASSUME UNCHANGED <<backoff, stage, inst>>
        PROVE  SpaceInv'
    BY <1>0, <1>5, <2>2, QuietSpace
  <2>3. ASSUME NEW k \in Checkers, NEW ok \in BOOLEAN, FinishHealthCheck(k, ok)
        PROVE  SpaceInv'
    <3>1. checking[k][1] \in Instances
      BY <1>0, <2>3 DEF FinishHealthCheck, Shape, PoolTypeOK
    <3>2. \A d \in Callers : Later(d)
      BY <2>3 DEF FinishHealthCheck, local
    <3> QED BY <1>0, <1>5, <2>3, <3>1, <3>2, ResetSpace, FailureSpace DEF FinishHealthCheck
  <2>4. CASE Close
    <3>1. /\ \A i \in Instances : attempts'[i] = 0 /\ triedAt'[i] = 0
          /\ UNCHANGED <<now, stage, inst>>
      BY <1>5, <2>4 DEF Close, local
    <3>2. \A i \in Instances : ~Waits(i)'
      BY <3>1 DEF Waits
    <3>3. MayConnect'
      BY <1>0, <3>1, <3>2 DEF MayConnect, Waits, Shape, Procs
    <3>4. RetryLate' /\ TriedBefore'
      BY <1>0, <3>1, <3>2 DEF RetryLate, TriedBefore, Shape
    <3> QED BY <1>0, <3>3, <3>4 DEF SpaceInv
  <2>5. ASSUME NEW i \in Instances,
               \/ \E k \in Checkers : StartHealthCheck(k, i)
               \/ \E ok \in BOOLEAN : SyncReports(i, ok)
        PROVE  SpaceInv'
    BY <2>2, <2>5 DEF StartHealthCheck, SyncReports, local
  <2> QED BY <1>5, <2>1, <2>3, <2>4, <2>5 DEF Surroundings
<1>6. ASSUME NEW c \in Callers, NEW i \in Instances, GetClient(c, i), UNCHANGED now
      PROVE  SpaceInv'
  <2>1. UNCHANGED backoff
    BY <1>6 DEF GetClient
  <2>2. \A d \in Callers : Later(d)
    <3>1. CASE Return(c, "error") \/ Return(c, "client")
      BY <1>1, <3>1 DEF Procs
    <3>2. CASE /\ \E s \in {"lock", "verify"} : stage' = [stage EXCEPT ![c] = s]
               /\ inst' = [inst EXCEPT ![c] = i]
      BY <1>0, <3>2 DEF Shape, PoolTypeOK, Procs
    <3> QED BY <1>6, <3>1, <3>2 DEF GetClient, Goto
  <2> QED BY <1>0, <1>6, <2>1, <2>2, QuietSpace
<1>7. CASE Tick /\ UNCHANGED poolVars
  <2>1. now' >= now /\ UNCHANGED <<backoff, stage, inst>>
    BY <1>0, <1>7, ClockAssumption DEF Tick, poolVars, local
  <2> QED BY <1>0, <2>1, QuietSpace
<1>8. CASE AnswerTaken
  <2>1. UNCHANGED <<now, backoff, stage, inst>>
    BY <1>8 DEF AnswerTaken
  <2> QED BY <1>0, <2>1, QuietSpace
<1> QED BY <1>2, <1>3, <1>4, <1>5, <1>6, <1>7, <1>8 DEF PoolMove, PoolNext, PoolStep

LEMMA SpaceInit == Begin => SpaceInv
<1>1. Begin => MayConnect /\ RetryLate /\ TriedBefore
  BY DEF Begin, ClockInit, PoolInit, MayConnect, RetryLate, TriedBefore, Waits, Procs
<1> QED BY <1>1, ShapeInit DEF SpaceInv

(* A connection is not tried again before the first backoff has passed     *)
(* since the last one failed, as long as the backoff does not overflow.    *)
THEOREM SpacingHolds == PoolSpec => ConnectionsSpaced
<1>1. Begin => SpaceInv
  BY SpaceInit
<1>2. SpaceInv /\ [PoolNext]_<<now, poolVars>> => SpaceInv'
  BY SpaceKept, PoolStutters DEF PoolMove, SpaceInv
<1>3. SpaceInv =>
         [\A c \in Callers :
            /\ stage[c] = "connect" /\ stage'[c] # "connect" /\ Alone(c)
            /\ triedAt[inst[c]] # 0 /\ attempts[inst[c]] > 0 /\ Fits(attempts[inst[c]])
            => \E b \in Backoffs : now >= triedAt[inst[c]] + Least(b[1], b[2])]_poolVars
  BY DEF SpaceInv, MayConnect, Waits, Passed
<1> QED BY <1>1, <1>2, <1>3, PTL DEF PoolSpec, ConnectionsSpaced

-----------------------------------------------------------------------------
(* A caller in the pool goes on or has its answer; nothing else moves it. *)
LEMMA CallerMoves ==
    ASSUME Shape, PoolStep, NEW c \in Callers
    PROVE  \/ stage'[c] = stage[c] /\ answer'[c] = answer[c]
           \/ stage[c] # "idle" /\ (stage'[c] # "idle" \/ answer'[c] # "none")
<1> DEFINE Moved == \/ stage'[c] = stage[c] /\ answer'[c] = answer[c]
                    \/ stage[c] # "idle" /\ (stage'[c] # "idle" \/ answer'[c] # "none")
<1>0. c \in Procs /\ c \notin Handlers
  BY ClientPoolAssumption DEF Procs
<1>1. ASSUME NEW p \in Procs, NEW a \in {"none", "client", "error"}, Return(p, a)
      PROVE  /\ p = c => answer'[c] = a
             /\ p # c => stage'[c] = stage[c] /\ answer'[c] = answer[c]
  BY <1>0, <1>1 DEF Return, Goto, Shape, PoolTypeOK
<1>2. ASSUME NEW p \in Procs, NEW s \in Stages \ {"idle"}, Goto(p, s), UNCHANGED answer,
             p = c => stage[c] # "idle"
      PROVE  Moved
  BY <1>0, <1>2 DEF Goto, Shape, PoolTypeOK
<1>3. ASSUME NEW d \in Callers, CreateStep(d)
      PROVE  Moved
  <2>1. d \in Procs /\ stage[d] # "idle"
    BY <1>3 DEF Procs, CreateStep, Verify, GetInstanceLock, CheckBackoff, DoubleCheck,
                ReadInstance, ConnectFails, StoreClient, ReadClosed, StartTrackerHealthRefresh
  <2>2. \/ \E a \in {"client", "error"} : Return(d, a)
        \/ \E s \in Stages \ {"idle"} : Goto(d, s) /\ UNCHANGED answer
    BY <1>3 DEF CreateStep, Verify, GetInstanceLock, CheckBackoff, DoubleCheck, ReadInstance,
                ConnectFails, StoreClient, ReadClosed, StartTrackerHealthRefresh,
                Stages, CreatePcs, RemovePcs
  <2> QED BY <1>1, <1>2, <2>1, <2>2
<1>4. ASSUME NEW h \in Handlers,
             \/ RemoveStep(h) \/ \E i \in Instances : EnableInstance(h, i)
             \/ \E i \in Instances, on \in BOOLEAN : EditInstance(h, i, on)
      PROVE  Moved
  <2>1. \/ Return(h, "none")
        \/ \E s \in Stages \ {"idle"} : Goto(h, s) /\ UNCHANGED answer
    BY <1>4 DEF RemoveStep, GetInstanceLock, RemoveFromPool, StopTrackerHealthRefresh,
                ForgetLock, ResetOnEnable, EnableInstance, EditInstance,
                Stages, CreatePcs, RemovePcs
  <2> QED BY <1>0, <1>1, <1>2, <2>1 DEF Procs
<1>5. ASSUME NEW p \in Procs, LockInstance(p)
      PROVE  Moved
  BY <1>2, <1>5 DEF LockInstance, Stages, CreatePcs, RemovePcs
<1>6. CASE \/ \E k \in Checkers, i \in Instances : StartHealthCheck(k, i)
           \/ \E k \in Checkers, ok \in BOOLEAN : FinishHealthCheck(k, ok)
           \/ \E i \in Instances, ok \in BOOLEAN : SyncReports(i, ok)
           \/ Close
  BY <1>6 DEF StartHealthCheck, FinishHealthCheck, SyncReports, Close, local
<1> QED BY <1>3, <1>4, <1>5, <1>6 DEF PoolStep, Surroundings
=============================================================================
