----------------------------- MODULE ClientPool -----------------------------
(***************************************************************************)
(* The pool of connections: internal/qbittorrent/pool.go, the tracker      *)
(* health refresh it starts and stops (sync_manager.go) and the instance   *)
(* handlers that call it (api/handlers/instances.go).                      *)
(*                                                                         *)
(* GetClient returns the pooled client of an instance or creates one under *)
(* the instance's creation lock.  The handlers change an instance in the   *)
(* store and then remove its client, under the same lock, so that the next *)
(* GetClient connects with the new settings.  RemoveClient also forgets    *)
(* the lock, though others may hold or wait for it.  Failed connections    *)
(* put an instance into backoff.                                           *)
(*                                                                         *)
(* A client or a refresh loop is called stray when it was put there under  *)
(* a lock that RemoveClient had forgotten by then, while somebody worked   *)
(* under a forgotten lock, or after Close.                                 *)
(***************************************************************************)
EXTENDS Clock, FiniteSets

CONSTANTS
    Callers,        \* goroutines that call GetClient
    Handlers,       \* requests that change instances
    Checkers,       \* health check goroutines
    Locks,          \* enough mutex objects
    Ids,            \* enough client objects
    Backoffs,       \* the pairs <<initial, max>>: of failures and of bans
    Width,          \* bits of a time.Duration
    MaxAttempts,    \* bound: consecutive failures
    MaxEdits        \* bound: changes of instances

Procs == Callers \cup Handlers

(* A pooled client: which one, made from which version of the instance,     *)
(* its health, and whether it is stray.                                     *)
ClientRecords ==
    [id : Ids, ver : 0 .. MaxEdits, healthy : BOOLEAN, stray : BOOLEAN]

ASSUME ClientPoolAssumption ==
    /\ Callers \cap Handlers = {}
    /\ None \notin Procs \cup Locks \cup Ids \cup Instances \cup ClientRecords
    /\ None \notin Instances \X Ids
    /\ Backoffs \subseteq Nat \X Nat
    /\ Width \in Nat \ {0} /\ MaxAttempts \in Nat /\ MaxEdits \in Nat

VARIABLES
    version,    \* instance row: counts its changes
    enabled,    \* instance row: is_active
    clients,    \* cp.clients: instance -> [id, ver, healthy, stray], or None
    creationLocks,  \* instance -> lock, or None
    holder,     \* lock -> process, or None
    attempts,   \* failureTracker: number of failures, 0: no entry
    nextRetry,  \* failureTracker: end of the backoff
    closed,
    refresh,    \* trackerHealthCancel: "off", "on", or "stray"
    stage,      \* where each process is
    inst,       \* the instance it works on
    lock,       \* the lock it took from creationLocks
    read,       \* the version it connects with
    answer,     \* what its GetClient returned
    checking,   \* who checks a client: <<instance, client id>>, or None
    edits,
    triedAt     \* history: time of the last failed connection, 0: none since
                \* the failures were reset

store == <<version, enabled, edits>>
pool == <<clients, creationLocks, holder, closed, refresh>>
backoff == <<attempts, nextRetry, triedAt>>
local == <<stage, inst, lock, read, answer>>
poolVars == <<store, pool, backoff, local, checking>>

CreatePcs == {"lock", "wait", "backoff", "again", "read", "connect", "closed", "start"}
RemovePcs == {"rlock", "rwait", "remove", "stop", "forget"}
Stages == {"idle", "verify", "reset"} \cup CreatePcs \cup RemovePcs

PoolInit ==
    /\ version = [i \in Instances |-> 0] /\ enabled = [i \in Instances |-> TRUE]
    /\ clients = [i \in Instances |-> None]
    /\ creationLocks = [i \in Instances |-> None] /\ holder = [l \in Locks |-> None]
    /\ attempts = [i \in Instances |-> 0] /\ nextRetry = [i \in Instances |-> 0]
    /\ closed = FALSE /\ refresh = [i \in Instances |-> "off"]
    /\ stage = [p \in Procs |-> "idle"] /\ inst = [p \in Procs |-> None]
    /\ lock = [p \in Procs |-> None] /\ read = [p \in Procs |-> 0]
    /\ answer = [p \in Procs |-> "none"]
    /\ checking = [k \in Checkers \cup Callers |-> None]
    /\ edits = 0 /\ triedAt = [i \in Instances |-> 0]

-----------------------------------------------------------------------------
(* Moves of a process p. *)

Goto(p, s) == stage' = [stage EXCEPT ![p] = s]

(* Mutant: the lock is not released. *)
ReturnLocked(p, a) ==
    /\ Goto(p, "idle")
    /\ answer' = [answer EXCEPT ![p] = a]
    /\ inst' = [inst EXCEPT ![p] = None]
    /\ lock' = [lock EXCEPT ![p] = None] /\ read' = [read EXCEPT ![p] = 0]
    /\ UNCHANGED holder

(* GetClient returns: the deferred Unlock, and the answer for the caller. *)
Return(p, a) ==
    /\ Goto(p, "idle")
    /\ answer' = [answer EXCEPT ![p] = a]
    /\ inst' = [inst EXCEPT ![p] = None]
    /\ lock' = [lock EXCEPT ![p] = None] /\ read' = [read EXCEPT ![p] = 0]
    /\ holder' = [l \in Locks |-> IF holder[l] = p THEN None ELSE holder[l]]

Healthy(i) == clients[i] # None /\ clients[i].healthy

InBackoff(i) == attempts[i] > 0 /\ now < nextRetry[i]

(* The locks nobody has or waits for: one of them is a new mutex. *)
FreshLocks == {l \in Locks : /\ \A i \in Instances : creationLocks[i] # l
                             /\ \A p \in Procs : lock[p] # l}

(* The clients nobody has: one of them is a new one. *)
FreshIds ==
    {n \in Ids : /\ \A i \in Instances : clients[i] = None \/ clients[i].id # n
                 /\ \A k \in DOMAIN checking : checking[k] = None \/ checking[k][2] # n}

New(S) == CHOOSE x \in S : TRUE

-----------------------------------------------------------------------------
(* Failure tracking. *)

Power(n) == 2 ^ n

(* A product of int64: its low Width bits, as a signed number. *)
Wrap(x) == IF x % Power(Width) < Power(Width - 1) THEN x % Power(Width)
           ELSE (x % Power(Width)) - Power(Width)

Least(x, y) == IF x < y THEN x ELSE y

(* calculateBackoff: initial * 2^(attempts-1), at most max, in 64 bits. *)
CalculateBackoff(n, b) == Least(Wrap(Power(n - 1) * b[1]), b[2])

TrackFailure(i) ==
    /\ attempts' = [attempts EXCEPT ![i] = @ + 1]
    /\ \E b \in Backoffs :
         nextRetry' = [nextRetry EXCEPT ![i] = now + CalculateBackoff(attempts[i] + 1, b)]

ResetFailureTracking(i) ==
    /\ attempts' = [attempts EXCEPT ![i] = 0]
    /\ nextRetry' = [nextRetry EXCEPT ![i] = 0]
    /\ triedAt' = [triedAt EXCEPT ![i] = 0]

-----------------------------------------------------------------------------
(* GetClientWithTimeout. *)

(* The look at the map: closed, a healthy client, one to be verified, none. *)
GetClient(c, i) ==
    /\ c \in Callers /\ stage[c] = "idle"
    /\ \/ closed /\ Return(c, "error")
       \/ ~closed /\ Healthy(i) /\ Return(c, "client")
       \/ /\ ~closed /\ ~Healthy(i)
          /\ Goto(c, IF clients[i] = None THEN "lock" ELSE "verify")
          /\ inst' = [inst EXCEPT ![c] = i]
          /\ answer' = [answer EXCEPT ![c] = "none"]
          /\ UNCHANGED <<lock, read, holder>>
    /\ checking' = [checking EXCEPT ![c] = IF ~closed /\ clients[i] # None /\ ~Healthy(i)
                                           THEN <<i, clients[i].id>> ELSE None]
    /\ UNCHANGED <<store, clients, creationLocks, closed, refresh, backoff>>

(* updateHealthStatus of client n, which may be gone from the pool. *)
SetHealth(i, n, ok) ==
    clients' = IF clients[i] # None /\ clients[i].id = n
               THEN [clients EXCEPT ![i] = [@ EXCEPT !.healthy = ok]] ELSE clients

(* HealthCheck of the unhealthy client. *)
Verify(c) ==
    /\ stage[c] = "verify"
    /\ \E ok \in BOOLEAN : /\ Return(c, IF ok THEN "client" ELSE "error")
                          /\ SetHealth(inst[c], checking[c][2], ok)
    /\ checking' = [checking EXCEPT ![c] = None]
    /\ UNCHANGED <<store, creationLocks, closed, refresh, backoff>>

(* getInstanceLock, by a creation or a removal. *)
GetInstanceLock(p) ==
    LET i == inst[p]
        l == IF creationLocks[i] # None THEN creationLocks[i] ELSE New(FreshLocks)
    IN  /\ stage[p] \in {"lock", "rlock"}
        /\ creationLocks[i] # None \/ FreshLocks # {}     \* bound Locks
        /\ Goto(p, IF stage[p] = "lock" THEN "wait" ELSE "rwait")
        /\ lock' = [lock EXCEPT ![p] = l]
        /\ creationLocks' = [creationLocks EXCEPT ![i] = l]
        /\ UNCHANGED <<store, clients, holder, closed, refresh, backoff, inst, read,
                       answer, checking>>

LockInstance(p) ==
    /\ stage[p] \in {"wait", "rwait"} /\ holder[lock[p]] = None
    /\ Goto(p, IF stage[p] = "wait" THEN "backoff" ELSE "remove")
    /\ holder' = [holder EXCEPT ![lock[p]] = p]
    /\ UNCHANGED <<store, clients, creationLocks, closed, refresh, backoff, inst, lock,
                   read, answer, checking>>

(* Mutant: the backoff is not looked at. *)
CheckBackoffNever(c) ==
    /\ stage[c] = "backoff" /\ Goto(c, "again")
    /\ UNCHANGED <<store, pool, backoff, inst, lock, read, answer, checking>>

CheckBackoff(c) ==
    /\ stage[c] = "backoff"
    /\ \/ InBackoff(inst[c]) /\ Return(c, "error")
       \/ ~InBackoff(inst[c]) /\ Goto(c, "again") /\ UNCHANGED <<inst, lock, read, answer, holder>>
    /\ UNCHANGED <<store, clients, creationLocks, closed, refresh, backoff, checking>>

(* The second look at the map. *)
DoubleCheck(c) ==
    /\ stage[c] = "again"
    /\ \/ Healthy(inst[c]) /\ Return(c, "client")
       \/ ~Healthy(inst[c]) /\ Goto(c, "read") /\ UNCHANGED <<inst, lock, read, answer, holder>>
    /\ UNCHANGED <<store, clients, creationLocks, closed, refresh, backoff, checking>>

(* The instance from the store; it may be disabled, or not to be read or     *)
(* decrypted.                                                                *)
ReadInstance(c) ==
    /\ stage[c] = "read"
    /\ \/ /\ enabled[inst[c]] /\ Goto(c, "connect")
          /\ read' = [read EXCEPT ![c] = version[inst[c]]]
          /\ UNCHANGED <<inst, lock, answer, holder>>
       \/ Return(c, "error")
    /\ UNCHANGED <<store, clients, creationLocks, closed, refresh, backoff, checking>>

(* The lock c holds is still the instance's lock, nobody uses another one    *)
(* for the instance, and the pool is open.                                   *)
Alone(c) ==
    /\ creationLocks[inst[c]] = lock[c] /\ ~closed
    /\ \A p \in Procs : inst[p] = inst[c] => lock[p] \in {None, lock[c]}

ConnectFails(c) ==
    /\ stage[c] = "connect" /\ attempts[inst[c]] < MaxAttempts
    /\ TrackFailure(inst[c])
    /\ triedAt' = [triedAt EXCEPT ![inst[c]] = IF Alone(c) THEN now ELSE @]
    /\ Return(c, "error")
    /\ UNCHANGED <<store, clients, creationLocks, closed, refresh, checking>>

(* Connected: the new client goes into the map, whatever is there and        *)
(* whether or not the pool is closed by now.                                 *)
StoreClient(c) ==
    LET i == inst[c] IN
    /\ stage[c] = "connect" /\ Goto(c, "closed")
    /\ FreshIds # {}                                       \* bound Ids
    /\ \E ok \in BOOLEAN :
         clients' = [clients EXCEPT ![i] = [id |-> New(FreshIds), ver |-> read[c], healthy |-> ok,
                                            stray |-> ~Alone(c)]]
    /\ ResetFailureTracking(i)
    /\ UNCHANGED <<store, creationLocks, holder, closed, refresh, inst, lock, read,
                   answer, checking>>

ReadClosed(c) ==
    /\ stage[c] = "closed"
    /\ \/ closed /\ Return(c, "client")
       \/ ~closed /\ Goto(c, "start") /\ UNCHANGED <<inst, lock, read, answer, holder>>
    /\ UNCHANGED <<store, clients, creationLocks, closed, refresh, backoff, checking>>

StartTrackerHealthRefresh(c) ==
    /\ stage[c] = "start" /\ Return(c, "client")
    /\ refresh' = [refresh EXCEPT ![inst[c]] = IF Alone(c) THEN "on" ELSE "stray"]
    /\ UNCHANGED <<store, clients, creationLocks, closed, backoff, checking>>

-----------------------------------------------------------------------------
(* The handlers: UpdateInstance, DeleteInstance, UpdateInstanceStatus.      *)

(* The store comes first; then RemoveClient, after an update, a deletion or *)
(* when the instance is disabled ...                                        *)
EditInstance(h, i, on) ==
    /\ stage[h] = "idle" /\ edits < MaxEdits
    /\ on => enabled[i]
    /\ edits' = edits + 1
    /\ version' = [version EXCEPT ![i] = @ + 1]
    /\ enabled' = [enabled EXCEPT ![i] = on]
    /\ inst' = [inst EXCEPT ![h] = i]
    /\ Goto(h, "rlock")
    /\ UNCHANGED <<pool, backoff, lock, read, answer, checking>>

(* ... or ResetFailureTracking, when it is enabled. *)
EnableInstance(h, i) ==
    /\ stage[h] = "idle" /\ edits < MaxEdits
    /\ ~enabled[i] /\ enabled' = [enabled EXCEPT ![i] = TRUE]
    /\ edits' = edits + 1
    /\ inst' = [inst EXCEPT ![h] = i]
    /\ Goto(h, "reset")
    /\ UNCHANGED version
    /\ UNCHANGED <<pool, backoff, lock, read, answer, checking>>

ResetOnEnable(h) ==
    /\ stage[h] = "reset" /\ Return(h, "none")
    /\ ResetFailureTracking(inst[h])
    /\ UNCHANGED <<store, clients, creationLocks, closed, refresh, checking>>

(* Mutant: a healthy client is spared. *)
RemoveFromPoolUnhealthy(h) ==
    /\ stage[h] = "remove" /\ Goto(h, "stop")
    /\ clients' = [clients EXCEPT ![inst[h]] = IF Healthy(inst[h]) THEN @ ELSE None]
    /\ UNCHANGED <<store, creationLocks, holder, closed, refresh, backoff, inst, lock,
                   read, answer, checking>>

RemoveFromPool(h) ==
    /\ stage[h] = "remove" /\ Goto(h, "stop")
    /\ clients' = [clients EXCEPT ![inst[h]] = None]
    /\ UNCHANGED <<store, creationLocks, holder, closed, refresh, backoff, inst, lock,
                   read, answer, checking>>

(* Mutant: the refresh loop is left running. *)
StopTrackerHealthRefreshLeaky(h) ==
    /\ stage[h] = "stop" /\ Goto(h, "forget")
    /\ holder' = [holder EXCEPT ![lock[h]] = None]
    /\ UNCHANGED <<store, clients, creationLocks, closed, refresh, backoff, inst, lock,
                   read, answer, checking>>

(* StopTrackerHealthRefresh, and Unlock. *)
StopTrackerHealthRefresh(h) ==
    /\ stage[h] = "stop" /\ Goto(h, "forget")
    /\ refresh' = [refresh EXCEPT ![inst[h]] = "off"]
    /\ holder' = [holder EXCEPT ![lock[h]] = None]
    /\ UNCHANGED <<store, clients, creationLocks, closed, backoff, inst, lock, read,
                   answer, checking>>

(* Whatever lock the map has by now is forgotten. *)
ForgetLock(h) ==
    /\ stage[h] = "forget" /\ Return(h, "none")
    /\ creationLocks' = [creationLocks EXCEPT ![inst[h]] = None]
    /\ UNCHANGED <<store, clients, closed, refresh, backoff, checking>>

-----------------------------------------------------------------------------
(* performHealthChecks, the sync callbacks, Close. *)

StartHealthCheck(k, i) ==
    /\ checking[k] = None /\ ~closed
    /\ clients[i] # None /\ ~InBackoff(i)
    /\ checking' = [checking EXCEPT ![k] = <<i, clients[i].id>>]
    /\ UNCHANGED <<store, pool, backoff, local>>

(* The result is tracked for the instance, whichever client it has by now. *)
FinishHealthCheck(k, ok) ==
    /\ checking[k] # None
    /\ LET i == checking[k][1] IN
         /\ SetHealth(i, checking[k][2], ok)
         /\ \/ ok /\ ResetFailureTracking(i)
            \/ ~ok /\ attempts[i] < MaxAttempts /\ TrackFailure(i) /\ UNCHANGED triedAt
    /\ checking' = [checking EXCEPT ![k] = None]
    /\ UNCHANGED <<store, creationLocks, holder, closed, refresh, local>>

(* The sync manager's OnUpdate and OnError. *)
SyncReports(i, ok) ==
    /\ clients[i] # None /\ SetHealth(i, clients[i].id, ok)
    /\ UNCHANGED <<store, creationLocks, holder, closed, refresh, backoff, local,
                   checking>>

(* Close does not take the creation locks. The refresh loops are stopped    *)
(* after the map is emptied; main ends the process then.                    *)
Close ==
    /\ ~closed /\ closed' = TRUE
    /\ clients' = [i \in Instances |-> None]
    /\ refresh' = [i \in Instances |-> IF clients[i] = None THEN refresh[i] ELSE "off"]
    /\ attempts' = [i \in Instances |-> 0] /\ nextRetry' = [i \in Instances |-> 0]
    /\ triedAt' = [i \in Instances |-> 0]
    /\ UNCHANGED <<store, creationLocks, holder, local, checking>>

-----------------------------------------------------------------------------
(* The steps other than the wait for the lock. *)
CreateStep(c) ==
    \/ Verify(c) \/ GetInstanceLock(c) \/ CheckBackoff(c)
    \/ DoubleCheck(c) \/ ReadInstance(c) \/ ConnectFails(c)
    \/ StoreClient(c) \/ ReadClosed(c) \/ StartTrackerHealthRefresh(c)

RemoveStep(h) ==
    \/ GetInstanceLock(h) \/ RemoveFromPool(h)
    \/ StopTrackerHealthRefresh(h) \/ ForgetLock(h) \/ ResetOnEnable(h)

Surroundings ==
    \/ \E h \in Handlers, i \in Instances, on \in BOOLEAN : EditInstance(h, i, on)
    \/ \E h \in Handlers, i \in Instances : EnableInstance(h, i)
    \/ \E k \in Checkers, i \in Instances : StartHealthCheck(k, i)
    \/ \E k \in Checkers, ok \in BOOLEAN : FinishHealthCheck(k, ok)
    \/ \E i \in Instances, ok \in BOOLEAN : SyncReports(i, ok)
    \/ Close

(* What the pool does of its own; GetClient is called by the services. *)
PoolStep ==
    /\ \/ \E c \in Callers : CreateStep(c)
       \/ \E h \in Handlers : RemoveStep(h)
       \/ \E p \in Procs : LockInstance(p)
       \/ Surroundings
    /\ UNCHANGED now

(* The pool alone, with callers that call when they like. *)
PoolNext ==
    \/ PoolStep
    \/ \E c \in Callers, i \in Instances : GetClient(c, i) /\ UNCHANGED now
    \/ Tick /\ UNCHANGED poolVars

Begin == ClockInit /\ PoolInit

PoolSpec == Begin /\ [][PoolNext]_<<now, poolVars>>

-----------------------------------------------------------------------------
(* Where a process works under the lock it has taken. *)
Locked == {"backoff", "again", "read", "connect", "closed", "start", "remove", "stop"}

(* Type invariant of the pool; a creation or removal under way has its lock *)
(* to itself.                                                               *)
PoolTypeOK ==
    /\ version \in [Instances -> 0 .. MaxEdits] /\ enabled \in [Instances -> BOOLEAN]
    /\ edits \in 0 .. MaxEdits
    /\ clients \in [Instances -> {None} \cup ClientRecords]
    /\ creationLocks \in [Instances -> Locks \cup {None}]
    /\ holder \in [Locks -> Procs \cup {None}]
    /\ attempts \in [Instances -> 0 .. MaxAttempts] /\ nextRetry \in [Instances -> Int]
    /\ triedAt \in [Instances -> 0 .. MaxTime]
    /\ closed \in BOOLEAN /\ refresh \in [Instances -> {"off", "on", "stray"}]
    /\ stage \in [Procs -> Stages] /\ inst \in [Procs -> Instances \cup {None}]
    /\ lock \in [Procs -> Locks \cup {None}] /\ read \in [Procs -> 0 .. MaxEdits]
    /\ answer \in [Procs -> {"none", "client", "error"}]
    /\ checking \in [Checkers \cup Callers -> {None} \cup (Instances \X Ids)]
    /\ \A p \in Procs : stage[p] \in Locked =>
         inst[p] # None /\ lock[p] # None /\ holder[lock[p]] = p

(* Somebody changed instance i and has yet to remove its client. *)
RemovalDue(i) ==
    \E h \in Handlers : inst[h] = i /\ stage[h] \in {"rlock", "rwait", "remove"}

(* A pooled client was made from the instance as it is now, and the         *)
(* instance is enabled, or the handler that changed it is about to remove   *)
(* the client; only a creation next to a forgotten lock, or after Close,    *)
(* can leave a client with old settings behind.                             *)
ClientCurrent ==
    \A i \in Instances :
       clients[i] # None =>
          \/ clients[i].stray \/ RemovalDue(i)
          \/ clients[i].ver = version[i] /\ enabled[i]

(* A refresh loop runs only for an instance with a client, or one whose     *)
(* removal is about to stop the loop; again but for forgotten locks.        *)
RefreshHasClient ==
    \A i \in Instances :
       refresh[i] = "on" =>
          clients[i] # None \/ \E h \in Handlers : inst[h] = i /\ stage[h] = "stop"

(* The doublings that fit into Width bits. *)
Fits(n) == \A b \in Backoffs : Power(n - 1) * b[1] < Power(Width - 1)

(* A failed connection is not followed by another one before the initial    *)
(* backoff has passed, however callers, health checks, removals and resets  *)
(* interleave, as long as the failures are few enough for the backoff not   *)
(* to overflow and no forgotten lock is in use.                             *)
ConnectionsSpaced ==
    [][\A c \in Callers :
         /\ stage[c] = "connect" /\ stage'[c] # "connect" /\ Alone(c)
         /\ triedAt[inst[c]] # 0 /\ attempts[inst[c]] > 0 /\ Fits(attempts[inst[c]])
         => \E b \in Backoffs : now >= triedAt[inst[c]] + Least(b[1], b[2])]_poolVars
=============================================================================
