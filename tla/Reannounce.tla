----------------------------- MODULE Reannounce -----------------------------
(***************************************************************************)
(* The reannounce service: internal/services/reannounce/service.go.        *)
(*                                                                         *)
(* A scan of an instance, every few seconds, and requests of the proxy     *)
(* enqueue torrents without a working tracker.  A torrent that is not      *)
(* being worked on, and not in its cooldown, gets a goroutine of its own   *)
(* (a worker) that fetches a client, looks at the trackers again,          *)
(* reannounces a number of times, and finishes the job.  The torrents'     *)
(* entries remember the last request and the last completion.              *)
(*                                                                         *)
(* Settings, filters and tracker states decide which torrents are due;     *)
(* here any torrent may be.  The window of a cooldown depends on the       *)
(* settings at the time: any member of Windows.                            *)
(***************************************************************************)
EXTENDS Clock, FiniteSets

CONSTANTS
    Torrents,
    InstanceOf,     \* [Torrents -> Instances]
    Workers,        \* enough goroutines for the jobs
    DebounceWindow, \* cfg.DebounceWindow
    Windows         \* it and the retry interval of quick retry

(* reannounceJob: when it was last requested and completed, isRunning. *)
JobRecords ==
    [requested : 0 .. MaxTime, completed : 0 .. MaxTime, running : BOOLEAN]

ASSUME ReannounceAssumption ==
    /\ InstanceOf \in [Torrents -> Instances]
    /\ DebounceWindow \in Windows /\ Windows \subseteq Nat \ {0}
    /\ None \notin Instances \cup Torrents \cup JobRecords

VARIABLES
    started,    \* baseCtx is set
    jobs,       \* s.j: torrent -> [requested, completed, running], or None
    on,         \* worker -> the torrent of its job, or None
    phase,      \* worker -> where its job is
    scanning,   \* the instance being scanned, or None
    found,      \* torrents the scan has still to enqueue; None: no client yet
    completedAt,    \* history: when the last job of a torrent finished, 0: never
    forgotten       \* history: torrents whose last job removed the entry

reannounceVars == <<started, jobs, on, phase, scanning, found, completedAt, forgotten>>

Phases == {"idle", "client", "asked", "announce"}

ReannounceInit ==
    /\ started = FALSE
    /\ jobs = [t \in Torrents |-> None]
    /\ on = [w \in Workers |-> None] /\ phase = [w \in Workers |-> "idle"]
    /\ scanning = None /\ found = None
    /\ completedAt = [t \in Torrents |-> 0] /\ forgotten = {}

(* Start: the base context comes first, then the first scan. *)
StartService ==
    /\ ~started /\ started' = TRUE
    /\ UNCHANGED <<jobs, on, phase, scanning, found, completedAt, forgotten>>

-----------------------------------------------------------------------------
(* enqueue *)

NoJob == [requested |-> 0, completed |-> 0, running |-> FALSE]
JobOf(t) == IF jobs[t] = None THEN NoJob ELSE jobs[t]

InCooldown(t, window) ==
    JobOf(t).completed # 0 /\ now - JobOf(t).completed < window

(* A new goroutine: they are all alike. *)
FreeWorker == CHOOSE w \in Workers : on[w] = None

(* Mutant: the running job is not looked at. *)
EnqueueAgain(t) ==
    \/ \E w \in Workers, window \in Windows :
         /\ ~InCooldown(t, window) /\ on[w] = None
         /\ jobs' = [jobs EXCEPT ![t] = [JobOf(t) EXCEPT !.requested = now, !.running = TRUE]]
         /\ on' = [on EXCEPT ![w] = t] /\ phase' = [phase EXCEPT ![w] = "client"]
    \/ \E window \in Windows :
         /\ InCooldown(t, window)
         /\ jobs' = [jobs EXCEPT ![t] = [JobOf(t) EXCEPT !.requested = now]]
         /\ UNCHANGED <<on, phase>>

(* Mutant: the cooldown is not looked at. *)
EnqueueAtOnce(t) ==
    \/ \E w \in Workers :
         /\ ~JobOf(t).running /\ on[w] = None
         /\ jobs' = [jobs EXCEPT ![t] = [JobOf(t) EXCEPT !.requested = now, !.running = TRUE]]
         /\ on' = [on EXCEPT ![w] = t] /\ phase' = [phase EXCEPT ![w] = "client"]
    \/ /\ JobOf(t).running
       /\ jobs' = [jobs EXCEPT ![t] = [JobOf(t) EXCEPT !.requested = now]]
       /\ UNCHANGED <<on, phase>>

(* enqueue: the request is noted in any case; a job is started unless one   *)
(* is running or the last one was completed within the window.              *)
Enqueue(t) ==
    \/ \E w \in Workers, window \in Windows :
         /\ ~JobOf(t).running /\ ~InCooldown(t, window)
         /\ on[w] = None /\ w = FreeWorker
         /\ jobs' = [jobs EXCEPT ![t] = [JobOf(t) EXCEPT !.requested = now, !.running = TRUE]]
         /\ on' = [on EXCEPT ![w] = t] /\ phase' = [phase EXCEPT ![w] = "client"]
    \/ \E window \in Windows :
         /\ JobOf(t).running \/ InCooldown(t, window)
         /\ jobs' = [jobs EXCEPT ![t] = [JobOf(t) EXCEPT !.requested = now]]
         /\ UNCHANGED <<on, phase>>

(* RequestReannounce, for one of its torrents. Before Start there is no     *)
(* base context and nothing happens.                                        *)
RequestReannounce(t) ==
    /\ started /\ Enqueue(t)
    /\ UNCHANGED <<started, scanning, found, completedAt, forgotten>>

-----------------------------------------------------------------------------
(* loop, scanInstances, scanInstance *)

(* The next instance: GetClient is called. *)
ScanInstance(i) ==
    /\ started /\ scanning = None
    /\ scanning' = i /\ found' = None
    /\ UNCHANGED <<started, jobs, on, phase, completedAt, forgotten>>

(* No client, or no answer to the request for the torrents. *)
ScanFails ==
    /\ scanning # None /\ found = None
    /\ scanning' = None
    /\ UNCHANGED <<started, jobs, on, phase, found, completedAt, forgotten>>

ScanFinds ==
    /\ scanning # None /\ found = None
    /\ \E T \in SUBSET {t \in Torrents : InstanceOf[t] = scanning} : found' = T
    /\ UNCHANGED <<started, jobs, on, phase, scanning, completedAt, forgotten>>

ScanEnqueues ==
    /\ found \notin {None, {}}
    /\ \E t \in found : Enqueue(t) /\ found' = found \ {t}
    /\ UNCHANGED <<started, scanning, completedAt, forgotten>>

ScanEnds ==
    /\ scanning # None /\ found = {}
    /\ scanning' = None /\ found' = None
    /\ UNCHANGED <<started, jobs, on, phase, completedAt, forgotten>>

-----------------------------------------------------------------------------
(* executeJob *)

Advance(w, from, to) ==
    /\ phase[w] = from /\ phase' = [phase EXCEPT ![w] = to]
    /\ UNCHANGED <<started, jobs, on, scanning, found, completedAt, forgotten>>

(* GetClient is called; it answers. *)
AskClient(w) == Advance(w, "client", "asked")
ClientReady(w) == Advance(w, "asked", "announce")

(* Mutant: the flag stays set. *)
FinishJobRunning(w) ==
    LET t == on[w]  job == jobs[t] IN
    /\ jobs' = [jobs EXCEPT ![t] = IF now - job.requested > DebounceWindow THEN None
                                   ELSE [job EXCEPT !.completed = now]]
    /\ on' = [on EXCEPT ![w] = None] /\ phase' = [phase EXCEPT ![w] = "idle"]
    /\ completedAt' = [completedAt EXCEPT ![t] = now]
    /\ forgotten' = IF jobs'[t] = None THEN forgotten \cup {t} ELSE forgotten \ {t}
    /\ UNCHANGED <<started, scanning, found>>

(* finishJob, deferred: an entry nobody asked for within the window is      *)
(* removed, with the time of its completion.                                *)
FinishJob(w) ==
    LET t == on[w]  job == jobs[t] IN
    /\ jobs' = [jobs EXCEPT ![t] = IF now - job.requested > DebounceWindow THEN None
                                   ELSE [job EXCEPT !.running = FALSE, !.completed = now]]
    /\ on' = [on EXCEPT ![w] = None] /\ phase' = [phase EXCEPT ![w] = "idle"]
    /\ completedAt' = [completedAt EXCEPT ![t] = now]
    /\ forgotten' = IF jobs'[t] = None THEN forgotten \cup {t} ELSE forgotten \ {t}
    /\ UNCHANGED <<started, scanning, found>>

ClientUnavailable(w) == phase[w] = "asked" /\ FinishJob(w)

(* The trackers cannot be loaded, or one of them works, or                  *)
(* ReannounceTorrentWithRetry has made its attempts, which takes its time.  *)
Reannounced(w) == phase[w] = "announce" /\ FinishJob(w)

-----------------------------------------------------------------------------
(* Type invariant of the service. *)
ReannounceTypeOK ==
    /\ started \in BOOLEAN
    /\ jobs \in [Torrents -> {None} \cup JobRecords]
    /\ on \in [Workers -> Torrents \cup {None}] /\ phase \in [Workers -> Phases]
    /\ \A w \in Workers : on[w] = None <=> phase[w] = "idle"
    /\ scanning \in Instances \cup {None}
    /\ found = None \/ found \subseteq Torrents
    /\ completedAt \in [Torrents -> 0 .. MaxTime] /\ forgotten \subseteq Torrents

JobsOn(t) == {w \in Workers : on[w] = t}

(* isRunning is exact: set as long as exactly one worker has the torrent.   *)
(* So an entry is never removed under a worker, and never stays running     *)
(* after it, which would keep the torrent from being reannounced for good.  *)
RunningExact ==
    \A t \in Torrents :
       Cardinality(JobsOn(t)) = IF JobOf(t).running THEN 1 ELSE 0

OneJob == INSTANCE SingleFlight
    WITH Keys <- Torrents, Jobs <- Workers, busy <- [t \in Torrents |-> JobsOn(t)]

(* The service implements SingleFlight: one job per torrent at a time.      *)
OneJobPerTorrent == OneJob!Spec

(* Two jobs for a torrent are a cooldown apart, the shorter one if quick    *)
(* retry may be on, but for jobs whose entry was removed because nobody had *)
(* asked for the torrent within DebounceWindow of their end.                *)
CooldownKept ==
    [][\A t \in Torrents :
         ~JobOf(t).running /\ JobsOn(t)' # {} =>
            \/ completedAt[t] = 0 \/ t \in forgotten
            \/ \E window \in Windows : now - completedAt[t] >= window]_reannounceVars
=============================================================================
