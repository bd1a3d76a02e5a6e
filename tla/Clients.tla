------------------------------ MODULE Clients -------------------------------
(***************************************************************************)
(* The reannounce service on top of the client pool: its scan and its jobs *)
(* are callers of GetClient, and go on with what the pool answers.         *)
(***************************************************************************)
EXTENDS ClientPool, Reannounce

CONSTANT Scanner    \* the goroutine of the loop

ASSUME ClientsAssumption ==
    Scanner \notin Workers /\ Callers = Workers \cup {Scanner}

vars == <<now, poolVars, reannounceVars>>

Init == ClockInit /\ PoolInit /\ ReannounceInit

(* Mutant: the answer stays and is taken again. *)
AnsweredKept(c, a) ==
    /\ stage[c] = "idle" /\ answer[c] = a
    /\ UNCHANGED <<now, poolVars>>

(* Caller c takes the pool's answer. *)
Answered(c, a) ==
    /\ stage[c] = "idle" /\ answer[c] = a
    /\ answer' = [answer EXCEPT ![c] = "none"]
    /\ UNCHANGED <<now, store, pool, backoff, stage, inst, lock, read, checking>>

JobAsks(w) ==
    AskClient(w) /\ GetClient(w, InstanceOf[on[w]]) /\ UNCHANGED now

JobGoesOn(w) ==
    \/ Answered(w, "client") /\ ClientReady(w)
    \/ Answered(w, "error") /\ ClientUnavailable(w)

ScanAsks(i) == enabled[i] /\ ScanInstance(i) /\ GetClient(Scanner, i) /\ UNCHANGED now

ScanGoesOn ==
    \/ Answered(Scanner, "client") /\ ScanFinds
    \/ \E a \in {"client", "error"} : Answered(Scanner, a) /\ ScanFails
    \/ (ScanEnqueues \/ ScanEnds) /\ UNCHANGED <<now, poolVars>>

ServiceStep ==
    \/ \E w \in Workers : JobAsks(w) \/ JobGoesOn(w)
    \/ \E i \in Instances : ScanAsks(i)
    \/ ScanGoesOn
    \/ /\ StartService \/ \E w \in Workers : Reannounced(w)
       /\ UNCHANGED <<now, poolVars>>
    \/ /\ \E t \in Torrents : RequestReannounce(t)
       /\ UNCHANGED <<now, poolVars>>

Next ==
    \/ PoolStep /\ UNCHANGED reannounceVars
    \/ ServiceStep
    \/ Tick /\ UNCHANGED <<poolVars, reannounceVars>>

Spec == Init /\ [][Next]_vars

(* Every goroutine that can go on does so; a Go mutex that is free again    *)
(* and again is given to each waiter in the end; connections and requests   *)
(* have timeouts.  Nobody is assumed to scan, to request or to edit.        *)
Fairness ==
    /\ \A c \in Callers : WF_vars(CreateStep(c) /\ UNCHANGED <<now, reannounceVars>>)
    /\ \A h \in Handlers : WF_vars(RemoveStep(h) /\ UNCHANGED <<now, reannounceVars>>)
    /\ \A p \in Procs : SF_vars(LockInstance(p) /\ UNCHANGED <<now, reannounceVars>>)
    /\ \A w \in Workers :
         WF_vars(JobAsks(w) \/ JobGoesOn(w) \/ (Reannounced(w) /\ UNCHANGED <<now, poolVars>>))

FairSpec == Spec /\ Fairness

-----------------------------------------------------------------------------
(* Type invariant of both parts; the pool works for a job, or has an answer *)
(* for it, exactly while the job waits for a client.                        *)
TypeOK ==
    /\ now \in 1 .. MaxTime /\ PoolTypeOK /\ ReannounceTypeOK
    /\ \A w \in Workers :
         stage[w] # "idle" \/ answer[w] # "none" <=> phase[w] = "asked"

(* Every job ends, whatever becomes of the instance, its client and the     *)
(* locks in the meantime: a torrent is not kept out of the service by a job *)
(* that waits for a client for ever.                                        *)
JobsFinish == \A t \in Torrents : JobsOn(t) # {} ~> JobsOn(t) = {}
=============================================================================
